----------------------------- MODULE MCBlake2b -----------------------------
(***************************************************************************)
(* Small instances of Blake2b: blocks of two bytes and a counter word that *)
(* wraps within the longest message, so that the carry, a message of       *)
(* exactly some blocks and updates longer than two blocks all happen.      *)
(***************************************************************************)
EXTENDS Blake2b

MCByte == {0, 1}

\* One digest length is good, 0, a negative and a too long one are rejected.
MCOutLens == {-1, 0, 2, 3}
MCGoodOutLens == {1, 2}

\* The upper half of a size_t is clear, or holds one; where an mrb_int fills
\* the size_t there is none.
MCUpperHalf == {0, 1}
MCClear == {0}
=============================================================================
