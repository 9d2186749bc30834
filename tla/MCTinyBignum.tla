---------------------------- MODULE MCTinyBignum ----------------------------
(***************************************************************************)
(* Bignums of two bits, ints of three and counts of an mrb_int of four, so *)
(* that sums wrap, shifts empty the number and counts turn negative; three *)
(* objects and three structs, so that a struct is lost and both sorts of   *)
(* memory run out.                                                         *)
(***************************************************************************)
EXTENDS TinyBignum, Bitwise

MCCounts == {-1, 1, 2, 5, 9}

MCLibrary(op, a, b) ==
  CASE op = "/"  -> IF b = 0 THEN 0 ELSE a \div b
    [] op = "%"  -> IF b = 0 THEN 0 ELSE a % b
    [] op = "&"  -> a & b
    [] op = "|"  -> a | b
    [] op = "^"  -> a ^^ b
    [] op = "**" -> IF b = 0 THEN 1 ELSE (a ^ b) % BigMod
    [] op = ">>" -> a \div 2 ^ b
    [] op = "isqrt" -> CHOOSE r \in Values : r * r <= a /\ a < (r + 1) * (r + 1)
=============================================================================
