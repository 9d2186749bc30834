---------------------------- MODULE MCCkbReader ----------------------------
(***************************************************************************)
(* Small instances of CkbReader: size_t of four bits, items of up to three *)
(* bytes, hashes of two, and arguments inside, at and past both ends.      *)
(***************************************************************************)
EXTENDS CkbReader

MCOffsets == {-2, -1, 0, 1, 3, 4}
MCLens == {-1, 0, 1, 2, 3, 5}
=============================================================================
