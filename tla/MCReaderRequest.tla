--------------------------- MODULE MCReaderRequest --------------------------
(***************************************************************************)
(* Two readers and two indexes, one of them the number of a source and the  *)
(* other that of nil, so that swapped and missing numbers meet.             *)
(***************************************************************************)
EXTENDS ReaderRequest

CONSTANTS r1, r2

MCSlot == {r1, r2}
MCIndex == {0, 1}
MCOffset == {3}
=============================================================================
