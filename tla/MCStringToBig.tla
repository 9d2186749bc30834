--------------------------- MODULE MCStringToBig ---------------------------
(***************************************************************************)
(* Small instances of StringToBig: bases 3 and 4, words of two hexadecimal *)
(* digits and a DTYPE_TMP of four, so that strings with several moves, with *)
(* a `times' that wraps to zero and with a number too long for a bignum    *)
(* all occur.                                                              *)
(***************************************************************************)
EXTENDS StringToBig

MCBases == {2, 3, 4}
MCFixnums == {-1, 0, 1, 200}
=============================================================================
