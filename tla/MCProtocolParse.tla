-------------------------- MODULE MCProtocolParse --------------------------
(* Hashes of three bytes, numbers of eight bits.  The scalars are all 0, or *)
(* all different, the later ones past the largest mrb_int.                  *)
EXTENDS ProtocolParse

MCScales == {0, 20}
MCLens == {NoSeq, HashLen - 1, HashLen}
=============================================================================
