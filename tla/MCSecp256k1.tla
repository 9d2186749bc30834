---------------------------- MODULE MCSecp256k1 ----------------------------
(***************************************************************************)
(* Two keys and two messages: enough for a signature of the wrong key and  *)
(* of the wrong message.  The memory is used up after three lost contexts. *)
(***************************************************************************)
EXTENDS Secp256k1

CONSTANTS k1, k2, m1, m2

MCKey == {k1, k2}
MCMessage == {m1, m2}
=============================================================================
