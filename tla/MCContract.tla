----------------------------- MODULE MCContract -----------------------------
(***************************************************************************)
(* Three calls with memory for two contexts, so that the third call may     *)
(* abort; at most two arguments after the script, one of them with a NUL.   *)
(***************************************************************************)
EXTENDS Contract

CONSTANTS k1, m1, m2, a, b

MCKey == {k1}
MCMessage == {m1, m2}
MCArg == {[text |-> a, rest |-> FALSE], [text |-> b, rest |-> TRUE]}
=============================================================================
