-------------------------- MODULE SignatureScheme --------------------------
(***************************************************************************)
(* What the module Secp256k1 promises to a contract: a call is answered, by *)
(* a function of its arguments alone.  Malformed arguments are an           *)
(* ArgumentError; well-formed ones are one only for want of memory, of      *)
(* which a call may take a part for good - but not a verify that answers.   *)
(***************************************************************************)
EXTENDS Curve

CONSTANTS Capacity,   \* the parts that the memory has
          Refusing    \* may pubkey and sign refuse lengths that are right?

VARIABLES call,       \* the call that a contract made last
          ret,        \* its answer, or Pending
          room,       \* the parts of the memory that are left
          alive       \* FALSE once the program was aborted

vars == <<call, ret, room, alive>>

WellFormed(c) ==
  CASE c.op = "pubkey" -> c.key.what = "secret"
    [] c.op = "sign"   -> c.key.what = "secret" /\ c.msg.what = "message"
    [] c.op = "verify" -> /\ c.key.what = "pubkey"
                          /\ c.msg.what = "message"
                          /\ c.sig.what = "signature"

Promised(c) ==
  CASE ~ WellFormed(c) -> ArgumentError
    [] WellFormed(c) /\ c.op = "pubkey" -> String(PubKeyText(c.key.key, "compressed"))
    [] WellFormed(c) /\ c.op = "sign" ->
         String(SignatureText(c.key.key, c.msg.msg, "low"))
    [] WellFormed(c) /\ c.op = "verify" -> Bool(Holds(c.key, c.msg, c.sig))

MayTake(c) == ~ (c.op = "verify" /\ WellFormed(c))

-----------------------------------------------------------------------------

Init == /\ call = NoCall
        /\ ret = NoAnswer
        /\ room = Capacity
        /\ alive = TRUE

Invoke == /\ alive
          /\ ret # Pending
          /\ call' \in Calls
          /\ ret' = Pending
          /\ UNCHANGED <<room, alive>>

Respond == /\ alive
           /\ ret = Pending
           /\ ret' = Promised(call)
           /\ \/ room' = room
              \/ MayTake(call) /\ room > 0 /\ room' = room - 1
           /\ UNCHANGED <<call, alive>>

Refuse == /\ alive
          /\ ret = Pending
          /\ room = 0 \/ (Refusing /\ call.op \in {"pubkey", "sign"})
          /\ ret' = ArgumentError
          /\ UNCHANGED <<call, room, alive>>

Abort == /\ alive
         /\ ret = Pending
         /\ room = 0
         /\ alive' = FALSE
         /\ UNCHANGED <<call, ret, room>>

Next == Invoke \/ Respond \/ Refuse \/ Abort

\* A call that was made is answered, or ends the program.
Spec == Init /\ [][Next]_vars /\ WF_vars(Respond \/ Refuse \/ Abort)
=============================================================================
