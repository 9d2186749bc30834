------------------------------- MODULE Curve -------------------------------
(***************************************************************************)
(* The byte strings that a contract hands to the module Secp256k1, its      *)
(* calls and their answers.  The curve (external) is opaque: a string is    *)
(* known by what it encodes, and a signature verifies for the key and the   *)
(* message that it was made from.                                           *)
(***************************************************************************)
EXTENDS Integers

CONSTANTS Key,      \* secret keys, each with the public key that it has
          Message   \* the 32-byte strings that are signed

Text(what, key, msg, form) ==
  [what |-> what, key |-> key, msg |-> msg, form |-> form]

None == "none"

SecretText(k) == Text("secret", k, None, None)
PubKeyText(k, form) == Text("pubkey", k, None, form)
SignatureText(k, m, form) == Text("signature", k, m, form)
MessageText(m) == Text("message", None, m, None)

\* 32 bytes that are no scalar of the curve, and a string that is nothing.
NoScalar == Text("noscalar", None, None, None)
Garbage == Text("garbage", None, None, None)

SecretTexts == {SecretText(k) : k \in Key} \cup {NoScalar, Garbage}
MessageTexts == {MessageText(m) : m \in Message} \cup {Garbage}
PubKeyTexts == {PubKeyText(k, form) : k \in Key,
                                      form \in {"compressed", "uncompressed"}}
               \cup {Garbage}
\* An s in the upper half of the group is parsed, and never verifies.
SignatureTexts == {SignatureText(k, m, form) : k \in Key, m \in Message,
                                               form \in {"low", "high"}}
                  \cup {Garbage}

\* Does the signature sig hold for the key and the message?
Holds(key, msg, sig) == sig.key = key.key /\ sig.msg = msg.msg /\ sig.form = "low"

-----------------------------------------------------------------------------

Call(op, key, msg, sig) == [op |-> op, key |-> key, msg |-> msg, sig |-> sig]

NoCall == Call("none", Garbage, Garbage, Garbage)

Calls == {Call("pubkey", k, Garbage, Garbage) : k \in SecretTexts}
         \cup {Call("sign", k, m, Garbage) : k \in SecretTexts, m \in MessageTexts}
         \cup {Call("verify", k, m, s) : k \in PubKeyTexts, m \in MessageTexts,
                                         s \in SignatureTexts}

Answer(kind, text, holds) == [kind |-> kind, text |-> text, holds |-> holds]

NoAnswer == Answer("none", Garbage, FALSE)
Pending == Answer("pending", Garbage, FALSE)
ArgumentError == Answer("ArgumentError", Garbage, FALSE)
String(text) == Answer("string", text, FALSE)
Bool(b) == Answer("bool", Garbage, b)
=============================================================================
