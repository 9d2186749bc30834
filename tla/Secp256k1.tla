------------------------------ MODULE Secp256k1 -----------------------------
(***************************************************************************)
(* pubkey, sign and verify of secp256k1.c, one call of the curve library at *)
(* a time.  Each makes a context on its stack, which the library gives      *)
(* memory to; only verify releases it, and only when nothing was raised in  *)
(* between.  The memory (external) has room for Capacity contexts.          *)
(***************************************************************************)
EXTENDS Curve

CONSTANTS Capacity,      \* contexts that fit the memory
          IntFillsSize   \* is an mrb_int as wide as a size_t?

ASSUME CapacityAssumption == Capacity \in Nat /\ IntFillsSize \in BOOLEAN

VARIABLES pc,            \* "idle", the next call of the library, or "aborted"
          call, ret,     \* the call of the contract, and its answer
          point, sig,    \* the locals pubkey and signature
          held,          \* contexts that were not released
          lost           \* history: calls that ended without releasing theirs

vars == <<pc, call, ret, point, sig, held, lost>>

-----------------------------------------------------------------------------
(* The library, as far as the binding relies on it.                        *)

\* Lengths of the encodings; a signature has at most 72 bytes.
Length(text) ==
  CASE text.what \in {"secret", "noscalar", "message"} -> 32
    [] text.what = "signature" -> 72
    [] text.what = "pubkey" /\ text.form = "compressed" -> 33
    [] text.what = "pubkey" /\ text.form = "uncompressed" -> 65
    [] OTHER -> 31

Modulus == 1000   \* stands for 2^32, above every length

\* Mutant: a buffer that a public key fits and a signature does not.
BufLenKey == 64

BufLen == 256

\* Mutant: the signature is given for granted.
VerifyParsed(s, msg, key) == s # Garbage /\ key # Garbage

EcdsaVerify(s, msg, key) == Holds(key, msg, s)

-----------------------------------------------------------------------------

Init == /\ pc = "idle"
        /\ call = NoCall /\ ret = NoAnswer
        /\ point = Garbage /\ sig = Garbage
        /\ held = 0 /\ lost = 0

\* A contract calls; the locals are what they happen to be, and unread.
Begin == /\ pc = "idle"
         /\ pc' = "lengths"
         /\ call' \in Calls
         /\ ret' = Pending
         /\ point' = Garbage /\ sig' = Garbage
         /\ UNCHANGED <<held, lost>>

\* mrb_get_args fills an mrb_int: of a wider size_t, pubkey and sign find
\* the upper half as it was.
Seen(text) == IF IntFillsSize \/ call.op = "verify" THEN {Length(text)}
              ELSE {Length(text), Length(text) + Modulus}

\* Mutant: sign trusts the length of its message.
ChecksKeyOnly(keyLen, msgLen) ==
  /\ call.op \in {"pubkey", "sign"} => keyLen = 32
  /\ call.op = "verify" => msgLen = 32

LengthsRight(keyLen, msgLen) ==
  /\ call.op \in {"pubkey", "sign"} => keyLen = 32
  /\ call.op \in {"sign", "verify"} => msgLen = 32

CheckLengths ==
  /\ pc = "lengths"
  /\ \E keyLen \in Seen(call.key), msgLen \in Seen(call.msg) :
       IF LengthsRight(keyLen, msgLen)
       THEN pc' = "context" /\ UNCHANGED ret
       ELSE pc' = "idle" /\ ret' = ArgumentError
  /\ UNCHANGED <<call, point, sig, held, lost>>

Initialize ==
  /\ pc = "context"
  /\ held < Capacity
  /\ held' = held + 1
  /\ pc' = CASE call.op = "pubkey" -> "create"
             [] call.op = "sign" -> "sign"
             [] OTHER -> "parse"
  /\ UNCHANGED <<call, ret, point, sig, lost>>

\* No memory: context_initialize answers 0, or calls custom_abort.
InitializeFails ==
  /\ pc = "context"
  /\ held = Capacity
  /\ \/ pc' = "idle" /\ ret' = ArgumentError
     \/ pc' = "aborted" /\ UNCHANGED ret
  /\ UNCHANGED <<call, point, sig, held, lost>>

\* mrb_raise leaves the function, and the context behind.
Raise == /\ pc' = "idle"
         /\ ret' = ArgumentError
         /\ lost' = lost + 1
         /\ UNCHANGED <<call, point, sig, held>>

\* secp256k1_ec_pubkey_create
Create == /\ pc = "create"
          /\ call.key.what = "secret"
          /\ point' = PubKeyText(call.key.key, None)
          /\ pc' = "serialize"
          /\ UNCHANGED <<call, ret, sig, held, lost>>

\* secp256k1_ecdsa_sign: the nonce is made from the key and the message.
Sign == /\ pc = "sign"
        /\ call.key.what = "secret"
        /\ sig' = SignatureText(call.key.key, call.msg.msg, "low")
        /\ pc' = "serialize"
        /\ UNCHANGED <<call, ret, point, held, lost>>

NotAScalar == /\ pc \in {"create", "sign"}
              /\ call.key.what # "secret"
              /\ Raise

Serialized == IF call.op = "pubkey" THEN PubKeyText(point.key, "compressed")
                                    ELSE sig

\* serialize and mrb_str_new; the context stays.
Serialize ==
  /\ pc = "serialize"
  /\ IF Length(Serialized) <= BufLen
     THEN /\ pc' = "idle"
          /\ ret' = String(Serialized)
          /\ lost' = lost + 1
          /\ UNCHANGED <<call, point, sig, held>>
     ELSE Raise

ParsePubKey ==
  /\ pc = "parse"
  /\ IF call.key.what = "pubkey"
     THEN /\ point' = Text("pubkey", call.key.key, None, None)
          /\ pc' = "parse_der"
          /\ UNCHANGED <<call, ret, sig, held, lost>>
     ELSE Raise

ParseSignature ==
  /\ pc = "parse_der"
  /\ IF call.sig.what = "signature"
     THEN /\ sig' = call.sig
          /\ pc' = "verify"
          /\ UNCHANGED <<call, ret, point, held, lost>>
     ELSE Raise

\* Mutant: nothing released.
VerifyOnly ==
  /\ pc = "verify"
  /\ ret' = Bool(EcdsaVerify(sig, call.msg, point))
  /\ pc' = "idle"
  /\ UNCHANGED <<call, point, sig, held, lost>>

\* Mutant: released once more where the answer is made.
VerifyReleasingTwice ==
  /\ pc = "verify"
  /\ ret' = Bool(EcdsaVerify(sig, call.msg, point))
  /\ held' = held - 2
  /\ pc' = "idle"
  /\ UNCHANGED <<call, point, sig, lost>>

\* verify, and context_deinitialize before the answer.
Verify ==
  /\ pc = "verify"
  /\ ret' = Bool(EcdsaVerify(sig, call.msg, point))
  /\ held' = held - 1
  /\ pc' = "idle"
  /\ UNCHANGED <<call, point, sig, lost>>

\* A function of C runs to its end ...
Step == \/ CheckLengths \/ Initialize \/ InitializeFails
        \/ Create \/ Sign \/ NotAScalar \/ Serialize
        \/ ParsePubKey \/ ParseSignature \/ Verify

\* ... and the contract calls when it likes.
Next == Begin \/ Step

Spec == Init /\ [][Next]_vars /\ WF_vars(Step)

-----------------------------------------------------------------------------
(* Properties.                                                             *)

Inside == {"create", "sign", "serialize", "parse", "parse_der", "verify"}

\* The type invariant: never more contexts than fit, never one released twice.
TypeOK == /\ pc \in {"idle", "lengths", "context", "aborted"} \cup Inside
          /\ call \in Calls \cup {NoCall}
          /\ (ret = Pending) = (pc # "idle")
          /\ held \in 0 .. Capacity
          /\ lost \in 0 .. Capacity

\* The contexts that are not released are those of the calls that ended in
\* pubkey, sign or an error behind context_initialize, and at most the one of
\* the call that runs: no other path leaks, and none releases twice.
HeldExact == held = lost + (IF pc \in Inside THEN 1 ELSE 0)

\* A program is aborted only after Capacity calls that lost their context: a
\* contract that only verifies well-formed signatures never is.
AbortNeedsLeaks == pc = "aborted" => lost = Capacity

Scheme == INSTANCE SignatureScheme
            WITH room <- Capacity - lost,
                 alive <- pc # "aborted",
                 Refusing <- ~ IntFillsSize

\* An answer other than an error is the promised one, whatever the memory and
\* the width of an mrb_int: no length, key or signature slips through.
NeverWrong == pc = "idle" /\ ret.kind \in {"string", "bool"} =>
                ret = Scheme!Promised(call)

\* What the lengths and the library have told of the arguments so far.
ArgumentsKnown ==
  /\ pc # "idle" => call \in Calls
  /\ pc \in {"context"} \cup Inside =>
       /\ call.op \in {"pubkey", "sign"} => call.key.what \in {"secret", "noscalar"}
       /\ call.op \in {"sign", "verify"} => call.msg.what = "message"
  /\ pc = "create" => call.op = "pubkey"
  /\ pc = "sign" => call.op = "sign"
  /\ pc = "serialize" => call.op \in {"pubkey", "sign"} /\ call.key.what = "secret"
  /\ pc \in {"parse", "parse_der", "verify"} => call.op = "verify"
  /\ pc \in {"parse_der", "verify"} => call.key.what = "pubkey"
  /\ pc = "verify" => call.sig.what = "signature"

\* What the locals hold where they are read.
LocalsExact ==
  /\ pc = "serialize" /\ call.op = "pubkey" => point = PubKeyText(call.key.key, None)
  /\ pc = "serialize" /\ call.op = "sign" =>
       sig = SignatureText(call.key.key, call.msg.msg, "low")
  /\ pc \in {"parse_der", "verify"} => point = PubKeyText(call.key.key, None)
  /\ pc = "verify" => sig = call.sig

\* The inductive invariant behind NeverWrong and SchemeSpec.
IInv == TypeOK /\ HeldExact /\ AbortNeedsLeaks /\ NeverWrong
        /\ ArgumentsKnown /\ LocalsExact

\* Every call is answered as promised, or is refused or ends the program for
\* want of memory - and some such end it has.
SchemeSpec == Scheme!Spec
=============================================================================
