-------------------------- MODULE Secp256k1Proofs --------------------------
(***************************************************************************)
(* Proofs about Secp256k1 for every set of keys and messages, every memory  *)
(* and either width of an mrb_int: what the binding answers is what the     *)
(* scheme promises, and a program is aborted only for contexts it lost.     *)
(***************************************************************************)
EXTENDS Secp256k1, TLAPS

\* What can be handed over in a call.
LEMMA CallFacts ==
  ASSUME NEW c \in Calls
  PROVE  /\ c.op \in {"pubkey", "sign", "verify"}
         /\ c.op \in {"pubkey", "sign"} => c.key \in SecretTexts
         /\ c.op \in {"sign", "verify"} => c.msg \in MessageTexts
         /\ c.op = "verify" => c.key \in PubKeyTexts /\ c.sig \in SignatureTexts
  BY DEF Calls, Call

\* A secret key has 32 bytes or is garbage, ...
LEMMA SecretLength ==
  ASSUME NEW t \in SecretTexts
  PROVE  /\ Length(t) \in {31, 32}
         /\ Length(t) = 32 <=> t.what \in {"secret", "noscalar"}
  BY DEF SecretTexts, SecretText, NoScalar, Garbage, Text, Length

\* ... and a message too.
LEMMA MessageLength ==
  ASSUME NEW t \in MessageTexts
  PROVE  /\ Length(t) \in {31, 32}
         /\ Length(t) = 32 <=> t.what = "message"
  BY DEF MessageTexts, MessageText, Garbage, Text, Length

\* A public key that is one is known by its key.
LEMMA PubKeyShape ==
  ASSUME NEW t \in PubKeyTexts
  PROVE  t.what \in {"pubkey", "garbage"}
  BY DEF PubKeyTexts, PubKeyText, Garbage, Text

\* Only the right length passes for one, whatever else a size_t holds.
LEMMA SeenLength ==
  ASSUME NEW t, Length(t) \in {31, 32}, 32 \in Seen(t)
  PROVE  Length(t) = 32
  BY DEF Seen, Modulus

\* The answers are told apart by their kinds.
LEMMA AnswerKinds ==
  /\ NoAnswer.kind = "none" /\ Pending.kind = "pending"
  /\ ArgumentError.kind = "ArgumentError"
  /\ \A t : String(t).kind = "string"
  /\ \A b : Bool(b).kind = "bool"
  BY DEF NoAnswer, Pending, ArgumentError, String, Bool, Answer

-----------------------------------------------------------------------------
(* The invariant, action by action.                                        *)

\* Before the first call.
LEMMA InitIInv == Init => IInv
  <1> SUFFICES ASSUME Init PROVE IInv OBVIOUS
  <1>1. NoAnswer # Pending BY AnswerKinds
  <1>2. TypeOK BY <1>1, CapacityAssumption DEF Init, TypeOK
  <1>3. NeverWrong BY AnswerKinds DEF Init, NeverWrong
  <1> QED BY <1>2, <1>3
          DEF Init, IInv, HeldExact, AbortNeedsLeaks, ArgumentsKnown, LocalsExact, Inside

\* A call begins.
LEMMA BeginIInv == IInv /\ Begin => IInv'
  <1> SUFFICES ASSUME IInv, Begin PROVE IInv' OBVIOUS
  <1>1. TypeOK' BY DEF IInv, TypeOK, Begin
  <1> QED BY <1>1 DEF Begin, IInv, HeldExact, AbortNeedsLeaks, NeverWrong,
                      ArgumentsKnown, LocalsExact, Inside

\* The lengths are checked.
LEMMA CheckLengthsIInv == IInv /\ CheckLengths => IInv'
  <1> SUFFICES ASSUME IInv, CheckLengths PROVE IInv' OBVIOUS
  <1>1. call \in Calls BY DEF IInv, ArgumentsKnown, CheckLengths
  <1>2. PICK keyLen \in Seen(call.key), msgLen \in Seen(call.msg) :
          IF LengthsRight(keyLen, msgLen)
          THEN pc' = "context" /\ UNCHANGED ret
          ELSE pc' = "idle" /\ ret' = ArgumentError
    BY DEF CheckLengths
  <1>3. CASE LengthsRight(keyLen, msgLen)
    <2>1. call.op \in {"pubkey", "sign"} => call.key.what \in {"secret", "noscalar"}
      BY <1>1, <1>2, <1>3, CallFacts, SecretLength, SeenLength DEF LengthsRight
    <2>2. call.op \in {"sign", "verify"} => call.msg.what = "message"
      BY <1>1, <1>2, <1>3, CallFacts, MessageLength, SeenLength DEF LengthsRight
    <2> QED
      BY <1>1, <1>2, <1>3, <2>1, <2>2
         DEF CheckLengths, IInv, TypeOK, HeldExact, AbortNeedsLeaks, NeverWrong,
             ArgumentsKnown, LocalsExact, Inside
  <1>4. CASE ~ LengthsRight(keyLen, msgLen)
    BY <1>1, <1>2, <1>4, AnswerKinds
       DEF CheckLengths, IInv, TypeOK, HeldExact, AbortNeedsLeaks, NeverWrong,
           ArgumentsKnown, LocalsExact, Inside
  <1> QED BY <1>3, <1>4

\* A context is made, or there is no room for it.
LEMMA ContextIInv == IInv /\ (Initialize \/ InitializeFails) => IInv'
  <1> SUFFICES ASSUME IInv, Initialize \/ InitializeFails PROVE IInv' OBVIOUS
  <1>1. call \in Calls /\ call.op \in {"pubkey", "sign", "verify"}
    BY CallFacts DEF IInv, ArgumentsKnown, Initialize, InitializeFails
  <1>2. CASE Initialize
    BY <1>1, <1>2, CapacityAssumption
       DEF Initialize, IInv, TypeOK, HeldExact, AbortNeedsLeaks, NeverWrong,
           ArgumentsKnown, LocalsExact, Inside
  <1>3. CASE InitializeFails
    BY <1>1, <1>3, CapacityAssumption, AnswerKinds
       DEF InitializeFails, IInv, TypeOK, HeldExact, AbortNeedsLeaks, NeverWrong,
           ArgumentsKnown, LocalsExact, Inside
  <1> QED BY <1>2, <1>3

\* An error behind context_initialize.
LEMMA RaiseIInv == IInv /\ pc \in Inside /\ Raise => IInv'
  BY CapacityAssumption, AnswerKinds
     DEF Raise, IInv, TypeOK, HeldExact, AbortNeedsLeaks, NeverWrong,
         ArgumentsKnown, LocalsExact, Inside

\* A scalar is used, or refused.
LEMMA ScalarIInv == IInv /\ (Create \/ Sign \/ NotAScalar) => IInv'
  <1> SUFFICES ASSUME IInv, Create \/ Sign \/ NotAScalar PROVE IInv' OBVIOUS
  <1>1. CASE Create
    BY <1>1 DEF Create, IInv, TypeOK, HeldExact, AbortNeedsLeaks, NeverWrong,
                ArgumentsKnown, LocalsExact, Inside
  <1>2. CASE Sign
    BY <1>2 DEF Sign, IInv, TypeOK, HeldExact, AbortNeedsLeaks, NeverWrong,
                ArgumentsKnown, LocalsExact, Inside
  <1>3. CASE NotAScalar BY <1>3, RaiseIInv DEF NotAScalar, Inside
  <1> QED BY <1>1, <1>2, <1>3

\* What pubkey and sign answer is what is promised.
LEMMA SerializedPromised ==
  ASSUME IInv, pc = "serialize"
  PROVE  String(Serialized) = Scheme!Promised(call)
  <1>1. /\ call.op \in {"pubkey", "sign"} /\ call.key.what = "secret"
        /\ call.op = "sign" => call.msg.what = "message"
    BY DEF IInv, ArgumentsKnown, Inside
  <1>2. CASE call.op = "pubkey"
    <2>1. point.key = call.key.key
      BY <1>2 DEF IInv, LocalsExact, PubKeyText, Text
    <2> QED BY <1>1, <1>2, <2>1
            DEF Serialized, Scheme!Promised, Scheme!WellFormed, String, Answer,
                Garbage, PubKeyText, Text, Scheme!String, Scheme!Answer,
                Scheme!Garbage, Scheme!PubKeyText, Scheme!Text, None, Scheme!None
  <1>3. CASE call.op = "sign"
    <2>1. sig = SignatureText(call.key.key, call.msg.msg, "low")
      BY <1>3 DEF IInv, LocalsExact
    <2> QED BY <1>1, <1>3, <2>1
            DEF Serialized, Scheme!Promised, Scheme!WellFormed, String, Answer,
                Garbage, SignatureText, Text, Scheme!String, Scheme!Answer,
                Scheme!Garbage, Scheme!SignatureText, Scheme!Text, None, Scheme!None
  <1> QED BY <1>1, <1>2, <1>3

\* Every encoding that is made fits the buffer.
LEMMA SerializeIInv == IInv /\ Serialize => IInv'
  <1> SUFFICES ASSUME IInv, Serialize PROVE IInv' OBVIOUS
  <1>1. CASE Length(Serialized) <= BufLen
    <2>1. /\ pc = "serialize" /\ pc' = "idle" /\ ret' = String(Serialized)
          /\ lost' = lost + 1 /\ UNCHANGED <<call, point, sig, held>>
      BY <1>1 DEF Serialize
    <2>2. ret' = Scheme!Promised(call)' BY <2>1, SerializedPromised
    <2>3. ret' # Pending BY <2>1, AnswerKinds
    <2>4. NeverWrong' BY <2>2 DEF NeverWrong
    <2> QED BY <2>1, <2>3, <2>4, CapacityAssumption
            DEF IInv, TypeOK, HeldExact, AbortNeedsLeaks, ArgumentsKnown,
                LocalsExact, Inside
  <1>2. CASE ~ (Length(Serialized) <= BufLen)
    BY <1>2, RaiseIInv DEF Serialize, Inside
  <1> QED BY <1>1, <1>2

\* The arguments of verify are parsed.
LEMMA ParseIInv == IInv /\ (ParsePubKey \/ ParseSignature) => IInv'
  <1> SUFFICES ASSUME IInv, ParsePubKey \/ ParseSignature PROVE IInv' OBVIOUS
  <1>1. CASE ParsePubKey /\ call.key.what = "pubkey"
    BY <1>1 DEF ParsePubKey, IInv, TypeOK, HeldExact, AbortNeedsLeaks, NeverWrong,
                ArgumentsKnown, LocalsExact, Inside, PubKeyText
  <1>2. CASE ParsePubKey /\ call.key.what # "pubkey"
    BY <1>2, RaiseIInv DEF ParsePubKey, Inside
  <1>3. CASE ParseSignature /\ call.sig.what = "signature"
    BY <1>3 DEF ParseSignature, IInv, TypeOK, HeldExact, AbortNeedsLeaks, NeverWrong,
                ArgumentsKnown, LocalsExact, Inside
  <1>4. CASE ParseSignature /\ call.sig.what # "signature"
    BY <1>4, RaiseIInv DEF ParseSignature, Inside
  <1> QED BY <1>1, <1>2, <1>3, <1>4

\* What verify answers is what is promised.
LEMMA VerifyPromised ==
  ASSUME IInv, pc = "verify"
  PROVE  Bool(EcdsaVerify(sig, call.msg, point)) = Scheme!Promised(call)
  <1>1. /\ call.op = "verify" /\ call.key.what = "pubkey"
        /\ call.msg.what = "message" /\ call.sig.what = "signature"
        /\ sig = call.sig /\ point = PubKeyText(call.key.key, None)
    BY DEF IInv, ArgumentsKnown, LocalsExact, Inside
  <1>2. point.key = call.key.key BY <1>1 DEF PubKeyText, Text
  <1>3. EcdsaVerify(sig, call.msg, point)
          = Scheme!Holds(call.key, call.msg, call.sig)
    BY <1>1, <1>2 DEF EcdsaVerify, Holds, Scheme!Holds
  <1> QED BY <1>1, <1>3
          DEF Scheme!Promised, Scheme!WellFormed, Bool, Answer, Garbage, Text, None,
              Scheme!Bool, Scheme!Answer, Scheme!Garbage, Scheme!Text, Scheme!None

\* verify answers and releases its context.
LEMMA VerifyIInv == IInv /\ Verify => IInv'
  <1> SUFFICES ASSUME IInv, Verify PROVE IInv' OBVIOUS
  <1>1. ret' = Scheme!Promised(call)' BY VerifyPromised DEF Verify
  <1>2. ret' # Pending BY AnswerKinds DEF Verify
  <1>3. NeverWrong' BY <1>1 DEF NeverWrong
  <1> QED BY <1>2, <1>3, CapacityAssumption
          DEF Verify, IInv, TypeOK, HeldExact, AbortNeedsLeaks, ArgumentsKnown,
              LocalsExact, Inside

\* Every step keeps the invariant.
LEMMA NextIInv == IInv /\ [Next]_vars => IInv'
  <1> SUFFICES ASSUME IInv, [Next]_vars PROVE IInv' OBVIOUS
  <1>1. CASE Begin BY <1>1, BeginIInv
  <1>2. CASE CheckLengths BY <1>2, CheckLengthsIInv
  <1>3. CASE Initialize \/ InitializeFails BY <1>3, ContextIInv
  <1>4. CASE Create \/ Sign \/ NotAScalar BY <1>4, ScalarIInv
  <1>5. CASE Serialize BY <1>5, SerializeIInv
  <1>6. CASE ParsePubKey \/ ParseSignature BY <1>6, ParseIInv
  <1>7. CASE Verify BY <1>7, VerifyIInv
  <1>8. CASE UNCHANGED vars
    BY <1>8 DEF vars, IInv, TypeOK, HeldExact, AbortNeedsLeaks, NeverWrong,
                ArgumentsKnown, LocalsExact
  <1> QED BY <1>1, <1>2, <1>3, <1>4, <1>5, <1>6, <1>7, <1>8 DEF Next, Step

-----------------------------------------------------------------------------
(* The theorems.                                                           *)

\* The inductive invariant of the three functions of secp256k1.c.
THEOREM Invariant == Spec => []IInv
  BY InitIInv, NextIInv, PTL DEF Spec

\* Never more contexts than fit the memory, and none released twice.
THEOREM TypeCorrect == Spec => []TypeOK
  <1>1. IInv => TypeOK BY DEF IInv
  <1> QED BY <1>1, Invariant, PTL

\* The contexts that stay are those of the calls that ended in pubkey, sign or
\* an error (secp256k1.c:91, 119), and of the call that runs.
THEOREM LeaksCounted == Spec => []HeldExact
  <1>1. IInv => HeldExact BY DEF IInv
  <1> QED BY <1>1, Invariant, PTL

\* custom_abort is called only when every context that fits was lost.
THEOREM AbortOnlyForLeaks == Spec => []AbortNeedsLeaks
  <1>1. IInv => AbortNeedsLeaks BY DEF IInv
  <1> QED BY <1>1, Invariant, PTL

\* Whatever the memory and whatever half of a length was not written
\* (secp256k1.c:59), an answer that is no error is the promised one.
THEOREM AnswersPromised == Spec => []NeverWrong
  <1>1. IInv => NeverWrong BY DEF IInv
  <1> QED BY <1>1, Invariant, PTL

-----------------------------------------------------------------------------
(* The binding implements SignatureScheme, as far as single steps go.      *)

\* The calls and answers of the scheme are those of the binding.
LEMMA SameTexts == /\ Scheme!Calls = Calls /\ Scheme!NoCall = NoCall
                   /\ Scheme!NoAnswer = NoAnswer /\ Scheme!Pending = Pending
                   /\ Scheme!ArgumentError = ArgumentError
  BY DEF Scheme!Calls, Calls, Scheme!NoCall, NoCall, Scheme!Call, Call,
         Scheme!NoAnswer, NoAnswer, Scheme!Pending, Pending,
         Scheme!ArgumentError, ArgumentError, Scheme!Answer, Answer,
         Scheme!SecretTexts, SecretTexts, Scheme!MessageTexts, MessageTexts,
         Scheme!PubKeyTexts, PubKeyTexts, Scheme!SignatureTexts, SignatureTexts,
         Scheme!SecretText, SecretText, Scheme!MessageText, MessageText,
         Scheme!PubKeyText, PubKeyText, Scheme!SignatureText, SignatureText,
         Scheme!NoScalar, NoScalar, Scheme!Garbage, Garbage, Scheme!Text, Text,
         Scheme!None, None

\* An argument that is no secret, message, key or signature is refused.
LEMMA MalformedPromised ==
  ASSUME NEW c, ~ Scheme!WellFormed(c)
  PROVE  Scheme!Promised(c) = ArgumentError /\ Scheme!MayTake(c)
  <1> HIDE DEF Scheme!WellFormed
  <1> QED BY SameTexts DEF Scheme!Promised, Scheme!MayTake

\* What a call of the library says of the arguments.
LEMMA WellFormedCases ==
  ASSUME NEW c \in Calls
  PROVE  /\ c.op = "pubkey" => Scheme!WellFormed(c) = (c.key.what = "secret")
         /\ c.op = "sign" => Scheme!WellFormed(c) =
              (c.key.what = "secret" /\ c.msg.what = "message")
         /\ c.op = "verify" => Scheme!WellFormed(c) =
              (/\ c.key.what = "pubkey" /\ c.msg.what = "message"
               /\ c.sig.what = "signature")
  BY DEF Scheme!WellFormed

\* An error that loses a context is the answer to a malformed call.
LEMMA RaiseRefines ==
  ASSUME IInv, pc \in Inside, ~ Scheme!WellFormed(call), Raise
  PROVE  Scheme!Next
  <1>1. ret = Scheme!Pending /\ pc # "aborted" /\ pc' # "aborted"
    BY SameTexts DEF IInv, TypeOK, Inside, Raise
  <1>2. ret' = Scheme!Promised(call) /\ Scheme!MayTake(call)
    BY MalformedPromised DEF Raise
  <1>3. Capacity - lost > 0 /\ Capacity - lost' = Capacity - lost - 1
    BY CapacityAssumption DEF IInv, TypeOK, HeldExact, Raise
  <1>4. Scheme!Respond
    BY <1>1, <1>2, <1>3 DEF Scheme!Respond, Raise
  <1> QED BY <1>4 DEF Scheme!Next

\* Right lengths are refused only where a size_t is wider than an mrb_int.
LEMMA RightLengthsSeen ==
  ASSUME NEW keyLen \in Seen(call.key), NEW msgLen \in Seen(call.msg),
         call \in Calls, Scheme!WellFormed(call), ~ LengthsRight(keyLen, msgLen)
  PROVE  ~ IntFillsSize /\ call.op \in {"pubkey", "sign"}
  <1>1. call.op \in {"pubkey", "sign", "verify"} BY CallFacts
  <1>2. CASE call.op = "verify"
    <2>1. call.msg.what = "message" BY <1>2, WellFormedCases
    <2>2. Length(call.msg) = 32 BY <1>2, <2>1, CallFacts, MessageLength
    <2>3. msgLen = 32 BY <1>2, <2>2 DEF Seen
    <2> QED BY <1>2, <2>3 DEF LengthsRight
  <1>3. CASE call.op \in {"pubkey", "sign"} /\ IntFillsSize
    <2>1. /\ call.key.what = "secret"
          /\ call.op = "sign" => call.msg.what = "message"
      BY <1>3, WellFormedCases
    <2>2. Length(call.key) = 32 BY <1>3, <2>1, CallFacts, SecretLength
    <2>3. call.op = "sign" => Length(call.msg) = 32
      BY <2>1, CallFacts, MessageLength
    <2>4. keyLen = 32 /\ (call.op = "sign" => msgLen = 32)
      BY <1>3, <2>2, <2>3 DEF Seen
    <2> QED BY <1>3, <2>4 DEF LengthsRight
  <1> QED BY <1>1, <1>2, <1>3

\* A check of the lengths goes on, or is an error that takes no memory.
LEMMA CheckLengthsRefines ==
  ASSUME IInv, CheckLengths
  PROVE  [Scheme!Next]_(Scheme!vars)
  <1>1. PICK keyLen \in Seen(call.key), msgLen \in Seen(call.msg) :
          IF LengthsRight(keyLen, msgLen)
          THEN pc' = "context" /\ UNCHANGED ret
          ELSE pc' = "idle" /\ ret' = ArgumentError
    BY DEF CheckLengths
  <1>2. /\ pc = "lengths" /\ UNCHANGED <<call, lost>> /\ call \in Calls
        /\ ret = Scheme!Pending
    BY SameTexts DEF CheckLengths, IInv, TypeOK, ArgumentsKnown
  <1>3. CASE LengthsRight(keyLen, msgLen)
    BY <1>1, <1>2, <1>3 DEF Scheme!vars
  <1>4. CASE ~ LengthsRight(keyLen, msgLen) /\ ~ Scheme!WellFormed(call)
    <2>1. ret' = Scheme!Promised(call) BY <1>1, <1>4, MalformedPromised
    <2> QED BY <1>1, <1>2, <1>4, <2>1 DEF Scheme!Respond, Scheme!Next
  <1>5. CASE ~ LengthsRight(keyLen, msgLen) /\ Scheme!WellFormed(call)
    <2>1. ~ IntFillsSize /\ call.op \in {"pubkey", "sign"}
      BY <1>2, <1>5, RightLengthsSeen
    <2>2. Scheme!Refuse
      BY <1>1, <1>2, <1>5, <2>1, SameTexts DEF Scheme!Refuse
    <2> QED BY <2>2 DEF Scheme!Next
  <1> QED BY <1>3, <1>4, <1>5

\* Without room for a context nothing is left that could be lost.
LEMMA InitializeFailsRefines ==
  ASSUME IInv, InitializeFails
  PROVE  Scheme!Next
  <1>1. /\ pc = "context" /\ ret = Scheme!Pending /\ Capacity - lost = 0
        /\ UNCHANGED <<call, lost>>
    BY CapacityAssumption, SameTexts
       DEF InitializeFails, IInv, TypeOK, HeldExact, Inside
  <1>2. CASE pc' = "idle" /\ ret' = ArgumentError
    BY <1>1, <1>2, SameTexts DEF Scheme!Refuse, Scheme!Next
  <1>3. CASE pc' = "aborted" /\ UNCHANGED ret
    BY <1>1, <1>3 DEF Scheme!Abort, Scheme!Next
  <1> QED BY <1>2, <1>3 DEF InitializeFails

\* pubkey and sign answer, and what they make fits the buffer.
LEMMA SerializeRefines ==
  ASSUME IInv, Serialize
  PROVE  Scheme!Next
  <1>1. /\ pc = "serialize" /\ call \in Calls
        /\ call.op \in {"pubkey", "sign"} /\ call.key.what = "secret"
        /\ ret = Scheme!Pending
    BY SameTexts DEF Serialize, IInv, TypeOK, ArgumentsKnown
  <1>2. Length(Serialized) <= BufLen
    <2>1. CASE call.op = "pubkey"
      BY <2>1 DEF Serialized, PubKeyText, Text, Length, BufLen
    <2>2. CASE call.op = "sign"
      <3>1. sig.what = "signature"
        BY <1>1, <2>2 DEF IInv, LocalsExact, SignatureText, Text
      <3> QED BY <2>2, <3>1 DEF Serialized, Length, BufLen
    <2> QED BY <1>1, <2>1, <2>2
  <1>3. /\ pc' = "idle" /\ ret' = Scheme!Promised(call) /\ lost' = lost + 1
        /\ UNCHANGED call
    BY <1>1, <1>2, SerializedPromised DEF Serialize
  <1>4. Capacity - lost > 0 /\ Capacity - lost' = Capacity - lost - 1
    BY <1>1, <1>3, CapacityAssumption DEF IInv, TypeOK, HeldExact, Inside
  <1>5. Scheme!MayTake(call) BY <1>1 DEF Scheme!MayTake
  <1> QED BY <1>1, <1>3, <1>4, <1>5 DEF Scheme!Respond, Scheme!Next

\* Every step is one of SignatureScheme, or changes nothing it sees.
LEMMA StepRefines == IInv /\ [Next]_vars => [Scheme!Next]_(Scheme!vars)
  <1> SUFFICES ASSUME IInv, [Next]_vars PROVE [Scheme!Next]_(Scheme!vars)
    OBVIOUS
  <1>1. CASE Begin
    BY <1>1, SameTexts
       DEF Begin, IInv, TypeOK, Scheme!Invoke, Scheme!Next
  <1>2. CASE CheckLengths BY <1>2, CheckLengthsRefines
  <1>3. CASE Initialize
    BY <1>3, CallFacts DEF Initialize, IInv, ArgumentsKnown, Scheme!vars
  <1>4. CASE InitializeFails BY <1>4, InitializeFailsRefines
  <1>5. CASE Create \/ Sign
    BY <1>5 DEF Create, Sign, Scheme!vars
  <1>6. CASE NotAScalar
    <2>1. call \in Calls /\ call.op \in {"pubkey", "sign"}
      BY <1>6 DEF NotAScalar, IInv, ArgumentsKnown
    <2>2. ~ Scheme!WellFormed(call)
      BY <1>6, <2>1, WellFormedCases DEF NotAScalar
    <2> QED BY <1>6, <2>2, RaiseRefines DEF NotAScalar, Inside
  <1>7. CASE Serialize BY <1>7, SerializeRefines
  <1>8. CASE ParsePubKey \/ ParseSignature
    <2>1. call \in Calls /\ call.op = "verify"
      BY <1>8 DEF ParsePubKey, ParseSignature, IInv, ArgumentsKnown
    <2>2. CASE Raise
      <3>1. ~ Scheme!WellFormed(call) \/ UNCHANGED Scheme!vars
        BY <1>8, <2>1, <2>2, WellFormedCases
           DEF ParsePubKey, ParseSignature, Scheme!vars
      <3> QED BY <1>8, <2>2, <3>1, RaiseRefines
              DEF ParsePubKey, ParseSignature, Inside
    <2>3. CASE ~ Raise
      BY <1>8, <2>3 DEF ParsePubKey, ParseSignature, Scheme!vars
    <2> QED BY <2>2, <2>3
  <1>9. CASE Verify
    <2>1. /\ pc = "verify" /\ pc' = "idle" /\ ret = Scheme!Pending
          /\ ret' = Scheme!Promised(call) /\ UNCHANGED <<call, lost>>
      BY <1>9, VerifyPromised, SameTexts DEF Verify, IInv, TypeOK
    <2> QED BY <2>1 DEF Scheme!Respond, Scheme!Next
  <1>10. CASE UNCHANGED vars BY <1>10 DEF vars, Scheme!vars
  <1> QED
    BY <1>1, <1>2, <1>3, <1>4, <1>5, <1>6, <1>7, <1>8, <1>9, <1>10 DEF Next, Step

\* secp256k1.c implements SignatureScheme, but for the promise that a call is
\* answered at all, which is left to the runs: a malformed argument is refused,
\* a well-formed one only for want of memory or of the width of an mrb_int.
THEOREM Refinement == Spec => Scheme!Init /\ [][Scheme!Next]_(Scheme!vars)
  <1>1. Init => Scheme!Init
    BY CapacityAssumption, SameTexts DEF Init, Scheme!Init
  <1> QED BY <1>1, StepRefines, Invariant, PTL DEF Spec

-----------------------------------------------------------------------------
(* How long a call can take.                                               *)

\* The calls of the library that a call of the contract may still make, with
\* the check of the lengths and the answer.
StepsLeft == CASE pc = "lengths"                     -> 6
               [] pc = "context"                     -> 5
               [] pc \in {"create", "sign", "parse"} -> 4
               [] pc \in {"serialize", "parse_der"}  -> 3
               [] pc = "verify"                      -> 2
               [] OTHER                              -> 0

LEMMA StepShortens ==
  ASSUME Step
  PROVE  StepsLeft \in 1 .. 6 /\ StepsLeft' \in 0 .. 6 /\ StepsLeft' < StepsLeft
  <1>1. CASE CheckLengths BY <1>1 DEF CheckLengths, StepsLeft
  <1>2. CASE Initialize BY <1>2 DEF Initialize, StepsLeft
  <1>3. CASE InitializeFails BY <1>3 DEF InitializeFails, StepsLeft
  <1>4. CASE Create \/ Sign BY <1>4 DEF Create, Sign, StepsLeft
  <1>5. CASE NotAScalar BY <1>5 DEF NotAScalar, Raise, StepsLeft
  <1>6. CASE Serialize BY <1>6 DEF Serialize, Raise, StepsLeft
  <1>7. CASE ParsePubKey BY <1>7 DEF ParsePubKey, Raise, StepsLeft
  <1>8. CASE ParseSignature BY <1>8 DEF ParseSignature, Raise, StepsLeft
  <1>9. CASE Verify BY <1>9 DEF Verify, StepsLeft
  <1> QED BY <1>1, <1>2, <1>3, <1>4, <1>5, <1>6, <1>7, <1>8, <1>9 DEF Step

\* A call ends after six steps at most: a step of it leaves fewer to do, and
\* no other call begins before (secp256k1.c:50-156).  That there is a step
\* until it ends, SchemeSpec shows.
THEOREM CallsEnd ==
  Spec => [][pc # "idle" =>
               StepsLeft' \in 0 .. 6 /\ StepsLeft' < StepsLeft]_vars
  <1>1. [Next]_vars => [pc # "idle" =>
                          StepsLeft' \in 0 .. 6 /\ StepsLeft' < StepsLeft]_vars
    <2> SUFFICES ASSUME Next, pc # "idle"
                 PROVE  StepsLeft' \in 0 .. 6 /\ StepsLeft' < StepsLeft
      OBVIOUS
    <2>1. Step BY DEF Next, Begin
    <2> QED BY <2>1, StepShortens
  <1> QED BY <1>1, PTL DEF Spec
=============================================================================
