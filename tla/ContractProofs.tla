--------------------------- MODULE ContractProofs ---------------------------
(***************************************************************************)
(* Proofs about Contract for every set of keys, messages and arguments, for *)
(* every bound and memory and either width of an mrb_int: what an exit code *)
(* says of the script, what ARGV holds, and what a lock that passes has     *)
(* seen.  What a call of the gem answers is taken from Secp256k1Proofs.     *)
(***************************************************************************)
EXTENDS Contract, TLAPS

Gem == INSTANCE Secp256k1Proofs

-----------------------------------------------------------------------------
(* The definitions of the gem that Contract uses are those that the theorems *)
(* about it are stated with.                                               *)

\* The calls, ...
LEMMA SameCalls ==
  Secp!Calls = Gem!Calls /\ Secp!NoCall = Gem!NoCall
  BY DEF Secp!Text, Gem!Text, Secp!None, Gem!None, Secp!SecretText,
         Gem!SecretText, Secp!PubKeyText, Gem!PubKeyText,
         Secp!SignatureText, Gem!SignatureText, Secp!MessageText,
         Gem!MessageText, Secp!NoScalar, Gem!NoScalar, Secp!Garbage,
         Gem!Garbage, Secp!SecretTexts, Gem!SecretTexts, Secp!MessageTexts,
         Gem!MessageTexts, Secp!PubKeyTexts, Gem!PubKeyTexts,
         Secp!SignatureTexts, Gem!SignatureTexts, Secp!Call, Gem!Call,
         Secp!NoCall, Gem!NoCall, Secp!Calls, Gem!Calls

\* ... the answers, ...
LEMMA SameAnswers ==
  /\ Secp!NoAnswer = Gem!NoAnswer /\ Secp!Pending = Gem!Pending
  /\ Secp!ArgumentError = Gem!ArgumentError
  /\ \A t : Secp!String(t) = Gem!String(t)
  /\ \A b : Secp!Bool(b) = Gem!Bool(b)
  BY DEF Secp!Answer, Gem!Answer, Secp!NoAnswer, Gem!NoAnswer, Secp!Pending,
         Gem!Pending, Secp!ArgumentError, Gem!ArgumentError, Secp!String,
         Gem!String, Secp!Bool, Gem!Bool, Secp!Garbage, Gem!Garbage,
         Secp!Text, Gem!Text, Secp!None, Gem!None

\* ... the texts, ...
LEMMA SameTexts ==
  /\ Secp!Garbage = Gem!Garbage
  /\ \A k, form : Secp!PubKeyText(k, form) = Gem!PubKeyText(k, form)
  /\ \A k, m, form : Secp!SignatureText(k, m, form) = Gem!SignatureText(k, m, form)
  /\ \A what, k, m, form : Secp!Text(what, k, m, form) = Gem!Text(what, k, m, form)
  /\ Secp!None = Gem!None
  BY DEF Secp!Garbage, Gem!Garbage, Secp!PubKeyText, Gem!PubKeyText,
         Secp!SignatureText, Gem!SignatureText, Secp!Text, Gem!Text,
         Secp!None, Gem!None

\* ... what is promised ...
LEMMA SamePromise ==
  \A c : Secp!Scheme!Promised(c) = Gem!Scheme!Promised(c)
  BY DEF Secp!Scheme!WellFormed, Gem!Scheme!WellFormed,
         Secp!Scheme!Promised, Gem!Scheme!Promised, Secp!Scheme!Text,
         Gem!Scheme!Text, Secp!Scheme!None, Gem!Scheme!None,
         Secp!Scheme!PubKeyText, Gem!Scheme!PubKeyText,
         Secp!Scheme!SignatureText, Gem!Scheme!SignatureText,
         Secp!Scheme!Garbage, Gem!Scheme!Garbage, Secp!Scheme!Answer,
         Gem!Scheme!Answer, Secp!Scheme!ArgumentError,
         Gem!Scheme!ArgumentError, Secp!Scheme!String, Gem!Scheme!String,
         Secp!Scheme!Bool, Gem!Scheme!Bool, Secp!Scheme!Holds,
         Gem!Scheme!Holds

\* ... and so the initial states, ...
LEMMA SameInit == Secp!Init <=> Gem!Init
  BY SameCalls, SameAnswers, SameTexts DEF Secp!Init, Gem!Init

\* ... the steps ...
LEMMA SameBegin == Secp!Begin <=> Gem!Begin
  BY SameCalls, SameAnswers, SameTexts DEF Secp!Begin, Gem!Begin

LEMMA SameLengths ==
  /\ \A t : Secp!Length(t) = Gem!Length(t)
  /\ \A t : Secp!Seen(t) = Gem!Seen(t)
  /\ \A k, m : Secp!LengthsRight(k, m) <=> Gem!LengthsRight(k, m)
  /\ Secp!Serialized = Gem!Serialized /\ Secp!BufLen = Gem!BufLen
  <1>1. \A t : Secp!Length(t) = Gem!Length(t) BY DEF Secp!Length, Gem!Length
  <1>2. \A t : Secp!Seen(t) = Gem!Seen(t)
    BY <1>1 DEF Secp!Seen, Gem!Seen, Secp!Modulus, Gem!Modulus
  <1>3. \A k, m : Secp!LengthsRight(k, m) <=> Gem!LengthsRight(k, m)
    BY DEF Secp!LengthsRight, Gem!LengthsRight
  <1>4. Secp!Serialized = Gem!Serialized
    BY SameTexts DEF Secp!Serialized, Gem!Serialized
  <1> QED BY <1>1, <1>2, <1>3, <1>4 DEF Secp!BufLen, Gem!BufLen

LEMMA SameStep == Secp!Step <=> Gem!Step
  <1>1. Secp!Raise <=> Gem!Raise BY SameAnswers DEF Secp!Raise, Gem!Raise
  <1>2. Secp!CheckLengths <=> Gem!CheckLengths
    BY SameLengths, SameAnswers DEF Secp!CheckLengths, Gem!CheckLengths
  <1>3. (Secp!Initialize <=> Gem!Initialize)
    BY DEF Secp!Initialize, Gem!Initialize
  <1>4. (Secp!InitializeFails <=> Gem!InitializeFails)
    BY SameAnswers DEF Secp!InitializeFails, Gem!InitializeFails
  <1>5. (Secp!Create <=> Gem!Create) /\ (Secp!Sign <=> Gem!Sign)
    BY SameTexts DEF Secp!Create, Gem!Create, Secp!Sign, Gem!Sign
  <1>6. Secp!NotAScalar <=> Gem!NotAScalar
    BY <1>1 DEF Secp!NotAScalar, Gem!NotAScalar
  <1>7. Secp!Serialize <=> Gem!Serialize
    BY <1>1, SameLengths, SameAnswers DEF Secp!Serialize, Gem!Serialize
  <1>8. Secp!ParsePubKey <=> Gem!ParsePubKey
    BY <1>1, SameTexts DEF Secp!ParsePubKey, Gem!ParsePubKey
  <1>9. Secp!ParseSignature <=> Gem!ParseSignature
    BY <1>1 DEF Secp!ParseSignature, Gem!ParseSignature
  <1>10. Secp!Verify <=> Gem!Verify
    BY SameAnswers DEF Secp!Verify, Gem!Verify, Secp!EcdsaVerify, Gem!EcdsaVerify,
                       Secp!Holds, Gem!Holds
  <1> QED BY <1>2, <1>3, <1>4, <1>5, <1>6, <1>7, <1>8, <1>9, <1>10
          DEF Secp!Step, Gem!Step

\* ... and the invariant.
LEMMA SameInvariant == Secp!IInv <=> Gem!IInv
  <1>1. (Secp!TypeOK <=> Gem!TypeOK)
    BY SameCalls, SameAnswers DEF Secp!TypeOK, Gem!TypeOK, Secp!Inside, Gem!Inside
  <1>2. (Secp!HeldExact <=> Gem!HeldExact) /\ (Secp!AbortNeedsLeaks <=> Gem!AbortNeedsLeaks)
    BY DEF Secp!HeldExact, Gem!HeldExact, Secp!AbortNeedsLeaks, Gem!AbortNeedsLeaks,
           Secp!Inside, Gem!Inside
  <1>3. (Secp!NeverWrong <=> Gem!NeverWrong)
    BY SamePromise DEF Secp!NeverWrong, Gem!NeverWrong
  <1>4. (Secp!ArgumentsKnown <=> Gem!ArgumentsKnown)
    BY SameCalls DEF Secp!ArgumentsKnown, Gem!ArgumentsKnown, Secp!Inside, Gem!Inside
  <1>5. (Secp!LocalsExact <=> Gem!LocalsExact)
    BY SameTexts DEF Secp!LocalsExact, Gem!LocalsExact
  <1> QED BY <1>1, <1>2, <1>3, <1>4, <1>5 DEF Secp!IInv, Gem!IInv

-----------------------------------------------------------------------------
(* What is known of the gem.                                               *)

LEMMA GemInit == Secp!Init => Secp!IInv
  <1>1. Gem!CapacityAssumption BY BoundAssumption DEF Gem!CapacityAssumption
  <1>2. Gem!Init => Gem!IInv BY <1>1, Gem!InitIInv
  <1> QED BY <1>2, SameInit, SameInvariant

LEMMA SameInvariantNext == (Secp!IInv)' <=> (Gem!IInv)'
  BY SameInvariant, PTL

\* The gem keeps its invariant through a call, a step and where it does nothing.
LEMMA GemNext ==
  ASSUME Secp!IInv, Secp!Begin \/ Secp!Step \/ UNCHANGED gem
  PROVE  (Secp!IInv)'
  <1>1. Gem!CapacityAssumption BY BoundAssumption DEF Gem!CapacityAssumption
  <1>2. Gem!IInv /\ [Gem!Next]_(Gem!vars)
    BY SameInvariant, SameBegin, SameStep DEF Gem!Next, Gem!vars, gem
  <1>3. (Gem!IInv)' BY <1>1, <1>2, Gem!NextIInv
  <1> QED BY <1>3, SameInvariantNext

\* A step of the gem is within a call, and changes nothing of it but pc, the
\* answer and what is lost; an answer is there once the call is over.
LEMMA GemStepFacts ==
  ASSUME Secp!IInv, Secp!Step
  PROVE  /\ pc \notin {"idle", "aborted"}
         /\ pc' = "aborted" => lost' = Capacity
         /\ (ret' = ArgumentError) => pc' = "idle"
         /\ UNCHANGED call
  <1>1. pc \notin {"idle", "aborted"}
    BY DEF Secp!Step, Secp!CheckLengths, Secp!Initialize, Secp!InitializeFails,
           Secp!Create, Secp!Sign, Secp!NotAScalar, Secp!Serialize,
           Secp!ParsePubKey, Secp!ParseSignature, Secp!Verify
  <1>2. UNCHANGED call
    BY DEF Secp!Step, Secp!CheckLengths, Secp!Initialize, Secp!InitializeFails,
           Secp!Create, Secp!Sign, Secp!NotAScalar, Secp!Serialize, Secp!Raise,
           Secp!ParsePubKey, Secp!ParseSignature, Secp!Verify
  <1>3. (Secp!IInv)' BY GemNext
  <1>4. pc' = "aborted" => lost' = Capacity
    BY <1>3 DEF Secp!IInv, Secp!AbortNeedsLeaks
  <1>5. (ret' = Secp!Pending) <=> (pc' # "idle")
    BY <1>3 DEF Secp!IInv, Secp!TypeOK
  <1>6. Secp!Pending # ArgumentError
    BY DEF Secp!Pending, Secp!Answer, ArgumentError, Answer
  <1> QED BY <1>1, <1>2, <1>4, <1>5, <1>6

\* A verify that answered TRUE has seen a signature that holds.
LEMMA VerifiedHolds ==
  ASSUME Secp!IInv, pc = "idle", Verified
  PROVE  Holds(call.key, call.msg, call.sig)
  <1>1. ret = Bool(TRUE) /\ ret.kind = "bool" BY DEF Verified, Bool, Answer
  <1>2. ret = Secp!Scheme!Promised(call) BY <1>1 DEF Secp!IInv, Secp!NeverWrong
  <1>3. call.op = "verify" BY DEF Verified
  <1>4. Secp!Scheme!ArgumentError.kind # "bool"
    BY DEF Secp!Scheme!ArgumentError, Secp!Scheme!Answer
  <1>5. Secp!Scheme!WellFormed(call) BY <1>1, <1>2, <1>4 DEF Secp!Scheme!Promised
  <1>6. ret = Secp!Scheme!Bool(Secp!Scheme!Holds(call.key, call.msg, call.sig))
    BY <1>2, <1>3, <1>5 DEF Secp!Scheme!Promised
  <1>7. ret.holds = TRUE BY <1>1 DEF Bool, Answer
  <1>8. ret.holds = Secp!Scheme!Holds(call.key, call.msg, call.sig)
    BY <1>6 DEF Secp!Scheme!Bool, Secp!Scheme!Answer
  <1> QED BY <1>7, <1>8 DEF Secp!Scheme!Holds, Holds

-----------------------------------------------------------------------------
(* The invariant.                                                          *)

\* What main was given.
Inputs == /\ program \in Programs
          /\ argv \in Seq(Arg)
          /\ guarded \in BOOLEAN /\ raised \in BOOLEAN /\ exc \in BOOLEAN

\* The elements of ARGV so far.
Collected == [j \in 1 .. i - First |-> Cut(argv[j + First])]

ArgvSoFar ==
  /\ stage = "main" => margv = <<>>
  /\ stage \in {"argv", "script"} => /\ i \in Nat /\ i >= First
                                     /\ i = First \/ i <= Len(argv)
                                     /\ margv = Collected
  /\ stage = "script" => i >= Len(argv)

\* What each stage knows of exceptions, of the gem and of how the script ended.
StagesExact ==
  /\ stage \in {"main", "argv"} => pc = "idle" /\ ~ raised
  /\ stage \in {"main", "argv", "script"} => ~ exc /\ fate = "none"
  /\ stage = "script" => pc # "aborted"
  /\ pc \notin {"idle", "aborted"} => ~ raised
  /\ stage = "report" => /\ pc = "idle"
                         /\ fate \in {"raised", "not loaded", "ended"}
                         /\ exc <=> fate # "ended"

\* A script that ended left no exception, and a lock verified.
EndedExact ==
  fate = "ended" => /\ stage \in {"report", "exited"} /\ pc = "idle"
                    /\ ~ raised /\ ~ exc
                    /\ guarded => Verified

ContractIInv == /\ Inputs /\ TypeOK /\ Secp!IInv
                /\ ArgvSoFar /\ StagesExact /\ EndedExact
                /\ ZeroMeansEnded

-----------------------------------------------------------------------------
(* ARGV.                                                                   *)

\* The elements are as many as the turns of the loop.
LEMMA CollectedLength ==
  ASSUME Inputs, i \in Nat, i >= First
  PROVE  /\ First \in {1, 2}
         /\ i - First \in Nat
         /\ Len(Collected) = i - First
  <1> DEFINE n == i - First
             c == [j \in 1 .. n |-> Cut(argv[j + First])]
  <1>1. First \in {1, 2} BY DEF First
  <1>2. n \in Nat BY <1>1
  <1>3. Len(c) = n
    <2> HIDE DEF n
    <2> QED BY <1>2
  <1> QED BY <1>1, <1>2, <1>3 DEF Collected

\* One more turn, one more element.
LEMMA CollectedAppend ==
  ASSUME Inputs, i \in Nat, i >= First, i' = i + 1, First' = First, argv' = argv
  PROVE  Collected' = Append(Collected, Cut(argv[i + 1]))
  <1> DEFINE n == i - First
             c == [j \in 1 .. n |-> Cut(argv[j + First])]
             e == Cut(argv[i + 1])
  <1>1. n \in Nat /\ First \in Nat /\ n + 1 = i' - First /\ n + 1 + First = i + 1
    BY CollectedLength
  <1>2. Collected = c BY DEF Collected
  <1>3. Collected' = [j \in 1 .. n + 1 |-> Cut(argv[j + First])]
    BY <1>1 DEF Collected, Cut
  <1>4. Append(c, e) = [j \in 1 .. n + 1 |-> IF j = n + 1 THEN e ELSE c[j]]
    <2> HIDE DEF n
    <2> QED BY <1>1
  <1>5. [j \in 1 .. n + 1 |-> IF j = n + 1 THEN e ELSE c[j]]
          = [j \in 1 .. n + 1 |-> Cut(argv[j + First])]
    <2> HIDE DEF n
    <2> QED BY <1>1
  <1> QED BY <1>2, <1>3, <1>4, <1>5

-----------------------------------------------------------------------------
(* The invariant, step by step.                                            *)

\* Before main.
LEMMA InitContract == Init => ContractIInv
  <1> SUFFICES ASSUME Init PROVE ContractIInv OBVIOUS
  <1>1. Secp!IInv BY GemInit DEF Init
  <1>2. pc = "idle" BY DEF Init, Secp!Init
  <1>3. Inputs
    <2>1. argv \in Seq(Arg) BY BoundAssumption DEF Init, BoundedSeq, SeqOf
    <2> QED BY <2>1 DEF Init, Inputs
  <1>4. TypeOK
    <2>1. Len(margv) <= Len(argv) BY <1>3 DEF Init, Inputs
    <2> QED BY <1>1, <1>2, <2>1, BoundAssumption DEF Init, TypeOK, Secp!IInv
  <1> QED BY <1>1, <1>2, <1>3, <1>4
          DEF Init, ContractIInv, ArgvSoFar, StagesExact, EndedExact, ZeroMeansEnded, NoCode

\* What ends a program at once.
LEMMA EarlyContract ==
  ASSUME ContractIInv, TooFewArguments \/ OutOfMemory
  PROVE  ContractIInv'
  <1>1. (Secp!IInv)' BY GemNext DEF ContractIInv, TooFewArguments, OutOfMemory, Same
  <1>2. Inputs' BY DEF ContractIInv, Inputs, TooFewArguments, OutOfMemory, Same
  <1>3. /\ stage' = "exited" /\ code' \in {-2, Killed} /\ fate = "none"
        /\ pc = "idle" /\ ~ raised
        /\ UNCHANGED <<margv, argv, program, guarded, moves, pc, raised, exc, fate, gem>>
    BY KilledAssumption
       DEF ContractIInv, StagesExact, TooFewArguments, OutOfMemory, Same, Exit, gem
  <1> QED
    BY <1>1, <1>2, <1>3, KilledAssumption
       DEF ContractIInv, TypeOK, ArgvSoFar, StagesExact, EndedExact, ZeroMeansEnded, Secp!IInv, NoCode

\* mrb_open.
LEMMA OpenContract == ContractIInv /\ Open => ContractIInv'
  <1> SUFFICES ASSUME ContractIInv, Open PROVE ContractIInv' OBVIOUS
  <1>1. (Secp!IInv)' BY GemNext DEF ContractIInv, Open, Same
  <1>2. Inputs' BY DEF ContractIInv, Inputs, Open, Same
  <1>3. ArgvSoFar'
    <2>1. First \in {1, 2} /\ First' = First BY DEF First, Open, Same
    <2>2. margv' = <<>> /\ i' = First /\ stage' = "argv"
      BY DEF ContractIInv, ArgvSoFar, Open
    <2>3. Collected' = <<>>
      <3>1. i' - First' = 0 BY <2>1, <2>2
      <3> QED BY <3>1 DEF Collected
    <2> QED BY <2>1, <2>2, <2>3 DEF ArgvSoFar
  <1> QED
    BY <1>1, <1>2, <1>3
       DEF ContractIInv, Open, Same, gem, TypeOK, StagesExact, EndedExact, ZeroMeansEnded, Secp!IInv, NoCode

\* A turn of the loop.
LEMMA PushContract == ContractIInv /\ PushArgument => ContractIInv'
  <1> SUFFICES ASSUME ContractIInv, PushArgument PROVE ContractIInv' OBVIOUS
  <1>1. (Secp!IInv)' BY GemNext DEF ContractIInv, PushArgument, Same
  <1>2. Inputs /\ Inputs' BY DEF ContractIInv, Inputs, PushArgument, Same
  <1>3. /\ stage = "argv" /\ stage' = "argv" /\ i \in Nat /\ i >= First
        /\ i < Len(argv) /\ Len(argv) \in Nat /\ i' = i + 1
        /\ margv' = Append(Collected, Cut(argv[i + 1]))
        /\ UNCHANGED <<argv, program, First>>
    BY DEF ContractIInv, Inputs, ArgvSoFar, PushArgument, Same, First
  <1>4. margv' = Collected' BY <1>2, <1>3, CollectedAppend
  <1>5. Len(margv') = i' - First' /\ First' \in {1, 2}
    <2>1. First \in {1, 2} BY DEF First
    <2>2. i' \in Nat /\ i' >= First' BY <1>3, <2>1
    <2>3. Len(Collected') = i' - First'
      <3> DEFINE n == i' - First'
                 c == [j \in 1 .. n |-> Cut(argv'[j + First'])]
      <3>1. n \in Nat BY <1>3, <2>1
      <3>2. Len(c) = n
        <4> HIDE DEF n
        <4> QED BY <3>1
      <3> QED BY <3>2 DEF Collected, Cut
    <2> QED BY <1>3, <1>4, <2>1, <2>3
  <1>6. ArgvSoFar' BY <1>3, <1>4, <1>5 DEF ArgvSoFar
  <1>7. Len(margv') <= Len(argv') BY <1>3, <1>5
  <1> QED
    BY <1>1, <1>2, <1>6, <1>7
       DEF ContractIInv, PushArgument, Same, gem, TypeOK, StagesExact, EndedExact, ZeroMeansEnded, Secp!IInv, NoCode

\* The script is loaded, or is not.
LEMMA LoadContract == ContractIInv /\ Load => ContractIInv'
  <1> SUFFICES ASSUME ContractIInv, Load PROVE ContractIInv' OBVIOUS
  <1>1. (Secp!IInv)' BY GemNext DEF ContractIInv, Load, Same
  <1>2. Inputs' BY DEF ContractIInv, Inputs, Load, Same
  <1>3. ArgvSoFar'
    <2>1. UNCHANGED <<First, Collected, i, argv, margv>>
      BY DEF Load, Same, First, Collected, Cut
    <2> QED BY <2>1 DEF ContractIInv, ArgvSoFar, Load
  <1>20. TypeOK'
    BY <1>1, <1>2, <1>3
       DEF ContractIInv, Load, Same, gem, TypeOK, Secp!IInv, NoCode, StagesExact, EndedExact, ZeroMeansEnded
  <1>21. StagesExact'
    BY <1>1, <1>2, <1>3
       DEF ContractIInv, Load, Same, gem, TypeOK, Secp!IInv, NoCode, StagesExact, EndedExact, ZeroMeansEnded
  <1>22. EndedExact'
    BY <1>1, <1>2, <1>3
       DEF ContractIInv, Load, Same, gem, TypeOK, Secp!IInv, NoCode, StagesExact, EndedExact, ZeroMeansEnded
  <1>23. ZeroMeansEnded'
    BY <1>1, <1>2, <1>3
       DEF ContractIInv, Load, Same, gem, TypeOK, Secp!IInv, NoCode, StagesExact, EndedExact, ZeroMeansEnded
  <1> QED BY <1>1, <1>2, <1>3, <1>20, <1>21, <1>22, <1>23 DEF ContractIInv

\* The script is entered by nothing but Load, so ARGV stays as it is.
LEMMA ScriptArgv ==
  ASSUME ContractIInv, stage = "script" \/ stage' # "script", stage' \notin {"main", "argv"},
         UNCHANGED <<argv, program, i, margv>>
  PROVE  ArgvSoFar'
  <1>1. UNCHANGED <<First, Collected>> BY DEF First, Collected, Cut
  <1> QED BY <1>1 DEF ContractIInv, ArgvSoFar

\* A call of the gem begins.
LEMMA CallContract == ContractIInv /\ CallGem => ContractIInv'
  <1> SUFFICES ASSUME ContractIInv, CallGem PROVE ContractIInv' OBVIOUS
  <1>1. (Secp!IInv)' BY GemNext DEF ContractIInv, CallGem
  <1>2. Inputs' BY DEF ContractIInv, Inputs, CallGem, Same
  <1>3. ArgvSoFar' BY ScriptArgv DEF ContractIInv, CallGem, Running, Same
  <1>4. pc' = "lengths" BY DEF CallGem, Secp!Begin
  <1>5. moves' \in 0 .. MaxMoves
    BY BoundAssumption DEF ContractIInv, TypeOK, CallGem
  <1>6. lost' = lost BY DEF CallGem, Secp!Begin
  <1> QED
    BY <1>1, <1>2, <1>3, <1>4, <1>5, <1>6
       DEF ContractIInv, CallGem, Running, Same, TypeOK, StagesExact, EndedExact,
           ZeroMeansEnded, Secp!IInv, NoCode

\* The gem takes a step, answers, raises or ends the program.
LEMMA GemContract == ContractIInv /\ GemStep => ContractIInv'
  <1> SUFFICES ASSUME ContractIInv, GemStep PROVE ContractIInv' OBVIOUS
  <1>1. (Secp!IInv)' BY GemNext DEF ContractIInv, GemStep
  <1>2. Inputs' BY DEF ContractIInv, Inputs, GemStep, Same
  <1>3. /\ pc \notin {"idle", "aborted"}
        /\ pc' = "aborted" => lost' = Capacity
        /\ (ret' = ArgumentError) => pc' = "idle"
    BY GemStepFacts DEF ContractIInv, GemStep
  <1>4. ~ raised /\ ~ exc /\ fate = "none" /\ stage = "script" /\ code = NoCode
    BY <1>3 DEF ContractIInv, StagesExact, TypeOK, GemStep
  <1>5. CASE pc' = "aborted"
    <2>1. ~ raised' BY <1>3, <1>5 DEF GemStep
    <2>2. /\ stage' = "exited" /\ code' = AbortCode
          /\ UNCHANGED <<program, argv, i, margv, exc, moves, fate, guarded>>
      BY <1>5 DEF GemStep, Exit, Same
    <2>3. ArgvSoFar' BY <1>4, <2>2, ScriptArgv
    <2>4. AbortCode \in {Killed, 10} BY DEF AbortCode
    <2>5. code' \in {Killed, 10} /\ code' \notin {NoCode, 0, -1, -2}
      BY <2>2, <2>4, KilledAssumption DEF NoCode
    <2>20. TypeOK'
      <3>1. code' # NoCode /\ code' \in {NoCode, 0, -1, -2, 10, Killed} BY <2>5
      <3>2. Len(margv') <= Len(argv') /\ moves' \in 0 .. MaxMoves /\ Secp!TypeOK'
        BY <1>1, <2>2 DEF ContractIInv, TypeOK, Secp!IInv
      <3> QED BY <1>5, <2>2, <3>1, <3>2 DEF TypeOK
    <2>21. StagesExact'
      BY <1>1, <1>2, <1>3, <1>4, <1>5, <2>1, <2>2, <2>3, <2>4, KilledAssumption
         DEF ContractIInv, TypeOK, Secp!IInv, NoCode, StagesExact, EndedExact, ZeroMeansEnded
    <2>22. EndedExact'
      BY <1>1, <1>2, <1>3, <1>4, <1>5, <2>1, <2>2, <2>3, <2>4, KilledAssumption
         DEF ContractIInv, TypeOK, Secp!IInv, NoCode, StagesExact, EndedExact, ZeroMeansEnded
    <2>23. ZeroMeansEnded'
      <3>1. code' # 0 /\ fate' # "ended" BY <1>4, <2>2, <2>5
      <3> QED BY <3>1 DEF ZeroMeansEnded
    <2> QED BY <1>1, <1>2, <2>3, <2>20, <2>21, <2>22, <2>23 DEF ContractIInv
  <1>6. CASE pc' # "aborted"
    <2>1. /\ UNCHANGED <<stage, code, program, argv, i, margv, exc, moves, fate, guarded>>
          /\ raised' = (ret' = ArgumentError)
      BY <1>6 DEF GemStep, Same
    <2>2. ArgvSoFar' BY <1>4, <2>1, ScriptArgv
    <2>3. StagesExact' BY <1>3, <1>4, <1>6, <2>1 DEF StagesExact
    <2> QED
      BY <1>1, <1>2, <1>4, <2>1, <2>2, <2>3
         DEF ContractIInv, TypeOK, EndedExact, ZeroMeansEnded, Secp!IInv, NoCode
  <1> QED BY <1>5, <1>6

\* The script raises, or rescues.
LEMMA RaiseContract == ContractIInv /\ (ScriptRaises \/ Rescue) => ContractIInv'
  <1> SUFFICES ASSUME ContractIInv, ScriptRaises \/ Rescue PROVE ContractIInv' OBVIOUS
  <1>1. (Secp!IInv)' BY GemNext DEF ContractIInv, ScriptRaises, Rescue
  <1>2. Inputs' BY DEF ContractIInv, Inputs, ScriptRaises, Rescue, Same
  <1>3. ArgvSoFar' BY ScriptArgv DEF ContractIInv, ScriptRaises, Rescue, Running, Same
  <1>4. moves' \in 0 .. MaxMoves
    BY BoundAssumption DEF ContractIInv, TypeOK, ScriptRaises, Rescue
  <1>5. UNCHANGED <<pc, lost>> BY DEF ScriptRaises, Rescue, gem
  <1>20. TypeOK'
    BY <1>1, <1>2, <1>3, <1>4, <1>5
       DEF ContractIInv, ScriptRaises, Rescue, Running, Same, TypeOK, Secp!IInv, NoCode, StagesExact, EndedExact, ZeroMeansEnded
  <1>21. StagesExact'
    <2>1. stage = "script" /\ stage' = stage /\ pc = "idle"
      BY DEF ScriptRaises, Rescue, Running
    <2>2. ~ exc /\ (exc' <=> exc) /\ fate' = "none"
      BY <2>1 DEF ContractIInv, StagesExact, ScriptRaises, Rescue
    <2> QED BY <1>5, <2>1, <2>2 DEF StagesExact
  <1>22. EndedExact'
    BY <1>1, <1>2, <1>3, <1>4, <1>5
       DEF ContractIInv, ScriptRaises, Rescue, Running, Same, TypeOK, Secp!IInv, NoCode, StagesExact, EndedExact, ZeroMeansEnded
  <1>23. ZeroMeansEnded'
    BY <1>1, <1>2, <1>3, <1>4, <1>5
       DEF ContractIInv, ScriptRaises, Rescue, Running, Same, TypeOK, Secp!IInv, NoCode, StagesExact, EndedExact, ZeroMeansEnded
  <1> QED BY <1>1, <1>2, <1>3, <1>20, <1>21, <1>22, <1>23 DEF ContractIInv

\* The script comes to its end, with an exception or without.
LEMMA EndContract == ContractIInv /\ (Propagate \/ ScriptEnds) => ContractIInv'
  <1> SUFFICES ASSUME ContractIInv, Propagate \/ ScriptEnds PROVE ContractIInv' OBVIOUS
  <1>1. (Secp!IInv)' BY GemNext DEF ContractIInv, Propagate, ScriptEnds
  <1>2. Inputs' BY DEF ContractIInv, Inputs, Propagate, ScriptEnds, Same
  <1>3. ArgvSoFar' BY ScriptArgv DEF ContractIInv, Propagate, ScriptEnds, Running, Same
  <1>4. pc' = pc /\ lost' = lost /\ (Verified' <=> Verified)
    BY DEF Propagate, ScriptEnds, gem, Verified
  <1>20. TypeOK'
    BY <1>1, <1>2, <1>3, <1>4
       DEF ContractIInv, Propagate, ScriptEnds, Running, Same, TypeOK, Secp!IInv, NoCode, StagesExact, EndedExact, ZeroMeansEnded
  <1>21. StagesExact'
    <2>1. stage = "script" /\ stage' = "report" /\ pc = "idle"
      BY DEF Propagate, ScriptEnds, Running
    <2>2. ~ exc BY <2>1 DEF ContractIInv, StagesExact
    <2>3. \/ exc' /\ fate' = "raised"
          \/ ~ exc' /\ fate' = "ended"
      BY <2>2 DEF Propagate, ScriptEnds
    <2> QED BY <1>4, <2>1, <2>3 DEF StagesExact
  <1>22. EndedExact'
    BY <1>1, <1>2, <1>3, <1>4
       DEF ContractIInv, Propagate, ScriptEnds, Running, Same, TypeOK, Secp!IInv, NoCode, StagesExact, EndedExact, ZeroMeansEnded
  <1>23. ZeroMeansEnded'
    BY <1>1, <1>2, <1>3, <1>4
       DEF ContractIInv, Propagate, ScriptEnds, Running, Same, TypeOK, Secp!IInv, NoCode, StagesExact, EndedExact, ZeroMeansEnded
  <1> QED BY <1>1, <1>2, <1>3, <1>20, <1>21, <1>22, <1>23 DEF ContractIInv

\* main reports and exits.
LEMMA ReportContract == ContractIInv /\ Report => ContractIInv'
  <1> SUFFICES ASSUME ContractIInv, Report PROVE ContractIInv' OBVIOUS
  <1>1. (Secp!IInv)' BY GemNext DEF ContractIInv, Report
  <1>2. Inputs' BY DEF ContractIInv, Inputs, Report, Same
  <1>3. /\ stage' = "exited" /\ stage = "report" /\ code' \in {0, -1, Killed}
        /\ UNCHANGED <<program, argv, guarded, i, margv, raised, exc, moves, fate, gem>>
    BY DEF Report, Exit, Same
  <1>4. ArgvSoFar' BY <1>3, ScriptArgv
  <1>5. pc' = pc /\ lost' = lost /\ (Verified' <=> Verified) BY <1>3 DEF gem, Verified
  <1>6. pc = "idle" /\ (exc <=> fate # "ended") /\ fate \in {"raised", "not loaded", "ended"}
    BY <1>3 DEF ContractIInv, StagesExact
  <1>7. /\ exc => code' = -1 \/ code' = Killed
        /\ ~ exc => code' = 0
    BY DEF Report, Exit
  <1>20. TypeOK'
    <2>1. code' # NoCode /\ code' \in {NoCode, 0, -1, -2, 10, Killed}
      BY <1>3, KilledAssumption DEF NoCode
    <2>2. Len(margv') <= Len(argv') /\ moves' \in 0 .. MaxMoves /\ Secp!TypeOK'
      BY <1>1, <1>3 DEF ContractIInv, TypeOK, Secp!IInv
    <2> QED BY <1>3, <1>5, <1>6, <2>1, <2>2 DEF TypeOK
  <1>21. StagesExact' BY <1>3, <1>5, <1>6 DEF StagesExact
  <1>22. EndedExact' BY <1>3, <1>5 DEF ContractIInv, EndedExact
  <1>9. UNCHANGED <<fate, program, argv>> /\ (exc' <=> exc) /\ (raised' <=> raised)
    BY <1>3
  <1>10. code' = 0 <=> ~ exc BY <1>7, KilledAssumption
  <1>23. ZeroMeansEnded'
    BY <1>6, <1>9, <1>10 DEF ContractIInv, EndedExact, ZeroMeansEnded
  <1> QED BY <1>1, <1>2, <1>4, <1>20, <1>21, <1>22, <1>23 DEF ContractIInv

LEMMA StutterContract == ContractIInv /\ UNCHANGED vars => ContractIInv'
  <1> SUFFICES ASSUME ContractIInv, UNCHANGED vars PROVE ContractIInv' OBVIOUS
  <1>1. UNCHANGED main /\ UNCHANGED gem BY DEF vars
  <1>2. (Secp!IInv)' BY <1>1, GemNext DEF ContractIInv
  <1>3. /\ UNCHANGED <<program, argv, guarded, stage, i, margv, moves, code, fate, pc, lost>>
        /\ raised' = raised /\ exc' = exc
        /\ (Verified' <=> Verified)
    BY <1>1 DEF main, gem, Verified
  <1>4. Inputs' BY <1>3 DEF ContractIInv, Inputs
  <1>5. ArgvSoFar'
    <2>1. UNCHANGED <<First, Collected>> BY <1>3 DEF First, Collected, Cut
    <2> QED BY <1>3, <2>1 DEF ContractIInv, ArgvSoFar
  <1>6. TypeOK' BY <1>2, <1>3 DEF ContractIInv, TypeOK, Secp!IInv
  <1>7. StagesExact' BY <1>3 DEF ContractIInv, StagesExact
  <1>8. EndedExact' BY <1>3 DEF ContractIInv, EndedExact
  <1>9. ZeroMeansEnded' BY <1>3 DEF ContractIInv, ZeroMeansEnded
  <1> QED BY <1>2, <1>4, <1>5, <1>6, <1>7, <1>8, <1>9 DEF ContractIInv

LEMMA StepContract == ContractIInv /\ [Next]_vars => ContractIInv'
  BY EarlyContract, OpenContract, PushContract, LoadContract, CallContract, GemContract,
     RaiseContract, EndContract, ReportContract, StutterContract
     DEF Next

\* Whatever the program, the arguments and the script, and wherever it fails.
THEOREM ContractInductive == Spec => []ContractIInv
  BY InitContract, StepContract, PTL DEF Spec

-----------------------------------------------------------------------------
(* The theorems.                                                           *)

\* Types, bounds, and that the gem works only while the script runs.
THEOREM ContractTypeCorrect == Spec => []TypeOK
  <1>1. ContractIInv => TypeOK BY DEF ContractIInv
  <1> QED BY <1>1, ContractInductive, PTL

\* The exit code is 0 exactly for a script that was loaded and ran to its end
\* with no exception left (entry.c, argv_entry.c and argv_source_entry.c).
THEOREM ZeroOnlyAtTheEnd == Spec => []ZeroMeansEnded
  <1>1. ContractIInv => ZeroMeansEnded BY DEF ContractIInv
  <1> QED BY <1>1, ContractInductive, PTL

\* ARGV holds every argument behind the script's own, in order, however many
\* there are - none at all included.
THEOREM ArgvComplete == Spec => []ArgvExact
  <1>1. ContractIInv => ArgvExact
    <2> SUFFICES ASSUME ContractIInv, stage = "script"
                 PROVE  margv = [j \in 1 .. Len(argv) - First |-> Cut(argv[j + First])]
      BY DEF ArgvExact
    <2>1. /\ i \in Nat /\ i >= First /\ i >= Len(argv) /\ margv = Collected
          /\ i = First \/ i <= Len(argv)
          /\ First \in {1, 2} /\ Len(argv) \in Nat
      BY DEF ContractIInv, ArgvSoFar, Inputs, First
    <2>2. 1 .. i - First = 1 .. Len(argv) - First BY <2>1
    <2> QED BY <2>1, <2>2 DEF Collected
  <1> QED BY <1>1, ContractInductive, PTL

\* A lock that lets a transaction pass has seen a signature that holds for the
\* key and the message it asked for, for every script, memory and argument
\* (secp256k1.c:85-156 behind the three main functions).
THEOREM LockNeedsSignature == Spec => []OnlySigned
  <1>1. ContractIInv => OnlySigned
    <2> SUFFICES ASSUME ContractIInv, code = 0, guarded
                 PROVE  Holds(call.key, call.msg, call.sig)
      BY DEF OnlySigned
    <2>1. code # NoCode BY DEF NoCode
    <2>2. stage = "exited" BY <2>1 DEF ContractIInv, TypeOK
    <2>3. fate = "ended" BY <2>2 DEF ContractIInv, ZeroMeansEnded
    <2>4. pc = "idle" /\ Verified BY <2>3 DEF ContractIInv, EndedExact
    <2> QED BY <2>4, VerifiedHolds DEF ContractIInv
  <1> QED BY <1>1, ContractInductive, PTL

-----------------------------------------------------------------------------
(* The gem within a contract.                                              *)

\* For a script the gem is what SignatureScheme promises, although errors of
\* the gem now end the script or are rescued, and an abort ends the program:
\* main, the loader and the script do nothing to it but call.
THEOREM SchemeKept ==
  Spec => Gem!Scheme!Init /\ [][Gem!Scheme!Next]_(Gem!Scheme!vars)
  <1>1. Gem!CapacityAssumption BY BoundAssumption DEF Gem!CapacityAssumption
  <1>2. Init => Gem!Scheme!Init
    BY <1>1, SameInit, Gem!SameTexts DEF Init, Gem!Init, Gem!Scheme!Init
  <1>3. ContractIInv /\ [Next]_vars => [Gem!Scheme!Next]_(Gem!Scheme!vars)
    <2> SUFFICES ASSUME ContractIInv, [Next]_vars
                 PROVE  [Gem!Scheme!Next]_(Gem!Scheme!vars)
      OBVIOUS
    <2>1. Gem!IInv BY SameInvariant DEF ContractIInv
    <2>2. [Gem!Next]_(Gem!vars)
      <3>1. CASE CallGem BY <3>1, SameBegin DEF CallGem, Gem!Next
      <3>2. CASE GemStep BY <3>2, SameStep DEF GemStep, Gem!Next
      <3>3. CASE \/ TooFewArguments \/ Open \/ PushArgument \/ Load \/ ScriptRaises
                 \/ Rescue \/ Propagate \/ ScriptEnds \/ Report \/ OutOfMemory
                 \/ UNCHANGED vars
        BY <3>3
           DEF TooFewArguments, Open, PushArgument, Load, ScriptRaises, Rescue, Propagate,
               ScriptEnds, Report, OutOfMemory, vars, gem, Gem!vars
      <3> QED BY <3>1, <3>2, <3>3 DEF Next
    <2> QED BY <1>1, <2>1, <2>2, Gem!StepRefines
  <1> QED BY <1>2, <1>3, ContractInductive, PTL DEF Spec

-----------------------------------------------------------------------------
(* How long a contract can take.                                           *)

\* Stages to come, ...
StagesLeft == CASE stage = "main"   -> 4
                [] stage = "argv"   -> 3
                [] stage = "script" -> 2
                [] stage = "report" -> 1
                [] OTHER            -> 0

\* ... arguments to read, ...
Unread == CASE stage = "main"                   -> Len(argv)
            [] stage = "argv" /\ i < Len(argv)  -> Len(argv) - i
            [] OTHER                            -> 0

\* ... an exception to come, and the moves and the steps of the gem: a call
\* is a move and makes six steps possible, a rescue is one and makes another
\* exception possible.
ToRaise == IF raised THEN 0 ELSE 1

Left == StagesLeft + Unread + 8 * (MaxMoves - moves) + ToRaise + Gem!StepsLeft

\* Sums are compared by their parts.
LEMMA FewerLeft ==
  ASSUME NEW s \in Nat, NEW u \in Nat, NEW m \in Nat, NEW r \in Nat, NEW g \in Nat,
         NEW s1 \in Nat, NEW u1 \in Nat, NEW m1 \in Nat, NEW r1 \in Nat, NEW g1 \in Nat,
         s1 + u1 + 8 * m1 + r1 + g1 < s + u + 8 * m + r + g,
         StagesLeft = s, Unread = u, MaxMoves - moves = m, ToRaise = r,
         Gem!StepsLeft = g,
         StagesLeft' = s1, Unread' = u1, MaxMoves - moves' = m1, ToRaise' = r1,
         (Gem!StepsLeft)' = g1
  PROVE  Left \in Nat /\ Left' \in Nat /\ Left' < Left
  BY DEF Left

\* What is left is a number, and what each of its parts is.
LEMMA LeftNumbers ==
  ASSUME ContractIInv
  PROVE  /\ StagesLeft \in Nat /\ Unread \in Nat /\ ToRaise \in 0 .. 1
         /\ MaxMoves - moves \in Nat /\ Gem!StepsLeft \in Nat
         /\ Len(argv) \in Nat /\ moves \in Nat
         /\ stage = "argv" => i \in Nat
         /\ pc \in {"idle", "aborted"} => Gem!StepsLeft = 0
  <1>1. Len(argv) \in Nat /\ moves \in 0 .. MaxMoves /\ MaxMoves \in Nat
    BY BoundAssumption DEF ContractIInv, Inputs, TypeOK
  <1>2. stage = "argv" => i \in Nat BY DEF ContractIInv, ArgvSoFar
  <1>3. Unread \in Nat BY <1>1, <1>2 DEF Unread
  <1> QED BY <1>1, <1>2, <1>3 DEF StagesLeft, ToRaise, Gem!StepsLeft

\* No move is made, and no part grows.
LEMMA PartLeaves ==
  ASSUME ContractIInv, UNCHANGED moves,
         StagesLeft' \in Nat, Unread' \in Nat, ToRaise' \in Nat, (Gem!StepsLeft)' \in Nat,
         StagesLeft' <= StagesLeft, Unread' <= Unread, ToRaise' <= ToRaise,
         (Gem!StepsLeft)' <= Gem!StepsLeft,
         \/ StagesLeft' < StagesLeft \/ Unread' < Unread
         \/ ToRaise' < ToRaise \/ (Gem!StepsLeft)' < Gem!StepsLeft
  PROVE  Left \in Nat /\ Left' \in Nat /\ Left' < Left
  <1>1. PICK s \in Nat, u \in Nat, r \in Nat, g \in Nat :
          StagesLeft' = s /\ Unread' = u /\ ToRaise' = r /\ (Gem!StepsLeft)' = g
    OBVIOUS
  <1> DEFINE m == MaxMoves - moves
  <1>2. MaxMoves - moves' = m OBVIOUS
  <1>3. /\ m \in Nat /\ StagesLeft \in Nat /\ Unread \in Nat /\ ToRaise \in Nat
        /\ Gem!StepsLeft \in Nat
    BY LeftNumbers
  <1>4. s + u + 8 * m + r + g < StagesLeft + Unread + 8 * m + ToRaise + Gem!StepsLeft
    BY <1>1, <1>3
  <1> HIDE DEF m
  <1> QED BY <1>1, <1>2, <1>3, <1>4, FewerLeft DEF m

\* A move is made, and gives the script and the gem seven steps at most.
LEMMA MoveLeaves ==
  ASSUME ContractIInv, moves < MaxMoves, moves' = moves + 1,
         UNCHANGED <<StagesLeft, Unread>>,
         ToRaise' \in 0 .. 1, (Gem!StepsLeft)' \in 0 .. 6
  PROVE  Left \in Nat /\ Left' \in Nat /\ Left' < Left
  <1> DEFINE n == MaxMoves - moves - 1
  <1>4. PICK r \in 0 .. 1, g \in 0 .. 6 : ToRaise' = r /\ (Gem!StepsLeft)' = g
    OBVIOUS
  <1>1. /\ MaxMoves \in Nat /\ moves \in Nat /\ StagesLeft \in Nat /\ Unread \in Nat
        /\ ToRaise \in Nat /\ Gem!StepsLeft \in Nat
    BY BoundAssumption, LeftNumbers
  <1>2. n \in Nat /\ MaxMoves - moves' = n /\ MaxMoves - moves = n + 1 BY <1>1
  <1>3. StagesLeft + Unread + 8 * n + r + g
          < StagesLeft + Unread + 8 * (n + 1) + ToRaise + Gem!StepsLeft
    BY <1>1, <1>2, <1>4
  <1> QED BY <1>1, <1>2, <1>3, <1>4, FewerLeft

LEMMA StepLeaves ==
  ASSUME ContractIInv, Next
  PROVE  Left \in Nat /\ Left' \in Nat /\ Left' < Left
  <1>1. CASE TooFewArguments \/ OutOfMemory
    <2>1. /\ StagesLeft \in {3, 4} /\ StagesLeft' = 0 /\ Unread' = 0
          /\ ToRaise' = ToRaise /\ moves' = moves /\ (Gem!StepsLeft)' = Gem!StepsLeft
      BY <1>1
         DEF TooFewArguments, OutOfMemory, Exit, StagesLeft, Unread, ToRaise, gem,
             Gem!StepsLeft
    <2> QED BY <2>1, LeftNumbers, PartLeaves
  <1>2. CASE Open
    <2>1. /\ StagesLeft = 4 /\ StagesLeft' = 3 /\ Unread = Len(argv)
          /\ ToRaise' = ToRaise /\ moves' = moves /\ (Gem!StepsLeft)' = Gem!StepsLeft
      BY <1>2
         DEF Open, StagesLeft, Unread, ToRaise, gem, Gem!StepsLeft
    <2>2. Len(argv) \in Nat /\ i' \in {1, 2} /\ argv' = argv /\ stage' = "argv"
      BY <1>2, LeftNumbers DEF Open, First, Same
    <2>3. Unread' \in Nat /\ Unread' <= Len(argv) BY <2>2 DEF Unread
    <2> QED BY <2>1, <2>3, LeftNumbers, PartLeaves
  <1>3. CASE PushArgument
    <2>1. /\ StagesLeft = 3 /\ StagesLeft' = 3
          /\ ToRaise' = ToRaise /\ moves' = moves /\ (Gem!StepsLeft)' = Gem!StepsLeft
          /\ Unread = Len(argv) - i
      BY <1>3
         DEF PushArgument, StagesLeft, Unread, ToRaise, gem, Gem!StepsLeft
    <2>2. /\ Len(argv) \in Nat /\ i \in Nat /\ i < Len(argv) /\ i' = i + 1
          /\ argv' = argv /\ stage' = "argv" /\ stage = "argv"
      BY <1>3, LeftNumbers DEF PushArgument, Same
    <2>3. Unread' \in Nat /\ Unread' < Len(argv) - i BY <2>2 DEF Unread
    <2> QED BY <2>1, <2>3, LeftNumbers, PartLeaves
  <1>4. CASE Load
    <2>1. /\ StagesLeft = 3 /\ StagesLeft' \in {1, 2}
          /\ Unread' = 0 /\ ToRaise' = ToRaise
          /\ moves' = moves /\ (Gem!StepsLeft)' = Gem!StepsLeft
      BY <1>4
         DEF Load, StagesLeft, Unread, ToRaise, gem, Gem!StepsLeft
    <2> QED BY <2>1, LeftNumbers, PartLeaves
  <1>5. CASE ScriptRaises
    <2>1. /\ StagesLeft' = StagesLeft /\ Unread' = Unread
          /\ ToRaise = 1 /\ ToRaise' = 0 /\ moves' = moves /\ (Gem!StepsLeft)' = Gem!StepsLeft
      BY <1>5
         DEF ScriptRaises, Running, Same, StagesLeft, Unread, ToRaise, gem, Gem!StepsLeft
    <2> QED BY <2>1, LeftNumbers, PartLeaves
  <1>6. CASE Propagate \/ ScriptEnds
    <2>1. /\ StagesLeft = 2 /\ StagesLeft' = 1 /\ Unread' = 0
          /\ ToRaise' = ToRaise /\ moves' = moves /\ (Gem!StepsLeft)' = Gem!StepsLeft
      BY <1>6
         DEF Propagate, ScriptEnds, Running, StagesLeft, Unread, ToRaise, gem, Gem!StepsLeft
    <2> QED BY <2>1, LeftNumbers, PartLeaves
  <1>7. CASE Report
    <2>1. /\ StagesLeft = 1 /\ StagesLeft' = 0 /\ Unread' = 0
          /\ ToRaise' = ToRaise /\ moves' = moves /\ (Gem!StepsLeft)' = Gem!StepsLeft
      BY <1>7
         DEF Report, Exit, StagesLeft, Unread, ToRaise, gem, Gem!StepsLeft
    <2> QED BY <2>1, LeftNumbers, PartLeaves
  <1>8. CASE Rescue
    <2>1. /\ StagesLeft' = StagesLeft /\ Unread' = Unread
          /\ ToRaise = 0 /\ ToRaise' = 1
          /\ moves < MaxMoves /\ moves' = moves + 1
          /\ Gem!StepsLeft = 0 /\ (Gem!StepsLeft)' = 0
      BY <1>8 DEF Rescue, Running, Same, StagesLeft, Unread, ToRaise, gem, Gem!StepsLeft
    <2> QED BY <2>1, LeftNumbers, MoveLeaves
  <1>9. CASE CallGem
    <2>1. /\ StagesLeft' = StagesLeft /\ Unread' = Unread /\ ToRaise' = ToRaise
          /\ moves < MaxMoves /\ moves' = moves + 1
          /\ Gem!StepsLeft = 0 /\ (Gem!StepsLeft)' = 6
      BY <1>9
         DEF CallGem, Running, Same, StagesLeft, Unread, ToRaise, Secp!Begin, Gem!StepsLeft
    <2> QED BY <2>1, LeftNumbers, MoveLeaves
  <1>10. CASE GemStep
    <2>1. /\ Gem!StepsLeft \in 1 .. 6 /\ (Gem!StepsLeft)' \in 0 .. 6
          /\ (Gem!StepsLeft)' < Gem!StepsLeft
      <3>1. Gem!CapacityAssumption BY BoundAssumption DEF Gem!CapacityAssumption
      <3>2. Gem!Step BY <1>10, SameStep DEF GemStep
      <3> QED BY <3>1, <3>2, Gem!StepShortens
    <2>2. ~ raised
      BY <1>10, GemStepFacts DEF ContractIInv, GemStep, StagesExact
    <2>3. /\ StagesLeft = 2 /\ StagesLeft' \in {0, 2} /\ Unread = 0 /\ Unread' = 0
          /\ ToRaise = 1 /\ ToRaise' \in {0, 1} /\ moves' = moves
      BY <1>10, <2>2 DEF GemStep, Exit, StagesLeft, Unread, ToRaise
    <2> QED BY <2>1, <2>3, LeftNumbers, PartLeaves
  <1> QED BY <1>1, <1>2, <1>3, <1>4, <1>5, <1>6, <1>7, <1>8, <1>9, <1>10 DEF Next

\* Every step of a contract leaves less to do, main, the loader, the script and
\* the gem together, so that after finitely many it ends or stays where it is.
THEOREM EveryStepLeavesLess ==
  Spec => [][Left' < Left /\ Left \in Nat /\ Left' \in Nat]_vars
  <1>1. ContractIInv /\ [Next]_vars
          => [Left' < Left /\ Left \in Nat /\ Left' \in Nat]_vars
    BY StepLeaves
  <1> QED BY <1>1, ContractInductive, PTL DEF Spec
=============================================================================
