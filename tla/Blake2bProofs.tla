--------------------------- MODULE Blake2bProofs ---------------------------
(***************************************************************************)
(* Proofs about Blake2b for every block, word and digest size, every set   *)
(* of bytes, every bound on the strings and whatever the upper half of a   *)
(* size_t holds above an mrb_int: IInv is inductive, from which            *)
(* the invariants of the model-checked run and the refinement of           *)
(* Blake2bHash follow.  The lemmas come first: modular arithmetic of the   *)
(* counter, cut and copied strings, then one lemma per action.             *)
(***************************************************************************)
EXTENDS Blake2b, TLAPS, SequenceTheorems

USE DEF IsLastBlock

-----------------------------------------------------------------------------
(* The counter.                                                            *)

\* A number below n is its own remainder.
LEMMA ModSmall == ASSUME NEW a \in Nat, NEW n \in Nat, a < n PROVE a % n = a
  BY SMT

\* A sum that passes n once comes back by n.
LEMMA ModOnce == ASSUME NEW a \in Nat, NEW n \in Nat, n <= a, a < 2 * n
                 PROVE a % n = a - n
  <1>1. a - n \in Nat /\ a - n < n BY SMT
  <1>2. (a - n) % n = a - n BY <1>1, ModSmall
  <1>3. a % n = (a - n) % n BY SMT
  <1> QED BY <1>2, <1>3

\* One step of the two-word counter (blake2b.h:225-229) is one addition.
LEMMA CounterStep ==
  ASSUME t0 \in 0 .. Word - 1, t1 \in 0 .. Word - 1,
         NEW inc \in 0 .. Word, t0 + Word * t1 + inc < Word * Word
  PROVE  /\ AddLow(inc) \in 0 .. Word - 1
         /\ (t1 + Carry(inc)) % Word \in 0 .. Word - 1
         /\ AddLow(inc) + Word * ((t1 + Carry(inc)) % Word)
              = t0 + Word * t1 + inc
  <1>0. Word \in Nat /\ Word > 0 BY CounterAssumption, ParameterAssumption
  <1>1. CASE t0 + inc < Word
    <2>1. AddLow(inc) = t0 + inc BY <1>0, <1>1, ModSmall DEF AddLow
    <2>2. Carry(inc) = 0 BY <1>0, <2>1 DEF Carry
    <2>3. (t1 + Carry(inc)) % Word = t1 BY <1>0, <2>2, ModSmall
    <2> QED BY <1>0, <1>1, <2>1, <2>3
  <1>2. CASE Word <= t0 + inc
    <2>1. AddLow(inc) = t0 + inc - Word
      BY <1>0, <1>2, ModOnce DEF AddLow
    <2>2. Carry(inc) = 1 BY <1>0, <2>1 DEF Carry
    <2>3. t1 + 1 < Word
      <3>1. Word * (t1 + 1) <= t0 + Word * t1 + inc BY <1>0, <1>2
      <3>2. Word * (t1 + 1) < Word * Word BY <1>0, <3>1
      <3> QED BY <1>0, <3>2
    <2>4. (t1 + Carry(inc)) % Word = t1 + 1 BY <1>0, <2>2, <2>3, ModSmall
    <2> QED BY <1>0, <1>2, <2>1, <2>3, <2>4
  <1> QED BY <1>0, <1>1, <1>2

-----------------------------------------------------------------------------
(* Sequences of bytes and the buffer.                                      *)

\* What the assumptions say about a block.
LEMMA Blocks == BlockBytes \in Nat /\ BlockBytes > 0 /\ Zero \in Byte
  BY ParameterAssumption

\* A string given to update is a finite sequence of bytes, and so is what
\* update takes: the string, or IntMod bytes more at least.
LEMMA PieceFacts ==
  ASSUME NEW m \in Strings, NEW t \in Pieces(m)
  PROVE  /\ m \in Seq(Byte) /\ Len(m) \in Nat
         /\ t \in Seq(Byte) /\ Len(t) \in Nat
         /\ Len(h) * BlockBytes + buflen + Len(t) <= MaxMessage
         /\ t = m \/ (Hash!LengthStrays /\ Len(t) >= Len(m) + IntMod)
  <1>1. PICK n \in 0 .. MaxUpdate : m \in [1 .. n -> Byte]
    BY DEF Strings, BoundedSeq, SeqOf
  <1>2. n \in Nat BY <1>1, ParameterAssumption
  <1>3. m \in Seq(Byte) BY <1>1, <1>2, SeqDef
  <1>4. PICK k \in UpperHalf :
          \E behind \in [1 .. k * IntMod -> Byte] : t = m \o behind
    BY DEF Pieces, Hash!Taken
  <1>5. PICK behind \in [1 .. k * IntMod -> Byte] : t = m \o behind BY <1>4
  <1>6. k \in Nat /\ IntMod \in Nat BY <1>4, LengthAssumption
  <1>7. k * IntMod \in Nat BY <1>6
  <1>8. behind \in Seq(Byte) BY <1>5, <1>7, SeqDef
  <1>9. Len(behind) = k * IntMod
    <2>1. DOMAIN behind = 1 .. k * IntMod BY <1>5
    <2>2. DOMAIN behind = 1 .. Len(behind) /\ Len(behind) \in Nat
      BY <1>8, LenProperties
    <2> QED BY <1>7, <2>1, <2>2
  <1>10. t \in Seq(Byte) /\ Len(t) = Len(m) + k * IntMod
    BY <1>3, <1>5, <1>8, <1>9, ConcatProperties
  <1>11. CASE k = 0
    <2>1. Len(behind) = 0 BY <1>6, <1>9, <1>11
    <2>2. behind = <<>> BY <1>8, <2>1, EmptySeq
    <2>3. t = m BY <1>3, <1>5, <2>2, ConcatEmptySeq
    <2> QED BY <1>3, <1>10, <2>3, LenProperties DEF Pieces
  <1>12. CASE k > 0
    <2>1. Hash!LengthStrays BY <1>4, <1>12 DEF Hash!LengthStrays
    <2>2. k * IntMod >= IntMod BY <1>6, <1>12
    <2>3. Len(m) \in Nat BY <1>3, LenProperties
    <2>4. Len(t) >= Len(m) + IntMod BY <1>6, <1>7, <1>10, <2>2, <2>3
    <2> QED BY <1>3, <1>10, <2>1, <2>4, LenProperties DEF Pieces
  <1> QED BY <1>6, <1>11, <1>12

\* What the two halves of a cut string are.
LEMMA CutFacts ==
  ASSUME NEW S, NEW s \in Seq(S), NEW n \in 0 .. Len(s)
  PROVE  /\ Left(s, n) \in Seq(S) /\ Len(Left(s, n)) = n
         /\ \A i \in 1 .. n : Left(s, n)[i] = s[i]
         /\ Rest(s, n) \in Seq(S) /\ Len(Rest(s, n)) = Len(s) - n
         /\ \A i \in 1 .. Len(s) - n : Rest(s, n)[i] = s[n + i]
  <1>1. Len(s) \in Nat /\ \A i \in 1 .. Len(s) : s[i] \in S
    BY LenProperties, ElementOfSeq
  <1>2. /\ Left(s, n) \in Seq(S)
        /\ Len(Left(s, n)) = IF 1 <= n THEN n - 1 + 1 ELSE 0
        /\ \A i \in 1 .. n - 1 + 1 : Left(s, n)[i] = s[1 + i - 1]
    <2>1. \A i \in 1 .. n : s[i] \in S BY <1>1
    <2> QED BY <1>1, <2>1, SubSeqProperties DEF Left
  <1>3. /\ Rest(s, n) \in Seq(S)
        /\ Len(Rest(s, n)) = IF n + 1 <= Len(s) THEN Len(s) - (n + 1) + 1 ELSE 0
        /\ \A i \in 1 .. Len(s) - (n + 1) + 1 : Rest(s, n)[i] = s[n + 1 + i - 1]
    <2>1. \A i \in n + 1 .. Len(s) : s[i] \in S BY <1>1
    <2>2. n + 1 \in Int /\ Len(s) \in Int BY <1>1
    <2> QED BY <2>1, <2>2, SubSeqProperties DEF Rest
  <1> QED BY <1>1, <1>2, <1>3

\* memcpy into the buffer leaves a buffer.
LEMMA MemCpyType ==
  ASSUME NEW b \in [Slots -> Byte], NEW left \in Nat, NEW s \in Seq(Byte)
  PROVE  MemCpy(b, left, s) \in [Slots -> Byte]
  <1>1. Len(s) \in Nat /\ \A i \in 1 .. Len(s) : s[i] \in Byte
    BY LenProperties, ElementOfSeq
  <1> QED BY <1>1, Blocks DEF MemCpy, Slots

\* The block that follows in the message is a block.
LEMMA BlockAfterType ==
  ASSUME NEW msg \in Seq(Byte), NEW k \in Nat
  PROVE  Hash!BlockAfter(msg, k) \in [Slots -> Byte]
  <1>1. Len(msg) \in Nat /\ \A i \in 1 .. Len(msg) : msg[i] \in Byte
    BY LenProperties, ElementOfSeq
  <1> QED BY <1>1, Blocks DEF Hash!BlockAfter, Slots

\* Feeding more bytes does not change a block that was already full.
LEMMA InnerInputStable ==
  ASSUME NEW msg \in Seq(Byte), NEW m \in Seq(Byte), NEW i \in Nat \ {0},
         i * BlockBytes <= Len(msg)
  PROVE  Hash!InnerInput(msg \o m, i) = Hash!InnerInput(msg, i)
  <1> DEFINE k == (i - 1) * BlockBytes
  <1>1. k \in Nat /\ k + BlockBytes <= Len(msg) /\ Len(msg) \in Nat
    <2>1. k + BlockBytes = i * BlockBytes BY Blocks
    <2>2. k \in Nat BY Blocks
    <2> QED BY <2>1, <2>2, LenProperties
  <1>2. Hash!BlockAfter(msg \o m, k) = Hash!BlockAfter(msg, k)
    <2>1. Len(msg \o m) = Len(msg) + Len(m) /\ Len(m) \in Nat
      BY ConcatProperties, LenProperties
    <2>2. \A j \in 1 .. BlockBytes :
            /\ k + j <= Len(msg) /\ k + j <= Len(msg \o m)
            /\ (msg \o m)[k + j] = msg[k + j]
      <3> HIDE DEF k
      <3> TAKE j \in 1 .. BlockBytes
      <3>1. k + j \in 1 .. Len(msg) + Len(m) /\ k + j <= Len(msg)
        BY <1>1, <2>1, Blocks
      <3> QED BY <1>1, <2>1, <3>1, ConcatProperties
    <2> HIDE DEF k
    <2> QED BY <2>2 DEF Hash!BlockAfter
  <1> QED BY <1>2 DEF Hash!InnerInput

-----------------------------------------------------------------------------
(* The invariant, action by action.                                        *)

\* A digest or garbage is an answer.
LEMMA AnswerType ==
  ASSUME NEW kind \in {"none", "digest", "garbage", "raised"},
         NEW n \in Int, NEW hash \in Seq(Inputs)
  PROVE  Hash!Answer(kind, n, hash) \in Answers
  BY DEF Hash!Answer, Answers

\* So is the answer nobody gave yet.
LEMMA NoAnswerType == Hash!NoAnswer \in Answers
  <1>1. <<>> \in Seq(Inputs) BY EmptySeq
  <1> QED BY <1>1 DEF Hash!NoAnswer, Hash!Answer, Answers

\* The empty hash state and the empty message.
LEMMA EmptySeqs == /\ <<>> \in Seq(Inputs) /\ <<>> \in Seq(Byte)
                   /\ Len(<<>>) = 0
  <1>1. \A S : <<>> \in Seq(S) BY EmptySeq
  <1> QED BY <1>1

\* The buffer that init clears.
LEMMA EmptyBuffer == [j \in Slots |-> Zero] \in [Slots -> Byte]
  BY Blocks

\* Before the first call.
LEMMA InitIInv == Init => IInv
  <1> SUFFICES ASSUME Init PROVE IInv
    OBVIOUS
  <1> USE Blocks, CounterAssumption DEF Init
  <1>1. TypeOK
    <2>1. pc \in Phases BY DEF Phases
    <2>2. outlen \in Int BY DEF Init
    <2>3. h \in Seq(Inputs) /\ in \in Seq(Byte)
          /\ given \in Seq(Byte) /\ message \in Seq(Byte)
      BY EmptySeqs DEF Init
    <2>4. t0 \in 0 .. Word - 1 /\ t1 \in 0 .. Word - 1 BY DEF Init
    <2>5. buf \in [Slots -> Byte] BY EmptyBuffer DEF Init
    <2>6. buflen \in 0 .. BlockBytes BY DEF Init
    <2>7. f0 \in BOOLEAN BY DEF Init
    <2>8. ret \in Answers BY NoAnswerType
    <2> QED BY <2>1, <2>2, <2>3, <2>4, <2>5, <2>6, <2>7, <2>8
           DEF TypeOK
  <1> QED
    BY <1>1 DEF BlocksStartEmpty, IInv, Open, BytesAccounted, CounterExact, MessageHeld,
       DigestCorrect, TakenAsGiven, AnswerFresh, Bounded, Hash!NoAnswer,
       Hash!Answer

\* A state just initialised, whatever the length asked for.
LEMMA ResetIInv ==
  ASSUME NEW n \in Int, ResetState(n), pc' \in {"ready", "indeterminate"},
         in' = <<>>, given' = <<>>, message' = <<>>, ret' = Hash!NoAnswer
  PROVE  IInv'
  <1> USE Blocks, CounterAssumption DEF ResetState
  <1>1. TypeOK'
    <2>1. pc' \in Phases BY DEF Phases
    <2>2. outlen' \in Int BY DEF ResetState
    <2>3. h' \in Seq(Inputs) /\ in' \in Seq(Byte)
          /\ given' \in Seq(Byte) /\ message' \in Seq(Byte)
      BY EmptySeqs DEF ResetState
    <2>4. t0' \in 0 .. Word - 1 /\ t1' \in 0 .. Word - 1 BY DEF ResetState
    <2>5. buf' \in [Slots -> Byte] BY EmptyBuffer DEF ResetState
    <2>6. buflen' \in 0 .. BlockBytes BY DEF ResetState
    <2>7. f0' \in BOOLEAN BY DEF ResetState
    <2>8. ret' \in Answers BY NoAnswerType
    <2> QED BY <2>1, <2>2, <2>3, <2>4, <2>5, <2>6, <2>7, <2>8
           DEF TypeOK
  <1>2. BytesAccounted' /\ CounterExact' /\ Bounded'
    BY EmptySeq DEF BytesAccounted, CounterExact, Bounded
  <1>3. MessageHeld'
    BY DEF MessageHeld
  <1>4. AnswerFresh' /\ DigestCorrect' /\ TakenAsGiven'
    BY DEF AnswerFresh, DigestCorrect, TakenAsGiven, Hash!NoAnswer, Hash!Answer
  <1> QED BY <1>1, <1>2, <1>3, <1>4 DEF IInv, BlocksStartEmpty

\* initialize, accepted or not (mruby_blake2b.c:14-27).
LEMMA InitializeIInv == Initialize \/ InitializeRejected => IInv'
  <1>1. ASSUME Initialize PROVE IInv'
    <2>1. PICK n \in OutLens : ResetState(n) BY <1>1 DEF Initialize
    <2>2. n \in Int BY ParameterAssumption
    <2> QED BY <1>1, <2>1, <2>2, ResetIInv DEF Initialize
  <1>2. ASSUME InitializeRejected PROVE IInv'
    BY <1>2, ResetIInv DEF InitializeRejected
  <1> QED BY <1>1, <1>2

\* The calls that leave the state of the hash alone.
LEMMA IdleIInv ==
  ASSUME IInv,
         FinalAgain \/ UseBeforeInitialize \/ UseIndeterminate
  PROVE  IInv'
  <1> USE DEF IInv
  <1>1. TypeOK'
    <2>1. \A n \in OutLens : n \in Int BY ParameterAssumption
    <2>2. ASSUME NEW kind \in {"garbage", "raised"}, NEW n \in Int,
                 ret' = Hash!Answer(kind, n, <<>>)
          PROVE  ret' \in Answers
      <3>1. <<>> \in Seq(Inputs) BY EmptySeqs
      <3> QED BY <2>2, <3>1 DEF Hash!Answer, Answers
    <2>3. ret' \in Answers
      BY <2>1, <2>2 DEF TypeOK, FinalAgain, UseBeforeInitialize,
         UseIndeterminate
    <2> QED BY <2>3 DEF TypeOK, Phases, FinalAgain,
               UseBeforeInitialize, UseIndeterminate
  <1>2. Open' <=> Open
    BY DEF TypeOK, Open, FinalAgain, UseBeforeInitialize, UseIndeterminate
  <1>3. UNCHANGED <<h, t0, t1, buf, buflen, in, given, message>>
    BY DEF FinalAgain, UseBeforeInitialize, UseIndeterminate
  <1>4. Open => pc' = pc
    BY DEF Open, FinalAgain, UseBeforeInitialize, UseIndeterminate
  <1>5. BytesAccounted' /\ CounterExact' /\ MessageHeld' /\ Bounded'
    BY <1>2, <1>3, <1>4 DEF BytesAccounted, CounterExact, MessageHeld,
       Bounded, Uncompressed
  <1>5a. TakenAsGiven' BY <1>3 DEF TakenAsGiven
  <1>6. AnswerFresh' /\ DigestCorrect'
    BY <1>2, <1>3, <1>5a DEF AnswerFresh, DigestCorrect, FinalAgain, UseBeforeInitialize,
       UseIndeterminate, Hash!Answer, Open
  <1>7. BlocksStartEmpty'
    BY DEF BlocksStartEmpty, FinalAgain, UseBeforeInitialize,
       UseIndeterminate
  <1> QED BY <1>1, <1>5, <1>5a, <1>6, <1>7

\* An update that ran out of the memory: nothing is held any more.
LEMMA StraysIInv == IInv /\ UpdateStrays => IInv'
  <1> SUFFICES ASSUME IInv, UpdateStrays PROVE IInv'
    OBVIOUS
  <1>1. /\ pc = "ready" /\ pc' = "crashed"
        /\ UNCHANGED <<outlen, h, t0, t1, f0, buf, buflen, in, given, message, ret>>
    BY DEF UpdateStrays
  <1>2. TypeOK' BY <1>1 DEF IInv, TypeOK, Phases
  <1>3. TakenAsGiven' /\ DigestCorrect'
    BY <1>1 DEF IInv, TakenAsGiven, DigestCorrect
  <1>4. ~ Open' /\ pc' # "blocks" /\ pc' # "indeterminate" BY <1>1 DEF Open
  <1> QED BY <1>2, <1>3, <1>4 DEF IInv, BytesAccounted, CounterExact,
          MessageHeld, AnswerFresh, Bounded, BlocksStartEmpty

\* The bytes of a longer message are those of its beginning.
LEMMA MessageGrows ==
  ASSUME NEW msg \in Seq(Byte), NEW m \in Seq(Byte), NEW n \in Nat,
         NEW g \in Seq(Inputs), Len(g) = n, n * BlockBytes <= Len(msg),
         \A i \in 1 .. n : g[i] = Hash!InnerInput(msg, i)
  PROVE  \A i \in 1 .. n : g[i] = Hash!InnerInput(msg \o m, i)
  <1> TAKE i \in 1 .. n
  <1>1. i \in Nat \ {0} /\ i * BlockBytes <= n * BlockBytes
    BY Blocks
  <1>2. i * BlockBytes \in Nat /\ n * BlockBytes \in Nat BY Blocks
  <1>3. i * BlockBytes <= Len(msg) BY <1>1, <1>2, LenProperties
  <1> QED BY <1>1, <1>3, InnerInputStable

\* The strings given and the bytes taken grow together.
LEMMA FeedFacts ==
  ASSUME TypeOK, TakenAsGiven,
         NEW m \in Strings, NEW t \in Pieces(m), Feed(m, t)
  PROVE  given' \in Seq(Byte) /\ message' \in Seq(Byte) /\ TakenAsGiven'
  <1>1. /\ m \in Seq(Byte) /\ Len(m) \in Nat
        /\ t \in Seq(Byte) /\ Len(t) \in Nat
        /\ t = m \/ (Hash!LengthStrays /\ Len(t) >= Len(m) + IntMod)
    BY PieceFacts
  <1>2. CASE f0
    <2>1. given' = given /\ message' = message BY <1>2 DEF Feed
    <2> QED BY <2>1 DEF TypeOK, TakenAsGiven
  <1>3. CASE ~ f0
    <2>1. given' = given \o m /\ message' = message \o t BY <1>3 DEF Feed
    <2>2. /\ given' \in Seq(Byte) /\ Len(given') = Len(given) + Len(m)
          /\ message' \in Seq(Byte) /\ Len(message') = Len(message) + Len(t)
          /\ Len(given) \in Nat /\ Len(message) \in Nat
      BY <1>1, <2>1, ConcatProperties, LenProperties DEF TypeOK
    <2>3. IntMod \in Nat BY LengthAssumption
    <2>4. CASE message = given /\ t = m BY <2>1, <2>2, <2>4 DEF TakenAsGiven
    <2>5. CASE message = given /\ Hash!LengthStrays /\ Len(t) >= Len(m) + IntMod
      <3>1. Len(message') >= Len(given') + IntMod
        BY <1>1, <2>2, <2>3, <2>5
      <3> QED BY <2>2, <2>5, <3>1 DEF TakenAsGiven, Hash!LengthStrays
    <2>6. CASE Hash!LengthStrays /\ Len(message) >= Len(given) + IntMod
      <3>1. Len(t) >= Len(m) BY <1>1, <2>3
      <3>2. Len(message') >= Len(given') + IntMod
        BY <1>1, <2>2, <2>3, <2>6, <3>1
      <3> QED BY <2>2, <2>6, <3>2 DEF TakenAsGiven, Hash!LengthStrays
    <2> QED BY <1>1, <2>2, <2>4, <2>5, <2>6 DEF TakenAsGiven
  <1> QED BY <1>2, <1>3

\* An update that fits the buffer (blake2b.h:404-406).
LEMMA UpdateBufferIInv == IInv /\ UpdateBuffer => IInv'
  <1> SUFFICES ASSUME IInv, UpdateBuffer PROVE IInv'
    OBVIOUS
  <1> DEFINE k == Len(h) * BlockBytes
  <1>0. PICK m \in Strings : \E t \in Pieces(m) :
          /\ Fits(t)
          /\ buf' = MemCpy(buf, buflen, t)
          /\ buflen' = buflen + Len(t)
          /\ Feed(m, t)
    BY DEF UpdateBuffer
  <1>1. PICK t \in Pieces(m) :
          /\ Fits(t)
          /\ buf' = MemCpy(buf, buflen, t)
          /\ buflen' = buflen + Len(t)
          /\ Feed(m, t)
    BY <1>0
  <1>2. UNCHANGED <<pc, outlen, h, t0, t1, f0, in, ret>> /\ pc = "ready"
    BY DEF UpdateBuffer
  <1>3. TypeOK BY DEF IInv
  <1>4. /\ t \in Seq(Byte) /\ Len(t) \in Nat /\ k + buflen + Len(t) <= MaxMessage
        /\ Len(h) \in Nat /\ k \in Nat /\ buflen \in Nat
        /\ message \in Seq(Byte) /\ Len(message) \in Nat
    BY <1>3, PieceFacts, Blocks, LenProperties DEF TypeOK
  <1>5. TypeOK'
    <2>1. buf' \in [Slots -> Byte] BY <1>1, <1>3, <1>4, MemCpyType DEF TypeOK
    <2>2. buflen' \in 0 .. BlockBytes BY <1>1, <1>3, <1>4, Blocks DEF Fits
    <2>3. given' \in Seq(Byte) /\ message' \in Seq(Byte)
      BY <1>1, <1>3, FeedFacts DEF IInv
    <2> QED BY <1>2, <1>3, <2>1, <2>2, <2>3 DEF TypeOK
  <1>6. TakenAsGiven' BY <1>1, <1>3, FeedFacts DEF IInv
  <1>6a. DigestCorrect'
    BY <1>1, <1>2, <1>6 DEF IInv, DigestCorrect, AnswerFresh, Open, Feed
  <1>7. AnswerFresh' BY <1>2 DEF IInv, AnswerFresh, Open
  <1>8. CASE f0
    BY <1>2, <1>5, <1>6, <1>6a, <1>7, <1>8 DEF BlocksStartEmpty, IInv, BytesAccounted, CounterExact,
       MessageHeld, Bounded, Open
  <1>9. CASE ~ f0
    <2>1. message' = message \o t BY <1>1, <1>9 DEF Feed
    <2>2. Open BY <1>2, <1>9 DEF Open
    <2>3. Len(message) = k + buflen /\ in = <<>> /\ in' = <<>> /\ Len(in) = 0
      BY <1>2, <1>4, <2>2, EmptySeqs DEF IInv, BytesAccounted
    <2>4. Len(message') = k + buflen'
      <3>1. Len(message') = Len(message) + Len(t)
        BY <1>4, <2>1, ConcatProperties
      <3> QED BY <1>1, <1>4, <2>3, <3>1
    <2>5. BytesAccounted'
      <3>1. buflen' = 0 => message' = <<>>
        <4>1. buflen' = 0 => Len(t) = 0 /\ buflen = 0 BY <1>1, <1>4
        <4>2. buflen = 0 => message = <<>> BY <1>2, <1>4, <2>2
              DEF IInv, BytesAccounted
        <4>3. Len(t) = 0 => t = <<>> BY <1>4, EmptySeq
        <4> QED BY <2>1, <4>1, <4>2, <4>3, EmptySeqs, ConcatEmptySeq
      <3>2. buflen' \in Nat BY <1>1, <1>4
      <3> QED BY <1>2, <1>4, <2>3, <2>4, <3>1, <3>2 DEF BytesAccounted
    <2>6. CounterExact' BY <1>2, <2>2 DEF IInv, CounterExact
    <2>7. \A i \in 1 .. Len(h) : h[i] = Hash!InnerInput(message', i)
      <3>1. h \in Seq(Inputs) BY <1>3 DEF TypeOK
      <3>2. \A i \in 1 .. Len(h) : h[i] = Hash!InnerInput(message, i)
        BY <2>2 DEF IInv, MessageHeld
      <3>3. Len(h) * BlockBytes <= Len(message) BY <1>4, <2>3
      <3> QED BY <1>4, <2>1, <3>1, <3>2, <3>3, MessageGrows
    <2>8. \A j \in 1 .. buflen' : buf'[j] = message'[k + j]
      <3> TAKE j \in 1 .. buflen'
      <3>1. j \in Slots BY <1>1, <1>3, <1>4, Blocks DEF Slots, Fits
      <3>2. buf'[j] = IF buflen < j THEN t[j - buflen] ELSE buf[j]
        BY <1>1, <1>4, <3>1 DEF MemCpy
      <3>3. message'[k + j] = IF k + j <= Len(message) THEN message[k + j]
                                                      ELSE t[k + j - Len(message)]
        <4>1. k + j \in 1 .. Len(message) + Len(t) BY <1>1, <1>4, <2>3
        <4> QED BY <1>4, <2>1, <4>1, ConcatProperties
      <3>4. j <= buflen => buf[j] = message[k + j]
        BY <1>4, <2>2 DEF IInv, MessageHeld, Uncompressed
      <3> QED BY <1>4, <2>3, <3>2, <3>3, <3>4
    <2>9. MessageHeld'
      BY <1>2, <2>3, <2>7, <2>8 DEF MessageHeld, Uncompressed
    <2>10. Bounded' BY <1>1, <1>4, <2>4 DEF Bounded
    <2> QED BY <1>2, <1>5, <1>6, <1>6a, <1>7, <2>5, <2>6, <2>9, <2>10
            DEF IInv, BlocksStartEmpty
  <1> QED BY <1>8, <1>9

-----------------------------------------------------------------------------
(* A step that compresses a block.                                         *)

\* The words of the counter stay words.
LEMMA CounterType ==
  ASSUME TypeOK, NEW inc \in Nat, IncrementCounter(inc)
  PROVE  t0' \in 0 .. Word - 1 /\ t1' \in 0 .. Word - 1
  <1>1. Word \in Nat /\ Word > 0 BY Blocks, CounterAssumption
  <1>2. \A n \in Nat : n % Word \in 0 .. Word - 1 BY <1>1
  <1>3. t0 \in Nat /\ t1 \in Nat BY <1>1 DEF TypeOK
  <1>4. Carry(inc) \in Nat BY DEF Carry
  <1>5. t0 + inc \in Nat /\ t1 + Carry(inc) \in Nat BY <1>3, <1>4
  <1> QED BY <1>2, <1>5 DEF IncrementCounter, AddLow

\* Two words of the counter make a natural number.
LEMMA WordSum ==
  ASSUME NEW w \in Nat, NEW lo \in Nat, NEW hi \in Nat
  PROVE  lo + w * hi \in Nat
  <1>1. w * hi \in Nat OBVIOUS
  <1> QED BY <1>1

\* What a call of blake2b_compress changes.
LEMMA CompressFacts ==
  ASSUME TypeOK, NEW block \in [Slots -> Byte], Compress(block),
         t0' \in 0 .. Word - 1, t1' \in 0 .. Word - 1, f0' \in BOOLEAN
  PROVE  /\ h' \in Seq(Inputs)
         /\ Len(h') = Len(h) + 1
         /\ \A i \in 1 .. Len(h) : h'[i] = h[i]
         /\ h'[Len(h) + 1] = Hash!Input(block, t0' + Word * t1', f0')
  <1> DEFINE new == Hash!Input(block, t0' + Word * t1', f0')
  <1>1. t0' + Word * t1' \in Nat
    <2>1. Word \in Nat /\ t0' \in Nat /\ t1' \in Nat BY CounterAssumption
    <2> QED BY <2>1, WordSum
  <1>2. new \in Inputs BY <1>1 DEF Inputs, Hash!Input
  <1>3. h \in Seq(Inputs) /\ h' = Append(h, new) BY DEF TypeOK, Compress
  <1> HIDE DEF new
  <1>4. h' \in Seq(Inputs) /\ Len(h') = Len(h) + 1 /\ h'[Len(h) + 1] = new
        /\ \A i \in 1 .. Len(h) : h'[i] = h[i]
    BY <1>2, <1>3, AppendProperties
  <1> QED BY <1>4 DEF new

\* The block that is compressed is the next one of the message.
LEMMA BlockIsNext ==
  ASSUME NEW block \in [Slots -> Byte], NEW msg \in Seq(Byte), NEW k \in Nat,
         k + BlockBytes <= Len(msg),
         \A j \in Slots : block[j] = msg[k + j]
  PROVE  block = Hash!BlockAfter(msg, k)
  <1>1. Len(msg) \in Nat BY LenProperties
  <1>2. \A j \in 1 .. BlockBytes : k + j <= Len(msg) BY <1>1, Blocks
  <1>3. block = [j \in 1 .. BlockBytes |-> block[j]] BY DEF Slots
  <1>4. \A j \in 1 .. BlockBytes : block[j] = msg[k + j] BY DEF Slots
  <1> QED BY <1>2, <1>3, <1>4 DEF Hash!BlockAfter

\* A full block that is not the last one: the chain stays that of the message.
LEMMA InnerStep ==
  ASSUME TypeOK, ~ f0, UNCHANGED f0, CounterExact, Open,
         NEW msg \in Seq(Byte), Len(msg) <= MaxMessage,
         Len(h) * BlockBytes + BlockBytes <= Len(msg),
         \A i \in 1 .. Len(h) : h[i] = Hash!InnerInput(msg, i),
         NEW block \in [Slots -> Byte],
         \A j \in Slots : block[j] = msg[Len(h) * BlockBytes + j],
         IncrementCounter(BlockBytes), Compress(block)
  PROVE  /\ t0' + Word * t1' = Len(h') * BlockBytes
         /\ Len(h') * BlockBytes = Len(h) * BlockBytes + BlockBytes
         /\ \A i \in 1 .. Len(h') : h'[i] = Hash!InnerInput(msg, i)
  <1> DEFINE k == Len(h) * BlockBytes
  <1>1. /\ Len(h) \in Nat /\ k \in Nat /\ Len(msg) \in Nat
        /\ k + BlockBytes = (Len(h) + 1) * BlockBytes
    BY Blocks, LenProperties DEF TypeOK
  <1>2. t0 + Word * t1 = k BY DEF CounterExact
  <1>3. /\ t0' \in 0 .. Word - 1 /\ t1' \in 0 .. Word - 1
        /\ t0' + Word * t1' = k + BlockBytes
    <2>1. k + BlockBytes < Word * Word
      <3>1. Word * Word \in Nat /\ MaxMessage < Word * Word /\ MaxMessage \in Nat
        BY CounterAssumption
      <3> QED BY <1>1, <3>1, Blocks
    <2>2. BlockBytes \in 0 .. Word BY Blocks, CounterAssumption
    <2> HIDE DEF k
    <2> QED BY <1>2, <2>1, <2>2, CounterStep DEF TypeOK, IncrementCounter
  <1>4. f0' \in BOOLEAN /\ f0' = FALSE BY DEF TypeOK
  <1>5. /\ Len(h') = Len(h) + 1
        /\ \A i \in 1 .. Len(h) : h'[i] = h[i]
        /\ h'[Len(h) + 1] = Hash!Input(block, t0' + Word * t1', f0')
    BY <1>3, <1>4, CompressFacts
  <1>6. block = Hash!BlockAfter(msg, k)
    BY <1>1, BlockIsNext
  <1>7. h'[Len(h) + 1] = Hash!InnerInput(msg, Len(h) + 1)
    <2> DEFINE n == Len(h) + 1
    <2>1. (n - 1) * BlockBytes = k /\ n * BlockBytes = k + BlockBytes BY <1>1
    <2>2. Hash!InnerInput(msg, n)
            = Hash!Input(Hash!BlockAfter(msg, (n - 1) * BlockBytes),
                         n * BlockBytes, FALSE)
      BY DEF Hash!InnerInput
    <2>3. h'[n] = Hash!Input(Hash!BlockAfter(msg, k), k + BlockBytes, FALSE)
      BY <1>3, <1>4, <1>5, <1>6
    <2> HIDE DEF n, k
    <2>4. Hash!InnerInput(msg, n) = h'[n] BY <2>1, <2>2, <2>3
    <2>5. n = Len(h) + 1 BY DEF n
    <2> QED BY <2>4, <2>5
  <1>8. \A i \in 1 .. Len(h') : h'[i] = Hash!InnerInput(msg, i)
    <2> TAKE i \in 1 .. Len(h')
    <2>1. i \in 1 .. Len(h) \/ i = Len(h) + 1 BY <1>1, <1>5
    <2> QED BY <1>5, <1>7, <2>1
  <1> QED BY <1>1, <1>3, <1>5, <1>8

\* What is where in a message that grew.
LEMMA ConcatAt ==
  ASSUME NEW S, NEW s \in Seq(S), NEW t \in Seq(S), NEW n \in Nat, Len(s) = n
  PROVE  /\ s \o t \in Seq(S)
         /\ Len(s \o t) = n + Len(t)
         /\ \A i \in 1 .. n : (s \o t)[i] = s[i]
         /\ \A i \in 1 .. Len(t) : (s \o t)[n + i] = t[i]
  <1>1. Len(t) \in Nat BY LenProperties
  <1>2. /\ s \o t \in Seq(S) /\ Len(s \o t) = n + Len(t)
        /\ \A i \in 1 .. n + Len(t) :
             (s \o t)[i] = IF i <= n THEN s[i] ELSE t[i - n]
    BY ConcatProperties
  <1>3. \A i \in 1 .. n : (s \o t)[i] = s[i] BY <1>1, <1>2
  <1>4. \A i \in 1 .. Len(t) : (s \o t)[n + i] = t[i]
    <2> TAKE i \in 1 .. Len(t)
    <2>1. n + i \in 1 .. n + Len(t) /\ ~ (n + i <= n) /\ n + i - n = i BY <1>1
    <2> QED BY <1>2, <2>1
  <1> QED BY <1>2, <1>3, <1>4

\* What the invariant says of the numbers.
LEMMA Numbers ==
  ASSUME TypeOK
  PROVE  /\ Len(h) \in Nat /\ Len(h) * BlockBytes \in Nat
         /\ buflen \in Nat /\ buflen <= BlockBytes
         /\ Len(in) \in Nat /\ Len(message) \in Nat
  BY Blocks, LenProperties DEF TypeOK

\* The first phase of a long update: the buffer filled up (blake2b.h:391-396).
LEMMA UpdateFillIInv == IInv /\ UpdateFill => IInv'
  <1> SUFFICES ASSUME IInv, UpdateFill PROVE IInv'
    OBVIOUS
  <1> DEFINE k == Len(h) * BlockBytes
             fill == BlockBytes - buflen
  <1>0. PICK m \in Strings : \E t \in Pieces(m) :
          /\ ~ Fits(t)
          /\ buf' = MemCpy(buf, buflen, Left(t, fill))
          /\ in' = Rest(t, fill)
          /\ Feed(m, t)
    BY DEF UpdateFill
  <1>1. PICK t \in Pieces(m) :
          /\ ~ Fits(t)
          /\ buf' = MemCpy(buf, buflen, Left(t, fill))
          /\ in' = Rest(t, fill)
          /\ Feed(m, t)
    BY <1>0
  <1>2. /\ pc = "ready" /\ pc' = "blocks"
        /\ buflen' = 0
        /\ IncrementCounter(BlockBytes)
        /\ Compress(buf')
        /\ UNCHANGED <<outlen, f0, ret>>
    BY DEF UpdateFill
  <1>3. TypeOK BY DEF IInv
  <1>4. /\ t \in Seq(Byte) /\ Len(t) \in Nat /\ k + buflen + Len(t) <= MaxMessage
        /\ message \in Seq(Byte) /\ Len(message) \in Nat
        /\ k \in Nat /\ buflen \in Nat /\ buflen <= BlockBytes
        /\ fill \in 0 .. Len(t) /\ fill < Len(t)
    BY <1>1, <1>3, PieceFacts, Blocks, Numbers DEF TypeOK, Fits
  <1>5. /\ Left(t, fill) \in Seq(Byte) /\ Len(Left(t, fill)) = fill
        /\ \A i \in 1 .. fill : Left(t, fill)[i] = t[i]
        /\ in' \in Seq(Byte) /\ Len(in') = Len(t) - fill
        /\ \A i \in 1 .. Len(t) - fill : in'[i] = t[fill + i]
    BY <1>1, <1>4, CutFacts
  <1>6. buf' \in [Slots -> Byte]
    BY <1>1, <1>3, <1>4, <1>5, MemCpyType DEF TypeOK
  <1>7. TypeOK'
    <2>1. t0' \in 0 .. Word - 1 /\ t1' \in 0 .. Word - 1
      BY <1>2, <1>3, Blocks, CounterType
    <2>2. f0' \in BOOLEAN BY <1>2, <1>3 DEF TypeOK
    <2>3. h' \in Seq(Inputs) BY <1>2, <1>3, <1>6, <2>1, <2>2, CompressFacts
    <2>4. given' \in Seq(Byte) /\ message' \in Seq(Byte)
      BY <1>1, <1>3, FeedFacts DEF IInv
    <2>5. buflen' \in 0 .. BlockBytes BY <1>2, Blocks
    <2>6. pc' \in Phases BY <1>2 DEF Phases
    <2> QED BY <1>2, <1>3, <1>5, <1>6, <2>1, <2>2, <2>3, <2>4, <2>5, <2>6
            DEF TypeOK
  <1>8. TakenAsGiven' BY <1>1, <1>3, FeedFacts DEF IInv
  <1>8a. DigestCorrect'
    BY <1>1, <1>2, <1>8 DEF IInv, DigestCorrect, AnswerFresh, Open, Feed
  <1>9. AnswerFresh' BY <1>2 DEF IInv, AnswerFresh, Open
  <1>10. CASE f0
    BY <1>2, <1>7, <1>8, <1>8a, <1>9, <1>10 DEF BlocksStartEmpty, IInv, BytesAccounted, CounterExact,
       MessageHeld, Bounded, Open
  <1>11. CASE ~ f0
    <2>1. message' = message \o t BY <1>1, <1>11 DEF Feed
    <2>2. Open BY <1>2, <1>11 DEF Open
    <2>3. Len(message) = k + buflen
      <3>1. in = <<>> /\ Len(in) = 0
        BY <1>2, <2>2, EmptySeqs DEF IInv, BytesAccounted
      <3> QED BY <1>4, <2>2, <3>1 DEF IInv, BytesAccounted
    <2>4. /\ message' \in Seq(Byte) /\ Len(message') = (k + buflen) + Len(t)
          /\ \A i \in 1 .. k + buflen : message'[i] = message[i]
          /\ \A i \in 1 .. Len(t) : message'[(k + buflen) + i] = t[i]
      <3>1. k + buflen \in Nat BY <1>4
      <3>2. message \in Seq(Byte) /\ t \in Seq(Byte) BY <1>4
      <3> HIDE DEF k
      <3> QED BY <2>1, <2>3, <3>1, <3>2, ConcatAt
    <2>5. \A i \in 1 .. Len(h) : h[i] = Hash!InnerInput(message', i)
      <3>1. h \in Seq(Inputs) BY <1>3 DEF TypeOK
      <3>2. \A i \in 1 .. Len(h) : h[i] = Hash!InnerInput(message, i)
        BY <2>2 DEF IInv, MessageHeld
      <3>3. Len(h) * BlockBytes <= Len(message) BY <1>4, <2>3
      <3> QED BY <1>3, <1>4, <2>1, <3>1, <3>2, <3>3, MessageGrows, Numbers
    <2>6. \A j \in Slots : buf'[j] = message'[k + j]
      <3> TAKE j \in Slots
      <3>1. j \in Nat /\ 1 <= j /\ j <= BlockBytes BY Blocks DEF Slots
      <3>2. buf'[j] = IF buflen < j THEN t[j - buflen] ELSE buf[j]
        <4>1. buf'[j] = IF buflen < j /\ j <= buflen + Len(Left(t, fill))
                          THEN Left(t, fill)[j - buflen] ELSE buf[j]
          <5> HIDE DEF k, fill
          <5> QED BY <1>1 DEF MemCpy
        <4>2. CASE buflen < j
          <5>1. j - buflen \in 1 .. fill BY <1>4, <3>1, <4>2, Blocks
          <5>2. j <= buflen + Len(Left(t, fill)) BY <1>4, <1>5, <3>1, Blocks
          <5>3. Left(t, fill)[j - buflen] = t[j - buflen] BY <1>5, <5>1
          <5> QED BY <4>1, <4>2, <5>2, <5>3
        <4>3. CASE ~ (buflen < j) BY <4>1, <4>3
        <4> QED BY <4>2, <4>3
      <3>3. message'[k + j] = IF j <= buflen THEN message[k + j]
                                             ELSE t[j - buflen]
        <4> HIDE DEF k
        <4>1. CASE j <= buflen
          <5>1. k + j \in 1 .. k + buflen BY <1>4, <3>1, <4>1
          <5> QED BY <2>4, <4>1, <5>1
        <4>2. CASE ~ (j <= buflen)
          <5>1. /\ j - buflen \in 1 .. Len(t)
                /\ (k + buflen) + (j - buflen) = k + j
            BY <1>4, <3>1, <4>2, Blocks
          <5>2. message'[(k + buflen) + (j - buflen)] = t[j - buflen]
            BY <2>4, <5>1
          <5> QED BY <4>2, <5>1, <5>2
        <4> QED BY <4>1, <4>2
      <3>4. j <= buflen => buf[j] = message[k + j]
        BY <1>4, <2>2, <3>1 DEF IInv, MessageHeld, Uncompressed
      <3> QED BY <1>4, <3>1, <3>2, <3>3, <3>4
    <2>7. /\ t0' + Word * t1' = Len(h') * BlockBytes
          /\ Len(h') * BlockBytes = k + BlockBytes
          /\ \A i \in 1 .. Len(h') : h'[i] = Hash!InnerInput(message', i)
      <3>1. Len(message') <= MaxMessage BY <1>4, <2>4
      <3>2. Len(h) * BlockBytes + BlockBytes <= Len(message')
        BY <1>4, <2>4, Blocks
      <3>3. CounterExact /\ UNCHANGED f0 BY <1>2 DEF IInv
      <3>4. message' \in Seq(Byte) BY <2>4
      <3> HIDE DEF k
      <3>5. \A j \in Slots : buf'[j] = message'[Len(h) * BlockBytes + j]
        BY <2>6 DEF k
      <3>6. /\ t0' + Word * t1' = Len(h') * BlockBytes
            /\ Len(h') * BlockBytes = Len(h) * BlockBytes + BlockBytes
            /\ \A i \in 1 .. Len(h') : h'[i] = Hash!InnerInput(message', i)
        BY <1>2, <1>3, <1>6, <1>11, <2>2, <2>5, <3>1, <3>2, <3>3, <3>4, <3>5,
           InnerStep
      <3> QED BY <3>6 DEF k
    <2>8. CounterExact' BY <2>7 DEF CounterExact
    <2>9. BytesAccounted'
      <3>1. Len(message') = Len(h') * BlockBytes + buflen' + Len(in')
        <4>1. Len(h') * BlockBytes = k + BlockBytes BY <2>7
        <4>2. Len(in') = Len(t) - (BlockBytes - buflen) BY <1>5
        <4>3. Len(message') = (k + buflen) + Len(t) BY <2>4
        <4>4. buflen' = 0 BY <1>2
        <4>5. k \in Nat /\ buflen \in Nat /\ Len(t) \in Nat BY <1>4
        <4> HIDE DEF k
        <4>6. (k + buflen) + Len(t)
                = (k + BlockBytes) + 0 + (Len(t) - (BlockBytes - buflen))
          BY <4>5, Blocks
        <4> QED BY <4>1, <4>2, <4>3, <4>4, <4>6
      <3>2. Len(in') > 0 BY <1>4, <1>5
      <3> QED BY <1>2, <3>1, <3>2 DEF BytesAccounted
    <2>10. \A j \in 1 .. Len(in') : in'[j] = message'[Len(h') * BlockBytes + (buflen' + j)]
      <3> TAKE j \in 1 .. Len(in')
      <3>1. j \in Nat /\ 1 <= j /\ j <= Len(t) - fill BY <1>4, <1>5
      <3>2. in'[j] = t[fill + j] BY <1>4, <1>5, <3>1
      <3> HIDE DEF k
      <3>3. Len(h') * BlockBytes + (buflen' + j) = k + BlockBytes + j
        BY <1>2, <1>4, <2>7, <3>1, Blocks
      <3>4. message'[k + BlockBytes + j] = t[fill + j]
        <4>1. /\ fill + j \in 1 .. Len(t)
              /\ (k + buflen) + (fill + j) = k + BlockBytes + j
          BY <1>4, <3>1, Blocks
        <4>2. message'[(k + buflen) + (fill + j)] = t[fill + j]
          BY <2>4, <4>1
        <4> QED BY <4>1, <4>2
      <3> QED BY <3>2, <3>3, <3>4
    <2>11. MessageHeld'
      BY <1>2, <2>7, <2>10, Blocks DEF MessageHeld, Uncompressed
    <2>12. Bounded' BY <1>4, <2>4 DEF Bounded
    <2> QED BY <1>2, <1>7, <1>8, <1>8a, <1>9, <2>8, <2>9, <2>11, <2>12
            DEF IInv, BlocksStartEmpty
  <1> QED BY <1>10, <1>11

\* A whole block from the caller's string (blake2b.h:397-402).
LEMMA UpdateBlockIInv == IInv /\ UpdateBlock => IInv'
  <1> SUFFICES ASSUME IInv, UpdateBlock PROVE IInv'
    OBVIOUS
  <1> DEFINE k == Len(h) * BlockBytes
             block == Left(in, BlockBytes)
  <1>1. /\ pc = "blocks" /\ Len(in) > BlockBytes
        /\ IncrementCounter(BlockBytes)
        /\ Compress(block)
        /\ in' = Rest(in, BlockBytes)
        /\ UNCHANGED <<pc, outlen, f0, buf, buflen, given, message, ret>>
    BY DEF UpdateBlock
  <1>2. TypeOK BY DEF IInv
  <1>3. /\ in \in Seq(Byte) /\ message \in Seq(Byte)
        /\ k \in Nat /\ Len(in) \in Nat /\ Len(message) \in Nat
        /\ BlockBytes \in 0 .. Len(in)
    BY <1>1, <1>2, Numbers, Blocks DEF TypeOK
  <1>4. /\ block \in Seq(Byte) /\ Len(block) = BlockBytes
        /\ \A i \in 1 .. BlockBytes : block[i] = in[i]
        /\ in' \in Seq(Byte) /\ Len(in') = Len(in) - BlockBytes
        /\ \A i \in 1 .. Len(in) - BlockBytes : in'[i] = in[BlockBytes + i]
    BY <1>1, <1>3, CutFacts
  <1>5. block \in [Slots -> Byte]
    <2> HIDE DEF block
    <2> QED BY <1>4, LenProperties DEF Slots
  <1> HIDE DEF block
  <1>6. TypeOK'
    <2>1. t0' \in 0 .. Word - 1 /\ t1' \in 0 .. Word - 1
      BY <1>1, <1>2, Blocks, CounterType
    <2>2. f0' \in BOOLEAN BY <1>1, <1>2 DEF TypeOK
    <2>3. h' \in Seq(Inputs) BY <1>1, <1>2, <1>5, <2>1, <2>2, CompressFacts
    <2> QED BY <1>1, <1>2, <1>4, <2>1, <2>2, <2>3 DEF TypeOK
  <1>7. DigestCorrect' /\ AnswerFresh' /\ TakenAsGiven'
    BY <1>1 DEF IInv, DigestCorrect, AnswerFresh, TakenAsGiven, Open
  <1>8. CASE f0
    BY <1>1, <1>6, <1>7, <1>8 DEF IInv, BlocksStartEmpty, BytesAccounted, CounterExact,
       MessageHeld, Bounded, Open
  <1>9. CASE ~ f0
    <2>1. Open BY <1>1, <1>9 DEF Open
    <2>2. buflen = 0 /\ Len(message) = k + Len(in)
      BY <1>1, <1>3, <2>1 DEF IInv, BytesAccounted
    <2>3. \A j \in 1 .. Len(in) : in[j] = message[k + j]
      BY <1>3, <2>1, <2>2 DEF IInv, MessageHeld, Uncompressed
    <2>4. /\ t0' + Word * t1' = Len(h') * BlockBytes
          /\ Len(h') * BlockBytes = k + BlockBytes
          /\ \A i \in 1 .. Len(h') : h'[i] = Hash!InnerInput(message, i)
      <3>1. Len(message) <= MaxMessage BY <2>1 DEF IInv, Bounded
      <3>2. Len(h) * BlockBytes + BlockBytes <= Len(message) BY <1>3, <2>2
      <3>3. CounterExact /\ UNCHANGED f0 BY <1>1 DEF IInv
      <3>4. \A i \in 1 .. Len(h) : h[i] = Hash!InnerInput(message, i)
        BY <2>1 DEF IInv, MessageHeld
      <3>5. \A j \in Slots : block[j] = message[Len(h) * BlockBytes + j]
        <4> TAKE j \in Slots
        <4>1. j \in 1 .. BlockBytes BY DEF Slots
        <4>2. j \in 1 .. Len(in) BY <1>3, <4>1
        <4>3. block[j] = in[j] BY <1>4, <4>1
        <4> QED BY <2>3, <4>2, <4>3
      <3> HIDE DEF k
      <3>6. /\ t0' + Word * t1' = Len(h') * BlockBytes
            /\ Len(h') * BlockBytes = Len(h) * BlockBytes + BlockBytes
            /\ \A i \in 1 .. Len(h') : h'[i] = Hash!InnerInput(message, i)
        BY <1>1, <1>2, <1>3, <1>5, <1>9, <2>1, <3>1, <3>2, <3>3, <3>4, <3>5,
           InnerStep
      <3> QED BY <3>6 DEF k
    <2>5. CounterExact' BY <2>4 DEF CounterExact
    <2>6. BytesAccounted'
      <3>1. Len(message') = Len(h') * BlockBytes + buflen' + Len(in')
        <4>1. Len(h') * BlockBytes = k + BlockBytes BY <2>4
        <4>2. Len(in') = Len(in) - BlockBytes BY <1>4
        <4>3. Len(message') = k + Len(in) /\ buflen' = 0 BY <1>1, <2>2
        <4>4. k \in Nat /\ Len(in) \in Nat BY <1>3
        <4> HIDE DEF k
        <4>5. k + Len(in) = (k + BlockBytes) + 0 + (Len(in) - BlockBytes)
          BY <4>4, Blocks
        <4> QED BY <4>1, <4>2, <4>3, <4>5
      <3>2. Len(in') > 0 BY <1>1, <1>3, <1>4
      <3> QED BY <1>1, <2>2, <3>1, <3>2 DEF BytesAccounted
    <2>7. \A j \in 1 .. Len(in') :
            in'[j] = message'[Len(h') * BlockBytes + (buflen' + j)]
      <3> TAKE j \in 1 .. Len(in')
      <3>1. j \in Nat /\ 1 <= j /\ j <= Len(in) - BlockBytes BY <1>3, <1>4
      <3>2. BlockBytes + j \in 1 .. Len(in) BY <1>3, <3>1, Blocks
      <3>3. in'[j] = message[k + (BlockBytes + j)]
        BY <1>4, <2>3, <3>1, <3>2
      <3> HIDE DEF k
      <3>4. Len(h') * BlockBytes + (buflen' + j) = k + (BlockBytes + j)
        <4>1. Len(h') * BlockBytes = k + BlockBytes /\ buflen' = 0
          BY <1>1, <2>2, <2>4
        <4>2. (k + BlockBytes) + (0 + j) = k + (BlockBytes + j)
          BY <1>3, <3>1, Blocks
        <4> QED BY <4>1, <4>2
      <3> QED BY <1>1, <3>3, <3>4
    <2>8. MessageHeld'
      <3>1. buflen' = 0 BY <1>1, <2>2
      <3>2. \A i \in 1 .. Len(h') : h'[i] = Hash!InnerInput(message', i)
        BY <1>1, <2>4
      <3> QED BY <2>7, <3>1, <3>2 DEF MessageHeld, Uncompressed
    <2>9. Bounded' BY <1>1, <2>1 DEF IInv, Bounded
    <2> QED BY <1>1, <1>6, <1>7, <2>2, <2>5, <2>6, <2>8, <2>9
            DEF IInv, BlocksStartEmpty
  <1> QED BY <1>8, <1>9

\* The rest of a long update, copied to the buffer (blake2b.h:404-406).
LEMMA UpdateRestIInv == IInv /\ UpdateRest => IInv'
  <1> SUFFICES ASSUME IInv, UpdateRest PROVE IInv'
    OBVIOUS
  <1> DEFINE k == Len(h) * BlockBytes
  <1>1. /\ pc = "blocks" /\ pc' = "ready" /\ Len(in) <= BlockBytes
        /\ buf' = MemCpy(buf, buflen, in)
        /\ buflen' = buflen + Len(in)
        /\ in' = <<>>
        /\ UNCHANGED <<outlen, h, t0, t1, f0, given, message, ret>>
    BY DEF UpdateRest
  <1>2. TypeOK BY DEF IInv
  <1>3. /\ in \in Seq(Byte) /\ Len(in) \in Nat /\ k \in Nat
        /\ buflen \in Nat /\ Len(message) \in Nat
    BY <1>2, Numbers DEF TypeOK
  <1>4. pc = "blocks" => buflen = 0
    BY DEF IInv, BlocksStartEmpty
  <1>5. buflen = 0 /\ buflen' = Len(in) BY <1>1, <1>3, <1>4
  <1>6. TypeOK'
    <2>1. buf' \in [Slots -> Byte] BY <1>1, <1>2, <1>3, MemCpyType DEF TypeOK
    <2>2. buflen' \in 0 .. BlockBytes BY <1>1, <1>3, <1>5, Blocks
    <2>3. in' \in Seq(Byte) BY <1>1, EmptySeqs
    <2>4. pc' \in Phases BY <1>1 DEF Phases
    <2> QED BY <1>1, <1>2, <2>1, <2>2, <2>3, <2>4 DEF TypeOK
  <1>7. DigestCorrect' /\ AnswerFresh' /\ TakenAsGiven'
    BY <1>1 DEF IInv, DigestCorrect, AnswerFresh, TakenAsGiven, Open
  <1>8. CASE f0
    BY <1>1, <1>6, <1>7, <1>8 DEF IInv, BytesAccounted, CounterExact,
       MessageHeld, Bounded, BlocksStartEmpty, Open
  <1>9. CASE ~ f0
    <2>1. Open BY <1>1, <1>9 DEF Open
    <2>2. Len(message) = k + Len(in) /\ Len(in) > 0
      BY <1>1, <1>3, <1>5, <2>1 DEF IInv, BytesAccounted
    <2>3. \A j \in 1 .. Len(in) : in[j] = message[k + j]
      BY <1>3, <1>5, <2>1 DEF IInv, MessageHeld, Uncompressed
    <2>4. BytesAccounted'
      BY <1>1, <1>3, <1>5, <2>2, EmptySeqs DEF BytesAccounted
    <2>5. CounterExact' BY <1>1, <2>1 DEF IInv, CounterExact
    <2>6. \A j \in 1 .. buflen' : buf'[j] = message'[k + j]
      <3> TAKE j \in 1 .. buflen'
      <3>1. j \in Slots /\ j \in 1 .. Len(in)
        BY <1>1, <1>3, <1>5, Blocks DEF Slots
      <3>2. buf'[j] = in[j] BY <1>1, <1>3, <1>5, <3>1 DEF MemCpy
      <3> QED BY <1>1, <2>3, <3>1, <3>2
    <2>7. MessageHeld'
      BY <1>1, <2>1, <2>6, EmptySeqs DEF IInv, MessageHeld, Uncompressed
    <2>8. Bounded' BY <1>1, <2>1 DEF IInv, Bounded
    <2> QED BY <1>1, <1>6, <1>7, <2>4, <2>5, <2>7, <2>8
            DEF IInv, BlocksStartEmpty
  <1> QED BY <1>8, <1>9

-----------------------------------------------------------------------------
(* The last block.                                                         *)

\* The number of blocks of a message is unique.
LEMMA DivUnique ==
  ASSUME NEW n \in Nat, NEW b \in Nat \ {0}, NEW r \in 0 .. b - 1
  PROVE  (n * b + r) \div b = n
  OBVIOUS

\* Where the message ends: the buffer holds its last block, even when that
\* block is full or the message is empty.
LEMMA BlocksOfMessage ==
  ASSUME NEW n \in Nat, NEW len \in Nat, NEW r \in 0 .. BlockBytes,
         len = n * BlockBytes + r, len > 0 => r > 0
  PROVE  Hash!NumBlocks(len) = n + 1
  <1>1. CASE len = 0
    <2>1. n * BlockBytes = 0 BY <1>1, Blocks
    <2>2. n = 0 BY <2>1, Blocks
    <2> QED BY <1>1, <2>2 DEF Hash!NumBlocks
  <1>2. CASE len > 0
    <2>1. r - 1 \in 0 .. BlockBytes - 1 BY <1>2, Blocks
    <2>2. (n * BlockBytes + (r - 1)) \div BlockBytes = n
      BY <2>1, Blocks, DivUnique
    <2>3. len - 1 = n * BlockBytes + (r - 1)
      <3>1. n * BlockBytes \in Nat BY Blocks
      <3> QED BY <2>1, <3>1
    <2>4. (len - 1) \div BlockBytes = n BY <2>2, <2>3
    <2>5. len # 0 BY <1>2
    <2> QED BY <2>4, <2>5 DEF Hash!NumBlocks
  <1> QED BY <1>1, <1>2

\* The chain after `final' is the hash of the message.
LEMMA FinalHash ==
  ASSUME IInv, Final
  PROVE  /\ TypeOK'
         /\ h' = Hash!HashOf(message)
  <1> DEFINE k == Len(h) * BlockBytes
  <1>1. /\ pc = "ready" /\ ~ f0 /\ f0' = TRUE
        /\ IncrementCounter(buflen)
        /\ buf' = Padded(buf, buflen)
        /\ Compress(buf')
        /\ ret' = Hash!Answer("digest", outlen, h')
        /\ UNCHANGED <<pc, outlen, buflen, in, given, message>>
    BY DEF Final
  <1>2. TypeOK /\ Open BY <1>1 DEF IInv, Open
  <1>3. /\ Len(h) \in Nat /\ k \in Nat /\ Len(message) \in Nat
        /\ buflen \in Nat /\ buflen <= BlockBytes
        /\ message \in Seq(Byte)
    BY <1>2, Numbers DEF TypeOK
  <1>4. Len(message) = k + buflen /\ (message # <<>> => buflen > 0)
    BY <1>1, <1>2, <1>3, EmptySeqs DEF IInv, BytesAccounted
  <1>5. buf' \in [Slots -> Byte]
    BY <1>1, <1>2, Blocks DEF Padded, TypeOK
  <1>6. /\ t0' \in 0 .. Word - 1 /\ t1' \in 0 .. Word - 1
        /\ t0' + Word * t1' = Len(message)
    <2>1. t0 + Word * t1 = k BY <1>2 DEF IInv, CounterExact
    <2>2. k + buflen < Word * Word
      <3>1. Word * Word \in Nat /\ MaxMessage < Word * Word /\ MaxMessage \in Nat
        BY CounterAssumption
      <3>2. Len(message) <= MaxMessage BY <1>2 DEF IInv, Bounded
      <3> QED BY <1>3, <1>4, <3>1, <3>2
    <2>3. buflen \in 0 .. Word BY <1>3, Blocks, CounterAssumption
    <2> HIDE DEF k
    <2> QED BY <1>1, <1>2, <1>4, <2>1, <2>2, <2>3, CounterStep
            DEF TypeOK, IncrementCounter
  <1>7. /\ h' \in Seq(Inputs) /\ Len(h') = Len(h) + 1
        /\ \A i \in 1 .. Len(h) : h'[i] = h[i]
        /\ h'[Len(h) + 1] = Hash!Input(buf', Len(message), TRUE)
    BY <1>1, <1>2, <1>5, <1>6, CompressFacts
  <1>8. ret' \in Answers
    BY <1>1, <1>2, <1>7 DEF TypeOK, Hash!Answer, Answers
  <1>9. TypeOK' BY <1>1, <1>2, <1>5, <1>6, <1>7, <1>8 DEF TypeOK
  <1>10. buf' = Hash!BlockAfter(message, k)
    <2>1. \A j \in 1 .. BlockBytes : k + j <= Len(message) <=> j <= buflen
      BY <1>3, <1>4, Blocks
    <2>2. \A j \in 1 .. buflen : buf[j] = message[k + j]
      BY <1>2 DEF IInv, MessageHeld, Uncompressed
    <2>3. \A j \in 1 .. BlockBytes :
            (IF j <= buflen THEN buf[j] ELSE Zero)
              = (IF k + j <= Len(message) THEN message[k + j] ELSE Zero)
      BY <1>3, <2>1, <2>2, Blocks
    <2> HIDE DEF k
    <2> QED BY <1>1, <2>3 DEF Padded, Slots, Hash!BlockAfter
  <1>11. Hash!NumBlocks(Len(message)) = Len(h) + 1
    <2>1. Len(message) > 0 => buflen > 0 BY <1>4, EmptySeqs
    <2>2. buflen \in 0 .. BlockBytes BY <1>3, Blocks
    <2> QED BY <1>3, <1>4, <2>1, <2>2, BlocksOfMessage
  <1>12. \A i \in 1 .. Len(h) : h'[i] = Hash!InnerInput(message, i)
    BY <1>2, <1>7 DEF IInv, MessageHeld
  <1>13. h'[Len(h) + 1] = Hash!LastInput(message, Len(h) + 1)
    <2> DEFINE n == Len(h) + 1
    <2>1. (n - 1) * BlockBytes = k BY <1>3
    <2>2. h'[n] = Hash!Input(Hash!BlockAfter(message, k), Len(message), TRUE)
      BY <1>7, <1>10
    <2>3. Hash!LastInput(message, n)
            = Hash!Input(Hash!BlockAfter(message, (n - 1) * BlockBytes),
                         Len(message), TRUE)
      BY DEF Hash!LastInput
    <2> HIDE DEF n, k
    <2>4. h'[n] = Hash!LastInput(message, n) BY <2>1, <2>2, <2>3
    <2> QED BY <2>4 DEF n
  <1>14. h' = [i \in 1 .. Len(h) + 1 |-> h'[i]]
    BY <1>7, LenProperties
  <1>15. h' = Hash!HashOf(message)
    <2>1. \A i \in 1 .. Len(h) + 1 :
            h'[i] = IF i = Len(h) + 1 THEN Hash!LastInput(message, i)
                                      ELSE Hash!InnerInput(message, i)
      BY <1>3, <1>12, <1>13
    <2> QED BY <1>11, <1>14, <2>1 DEF Hash!HashOf
  <1> QED BY <1>9, <1>15

\* final (blake2b.h:410-432).
LEMMA FinalIInv == IInv /\ Final => IInv'
  <1> SUFFICES ASSUME IInv, Final PROVE IInv'
    OBVIOUS
  <1>1. TypeOK' /\ h' = Hash!HashOf(message) BY FinalHash
  <1>2. /\ pc = "ready" /\ f0' = TRUE
        /\ ret' = Hash!Answer("digest", outlen, h')
        /\ UNCHANGED <<pc, outlen, given, message>>
    BY DEF Final
  <1>3. ret' = Hash!DigestOf(outlen', message')
    BY <1>1, <1>2 DEF Hash!DigestOf
  <1>4. ~ Open' BY <1>2 DEF Open
  <1>5. TakenAsGiven' BY <1>2 DEF IInv, TakenAsGiven
  <1>5a. DigestCorrect' BY <1>2, <1>3, <1>5 DEF DigestCorrect
  <1>6. BlocksStartEmpty' BY <1>2 DEF BlocksStartEmpty
  <1>7. AnswerFresh' BY <1>2, <1>4 DEF AnswerFresh
  <1> QED BY <1>1, <1>4, <1>5, <1>5a, <1>6, <1>7 DEF IInv, BytesAccounted,
          CounterExact, MessageHeld, Bounded

-----------------------------------------------------------------------------
(* The theorems.                                                           *)

\* IInv holds in every reachable state: the invariant the others follow from.
THEOREM Invariant == Spec => []IInv
  <1>1. Init => IInv BY InitIInv
  <1>2. IInv /\ [Next]_vars => IInv'
    <2> SUFFICES ASSUME IInv, [Next]_vars PROVE IInv'
      OBVIOUS
    <2>1. CASE Initialize \/ InitializeRejected BY <2>1, InitializeIInv
    <2>2. CASE UpdateBuffer BY <2>2, UpdateBufferIInv
    <2>3. CASE UpdateFill BY <2>3, UpdateFillIInv
    <2>4. CASE UpdateBlock BY <2>4, UpdateBlockIInv
    <2>5. CASE UpdateRest BY <2>5, UpdateRestIInv
    <2>6. CASE Final BY <2>6, FinalIInv
    <2>7. CASE FinalAgain \/ UseBeforeInitialize \/ UseIndeterminate
      BY <2>7, IdleIInv
    <2>8. CASE UNCHANGED vars
      BY <2>8 DEF vars, IInv, TypeOK, BytesAccounted, CounterExact, MessageHeld,
         TakenAsGiven, AnswerFresh, DigestCorrect, Bounded, BlocksStartEmpty,
         Open, Uncompressed
    <2>9. CASE UpdateStrays BY <2>9, StraysIInv
    <2> QED BY <2>1, <2>2, <2>3, <2>4, <2>5, <2>6, <2>7, <2>8, <2>9 DEF Next
  <1> QED BY <1>1, <1>2, PTL DEF Spec

\* The buffer index, the counter words and the answers keep their types, for
\* every block size, word size and set of strings (blake2b_state).
THEOREM TypeCorrect == Spec => []TypeOK
  <1>1. IInv => TypeOK BY DEF IInv
  <1> QED BY <1>1, Invariant, PTL

\* No byte update took is lost or counted twice, and the last block is
\* kept back for final, wherever the strings are cut (blake2b_update).
THEOREM NoByteLost == Spec => []BytesAccounted
  <1>1. IInv => BytesAccounted BY DEF IInv
  <1> QED BY <1>1, Invariant, PTL

\* The two-word counter never loses its carry (blake2b_increment_counter).
THEOREM CounterCorrect == Spec => []CounterExact
  <1>1. IInv => CounterExact BY DEF IInv
  <1> QED BY <1>1, Invariant, PTL

\* Blocks, buffer and rest are the message in its order, wherever the strings
\* were cut (blake2b_update).
THEOREM OrderKept == Spec => []MessageHeld
  <1>1. IInv => MessageHeld BY DEF IInv
  <1> QED BY <1>1, Invariant, PTL

\* The digest of final is that of all the bytes update took (blake2b_final),
\* and these are the strings it was given, unless the upper half of a length
\* was left set (mruby_blake2b.c:33,36).
THEOREM DigestTheorem == Spec => []DigestCorrect
  <1>1. IInv => DigestCorrect BY DEF IInv
  <1> QED BY <1>1, Invariant, PTL

\* Every step is one of Blake2bHash, or changes nothing it sees.
LEMMA StepRefines ==
  ASSUME IInv, [Next]_vars PROVE [Hash!Next]_(Hash!vars)
  <1> USE DEF Hash!Next, Hash!vars, Phase
  <1>1. CASE Initialize
    <2>1. PICK n \in OutLens : Hash!ValidOutLen(n) /\ ResetState(n)
      BY <1>1 DEF Initialize
    <2>2. Hash!Open BY <1>1, <2>1 DEF Initialize, Hash!Open, ResetState
    <2> QED BY <2>2
  <1>2. CASE InitializeRejected
    <2>1. Hash!OpenRejected
      BY <1>2 DEF InitializeRejected, Hash!OpenRejected, ResetState
    <2> QED BY <2>1
  <1>3. ASSUME pc \in {"ready", "blocks"}, pc' \in {"ready", "blocks"},
               UNCHANGED <<f0, outlen, ret>>,
               NEW m \in Strings, NEW t \in Pieces(m), Feed(m, t)
        PROVE  [Hash!Next]_(Hash!vars)
    <2>1. CASE f0 BY <1>3, <2>1 DEF Feed
    <2>2. CASE ~ f0
      <3>1. m \in Hash!BoundedSeq(Byte, MaxUpdate)
        BY DEF Strings, BoundedSeq, SeqOf, Hash!BoundedSeq, Hash!SeqOf
      <3>2. /\ t \in Hash!Taken(m)
            /\ given' = given \o m /\ message' = message \o t
        BY <1>3, <2>2 DEF Pieces, Feed
      <3>3. Phase = "open" /\ Phase' = "open" BY <1>3, <2>2
      <3>4. UNCHANGED <<outlen, ret>> BY <1>3
      <3>5. Hash!Feed
        <4> HIDE DEF Phase
        <4> QED BY <3>1, <3>2, <3>3, <3>4 DEF Hash!Feed
      <3> QED BY <3>5
    <2> QED BY <2>1, <2>2
  <1>4. CASE UpdateBuffer BY <1>3, <1>4 DEF UpdateBuffer
  <1>5. CASE UpdateFill BY <1>3, <1>5 DEF UpdateFill
  <1>6. CASE UpdateBlock \/ UpdateRest BY <1>6 DEF UpdateBlock, UpdateRest
  <1>7. CASE Final
    <2>1. h' = Hash!HashOf(message) BY <1>7, FinalHash
    <2>2. Hash!Close BY <1>7, <2>1 DEF Final, Hash!Close, Hash!DigestOf
    <2> QED BY <2>2
  <1>8. CASE FinalAgain
    <2>1. Hash!NoPromise BY <1>8 DEF FinalAgain, Hash!NoPromise, Hash!Answer
    <2> QED BY <2>1
  <1>9. CASE UseBeforeInitialize
    <2>1. Hash!NoPromise
      BY <1>9 DEF UseBeforeInitialize, Hash!NoPromise, Hash!Answer
    <2> QED BY <2>1
  <1>10. CASE UseIndeterminate
    <2>1. ret'.kind # "digest"
      BY <1>10 DEF UseIndeterminate, IInv, AnswerFresh, Hash!Answer
    <2>2. Hash!NoPromise
      BY <1>10, <2>1 DEF UseIndeterminate, Hash!NoPromise
    <2> QED BY <2>2
  <1>11. CASE UpdateStrays
    <2>1. Hash!Stray BY <1>11 DEF UpdateStrays, Hash!Stray
    <2> QED BY <2>1
  <1>12. CASE UNCHANGED vars BY <1>12 DEF vars
  <1> QED BY <1>1, <1>2, <1>4, <1>5, <1>6, <1>7, <1>8, <1>9, <1>10, <1>11,
             <1>12
          DEF Next

\* The object implements the hash it promises, stray lengths included: its
\* calls are those of Blake2bHash, whatever the strings and wherever they are
\* cut.
THEOREM Refinement == Spec => HashSpec
  <1>1. Init => Hash!Init BY DEF Init, Hash!Init, Phase
  <1>2. IInv /\ [Next]_vars => [Hash!Next]_(Hash!vars) BY StepRefines
  <1> QED BY <1>1, <1>2, Invariant, PTL DEF Spec, HashSpec, Hash!Spec

-----------------------------------------------------------------------------
(* How long an update can take.                                            *)

\* A turn of the loop of an update leaves less of its string, on an object
\* that is closed as well, and no other call begins before the rest is copied
\* (blake2b.h:397-405).  That there is a turn or the copy until then,
\* UpdateEnds shows.
THEOREM UpdateShortens ==
  Spec => [][pc = "blocks" => \/ pc' = "ready"
                              \/ /\ pc' = "blocks"
                                 /\ Len(in') \in Nat /\ Len(in') < Len(in)]_vars
  <1> DEFINE Shortens == pc = "blocks" => \/ pc' = "ready"
                                          \/ /\ pc' = "blocks"
                                             /\ Len(in') \in Nat /\ Len(in') < Len(in)
  <1>1. IInv /\ [Next]_vars => [Shortens]_vars
    <2> SUFFICES ASSUME IInv, Next, pc = "blocks" PROVE Shortens
      OBVIOUS
    <2>1. UpdateBlock \/ UpdateRest
      BY DEF Next, Initialize, InitializeRejected, Idle, UpdateBuffer, UpdateFill,
             UpdateStrays, Final,
             FinalAgain, UseBeforeInitialize, UseIndeterminate
    <2>2. CASE UpdateBlock
      <3>1. /\ in \in Seq(Byte) /\ BlockBytes \in Nat /\ BlockBytes > 0
            /\ Len(in) > BlockBytes /\ pc' = "blocks"
            /\ in' = SubSeq(in, BlockBytes + 1, Len(in))
        BY <2>2, ParameterAssumption DEF IInv, TypeOK, UpdateBlock, Rest
      <3>2. Len(in) \in Nat /\ Len(in') = Len(in) - BlockBytes BY <3>1
      <3> QED BY <3>1, <3>2
    <2>3. CASE UpdateRest BY <2>3 DEF UpdateRest
    <2> QED BY <2>1, <2>2, <2>3
  <1>2. Spec => [][Shortens]_vars BY <1>1, Invariant, PTL DEF Spec
  <1> QED BY <1>2
=============================================================================
