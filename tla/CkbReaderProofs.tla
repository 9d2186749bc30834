-------------------------- MODULE CkbReaderProofs --------------------------
(***************************************************************************)
(* Proofs about CkbReader for items of any length, any size of size_t and  *)
(* any number of open files, on both builds.  What a load answers comes    *)
(* first, then the invariant, then the refinement of ItemReader.           *)
(***************************************************************************)
EXTENDS CkbReader, TLAPS

\* Arguments that an mrb_int of half the width of size_t can hold.
Arg(n) == n \in Int /\ -SizeMod <= 2 * n /\ 2 * n < SizeMod

\* The bounds on the constants, as the provers want them.
LEMMA Params == /\ SizeMod \in Nat /\ SizeMod > 0
                /\ MaxLen \in Nat /\ 2 * MaxLen < SizeMod
                /\ HashLen \in Nat /\ HashLen > 0 /\ HashLen < SizeMod
                /\ MaxFds \in Nat
  BY ParameterAssumption

\* A number that a size_t holds is not changed.
LEMMA UnsignedOfNat == ASSUME NEW n \in Nat, n < SizeMod
                       PROVE  Unsigned(n) = n
  BY Params DEF Unsigned

\* An mrb_int passed as a size_t is a size_t.
LEMMA UnsignedType == ASSUME NEW n \in Int
                      PROVE  Unsigned(n) \in 0 .. SizeMod - 1
  BY Params DEF Unsigned

-----------------------------------------------------------------------------
(* What the two loads do with an item that is there.                       *)

\* The facts every load of an item of `size' bytes gives its caller.
Honest(res, size, offset, len) ==
  /\ res.code = "success"
  /\ res.len \in 0 .. SizeMod - 1
  /\ res.from \in 0 .. SizeMod - 1
  /\ res.copied \in Nat /\ res.copied <= len
  /\ offset = 0 => res.len = size /\ res.from = 0
  /\ offset >= 0 /\ res.copied < len => offset + res.copied >= size
  /\ offset >= 0 /\ offset + len <= size => res.from = offset /\ res.copied = len

\* The files: the wrap of the difference does no harm to a non-negative offset.
LEMMA FileLoadHonest ==
  ASSUME NEW size \in 0 .. MaxLen, NEW offset, Arg(offset), NEW len \in Nat
  PROVE  Honest(FileLoad(size, offset, len), size, offset, len)
  <1> DEFINE left == (size - Unsigned(offset)) % SizeMod
  <1>0. /\ offset \in Int /\ 2 * offset < SizeMod
        /\ SizeMod \in Nat /\ SizeMod > 0 /\ size \in Nat /\ 2 * size < SizeMod
    BY Params DEF Arg
  <1>1. left \in 0 .. SizeMod - 1
    BY <1>0, UnsignedType
  <1>2. offset >= 0 /\ offset <= size => left = size - offset
    <2>1. SUFFICES ASSUME offset >= 0, offset <= size PROVE left = size - offset
      OBVIOUS
    <2>2. Unsigned(offset) = offset BY <1>0, <2>1, UnsignedOfNat
    <2>3. size - offset \in Nat /\ size - offset < SizeMod BY <1>0, <2>1
    <2>4. (size - offset) % SizeMod = size - offset BY <1>0, <2>3
    <2> QED BY <2>2, <2>4
  <1> HIDE DEF left
  <1>3. FileLoad(size, offset, len)
          = Result("success", left, IF offset < 0 THEN 0 ELSE offset,
                   Smaller(Smaller(left, len),
                           IF (IF offset < 0 THEN 0 ELSE offset) < size
                             THEN size - (IF offset < 0 THEN 0 ELSE offset)
                             ELSE 0))
    BY DEF FileLoad, left
  <1>4. CASE offset < 0
    BY <1>0, <1>1, <1>3, <1>4 DEF Result, Smaller, Honest
  <1>5. CASE offset >= 0 /\ offset <= size
    BY <1>0, <1>1, <1>2, <1>3, <1>5 DEF Result, Smaller, Honest
  <1>6. CASE offset > size
    BY <1>0, <1>1, <1>3, <1>6 DEF Result, Smaller, Honest
  <1> QED BY <1>0, <1>4, <1>5, <1>6

\* The virtual machine.
LEMMA VMLoadHonest ==
  ASSUME NEW size \in 0 .. MaxLen, NEW offset, Arg(offset), NEW len \in Nat
  PROVE  Honest(VMLoad(size, offset, len), size, offset, len)
  <1> DEFINE start == Smaller(Unsigned(offset), size)
  <1>0. /\ offset \in Int /\ 2 * offset < SizeMod
        /\ SizeMod \in Nat /\ SizeMod > 0 /\ size \in Nat /\ size < SizeMod
    BY Params DEF Arg
  <1>1. start \in 0 .. size
    BY <1>0, UnsignedType DEF Smaller
  <1>2. offset >= 0 => start = Smaller(offset, size)
    <2>1. SUFFICES ASSUME offset >= 0 PROVE start = Smaller(offset, size)
      OBVIOUS
    <2>2. Unsigned(offset) = offset BY <1>0, <2>1, UnsignedOfNat
    <2> QED BY <2>2
  <1> HIDE DEF start
  <1>3. VMLoad(size, offset, len)
          = Result("success", size - start, start, Smaller(size - start, len))
    BY DEF VMLoad, start
  <1>4. CASE offset < 0
    BY <1>0, <1>1, <1>3, <1>4 DEF Result, Smaller, Honest
  <1>5. CASE offset >= 0 /\ offset <= size
    BY <1>0, <1>1, <1>2, <1>3, <1>5 DEF Result, Smaller, Honest
  <1>6. CASE offset > size
    BY <1>0, <1>1, <1>2, <1>3, <1>6 DEF Result, Smaller, Honest
  <1> QED BY <1>0, <1>4, <1>5, <1>6

\* The return codes tell the truth, but for a process out of files.
LEMMA LoadFacts ==
  ASSUME item \in [Key \cup HashKey -> Promise!Items],
         NEW key \in Key \cup HashKey,
         NEW offset, Arg(offset), NEW len \in Nat,
         NEW res \in Loads(key, offset, len)
  PROVE  \/ /\ res.code = "index_out_of_bound"
            /\ item[key].status = "absent" \/ (host /\ fds = MaxFds)
         \/ res.code = "item_missing" /\ item[key].status = "missing"
         \/ /\ res.code = "other" /\ ~ host /\ item[key].status = "present"
            /\ item[key].len \in 0 .. MaxLen
            /\ Unsigned(offset) > item[key].len
         \/ /\ item[key].status = "present" /\ item[key].len \in 0 .. MaxLen
            /\ Honest(res, item[key].len, offset, len)
  <1>1. /\ item[key].status \in {"absent", "missing", "present"}
        /\ item[key].status = "present" => item[key].len \in 0 .. MaxLen
    BY DEF Promise!Items
  <1>2. CASE host
    <2>1. res \in FileLoads(key, offset, len) BY <1>2 DEF Loads
    <2> QED BY <1>1, <1>2, <2>1, FileLoadHonest DEF FileLoads, Failed, Result
  <1>3. CASE ~ host
    <2>1. res \in VMLoads(key, offset, len) BY <1>3 DEF Loads
    <2> QED BY <1>1, <1>3, <2>1, VMLoadHonest DEF VMLoads, Failed, Result
  <1> QED BY <1>2, <1>3

-----------------------------------------------------------------------------
(* What internal_read answers.                                             *)

\* A string of len bytes, filled from the item as far as it goes.
FilledFrom(key, len, offset, a) ==
  \E from \in 0 .. SizeMod - 1, copied \in 0 .. len :
    /\ a = Promise!Text(len, from, copied)
    /\ offset >= 0 /\ copied < len => offset + copied >= item[key].len
    /\ offset >= 0 /\ offset + len <= item[key].len => from = offset /\ copied = len

\* The cases of an answer.
AnswerOf(key, len, offset, a) ==
  \/ /\ a = Promise!IndexError
     /\ item[key].status = "absent" \/ (host /\ fds = MaxFds)
  \/ a = Promise!Nil /\ item[key].status = "missing"
  \/ a = Promise!ArgumentError /\ len < 0
  \/ /\ a = Promise!ArgumentError /\ len > 0 /\ item[key].status = "present"
     /\ Unsigned(offset) > item[key].len
  \/ /\ a = Promise!Number(item[key].len) /\ len = 0
     /\ item[key].status = "present"
  \/ /\ FilledFrom(key, len, offset, a) /\ len > 0
     /\ item[key].status = "present"

\* What internal_read can answer, by the sign of the length.
LEMMA InternalReadFacts ==
  ASSUME TypeOK, NEW key \in Key, NEW offset, Arg(offset), NEW len, Arg(len),
         NEW a \in InternalRead(key, len, offset)
  PROVE  AnswerOf(key, len, offset, a)
  <1>0. /\ item \in [Key \cup HashKey -> Promise!Items] /\ len \in Int
        /\ key \in Key \cup HashKey /\ Arg(0)
    BY Params DEF TypeOK, Arg
  <1>1. CASE len < 0 BY <1>0, <1>1 DEF InternalRead, AnswerOf
  <1>2. CASE len = 0
    <2>1. PICK res \in Loads(key, 0, 0) :
            a = ProcessLoadResult(res, Promise!Number(res.len))
      BY <1>2 DEF InternalRead
    <2>2. Unsigned(0) = 0 BY Params, UnsignedOfNat
    <2>3. \/ /\ res.code = "index_out_of_bound"
             /\ item[key].status = "absent" \/ (host /\ fds = MaxFds)
          \/ res.code = "item_missing" /\ item[key].status = "missing"
          \/ /\ item[key].status = "present" /\ res.code = "success"
             /\ res.len = item[key].len
      <3>1. \/ /\ res.code = "index_out_of_bound"
               /\ item[key].status = "absent" \/ (host /\ fds = MaxFds)
            \/ res.code = "item_missing" /\ item[key].status = "missing"
            \/ item[key].len \in 0 .. MaxLen /\ Unsigned(0) > item[key].len
            \/ /\ item[key].status = "present"
               /\ Honest(res, item[key].len, 0, 0)
        BY <1>0, LoadFacts
      <3> QED BY <2>2, <3>1, Params DEF Honest
    <2> QED BY <1>2, <2>1, <2>3 DEF ProcessLoadResult, AnswerOf
  <1>3. CASE len > 0
    <2>1. PICK res \in Loads(key, offset, len) :
            a = ProcessLoadResult(res, Filled(len, res))
      BY <1>0, <1>3 DEF InternalRead
    <2>2. len \in Nat BY <1>0, <1>3
    <2>3. \/ /\ res.code = "index_out_of_bound"
             /\ item[key].status = "absent" \/ (host /\ fds = MaxFds)
          \/ res.code = "item_missing" /\ item[key].status = "missing"
          \/ /\ res.code = "other" /\ item[key].status = "present"
             /\ Unsigned(offset) > item[key].len
          \/ /\ item[key].status = "present"
             /\ Honest(res, item[key].len, offset, len)
      BY <1>0, <2>2, LoadFacts
    <2>4. CASE item[key].status = "present" /\ Honest(res, item[key].len, offset, len)
      <3>1. a = Promise!Text(len, res.from, res.copied)
        BY <2>1, <2>4 DEF ProcessLoadResult, Honest, Filled
      <3>2. /\ res.from \in 0 .. SizeMod - 1 /\ res.copied \in 0 .. len
            /\ offset >= 0 /\ res.copied < len => offset + res.copied >= item[key].len
            /\ offset >= 0 /\ offset + len <= item[key].len
                 => res.from = offset /\ res.copied = len
        BY <2>2, <2>4 DEF Honest
      <3>3. FilledFrom(key, len, offset, a) BY <3>1, <3>2 DEF FilledFrom
      <3> QED BY <1>3, <2>4, <3>3 DEF AnswerOf
    <2>5. CASE ~ (/\ item[key].status = "present"
                  /\ Honest(res, item[key].len, offset, len))
      BY <1>3, <2>1, <2>3, <2>5 DEF ProcessLoadResult, AnswerOf
    <2> QED BY <2>4, <2>5
  <1> QED BY <1>0, <1>1, <1>2, <1>3

\* Every answer is a reply.
LEMMA AnswerType ==
  ASSUME TypeOK, NEW key \in Key, NEW len, Arg(len), NEW offset, NEW a,
         AnswerOf(key, len, offset, a)
  PROVE  a \in Replies /\ (a.kind = "string" => a.copied <= a.len)
  <1>0. len \in Int /\ 2 * len < SizeMod /\ SizeMod \in Nat /\ SizeMod > 0
    BY Params DEF Arg
  <1> USE DEF Replies, Promise!Reply, Promise!IndexError, Promise!Nil,
          Promise!ArgumentError, Promise!Number, Promise!Text
  <1>1. CASE FilledFrom(key, len, offset, a) /\ len > 0
    <2>1. PICK from \in 0 .. SizeMod - 1, copied \in 0 .. len :
            a = Promise!Text(len, from, copied)
      BY <1>1 DEF FilledFrom
    <2>2. copied \in 0 .. SizeMod - 1 /\ len \in 0 .. SizeMod - 1
      BY <1>0, <1>1
    <2> QED BY <2>1, <2>2
  <1>2. CASE a = Promise!Number(item[key].len) /\ item[key].status = "present"
    <2>1. item[key].len \in 0 .. SizeMod - 1
      BY <1>2, Params DEF TypeOK, Promise!Items
    <2> QED BY <1>0, <1>2, <2>1
  <1>3. CASE a \in {Promise!IndexError, Promise!Nil, Promise!ArgumentError}
    BY <1>0, <1>3
  <1> QED BY <1>1, <1>2, <1>3 DEF AnswerOf

-----------------------------------------------------------------------------
(* The invariant, action by action.                                        *)

\* A load opens at most one file, and no more than there may be.
LEMMA OpenFacts ==
  ASSUME TypeOK, NEW key, Open(key) \/ UNCHANGED fds
  PROVE  fds' \in 0 .. MaxFds /\ (fds = MaxFds => fds' = MaxFds)
  BY Params DEF TypeOK, Open, Opened

\* Before the first call.
LEMMA InitIInv == Init => IInv
  <1> SUFFICES ASSUME Init PROVE IInv
    OBVIOUS
  <1> USE DEF Init, Promise!NoCall, Promise!Nothing, Promise!Call, Promise!Reply
  <1>1. /\ (CHOOSE k \in Key : TRUE) \in Key
        /\ (CHOOSE k \in Key \cup HashKey : TRUE) \in Key \cup HashKey
    BY ParameterAssumption
  <1>2. TypeOK
    <2>1. ret \in Replies BY Params DEF Replies
    <2>2. call \in [op : {"none", "length", "read", "readall", "load_hash"},
                    key : Key \cup HashKey, offset : Int, len : Int]
      BY <1>1
    <2> QED BY <1>1, <2>1, <2>2, Params DEF TypeOK
  <1> QED BY <1>2 DEF IInv, ItemsPossible, CopyFits, UnwrittenOnlyPastEnd,
          IndexErrorExplained, ReadAllWhole, LengthFresh

\* A length or a read that returns.
LEMMA CallIInv ==
  ASSUME IInv, pc = "idle", UNCHANGED <<host, pc, reader, l, item>>,
         NEW key \in Key, NEW op \in {"length", "read"},
         NEW offset, Arg(offset), NEW len, Arg(len),
         op = "length" => len = 0,
         ret' \in InternalRead(key, len, offset),
         Return(op, key, offset, len), Open(key) \/ UNCHANGED fds
  PROVE  IInv'
  <1>0. TypeOK /\ len \in Int /\ offset \in Int BY DEF IInv, Arg
  <1>1. AnswerOf(key, len, offset, ret') BY <1>0, InternalReadFacts
  <1>2. ret' \in Replies /\ (ret'.kind = "string" => ret'.copied <= ret'.len)
    BY <1>0, <1>1, AnswerType
  <1>3. fds' \in 0 .. MaxFds /\ (fds = MaxFds => fds' = MaxFds)
    BY <1>0, OpenFacts
  <1>4. call' = Promise!Call(op, key, offset, len) BY DEF Return
  <1>5. /\ call'.op = op /\ call'.key = key
        /\ call'.offset = offset /\ call'.len = len
        /\ It' = item[key]
    BY <1>4 DEF Promise!Call, It
  <1>6. TypeOK'
    <2>1. call' \in [op : {"none", "length", "read", "readall", "load_hash"},
                     key : Key \cup HashKey, offset : Int, len : Int]
      BY <1>0, <1>4 DEF Promise!Call
    <2> QED BY <1>0, <1>2, <1>3, <2>1 DEF TypeOK
  <1>7. ItemsPossible' /\ LengthFresh'
    BY DEF IInv, ItemsPossible, LengthFresh, Possible
  <1>8. CopyFits' BY <1>2 DEF CopyFits
  <1> USE DEF Promise!Reply, Promise!IndexError, Promise!Nil,
          Promise!ArgumentError, Promise!Number, Promise!Text
  <1>9. UnwrittenOnlyPastEnd'
    <2>1. SUFFICES ASSUME ret'.kind = "string", offset >= 0,
                          ret'.copied < ret'.len
                   PROVE  op = "read" /\ offset + ret'.copied >= item[key].len
      BY <1>5 DEF UnwrittenOnlyPastEnd
    <2>2. FilledFrom(key, len, offset, ret') /\ len > 0 BY <1>1, <2>1 DEF AnswerOf
    <2>3. PICK from \in 0 .. SizeMod - 1, copied \in 0 .. len :
            /\ ret' = Promise!Text(len, from, copied)
            /\ offset >= 0 /\ copied < len => offset + copied >= item[key].len
      BY <2>2 DEF FilledFrom
    <2> QED BY <1>0, <2>1, <2>2, <2>3
  <1>10. IndexErrorExplained'
    BY <1>1, <1>3, <1>5 DEF AnswerOf, FilledFrom, IndexErrorExplained
  <1>11. ReadAllWhole' BY <1>5 DEF ReadAllWhole
  <1> QED BY <1>6, <1>7, <1>8, <1>9, <1>10, <1>11 DEF IInv

\* length and exists? (ckb.rb:12-18).
LEMMA LengthIInv == ASSUME IInv, NEW key \in Key, Length(key) PROVE IInv'
  <1>1. Arg(0) BY Params DEF Arg
  <1> QED BY <1>1, CallIInv DEF Length

\* read (ckb.rb:20-22).
LEMMA ReadIInv ==
  ASSUME IInv, NEW key \in Key, NEW o \in Offsets, NEW n \in Lens, Read(key, o, n)
  PROVE  IInv'
  <1>1. Arg(o) /\ Arg(n) BY ParameterAssumption DEF Arg
  <1> QED BY <1>1, CallIInv DEF Read

\* readall on a key: the first syscall.
LEMMA ReadAllLengthIInv ==
  ASSUME IInv, NEW key \in Key, ReadAllLength(key) PROVE IInv'
  <1>0. TypeOK /\ Arg(0) /\ pc = "idle" /\ UNCHANGED <<host, item>>
    BY Params DEF IInv, Arg, ReadAllLength
  <1>1. fds' \in 0 .. MaxFds /\ (fds = MaxFds => fds' = MaxFds)
    BY <1>0, OpenFacts DEF ReadAllLength
  <1>2. PICK a \in InternalRead(key, 0, 0) :
          \/ /\ a.kind = "number"
             /\ pc' = "readall" /\ reader' = key /\ l' = a.len
             /\ UNCHANGED <<call, ret>>
          \/ /\ a.kind # "number"
             /\ ret' = a
             /\ Return("readall", key, 0, 0)
             /\ UNCHANGED <<pc, reader, l>>
    BY DEF ReadAllLength
  <1>3. AnswerOf(key, 0, 0, a) BY <1>0, InternalReadFacts
  <1>4. a \in Replies /\ (a.kind = "string" => a.copied <= a.len)
    BY <1>0, <1>3, AnswerType
  <1>5. ItemsPossible' BY <1>0 DEF IInv, ItemsPossible, Possible
  <1> USE DEF Promise!Reply, Promise!IndexError, Promise!Nil,
          Promise!ArgumentError, Promise!Number, Promise!Text
  <1>6. CASE a.kind = "number"
    <2>1. /\ pc' = "readall" /\ reader' = key /\ l' = a.len
          /\ UNCHANGED <<host, call, ret, item>>
      BY <1>0, <1>2, <1>6
    <2>2. a = Promise!Number(item[key].len) /\ item[key].status = "present"
      BY <1>3, <1>6 DEF AnswerOf, FilledFrom
    <2>3. item[key] = [status |-> "present", len |-> item[key].len]
      BY <1>0, <2>2 DEF TypeOK, Promise!Items
    <2>4. TypeOK' BY <1>0, <1>1, <1>4, <2>1 DEF TypeOK, Replies
    <2>5. LengthFresh' BY <2>1, <2>2, <2>3 DEF LengthFresh
    <2>6. It' = It BY <2>1 DEF It
    <2>7. CopyFits' /\ UnwrittenOnlyPastEnd' /\ ReadAllWhole'
      BY <2>1, <2>6 DEF IInv, CopyFits, UnwrittenOnlyPastEnd, ReadAllWhole
    <2>8. IndexErrorExplained'
      BY <1>1, <2>1, <2>6 DEF IInv, IndexErrorExplained
    <2> QED BY <1>5, <2>4, <2>5, <2>7, <2>8 DEF IInv
  <1>7. CASE a.kind # "number"
    <2>1. /\ ret' = a /\ call' = Promise!Call("readall", key, 0, 0)
          /\ UNCHANGED <<host, pc, reader, l, item>>
      BY <1>0, <1>2, <1>7 DEF Return
    <2>2. call'.op = "readall" /\ call'.key = key /\ It' = item[key]
      BY <2>1 DEF Promise!Call, It
    <2>3. \/ /\ a = Promise!IndexError
             /\ item[key].status = "absent" \/ (host /\ fds = MaxFds)
          \/ a = Promise!Nil /\ item[key].status = "missing"
      BY <1>3, <1>7 DEF AnswerOf, FilledFrom
    <2>4. TypeOK'
      <3>1. call' \in [op : {"none", "length", "read", "readall", "load_hash"},
                       key : Key \cup HashKey, offset : Int, len : Int]
        BY <2>1 DEF Promise!Call
      <3> QED BY <1>0, <1>1, <1>4, <2>1, <3>1 DEF TypeOK
    <2>5. LengthFresh' BY <1>0, <2>1 DEF LengthFresh
    <2>6. CopyFits' /\ UnwrittenOnlyPastEnd' /\ ReadAllWhole'
      BY <2>1, <2>2, <2>3 DEF CopyFits, UnwrittenOnlyPastEnd, ReadAllWhole
    <2>7. IndexErrorExplained'
      BY <1>1, <2>1, <2>2, <2>3 DEF IndexErrorExplained
    <2> QED BY <1>5, <2>4, <2>5, <2>6, <2>7 DEF IInv
  <1> QED BY <1>6, <1>7

\* What the second syscall of readall answers.
LEMMA ReadAllReadFacts ==
  ASSUME IInv, ReadAllRead
  PROVE  /\ l \in 0 .. MaxLen /\ reader \in Key
         /\ item[reader] = [status |-> "present", len |-> l]
         /\ \/ ret' = Promise!IndexError /\ host /\ fds = MaxFds
            \/ ret' = Promise!Number(0) /\ l = 0 /\ ~ host
            \/ ret' = Promise!Text(l, 0, l) /\ l > 0
  <1>0. TypeOK /\ pc = "readall" /\ ret' \in InternalRead(reader, l, 0)
    BY DEF IInv, ReadAllRead
  <1>1. /\ reader \in Key
        /\ item[reader] = [status |-> "present", len |-> l]
    BY <1>0 DEF IInv, TypeOK, LengthFresh
  <1>2. item[reader] \in Promise!Items BY <1>0, <1>1 DEF TypeOK
  <1>3. l \in 0 .. MaxLen BY <1>1, <1>2 DEF Promise!Items
  <1>4. Arg(l) /\ Arg(0) BY <1>3, Params DEF Arg
  <1>5. AnswerOf(reader, l, 0, ret') BY <1>0, <1>1, <1>4, InternalReadFacts
  <1>6. host => l > 0
    <2>1. Possible(reader, item[reader])
      BY <1>1 DEF IInv, ItemsPossible
    <2>2. ~ reader \in HashKey BY <1>1, ParameterAssumption
    <2> QED BY <1>1, <2>1, <2>2 DEF Possible
  <1>7. Unsigned(0) = 0 BY Params, UnsignedOfNat
  <1>8. FilledFrom(reader, l, 0, ret') => ret' = Promise!Text(l, 0, l)
    BY <1>1, <1>3 DEF FilledFrom
  <1> QED BY <1>1, <1>3, <1>5, <1>6, <1>7, <1>8 DEF AnswerOf

\* The second syscall of readall (ckb.rb:28).
LEMMA ReadAllReadIInv == ASSUME IInv, ReadAllRead PROVE IInv'
  <1>0. TypeOK /\ pc' = "idle" /\ UNCHANGED <<host, reader, l, item>>
    BY DEF IInv, ReadAllRead
  <1>1. fds' \in 0 .. MaxFds /\ (fds = MaxFds => fds' = MaxFds)
    BY <1>0, OpenFacts DEF ReadAllRead
  <1>2. /\ l \in 0 .. MaxLen /\ reader \in Key
        /\ item[reader] = [status |-> "present", len |-> l]
        /\ \/ ret' = Promise!IndexError /\ host /\ fds = MaxFds
           \/ ret' = Promise!Number(0) /\ l = 0 /\ ~ host
           \/ ret' = Promise!Text(l, 0, l) /\ l > 0
    BY ReadAllReadFacts
  <1>3. call' = Promise!Call("readall", reader, 0, 0)
    BY DEF ReadAllRead, Return
  <1>4. call'.op = "readall" /\ It' = item[reader]
    BY <1>0, <1>3 DEF Promise!Call, It
  <1> USE DEF Promise!Reply, Promise!IndexError, Promise!Nil,
          Promise!ArgumentError, Promise!Number, Promise!Text
  <1>5. TypeOK'
    <2>1. call' \in [op : {"none", "length", "read", "readall", "load_hash"},
                     key : Key \cup HashKey, offset : Int, len : Int]
      BY <1>2, <1>3 DEF Promise!Call
    <2>2. l \in 0 .. SizeMod - 1 /\ 0 \in 0 .. SizeMod - 1 BY <1>2, Params
    <2>3. ret' \in Replies BY <1>2, <2>2 DEF Replies
    <2> QED BY <1>0, <1>1, <2>1, <2>3 DEF TypeOK
  <1>6. ItemsPossible' /\ LengthFresh'
    BY <1>0 DEF IInv, ItemsPossible, LengthFresh, Possible
  <1>7. CopyFits' /\ UnwrittenOnlyPastEnd'
    BY <1>2 DEF CopyFits, UnwrittenOnlyPastEnd
  <1>8. ReadAllWhole' BY <1>0, <1>2, <1>4 DEF ReadAllWhole
  <1>9. IndexErrorExplained' BY <1>0, <1>1, <1>2, <1>4 DEF IndexErrorExplained
  <1> QED BY <1>5, <1>6, <1>7, <1>8, <1>9 DEF IInv

\* What the loads of the two hashes can answer.
LEMMA LoadHashFacts ==
  ASSUME IInv, NEW key \in HashKey, LoadHash(key)
  PROVE  \/ /\ ret' = Promise!ArgumentError
            /\ \/ item[key].status # "present" \/ item[key].len # HashLen
               \/ host
         \/ /\ ret' = Promise!Text(HashLen, 0, HashLen)
            /\ item[key].status = "present" /\ item[key].len = HashLen
  <1>0. /\ item \in [Key \cup HashKey -> Promise!Items] /\ Arg(0)
        /\ HashLen \in Nat /\ key \in Key \cup HashKey
    BY Params DEF IInv, TypeOK, Arg
  <1>1. PICK res \in Loads(key, 0, HashLen) :
          ret' = IF res.code # "success" \/ res.len # HashLen
                   THEN Promise!ArgumentError ELSE Filled(HashLen, res)
    BY DEF LoadHash
  <1>2. Unsigned(0) = 0 BY Params, UnsignedOfNat
  <1>3. \/ /\ res.code = "index_out_of_bound"
           /\ item[key].status = "absent" \/ (host /\ fds = MaxFds)
        \/ res.code = "item_missing" /\ item[key].status = "missing"
        \/ item[key].len \in 0 .. MaxLen /\ Unsigned(0) > item[key].len
        \/ /\ item[key].status = "present" /\ item[key].len \in 0 .. MaxLen
           /\ Honest(res, item[key].len, 0, HashLen)
    BY <1>0, LoadFacts
  <1>4. CASE /\ item[key].status = "present" /\ item[key].len \in 0 .. MaxLen
             /\ Honest(res, item[key].len, 0, HashLen)
    <2>1. /\ res.code = "success" /\ res.len = item[key].len /\ res.from = 0
          /\ HashLen <= item[key].len => res.copied = HashLen
      BY <1>0, <1>4 DEF Honest
    <2>2. item[key].len = HashLen => Filled(HashLen, res)
                                       = Promise!Text(HashLen, 0, HashLen)
      BY <1>0, <2>1 DEF Filled
    <2> QED BY <1>1, <1>4, <2>1, <2>2
  <1>5. CASE /\ res.code # "success"
             /\ \/ item[key].status # "present" \/ host
    BY <1>1, <1>5
  <1>6. ~ (item[key].len \in 0 .. MaxLen /\ Unsigned(0) > item[key].len)
    BY <1>2, Params
  <1> QED BY <1>3, <1>4, <1>5, <1>6

\* load_tx_hash and load_script_hash (ckb.c:255-287).
LEMMA LoadHashIInv == ASSUME IInv, NEW key \in HashKey, LoadHash(key) PROVE IInv'
  <1>0. TypeOK /\ pc = "idle" /\ UNCHANGED <<host, pc, reader, l, item>>
    BY DEF IInv, LoadHash
  <1>1. fds' \in 0 .. MaxFds BY <1>0, OpenFacts DEF LoadHash
  <1>2. call' = Promise!Call("load_hash", key, 0, HashLen)
    BY DEF LoadHash, Return
  <1>3. \/ ret' = Promise!ArgumentError
        \/ ret' = Promise!Text(HashLen, 0, HashLen)
    BY LoadHashFacts
  <1> USE DEF Promise!Reply, Promise!ArgumentError, Promise!Text
  <1>4. TypeOK'
    <2>1. call' \in [op : {"none", "length", "read", "readall", "load_hash"},
                     key : Key \cup HashKey, offset : Int, len : Int]
      BY <1>2, Params DEF Promise!Call
    <2>2. HashLen \in 0 .. SizeMod - 1 /\ 0 \in 0 .. SizeMod - 1 BY Params
    <2>3. ret' \in Replies BY <1>3, <2>2 DEF Replies
    <2> QED BY <1>0, <1>1, <2>1, <2>3 DEF TypeOK
  <1>5. ItemsPossible' /\ LengthFresh'
    BY <1>0 DEF IInv, ItemsPossible, LengthFresh, Possible
  <1>6. CopyFits' /\ UnwrittenOnlyPastEnd' /\ IndexErrorExplained'
    BY <1>3, Params DEF CopyFits, UnwrittenOnlyPastEnd, IndexErrorExplained
  <1>7. ReadAllWhole' BY <1>2 DEF ReadAllWhole, Promise!Call
  <1> QED BY <1>4, <1>5, <1>6, <1>7 DEF IInv

-----------------------------------------------------------------------------
(* The theorems.                                                           *)

\* IInv holds in every reachable state of both builds: the properties of the
\* reader (ckb.rb, ckb.c, ckb_syscalls.c) follow from it.
THEOREM Invariant == Spec => []IInv
  <1>1. Init => IInv BY InitIInv
  <1>2. IInv /\ [Next]_vars => IInv'
    <2> SUFFICES ASSUME IInv, [Next]_vars PROVE IInv'
      OBVIOUS
    <2>1. ASSUME NEW key \in Key, Length(key) PROVE IInv' BY <2>1, LengthIInv
    <2>2. ASSUME NEW key \in Key, NEW o \in Offsets, NEW n \in Lens,
                 Read(key, o, n)
          PROVE IInv' BY <2>2, ReadIInv
    <2>3. ASSUME NEW key \in Key, ReadAllLength(key) PROVE IInv'
      BY <2>3, ReadAllLengthIInv
    <2>4. CASE ReadAllRead BY <2>4, ReadAllReadIInv
    <2>5. ASSUME NEW key \in HashKey, LoadHash(key) PROVE IInv'
      BY <2>5, LoadHashIInv
    <2>6. CASE UNCHANGED vars
      BY <2>6 DEF vars, IInv, TypeOK, ItemsPossible, CopyFits, It,
         UnwrittenOnlyPastEnd, IndexErrorExplained, ReadAllWhole, LengthFresh,
         Possible
    <2> QED BY <2>1, <2>2, <2>3, <2>4, <2>5, <2>6 DEF Next
  <1> QED BY <1>1, <1>2, PTL DEF Spec

\* No load writes past its string, for any offset and length (the MIN of
\* ckb_syscalls.c, the buffer of internal_read).
THEOREM NoOverrun == Spec => []CopyFits
  <1>1. IInv => CopyFits BY DEF IInv
  <1> QED BY <1>1, Invariant, PTL

\* Unwritten bytes reach a contract only when it reads past the end of the
\* item (RSTR_SET_LEN in internal_read).
THEOREM UnwrittenTheorem == Spec => []UnwrittenOnlyPastEnd
  <1>1. IInv => UnwrittenOnlyPastEnd BY DEF IInv
  <1> QED BY <1>1, Invariant, PTL

\* readall is all or nothing (Reader#readall, ckb.rb:24-29).
THEOREM ReadAllTheorem == Spec => []ReadAllWhole
  <1>1. IInv => ReadAllWhole BY DEF IInv
  <1> QED BY <1>1, Invariant, PTL

\* The type invariant of CkbReader (the arguments and answers of internal_read,
\* and the FILEs of ckb_syscalls.c, never more than the process may open).
THEOREM TypeCorrect == Spec => []TypeOK
  <1>1. IInv => TypeOK BY DEF IInv
  <1> QED BY <1>1, Invariant, PTL

\* An IndexOutOfBound always has one of its two causes (raise_index_out_of_bound,
\* ckb.c:123-129, and the test of fopen in ckb_syscalls.c).
THEOREM IndexErrorTheorem == Spec => []IndexErrorExplained
  <1>1. IInv => IndexErrorExplained BY DEF IInv
  <1> QED BY <1>1, Invariant, PTL

\* The length readall holds between its two syscalls is the item's (ckb.rb:25).
THEOREM LengthTheorem == Spec => []LengthFresh
  <1>1. IInv => LengthFresh BY DEF IInv
  <1> QED BY <1>1, Invariant, PTL

-----------------------------------------------------------------------------
(* Both builds implement ItemReader.                                       *)

\* An answer of internal_read is what the promise wants, or a failed fopen.
LEMMA AnswerPromised ==
  ASSUME TypeOK, NEW key \in Key, NEW op \in {"length", "read"},
         NEW offset, Arg(offset), NEW len, Arg(len),
         op = "length" => len = 0,
         NEW a, AnswerOf(key, len, offset, a)
  PROVE  \/ Promise!PromisedOfItem(Promise!Call(op, key, offset, len), a)
         \/ host /\ Promise!Raised(a)
  <1> DEFINE c == Promise!Call(op, key, offset, len)
  <1>0. /\ c.op = op /\ c.key = key /\ c.offset = offset /\ c.len = len
        /\ len \in Int /\ offset \in Int
        /\ item[key].status \in {"absent", "missing", "present"}
        /\ item[key].status = "present" => item[key].len \in Nat
    BY DEF Promise!Call, Arg, TypeOK, Promise!Items
  <1> HIDE DEF c
  <1>a. ~ Promise!Sensible(c) => Promise!PromisedOfItem(c, a)
    BY Zenon DEF Promise!PromisedOfItem
  <1>1. SUFFICES ASSUME Promise!Sensible(c), ~ (host /\ Promise!Raised(a))
                 PROVE  Promise!PromisedOfItem(c, a)
    BY <1>a, Zenon DEF c
  <1>2. op = "read" => offset >= 0 /\ len > 0 BY <1>0, <1>1 DEF Promise!Sensible
  <1>3. a # Promise!IndexError \/ item[key].status = "absent"
    BY <1>1 DEF AnswerOf, FilledFrom, Promise!Raised, Promise!IndexError,
       Promise!Reply, Promise!Nil, Promise!ArgumentError, Promise!Number,
       Promise!Text
  <1>4. CASE a = Promise!IndexError
    BY <1>0, <1>3, <1>4 DEF Promise!PromisedOfItem
  <1>5. CASE a = Promise!Nil /\ item[key].status = "missing"
    BY <1>0, <1>5 DEF Promise!PromisedOfItem
  <1>6. CASE /\ a = Promise!ArgumentError /\ len > 0
             /\ item[key].status = "present" /\ Unsigned(offset) > item[key].len
    <2>1. op = "read" /\ offset >= 0 BY <1>0, <1>2, <1>6
    <2>2. Unsigned(offset) = offset
      BY <1>0, <2>1, Params, UnsignedOfNat DEF Arg
    <2>3. ~ Promise!InItem(c) BY <1>0, <1>6, <2>1, <2>2 DEF Promise!InItem
    <2> QED BY <1>0, <1>6, <2>3 DEF Promise!PromisedOfItem
  <1>7. CASE /\ a = Promise!Number(item[key].len) /\ len = 0
             /\ item[key].status = "present"
    <2>1. op = "length" BY <1>0, <1>2, <1>7
    <2> QED BY <1>0, <1>7, <2>1 DEF Promise!PromisedOfItem, Promise!Contents
  <1>8. CASE /\ FilledFrom(key, len, offset, a) /\ len > 0
             /\ item[key].status = "present"
    <2>1. op = "read" /\ offset >= 0 BY <1>2, <1>8
    <2>2. Promise!InItem(c) => a = Promise!Text(len, offset, len)
      BY <1>0, <1>8, <2>1 DEF FilledFrom, Promise!InItem
    <2> QED BY <1>0, <1>8, <2>1, <2>2
        DEF Promise!PromisedOfItem, Promise!Contents
  <1>9. ~ (len < 0) BY <1>0, <1>2
  <1> QED BY <1>3, <1>4, <1>5, <1>6, <1>7, <1>8, <1>9 DEF AnswerOf

\* A length or a read answers what is promised of it.
LEMMA CallPromised ==
  ASSUME TypeOK, UNCHANGED <<host, item>>, NEW key \in Key, NEW op \in {"length", "read"},
         NEW offset, Arg(offset), NEW len, Arg(len), op = "length" => len = 0,
         ret' \in InternalRead(key, len, offset), Return(op, key, offset, len)
  PROVE  Promise!Answer
  <1>1. AnswerOf(key, len, offset, ret') BY InternalReadFacts
  <1>2. \/ Promise!PromisedOfItem(Promise!Call(op, key, offset, len), ret')
        \/ host /\ Promise!Raised(ret')
    BY <1>1, AnswerPromised
  <1>3. call' = Promise!Call(op, key, offset, len) BY DEF Return
  <1>4. call'.key \in Key \cup HashKey /\ call'.op = op
    BY <1>3 DEF Promise!Call
  <1> QED BY <1>2, <1>3, <1>4 DEF Promise!Answer, Promise!Promised

\* readall answers in one step of the promise: its first syscall stutters
\* when the second follows.
LEMMA ReadAllLengthPromised ==
  ASSUME TypeOK, NEW key \in Key, ReadAllLength(key)
  PROVE  Promise!Answer \/ UNCHANGED <<host, item, call, ret>>
  <1>0. Arg(0) /\ UNCHANGED <<host, item>> BY Params DEF Arg, ReadAllLength
  <1>1. PICK a \in InternalRead(key, 0, 0) :
          \/ a.kind = "number" /\ UNCHANGED <<call, ret>>
          \/ a.kind # "number" /\ ret' = a /\ Return("readall", key, 0, 0)
    BY DEF ReadAllLength
  <1>2. CASE UNCHANGED <<call, ret>> BY <1>0, <1>2
  <1>3. CASE a.kind # "number" /\ ret' = a /\ Return("readall", key, 0, 0)
    <2>1. AnswerOf(key, 0, 0, a) BY <1>0, InternalReadFacts
    <2>2. \/ /\ ret' = Promise!IndexError
             /\ item[key].status = "absent" \/ host
          \/ ret' = Promise!Nil /\ item[key].status = "missing"
      BY <1>3, <2>1 DEF AnswerOf, FilledFrom, Promise!Number, Promise!Reply
    <2>3. /\ call'.op = "readall" /\ call'.key = key
          /\ call'.key \in Key \cup HashKey
      BY <1>3 DEF Return, Promise!Call
    <2> QED BY <1>0, <2>2, <2>3 DEF Promise!Answer, Promise!Promised,
            Promise!PromisedOfItem, Promise!Raised, Promise!IndexError,
            Promise!Reply
  <1> QED BY <1>1, <1>2, <1>3

\* The second syscall gives the answer.
LEMMA ReadAllReadPromised == ASSUME IInv, ReadAllRead PROVE Promise!Answer
  <1>1. /\ l \in 0 .. MaxLen /\ reader \in Key
        /\ item[reader] = [status |-> "present", len |-> l]
        /\ \/ ret' = Promise!IndexError /\ host /\ fds = MaxFds
           \/ ret' = Promise!Number(0) /\ l = 0 /\ ~ host
           \/ ret' = Promise!Text(l, 0, l) /\ l > 0
    BY ReadAllReadFacts
  <1>2. /\ call'.op = "readall" /\ call'.key = reader
        /\ call'.key \in Key \cup HashKey /\ UNCHANGED <<host, item>>
    BY <1>1 DEF ReadAllRead, Return, Promise!Call
  <1>3. (ret' = Promise!IndexError /\ host) \/ Promise!PromisedOfItem(call', ret')
    BY <1>1, <1>2 DEF Promise!PromisedOfItem, Promise!Contents
  <1> QED BY <1>2, <1>3 DEF Promise!Answer, Promise!Promised, Promise!Raised,
          Promise!IndexError, Promise!Reply

\* So do the two hash loads.
LEMMA LoadHashPromised ==
  ASSUME IInv, NEW key \in HashKey, LoadHash(key) PROVE Promise!Answer
  <1>1. /\ call'.op = "load_hash" /\ call'.key = key /\ call'.len = HashLen
        /\ call'.key \in Key \cup HashKey /\ UNCHANGED <<host, item>>
    BY DEF LoadHash, Return, Promise!Call
  <1>2. \/ /\ ret' = Promise!ArgumentError
           /\ \/ item[key].status # "present" \/ item[key].len # HashLen
              \/ host
        \/ /\ ret' = Promise!Text(HashLen, 0, HashLen)
           /\ item[key].status = "present" /\ item[key].len = HashLen
    BY LoadHashFacts
  <1>3. Promise!PromisedOfHash(call', ret') \/ (host /\ Promise!Raised(ret'))
    BY <1>1, <1>2 DEF Promise!PromisedOfHash, Promise!Raised,
       Promise!ArgumentError, Promise!Reply
  <1> QED BY <1>1, <1>3 DEF Promise!Answer, Promise!Promised

\* The reader of both builds keeps the promise of ItemReader: one indivisible
\* answer a call (ckb.rb, internal_read of ckb.c, ckb_syscalls.c).
THEOREM Refinement == Spec => ReaderSpec
  <1>1. Init => Promise!Init BY DEF Init, Promise!Init
  <1>2. IInv /\ [Next]_vars => [Promise!Next]_Promise!vars
    <2> SUFFICES ASSUME IInv, [Next]_vars
                 PROVE  Promise!Answer \/ UNCHANGED <<host, item, call, ret>>
      BY DEF Promise!Next, Promise!vars
    <2>0. TypeOK /\ Arg(0) BY Params DEF IInv, Arg
    <2>1. ASSUME NEW key \in Key, Length(key) PROVE Promise!Answer
      BY <2>0, <2>1, CallPromised DEF Length
    <2>2. ASSUME NEW key \in Key, NEW o \in Offsets, NEW n \in Lens,
                 Read(key, o, n)
          PROVE Promise!Answer
      <3>1. Arg(o) /\ Arg(n) BY ParameterAssumption DEF Arg
      <3> QED BY <2>0, <2>2, <3>1, CallPromised DEF Read
    <2>3. ASSUME NEW key \in Key, ReadAllLength(key)
          PROVE Promise!Answer \/ UNCHANGED <<host, item, call, ret>>
      BY <2>0, <2>3, ReadAllLengthPromised
    <2>4. CASE ReadAllRead BY <2>4, ReadAllReadPromised
    <2>5. ASSUME NEW key \in HashKey, LoadHash(key) PROVE Promise!Answer
      BY <2>5, LoadHashPromised
    <2>6. CASE UNCHANGED vars BY <2>6 DEF vars
    <2> QED BY <2>1, <2>2, <2>3, <2>4, <2>5, <2>6 DEF Next
  <1> QED BY <1>1, <1>2, Invariant, PTL DEF Spec, ReaderSpec, Promise!Spec
=============================================================================
