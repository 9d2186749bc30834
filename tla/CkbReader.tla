----------------------------- MODULE CkbReader -----------------------------
(***************************************************************************)
(* CKB::Reader (mrblib/ckb.rb), the five internal_read functions of ckb.c, *)
(* which differ only in the syscall they make, and the two hash loads,     *)
(* over either build of the syscalls: the CKB VM (host = FALSE, external   *)
(* code) or the files of ckb_syscalls.c (host = TRUE), where every load    *)
(* opens a file that nobody closes.                                        *)
(*                                                                         *)
(* readall is two syscalls, so two steps.  An item is known by the key its *)
(* reader's @source, @index and @field make.                               *)
(***************************************************************************)
EXTENDS Integers

CONSTANTS Key, HashKey,   \* items, and the transaction and script hash
          HashLen,        \* 32
          SizeMod,        \* modulus of size_t (2^64)
          MaxLen,         \* bound: the longest item
          MaxFds,         \* files a process may open (host build)
          Offsets, Lens   \* the arguments of read

ASSUME ParameterAssumption ==
         /\ HashLen \in Nat \ {0}
         /\ SizeMod \in Nat /\ MaxLen \in Nat /\ 2 * MaxLen < SizeMod
         /\ HashLen < SizeMod
         /\ MaxFds \in Nat
         /\ Key # {} /\ Key \cap HashKey = {}
         /\ Offsets \subseteq {o \in Int : -SizeMod <= 2 * o /\ 2 * o < SizeMod}
         /\ Lens \subseteq {n \in Int : -SizeMod <= 2 * n /\ 2 * n < SizeMod}

VARIABLES host,     \* which build of the syscalls it is
          pc,       \* "idle", or "readall" between its two syscalls
          reader,   \* the key of the reader whose readall is running
          l,        \* its local of that name
          fds,      \* files opened so far
          item, call, ret

vars == <<host, pc, reader, l, fds, item, call, ret>>

Promise == INSTANCE ItemReader WITH Key <- Key \cup HashKey, mayFail <- host

Smaller(a, b) == IF a < b THEN a ELSE b

-----------------------------------------------------------------------------
(* The syscalls: a return code, the new value of *len, and which bytes went *)
(* to the buffer.                                                           *)

Result(code, len, from, copied) ==
  [code |-> code, len |-> len, from |-> from, copied |-> copied]

Failed(code) == Result(code, 0, 0, 0)

\* Mutant: the conversion forgotten.
SignedSize(n) == n

\* An mrb_int passed as a size_t.
Unsigned(n) == n % SizeMod

\* Mutant: the MIN dropped.
FileLoadUnclamped(size, offset, len) ==
  Result("success", (size - Unsigned(offset)) % SizeMod, 0, size)

\* ckb_syscalls.c: the unsigned difference wraps when the offset is past the
\* end, fseek refuses a negative offset and fread stops at the end of file.
FileLoad(size, offset, len) ==
  LET left_size == (size - Unsigned(offset)) % SizeMod
      read_size == Smaller(left_size, len)
      position  == IF offset < 0 THEN 0 ELSE offset
      behind    == IF position < size THEN size - position ELSE 0
  IN  Result("success", left_size, position, Smaller(read_size, behind))

FileLoads(key, offset, len) ==
  CASE fds = MaxFds \/ item[key].status = "absent" -> {Failed("index_out_of_bound")}
    [] item[key].status = "missing"                -> {Failed("item_missing")}
    [] OTHER -> {FileLoad(item[key].len, offset, len)}

\* The VM copies what there is behind the offset, or refuses an offset past
\* the end with a code of its own.
VMLoad(size, offset, len) ==
  LET start == Smaller(Unsigned(offset), size)
  IN  Result("success", size - start, start, Smaller(size - start, len))

VMLoads(key, offset, len) ==
  CASE item[key].status = "absent"  -> {Failed("index_out_of_bound")}
    [] item[key].status = "missing" -> {Failed("item_missing")}
    [] OTHER -> {VMLoad(item[key].len, offset, len)}
                  \cup IF Unsigned(offset) > item[key].len
                         THEN {Failed("other")} ELSE {}

Loads(key, offset, len) ==
  IF host THEN FileLoads(key, offset, len) ELSE VMLoads(key, offset, len)

\* fopen, for a load that gets that far: the FILE is never closed, whatever
\* the load answers.
Opened(key) == host /\ fds < MaxFds /\ item[key].status # "absent"

Open(key) == fds' = IF Opened(key) THEN fds + 1 ELSE fds

-----------------------------------------------------------------------------

\* Mutant: the two cases swapped.
ProcessLoadResultSwapped(res, value) ==
  CASE res.code = "success"            -> value
    [] res.code = "index_out_of_bound" -> Promise!Nil
    [] res.code = "item_missing"       -> Promise!IndexError
    [] OTHER                           -> Promise!ArgumentError

ProcessLoadResult(res, value) ==
  CASE res.code = "success"            -> value
    [] res.code = "index_out_of_bound" -> Promise!IndexError
    [] res.code = "item_missing"       -> Promise!Nil
    [] OTHER                           -> Promise!ArgumentError

\* Mutant: the length that the syscall left in buf_len.
FilledWithBufLen(len, res) == Promise!Text(res.len, res.from, res.copied)

\* The string gets the length asked for, whatever was copied.
Filled(len, res) == Promise!Text(len, res.from, res.copied)

\* Mutant: the offset is not passed on.
InternalReadFromStart(key, len, offset) ==
  CASE len = 0 -> {ProcessLoadResult(res, Promise!Number(res.len)) :
                     res \in Loads(key, 0, 0)}
    [] len > 0 -> {ProcessLoadResult(res, Filled(len, res)) :
                     res \in Loads(key, 0, len)}
    [] len < 0 -> {Promise!ArgumentError}

\* internal_read(len, offset): no bytes asked for means the length is, and
\* mrb_str_new_capa raises for a negative number of them.
InternalRead(key, len, offset) ==
  CASE len = 0 -> {ProcessLoadResult(res, Promise!Number(res.len)) :
                     res \in Loads(key, 0, 0)}
    [] len > 0 -> {ProcessLoadResult(res, Filled(len, res)) :
                     res \in Loads(key, offset, len)}
    [] len < 0 -> {Promise!ArgumentError}

\* What the transaction can hold, and the files that stand for it: an empty
\* file is a missing item, no file an absent one.
Possible(key, i) ==
  IF key \in HashKey
    THEN IF host THEN i.status # "missing"
                 ELSE i = [status |-> "present", len |-> HashLen]
    ELSE host /\ i.status = "present" => i.len > 0

Init == /\ host \in BOOLEAN
        /\ pc = "idle"
        /\ reader = CHOOSE k \in Key : TRUE
        /\ l = 0
        /\ fds = 0
        /\ item \in [Key \cup HashKey -> Promise!Items]
        /\ \A key \in Key \cup HashKey : Possible(key, item[key])
        /\ call = Promise!NoCall
        /\ ret = Promise!Nothing

Return(op, key, offset, len) == call' = Promise!Call(op, key, offset, len)

\* length, and exists? which only asks whether it is nil.
Length(key) ==
  /\ pc = "idle"
  /\ ret' \in InternalRead(key, 0, 0)
  /\ Open(key)
  /\ Return("length", key, 0, 0)
  /\ UNCHANGED <<host, pc, reader, l, item>>

Read(key, offset, len) ==
  /\ pc = "idle"
  /\ ret' \in InternalRead(key, len, offset)
  /\ IF len < 0 THEN UNCHANGED fds ELSE Open(key)
  /\ Return("read", key, offset, len)
  /\ UNCHANGED <<host, pc, reader, l, item>>

\* readall, up to `l = length': an exception or nil ends it there.
ReadAllLength(key) ==
  /\ pc = "idle"
  /\ Open(key)
  /\ \E answer \in InternalRead(key, 0, 0) :
       \/ /\ answer.kind = "number"
          /\ pc' = "readall" /\ reader' = key /\ l' = answer.len
          /\ UNCHANGED <<call, ret>>
       \/ /\ answer.kind # "number"
          /\ ret' = answer
          /\ Return("readall", key, 0, 0)
          /\ UNCHANGED <<pc, reader, l>>
  /\ UNCHANGED <<host, item>>

\* Mutant: the arguments of read in the other order.
ReadAllReadSwapped ==
  /\ pc = "readall"
  /\ ret' \in InternalRead(reader, 0, l)
  /\ Open(reader)
  /\ pc' = "idle"
  /\ Return("readall", reader, 0, 0)
  /\ UNCHANGED <<host, reader, l, item>>

\* The rest of it: read(0, l).
ReadAllRead ==
  /\ pc = "readall"
  /\ ret' \in InternalRead(reader, l, 0)
  /\ Open(reader)
  /\ pc' = "idle"
  /\ Return("readall", reader, 0, 0)
  /\ UNCHANGED <<host, reader, l, item>>

\* load_tx_hash, load_script_hash: anything but HashLen bytes is an error.
LoadHash(key) ==
  /\ pc = "idle"
  /\ \E res \in Loads(key, 0, HashLen) :
       ret' = IF res.code # "success" \/ res.len # HashLen
                THEN Promise!ArgumentError
                ELSE Filled(HashLen, res)
  /\ Open(key)
  /\ Return("load_hash", key, 0, HashLen)
  /\ UNCHANGED <<host, pc, reader, l, item>>

Next == \/ \E key \in Key : \/ Length(key)
                            \/ \E o \in Offsets, n \in Lens : Read(key, o, n)
                            \/ ReadAllLength(key)
        \/ ReadAllRead
        \/ \E key \in HashKey : LoadHash(key)

Spec == Init /\ [][Next]_vars

-----------------------------------------------------------------------------
(* Properties.                                                             *)

Replies == [kind : {"nothing", "nil", "number", "string",
                    "IndexOutOfBound", "ArgumentError"},
            len : 0 .. SizeMod - 1, from : 0 .. SizeMod - 1,
            copied : 0 .. SizeMod - 1]

\* The type invariant: readall never keeps a nil in `l', and no more files are
\* open than the process may have (ckb_syscalls.c never closes one).
TypeOK == /\ host \in BOOLEAN
          /\ pc \in {"idle", "readall"}
          /\ reader \in Key
          /\ l \in 0 .. SizeMod - 1
          /\ fds \in 0 .. MaxFds
          /\ item \in [Key \cup HashKey -> Promise!Items]
          /\ call \in [op : {"none", "length", "read", "readall", "load_hash"},
                       key : Key \cup HashKey, offset : Int, len : Int]
          /\ ret \in Replies

It == item[call.key]

\* A load never writes past the string made for it, whatever the offset
\* (the MIN of ckb_syscalls.c against the wrapped difference).
CopyFits == ret.kind = "string" => ret.copied <= ret.len

\* Bytes nobody wrote are in a string only behind the end of the item: what
\* is inside it is always there, at its place (RSTR_SET_LEN, ckb.c:326).
UnwrittenOnlyPastEnd ==
  (ret.kind = "string" /\ call.offset >= 0 /\ ret.copied < ret.len) =>
     /\ call.op = "read"
     /\ call.offset + ret.copied >= It.len

\* IndexOutOfBound means that there is no such item, or that the process has
\* used up its files: the test of fopen cannot tell (ckb_syscalls.c:67-69).
IndexErrorExplained ==
  ret.kind = "IndexOutOfBound" => It.status = "absent" \/ (host /\ fds = MaxFds)

\* readall gives the whole item or says that there is none, even when its
\* second syscall fails: never a part of it (ckb.rb:24-29).
ReadAllWhole ==
  call.op = "readall" =>
    \/ ret = Promise!Text(It.len, 0, It.len) /\ It.status = "present"
    \/ ret = Promise!Nil /\ It.status = "missing"
    \/ ret = Promise!Number(0) /\ It = [status |-> "present", len |-> 0] /\ ~ host
    \/ ret.kind = "IndexOutOfBound"

\* Between the two syscalls of readall the length it holds is the item's.
LengthFresh == pc = "readall" =>
                 item[reader] = [status |-> "present", len |-> l]

ItemsPossible == \A key \in Key \cup HashKey : Possible(key, item[key])

\* The inductive invariant behind the others.
IInv == /\ TypeOK
        /\ ItemsPossible
        /\ CopyFits
        /\ UnwrittenOnlyPastEnd
        /\ IndexErrorExplained
        /\ ReadAllWhole
        /\ LengthFresh

\* Both builds keep the promise of the reader.
ReaderSpec == Promise!Spec

\* The error message, "Index out of bound!" (ckb.c:128).
IndexErrorMeansAbsent == ret.kind = "IndexOutOfBound" => It.status = "absent"
=============================================================================
