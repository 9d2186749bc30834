------------------------ MODULE ReaderRequestProofs -------------------------
(***************************************************************************)
(* Proofs about ReaderRequest for any number of readers, items and offsets: *)
(* a reader keeps what it was made with in its places or not at all, and    *)
(* where its class keeps it, whatever request the reader makes, in either   *)
(* build, is about the item that it was made for.                           *)
(***************************************************************************)
EXTENDS ReaderRequest, TLAPS

\* The request that was made is that of the reader which was asked.
Asked == asked # Nobody =>
           /\ meant[asked] \in Items
           /\ meant[asked].field \in Field(meant[asked].class)
           /\ reader[asked] = ReadersOf(meant[asked])
           /\ \E offset \in Offset \cup {0, Junk} : request = Request(reader[asked], offset)

\* A slot that was used holds what initialize kept of the arguments, and an
\* unused one nothing.
Kept == \A s \in Slot :
          \/ reader[s] = NoItem /\ meant[s] = NoItem
          \/ /\ meant[s] \in Items
             /\ meant[s].field \in Field(meant[s].class)
             /\ reader[s] = ReadersOf(meant[s])

RequestIInv == /\ reader \in [Slot -> {ReadersOf(i) : i \in Items} \cup {NoItem}]
               /\ TypeOK
               /\ Kept
               /\ Asked

-----------------------------------------------------------------------------
(* The parts of an item.                                                   *)

\* An item is known by its class, source, index and field.
LEMMA ItemParts ==
  ASSUME NEW i \in Items
  PROVE  /\ i.class \in Class /\ i.source \in Source
         /\ i.index \in Index /\ i.index \in Nat
         /\ i.field \in {Nil} \cup 0 .. 6
         /\ i = Item(i.class, i.source, i.index, i.field)
         /\ i # NoItem
  <1>1. PICK class \in Class, source \in Source, index \in Index, field \in {Nil} \cup 0 .. 6 :
          i = Item(class, source, index, field)
    BY DEF Items
  <1> QED BY <1>1, RequestAssumption DEF Item, NoItem, Class

\* What initialize keeps is the item or the bare class, and never nothing.
LEMMA KeptParts ==
  ASSUME NEW i \in Items
  PROVE  /\ i.class \in Initialized => ReadersOf(i) = i
         /\ i.class \notin Initialized =>
              ReadersOf(i) \in {Item(class, Nil, Nil, Nil) : class \in Class \ Initialized}
         /\ ReadersOf(i) # NoItem
         /\ ReadersOf(i).class = i.class
  <1>1. i.class \in Class /\ i # NoItem BY ItemParts
  <1>2. Item(i.class, Nil, Nil, Nil) # NoItem BY <1>1 DEF Item, NoItem, Class
  <1>3. Item(i.class, Nil, Nil, Nil).class = i.class BY DEF Item
  <1> QED BY <1>1, <1>2, <1>3 DEF ReadersOf

\* mrb_fixnum of a number is the number.
LEMMA Numbers ==
  ASSUME NEW i \in Items
  PROVE  /\ Fixnum(i.index) = i.index
         /\ Fixnum(i.source) = i.source
         /\ i.class \in ByField /\ i.field \in Field(i.class) => Fixnum(i.field) = i.field
  <1>1. i.index # Nil /\ i.source # Nil BY ItemParts DEF Nil, Source
  <1>2. i.class \in ByField /\ i.field \in Field(i.class) => i.field # Nil
    BY DEF ByField, Field, Nil
  <1> QED BY <1>1, <1>2 DEF Fixnum

\* A request for what a reader kept of an item finds, in the VM and among the
\* files, that item.
LEMMA RequestFinds ==
  ASSUME NEW i \in Items, i.field \in Field(i.class), i.class \in Initialized,
         NEW offset
  PROVE  /\ KernelFinds(Request(ReadersOf(i), offset), i)
         /\ FileFinds(Request(ReadersOf(i), offset), i)
  <1> DEFINE q == Request(ReadersOf(i), offset)
  <1>1. ReadersOf(i) = i BY DEF ReadersOf
  <1>2. q.syscall = SyscallNumber(i.class) /\ q.directory = Directory(i.class)
    BY <1>1 DEF Request
  <1>3. q.registers = <<i.index, i.source, IF i.class \in ByField THEN i.field ELSE 0>>
    BY <1>1, Numbers DEF Request, Registers
  <1>4. q.path = IF i.class \in ByField THEN <<i.index, i.source, i.field>>
                                        ELSE <<i.index, i.source>>
    <2>1. q.path = <<i.index, i.source>>
                     \o IF i.class \in ByField THEN <<i.field>> ELSE <<>>
      BY <1>1, Numbers DEF Request, Path
    <2> QED BY <2>1
  <1> QED BY <1>1, <1>2, <1>3, <1>4 DEF KernelFinds, FileFinds

-----------------------------------------------------------------------------
(* The invariant.                                                          *)

\* Before the first reader is made.
LEMMA InitRequest == Init => RequestIInv
  BY DEF Init, RequestIInv, TypeOK, Kept, Asked

\* A reader is made, in a slot that may have held another.
LEMMA NewRequest ==
  ASSUME RequestIInv, NEW s \in Slot, NEW i \in Items, New(s, i)
  PROVE  RequestIInv'
  <1>1. /\ reader' = [reader EXCEPT ![s] = ReadersOf(i)]
        /\ meant' = [meant EXCEPT ![s] = i]
        /\ asked' = Nobody /\ i.field \in Field(i.class)
    BY DEF New
  <1>2. reader' \in [Slot -> {ReadersOf(j) : j \in Items} \cup {NoItem}]
    BY <1>1 DEF RequestIInv
  <1>3. TypeOK'
    BY <1>1, KeptParts DEF RequestIInv, TypeOK
  <1>4. Kept'
    BY <1>1 DEF RequestIInv, TypeOK, Kept
  <1> QED BY <1>1, <1>2, <1>3, <1>4 DEF RequestIInv, Asked

\* A reader asks, with or without an offset.
LEMMA AskRequest ==
  ASSUME RequestIInv, NEW s \in Slot, NEW offset \in Offset \cup {0, Junk}, Ask(s, offset)
  PROVE  RequestIInv'
  <1>1. /\ reader[s] # NoItem /\ asked' = s
        /\ request' = Request(reader[s], offset)
        /\ reader' = reader /\ meant' = meant
    BY DEF Ask
  <1>2. TypeOK' BY <1>1 DEF RequestIInv, TypeOK
  <1>3. Asked' BY <1>1 DEF RequestIInv, Kept, Asked
  <1> QED BY <1>1, <1>2, <1>3 DEF RequestIInv, Kept

LEMMA StepRequest == RequestIInv /\ [Next]_vars => RequestIInv'
  <1> SUFFICES ASSUME RequestIInv, [Next]_vars PROVE RequestIInv' OBVIOUS
  <1>1. CASE UNCHANGED vars
    BY <1>1 DEF vars, RequestIInv, TypeOK, Kept, Asked
  <1>2. CASE \E s \in Slot, i \in Items : New(s, i)
    BY <1>2, NewRequest
  <1>3. CASE \E s \in Slot, offset \in Offset \cup {0, Junk} : Ask(s, offset)
    BY <1>3, AskRequest
  <1> QED BY <1>1, <1>2, <1>3 DEF Next, AskLength, AskBytes, AskWithoutOffset

\* Whatever sequence of readers a contract makes and asks, the request is that
\* of the reader asked.
THEOREM RequestInductive == Spec => []RequestIInv
  BY InitRequest, StepRequest, PTL DEF Spec

\* initialize keeps every argument in its own instance variable, or none
\* (ckb.rb:32-65): no sequence of calls puts one in the place of another.
THEOREM RequestTypeCorrect == Spec => []TypeOK
  <1>1. RequestIInv => TypeOK BY DEF RequestIInv
  <1> QED BY <1>1, RequestInductive, PTL

\* Every request of a cell's reader, or of one of a field of a cell or of an
\* input, through the VM's registers or the host's file name, finds the item
\* its reader was made for (ckb.c:301-451, ckb_syscalls.h, ckb_syscalls.c),
\* whatever other readers were made before or since.
THEOREM RequestsOwnItem == Spec => []OwnItem
  <1>1. RequestIInv => OwnItem
    BY RequestFinds DEF RequestIInv, Asked, OwnItem, Finds
  <1> QED BY <1>1, RequestInductive, PTL
=============================================================================
