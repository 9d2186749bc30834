---------------------------- MODULE ReaderRequest ---------------------------
(***************************************************************************)
(* Which item a reader asks for: `initialize' of its class (ckb.rb), the    *)
(* instance variables that internal_read takes (ckb.c), and what becomes of *)
(* them: the registers of a syscall (ckb_syscalls.h) or the name of a file  *)
(* (ckb_syscalls.c).  What the item then answers is CkbReader.              *)
(***************************************************************************)
EXTENDS Integers, Sequences

CONSTANTS Slot,        \* the readers that a contract holds
          Index,       \* indexes of items
          Offset,      \* offsets that internal_read is given
          Junk,        \* what an offset is that nobody wrote
          NilNumber    \* what mrb_fixnum makes of nil (external)

ASSUME RequestAssumption == /\ Index \subseteq Nat
                            /\ Junk \notin Offset \cup {0}

VARIABLES reader,      \* the instance variables of each reader
          meant,       \* history: the item that its maker named
          asked,       \* the reader whose internal_read ran last
          request      \* and the request that it made

vars == <<reader, meant, asked, request>>

-----------------------------------------------------------------------------

Nil == -1           \* no number that a contract uses
Nobody == "nobody"

\* INPUT, OUTPUT and DEP; CellField::CAPACITY .. and InputField::ARGS ...
Source == 1 .. 3
Field(class) == CASE class = "CellField"  -> 0 .. 6
                  [] class = "InputField" -> 0 .. 2
                  [] OTHER -> {Nil}

Class == {"Cell", "Input", "Header", "CellField", "InputField"}
ByField == {"CellField", "InputField"}

\* The classes whose initialize keeps its arguments; that of Object, which
\* Input and Header have, takes any and keeps none.
Initialized == {"Cell", "CellField", "InputField"}

Item(class, source, index, field) ==
  [class |-> class, source |-> source, index |-> index, field |-> field]

NoItem == Item("none", Nil, Nil, Nil)

Items == {Item(class, source, index, field) :
            class \in Class, source \in Source, index \in Index,
            field \in {Nil} \cup 0 .. 6}

\* Mutant: the first two arguments in the wrong variables.
ReadersSwapped(i) == Item(i.class, i.index, i.source, i.field)

ReadersOf(i) == IF i.class \in Initialized THEN i
                                           ELSE Item(i.class, Nil, Nil, Nil)

\* mrb_fixnum of an instance variable.
Fixnum(v) == IF v = Nil THEN NilNumber ELSE v

-----------------------------------------------------------------------------
(* The two builds.                                                         *)

SyscallNumber(class) ==
  CASE class = "Cell"       -> 2071
    [] class = "Header"     -> 2072
    [] class = "Input"      -> 2073
    [] class = "CellField"  -> 2081
    [] class = "InputField" -> 2083

\* Mutant: the order of the path used for the registers.
RegistersSwapped(r) ==
  <<Fixnum(r.source), Fixnum(r.index), IF r.class \in ByField THEN Fixnum(r.field) ELSE 0>>

\* a3, a4 and a5; a0 and a1 are the buffer and a2 the offset.
Registers(r) ==
  <<Fixnum(r.index), Fixnum(r.source), IF r.class \in ByField THEN Fixnum(r.field) ELSE 0>>

Directory(class) ==
  CASE class = "Cell"       -> "data/cells"
    [] class = "Header"     -> "data/headers"
    [] class = "Input"      -> "data/inputs"
    [] class = "CellField"  -> "data/cell_fields"
    [] class = "InputField" -> "data/input_fields"

Path(r) == <<Fixnum(r.index), Fixnum(r.source)>>
             \o IF r.class \in ByField THEN <<Fixnum(r.field)>> ELSE <<>>

Request(r, offset) ==
  [syscall |-> SyscallNumber(r.class), registers |-> Registers(r),
   directory |-> Directory(r.class), path |-> Path(r),
   offset |-> offset]

NoRequest == [syscall |-> 0, registers |-> <<>>, directory |-> "", path |-> <<>>,
              offset |-> 0]

\* The VM (external) finds the item that a syscall is about.
KernelFinds(req, i) == /\ req.syscall = SyscallNumber(i.class)
                       /\ req.registers[1] = i.index
                       /\ req.registers[2] = i.source
                       /\ i.class \in ByField => req.registers[3] = i.field

\* The data of a test (external) is where the directory, the index, the
\* source and the field say.
FileFinds(req, i) == /\ req.directory = Directory(i.class)
                     /\ req.path = IF i.class \in ByField
                                    THEN <<i.index, i.source, i.field>>
                                    ELSE <<i.index, i.source>>

-----------------------------------------------------------------------------

Init == /\ reader = [s \in Slot |-> NoItem]
        /\ meant = [s \in Slot |-> NoItem]
        /\ asked = Nobody
        /\ request = NoRequest

\* Class.new(source, index[, field]); a contract drops the reader in s.
New(s, i) == /\ i.field \in Field(i.class)
             /\ reader' = [reader EXCEPT ![s] = ReadersOf(i)]
             /\ meant' = [meant EXCEPT ![s] = i]
             /\ asked' = Nobody
             /\ request' = NoRequest

Ask(s, offset) == /\ reader[s] # NoItem
                  /\ asked' = s
                  /\ request' = Request(reader[s], offset)
                  /\ UNCHANGED <<reader, meant>>

\* internal_read(0), as length calls it ...
AskLength(s) == Ask(s, 0)

\* ... internal_read(len, offset), as read does ...
AskBytes(s) == \E offset \in Offset : Ask(s, offset)

\* ... and internal_read(len) for some bytes, which MRB_ARGS_REQ(1) allows:
\* `offset' is not written.
AskWithoutOffset(s) == Ask(s, Junk)

Next == \E s \in Slot : \/ \E i \in Items : New(s, i)
                        \/ AskLength(s) \/ AskBytes(s) \/ AskWithoutOffset(s)

Spec == Init /\ [][Next]_vars

-----------------------------------------------------------------------------
(* Properties.                                                             *)

\* The type invariant: a reader keeps the arguments it was made with, in
\* their places, or none of them.
TypeOK == /\ meant \in [Slot -> Items \cup {NoItem}]
          /\ \A s \in Slot : \/ reader[s] = meant[s]
                             \/ reader[s] \in {Item(class, Nil, Nil, Nil) :
                                               class \in Class \ Initialized}
          /\ asked \in Slot \cup {Nobody}

\* The request that was made is about the item that its maker named, whether
\* the VM or a file answers it.
Finds(i) == KernelFinds(request, i) /\ FileFinds(request, i)

\* A cell, or a field of a cell or of an input, that is asked for is the one
\* its reader was made for, through either build (ckb.rb:32-65, ckb.c:301-451).
OwnItem == asked # Nobody /\ meant[asked].class \in Initialized => Finds(meant[asked])
=============================================================================
