----------------------------- MODULE FlatBuffer -----------------------------
(***************************************************************************)
(* FlatBuffers in memory: the accessors that flatcc generated              *)
(* (flatbuffers_common_reader.h), and the writer of the other side         *)
(* (external), which lays a table of the schema protocol.fbs out.          *)
(*                                                                         *)
(* Memory is cells, one per vtable entry, offset, scalar, vector length,   *)
(* H256 and contents of a byte vector, so the sizes in the code count      *)
(* cells here.  A pointer is the number of a cell, 0 is NULL.              *)
(***************************************************************************)
EXTENDS Integers, Sequences, FiniteSets

CONSTANT HashLen        \* 32

ASSUME HashLenAssumption == HashLen \in Nat \ {0}

-----------------------------------------------------------------------------
(* The reader.                                                             *)

\* A cell behind the buffer: any value that none of the fields has.
Outside == -1

Cell(mem, p) == IF p \in DOMAIN mem THEN mem[p] ELSE Outside

\* Mutant: the last slot of a vtable not believed.
ReadVtStrict(mem, t, id) ==
  LET vt == t - Cell(mem, t)
  IN  IF Cell(mem, vt) > id + 3 THEN Cell(mem, vt + id + 2) ELSE 0

\* Where in table t field id is: 0 when its slot is, or the vtable too short.
ReadVt(mem, t, id) ==
  LET vt == t - Cell(mem, t)
  IN  IF Cell(mem, vt) >= id + 3 THEN Cell(mem, vt + id + 2) ELSE 0

\* The default of every scalar of the schema is 0.
ScalarField(mem, t, id) ==
  LET offset == ReadVt(mem, t, id)
  IN  IF offset # 0 THEN Cell(mem, t + offset) ELSE 0

StructField(mem, t, id) ==
  LET offset == ReadVt(mem, t, id)
  IN  IF offset # 0 THEN t + offset ELSE 0

\* Vectors are entered behind their length: adjust = 1.
OffsetField(mem, t, id, adjust) ==
  LET offset == ReadVt(mem, t, id)
      elem   == t + offset
  IN  IF offset # 0 THEN elem + adjust + Cell(mem, elem) ELSE 0

VectorField(mem, t, id) == OffsetField(mem, t, id, 1)
TableField(mem, t, id) == OffsetField(mem, t, id, 0)

VecLen(mem, vec) == IF vec # 0 THEN Cell(mem, vec - 1) ELSE 0

OffsetVecAt(mem, vec, i) == vec + i + Cell(mem, vec + i)

\* No identifier is asked for, so that any buffer has a root.
AsRoot(mem) == 1 + Cell(mem, 1)

-----------------------------------------------------------------------------
(* The writer.  A document says which fields its root has (present, by     *)
(* id), how large its scalars are (scale), and how long the seq of each of *)
(* its Bytes tables is (lens; NoSeq when the field is absent).  A layout   *)
(* chooses what the format leaves open: whether a vtable stops at the last *)
(* field it has, comes behind its table, or serves several tables.         *)

NoSeq == -1

\* f, and g where f is not defined: @@ of the module TLC, and :> for one
\* argument.  (The provers have no definition of those.)
Over(f, g) ==
  [x \in DOMAIN f \cup DOMAIN g |-> IF x \in DOMAIN f THEN f[x] ELSE g[x]]

Only(x, y) == [z \in {x} |-> y]

HashValue(id) == 100 + id
Contents(j) == 200 + j
ScalarValue(doc, id) == doc.scale * (id + 1)

Place(p, cells) == [q \in p .. p + Len(cells) - 1 |-> cells[q - p + 1]]

\* The slots of a vtable, of a table that has its fields in the order of ids.
Slots(present, n) ==
  [s \in 1 .. n |-> IF s - 1 \in present
                      THEN Cardinality({id \in present : id < s}) ELSE 0]

VTable(present, n, trimmed) ==
  LET last == CHOOSE k \in 0 .. n : /\ \A id \in present : id < k
                                    /\ k = 0 \/ k - 1 \in present
      size == IF trimmed THEN last ELSE n
  IN  <<2 + size, 1 + Cardinality(present)>> \o Slots(present, size)

\* A Bytes table: its vtable, the table behind it and the vector behind that.
BytesSize == 7

BytesTable(start, lens, j, layout) ==
  LET at      == start + BytesSize * (j - 1)
      has     == lens[j] # NoSeq
      fields  == IF has THEN {0} ELSE {}
      first   == CHOOSE k \in 1 .. j :
                   /\ lens[k] = NoSeq <=> ~ has
                   /\ \A m \in 1 .. k - 1 : ~ (lens[m] = NoSeq <=> ~ has)
      owner   == IF layout.shared THEN first ELSE j
      vt      == start + BytesSize * (owner - 1)
      vtable  == VTable(fields, 1, layout.trimmed)
      table   == <<at + 3 - vt>> \o (IF has THEN <<1>> ELSE <<>>)
      vector  == IF has THEN <<lens[j], Contents(j)>> ELSE <<>>
  IN  Over(Place(at, IF owner = j THEN vtable ELSE <<>>),
           Over(Place(at + 3, table), Place(at + 5, vector)))

AllBytes(start, lens, layout) ==
  LET table == [j \in DOMAIN lens |-> BytesTable(start, lens, j, layout)]
  IN  [p \in UNION {DOMAIN table[j] : j \in DOMAIN lens} |->
         table[CHOOSE j \in DOMAIN lens : p \in DOMAIN table[j]][p]]

\* The buffer of a document whose root has the fields `kinds', in the order
\* of their ids: the offset of the root, the root, the vector of Bytes tables
\* and the Bytes tables.
Written(kinds, doc, layout) ==
  LET vtable == VTable(doc.present, Len(kinds), layout.trimmed)
      size   == 1 + Cardinality(doc.present)
      v      == IF layout.after THEN 2 + size ELSE 2
      t      == IF layout.after THEN 2 ELSE 2 + Len(vtable)
      vec    == 2 + Len(vtable) + size
      m      == Len(doc.lens)
      start  == vec + 1 + m
      Table(j) == start + BytesSize * (j - 1) + 3
      CellOf(id) == t + Cardinality({k \in doc.present : k <= id})
      Bytes(id) == Cardinality({k \in 0 .. id : kinds[k + 1] = "bytes"})
      Stored(id) == CASE kinds[id + 1] = "scalar" -> ScalarValue(doc, id)
                      [] kinds[id + 1] = "hash"   -> HashValue(id)
                      [] kinds[id + 1] = "vector" -> vec - CellOf(id)
                      [] OTHER -> Table(Bytes(id)) - CellOf(id)
      fields == [p \in {CellOf(id) : id \in doc.present} |->
                   Stored(CHOOSE id \in doc.present : CellOf(id) = p)]
      vector == <<m>> \o [j \in 1 .. m |-> Table(j) - (vec + j)]
  IN  Over(Place(1, <<t - 1>>),
      Over(Place(v, vtable),
      Over(Place(t, <<t - v>>),
      Over(fields,
      Over(Place(vec, vector), AllBytes(start, doc.lens, layout))))))
=============================================================================
