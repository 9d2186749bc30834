------------------------ MODULE ProtocolParseProofs ------------------------
(***************************************************************************)
(* Proofs about ProtocolParse for hashes of any length, numbers of any     *)
(* width, vectors of any number of Bytes and every layout of the writer:   *)
(* each accessor finds what was written, so the hash that the three        *)
(* functions fill field by field is the document.                          *)
(***************************************************************************)
EXTENDS ProtocolParse, FiniteSetTheorems, WellFoundedInduction, TLAPS

-----------------------------------------------------------------------------
(* Sets of numbers.                                                        *)

\* A set of naturals that is not empty has a smallest element.
LEMMA Smallest ==
  ASSUME NEW S, S \subseteq Nat, S # {}
  PROVE  \E x \in S : \A y \in S : x <= y
  <1> DEFINE R == OpToRel(<, Nat)
  <1>1. IsWellFoundedOn(R, Nat) BY NatLessThanWellFounded
  <1> HIDE DEF R
  <1>2. PICK x \in S : \A y \in S : ~ (<<y, x>> \in R)
    BY <1>1, WFMin
  <1>3. \A y \in S : x <= y
    <2> SUFFICES ASSUME NEW y \in S PROVE x <= y OBVIOUS
    <2>1. ~ (<<y, x>> \in R) BY <1>2
    <2>2. x \in Nat /\ y \in Nat BY <1>2
    <2>3. y < x => <<y, x>> \in R BY <2>2 DEF R, OpToRel
    <2> QED BY <2>1, <2>2, <2>3
  <1> QED BY <1>2, <1>3

\* How many fields lie up to id: which place its cell has in the table.
Pos(present, id) == Cardinality({k \in present : k <= id})

LEMMA FieldsFinite ==
  ASSUME NEW n \in Nat, NEW present \in SUBSET (0 .. n - 1)
  PROVE  /\ IsFiniteSet(present) /\ Cardinality(present) \in Nat
         /\ \A S \in SUBSET present : IsFiniteSet(S)
  <1>1. IsFiniteSet(0 .. n - 1) BY FS_Interval
  <1>2. IsFiniteSet(present) BY <1>1, FS_Subset
  <1> QED BY <1>2, FS_Subset, FS_CardinalityType

\* The places of the fields that are there are different, and lie in the table.
LEMMA PosFacts ==
  ASSUME NEW n \in Nat, NEW present \in SUBSET (0 .. n - 1)
  PROVE  /\ \A id \in present :
              Pos(present, id) \in 1 .. Cardinality(present)
         /\ \A a, b \in present :
              Pos(present, a) = Pos(present, b) => a = b
  <1> DEFINE Upto(id) == {k \in present : k <= id}
  <1>f. \A id : IsFiniteSet(Upto(id)) /\ Cardinality(Upto(id)) \in Nat
    BY FieldsFinite, FS_CardinalityType
  <1>1. ASSUME NEW id \in present
        PROVE  Pos(present, id) \in 1 .. Cardinality(present)
    <2>1. Upto(id) \in SUBSET present OBVIOUS
    <2>2. Cardinality(Upto(id)) <= Cardinality(present)
      BY <2>1, FieldsFinite, FS_Subset
    <2>3. id \in Upto(id) OBVIOUS
    <2>4. Cardinality(Upto(id)) # 0 BY <1>f, <2>3, FS_EmptySet
    <2> QED BY <1>f, <2>2, <2>4, FieldsFinite DEF Pos
  <1>2. ASSUME NEW a \in present, NEW b \in present, a < b
        PROVE  Pos(present, a) < Pos(present, b)
    <2> DEFINE A == Upto(a)
               B == Upto(b)
    <2>0. present \subseteq Int /\ a \in Int /\ b \in Int OBVIOUS
    <2>1. b \in B /\ b \notin A BY <1>2, <2>0
    <2>2. A \subseteq B
      <3> SUFFICES ASSUME NEW k \in present, k <= a PROVE k <= b OBVIOUS
      <3> QED BY <1>2, <2>0
    <2>3. Pos(present, a) = Cardinality(A) /\ Pos(present, b) = Cardinality(B)
      BY DEF Pos
    <2>4. IsFiniteSet(A) /\ IsFiniteSet(B) BY <1>f
    <2> HIDE DEF A, B
    <2>5. /\ IsFiniteSet(B \ {b})
          /\ Cardinality(B \ {b}) = Cardinality(B) - 1
      BY <2>1, <2>4, FS_RemoveElement
    <2>6. A \in SUBSET (B \ {b}) BY <2>1, <2>2
    <2>7. Cardinality(A) <= Cardinality(B \ {b}) BY <2>5, <2>6, FS_Subset
    <2>8. Cardinality(A) \in Nat /\ Cardinality(B) \in Nat
      BY <2>4, FS_CardinalityType
    <2> QED BY <2>3, <2>5, <2>7, <2>8
  <1>3. ASSUME NEW a \in present, NEW b \in present,
               Pos(present, a) = Pos(present, b)
        PROVE  a = b
    <2>1. a \in Int /\ b \in Int OBVIOUS
    <2>2. Pos(present, a) \in Int BY <1>1
    <2>3. ~ (a < b) BY <1>2, <1>3, <2>2
    <2>4. ~ (b < a) BY <1>2, <1>3, <2>2
    <2> QED BY <2>1, <2>3, <2>4
  <1> QED BY <1>1, <1>3

-----------------------------------------------------------------------------
(* Cells.                                                                  *)

\* Memory that is put together is read part by part.
LEMMA CellOver ==
  ASSUME NEW f, NEW g, NEW p
  PROVE  Cell(Over(f, g), p) = IF p \in DOMAIN f THEN f[p] ELSE Cell(g, p)
  BY DEF Cell, Over

\* Two sequences of cells behind each other.
LEMMA Concat ==
  ASSUME NEW a \in Seq(Int), NEW b \in Seq(Int)
  PROVE  /\ a \o b \in Seq(Int) /\ Len(a \o b) = Len(a) + Len(b)
         /\ \A x \in 1 .. Len(a) : (a \o b)[x] = a[x]
         /\ \A x \in 1 .. Len(b) : (a \o b)[Len(a) + x] = b[x]
  OBVIOUS

\* A vtable with size slots: that of a field says where it is, or 0.
HasSlots(vt, present, size) ==
  /\ Len(vt) = 2 + size /\ vt[1] = 2 + size
  /\ \A id \in 0 .. size - 1 :
       vt[id + 3] = IF id \in present THEN Pos(present, id) ELSE 0
  /\ \A id \in present : id < size

\* The vtable ends at or behind the last field that is there.
LEMMA VTableFacts ==
  ASSUME NEW n \in Nat, NEW present \in SUBSET (0 .. n - 1), NEW trimmed
  PROVE  \E size \in 0 .. n : HasSlots(VTable(present, n, trimmed), present, size)
  <1> DEFINE Last(k) == /\ \A id \in present : id < k
                        /\ k = 0 \/ k - 1 \in present
             last == CHOOSE k \in 0 .. n : Last(k)
             size == IF trimmed THEN last ELSE n
             head == <<2 + size, 1 + Cardinality(present)>>
             slots == Slots(present, size)
  <1>1. last \in 0 .. n /\ Last(last)
    <2> DEFINE S == {k \in Nat : \A id \in present : id < k}
    <2>1. n \in S OBVIOUS
    <2>2. PICK m \in S : \A y \in S : m <= y BY <2>1, Smallest
    <2>3. m \in 0 .. n BY <2>1, <2>2
    <2>4. m = 0 \/ m - 1 \in present
      <3> SUFFICES ASSUME m # 0 PROVE m - 1 \in present OBVIOUS
      <3>1. m - 1 \in Nat /\ ~ (m <= m - 1) BY <2>3
      <3>2. m - 1 \notin S BY <2>2, <3>1
      <3>3. PICK id \in present : ~ (id < m - 1) BY <3>1, <3>2
      <3>4. id < m /\ id \in Int BY <2>2
      <3>5. id = m - 1 BY <2>3, <3>3, <3>4
      <3> QED BY <3>5
    <2>5. Last(m) BY <2>2, <2>4
    <2> HIDE DEF Last
    <2> QED BY <2>3, <2>5, Zenon
  <1>2. VTable(present, n, trimmed) = head \o slots BY Zenon DEF VTable
  <1>3. size \in 0 .. n /\ \A id \in present : id < size
    BY <1>1
  <1> HIDE DEF size
  <1>4. \A x \in 1 .. size :
          slots[x] = IF x - 1 \in present
                       THEN Cardinality({id \in present : id < x}) ELSE 0
    BY DEF Slots
  <1>5. \A x \in 1 .. size : slots[x] \in Int
    <2> SUFFICES ASSUME NEW x \in 1 .. size PROVE slots[x] \in Int OBVIOUS
    <2>1. {id \in present : id < x} \in SUBSET present OBVIOUS
    <2>2. Cardinality({id \in present : id < x}) \in Nat
      BY <2>1, FieldsFinite, FS_CardinalityType
    <2> QED BY <1>4, <2>2
  <1>6. slots \in Seq(Int) /\ Len(slots) = size
    <2>1. slots = [x \in 1 .. size |-> slots[x]] BY DEF Slots
    <2>2. size \in Nat BY <1>3
    <2> HIDE DEF slots
    <2> QED BY <1>5, <2>1, <2>2
  <1>7. head \in Seq(Int) /\ Len(head) = 2 /\ head[1] = 2 + size
    BY <1>3, FieldsFinite
  <1> HIDE DEF head, slots
  <1>c. /\ Len(head \o slots) = Len(head) + Len(slots)
        /\ \A x \in 1 .. Len(head) : (head \o slots)[x] = head[x]
        /\ \A x \in 1 .. Len(slots) : (head \o slots)[Len(head) + x] = slots[x]
    BY <1>6, <1>7, Concat
  <1>8. Len(head \o slots) = 2 + size /\ (head \o slots)[1] = 2 + size
    BY <1>3, <1>6, <1>7, <1>c
  <1>9. ASSUME NEW id \in 0 .. size - 1
        PROVE  (head \o slots)[id + 3]
                 = IF id \in present THEN Pos(present, id) ELSE 0
    <2>0. id \in Nat /\ size \in Nat /\ id < size BY <1>3
    <2>1. (head \o slots)[2 + (id + 1)] = slots[id + 1]
      BY <1>6, <1>7, <2>0, <1>c
    <2>2. {k \in present : k < id + 1} = {k \in present : k <= id}
      <3>1. \A k \in present : k < id + 1 <=> k <= id BY <2>0
      <3> QED BY <3>1
    <2>3. id + 1 \in 1 .. size /\ (id + 1) - 1 = id /\ 2 + (id + 1) = id + 3
      BY <2>0
    <2> QED BY <1>4, <2>1, <2>2, <2>3 DEF Pos
  <1> QED BY <1>2, <1>3, <1>8, <1>9 DEF HasSlots

-----------------------------------------------------------------------------
(* A Bytes table.                                                          *)

\* Where the cells of the Bytes table j are, and whose vtable it has.
At(start, j) == start + BytesSize * (j - 1)

First(lens, j) ==
  CHOOSE k \in 1 .. j : /\ lens[k] = NoSeq <=> ~ (lens[j] # NoSeq)
                        /\ \A m \in 1 .. k - 1 :
                             ~ (lens[m] = NoSeq <=> ~ (lens[j] # NoSeq))

Owner(lens, j, layout) == IF layout.shared THEN First(lens, j) ELSE j

\* The owner has a vtable, and it is one of a table of the same shape.
LEMMA OwnerFacts ==
  ASSUME NEW lens, NEW j \in Nat \ {0}, NEW layout \in Layouts
  PROVE  /\ Owner(lens, j, layout) \in 1 .. j
         /\ lens[Owner(lens, j, layout)] = NoSeq <=> lens[j] = NoSeq
         /\ Owner(lens, Owner(lens, j, layout), layout) = Owner(lens, j, layout)
  <1> DEFINE Same(k, l) == lens[k] = NoSeq <=> ~ (lens[l] # NoSeq)
             IsFirst(k, l) == Same(k, l) /\ \A m \in 1 .. k - 1 : ~ Same(m, l)
  <1>1. \A l : First(lens, l) = CHOOSE k \in 1 .. l : IsFirst(k, l)
    BY Zenon DEF First
  <1>2. \E k \in 1 .. j : IsFirst(k, j)
    <2> DEFINE S == {k \in 1 .. j : Same(k, j)}
    <2>1. j \in S OBVIOUS
    <2>2. S \subseteq Nat OBVIOUS
    <2>3. PICK k \in S : \A y \in S : k <= y BY <2>1, <2>2, Smallest
    <2>4. ASSUME NEW m \in 1 .. k - 1 PROVE ~ Same(m, j)
      <3>1. k \in 1 .. j BY <2>3
      <3>2. m \in 1 .. j /\ ~ (k <= m) BY <3>1, <2>4
      <3>3. m \notin S BY <2>3, <3>2
      <3> QED BY <3>2, <3>3
    <2> QED BY <2>3, <2>4
  <1> DEFINE k == First(lens, j)
  <1>3. k \in 1 .. j /\ IsFirst(k, j)
    <2> HIDE DEF IsFirst
    <2> QED BY <1>1, <1>2, Zenon
  <1>4. IsFirst(k, k) BY <1>3
  <1>5. ASSUME NEW l \in 1 .. k, IsFirst(l, k) PROVE l = k
    <2>1. k \in Nat /\ l \in Nat /\ l <= k BY <1>3
    <2>2. Same(l, k) BY <1>5
    <2>3. Same(l, j) BY <1>3, <2>2
    <2>4. ~ (l \in 1 .. k - 1) BY <1>3, <2>3
    <2> QED BY <1>5, <2>1, <2>4
  <1>6. First(lens, k) = k
    <2>1. k \in 1 .. k BY <1>3
    <2> DEFINE l == CHOOSE l \in 1 .. k : IsFirst(l, k)
    <2>2. l \in 1 .. k /\ IsFirst(l, k)
      <3> HIDE DEF IsFirst, k
      <3> QED BY <1>4, <2>1, Zenon
    <2>3. l = k BY <1>5, <2>2
    <2> QED BY <1>1, <2>3
  <1>7. CASE layout.shared
    <2>1. Owner(lens, j, layout) = k BY <1>7 DEF Owner
    <2>2. Owner(lens, k, layout) = k BY <1>6, <1>7 DEF Owner
    <2> QED BY <1>3, <2>1, <2>2
  <1>8. CASE ~ layout.shared BY <1>8 DEF Owner
  <1> QED BY <1>7, <1>8

\* What the cells of one Bytes table hold.
LEMMA BytesCells ==
  ASSUME NEW start \in Nat, NEW lens, NEW j \in Nat \ {0},
         NEW layout \in Layouts
  PROVE  LET tb == BytesTable(start, lens, j, layout)
             at == At(start, j)
         IN  /\ DOMAIN tb \subseteq at .. at + 6
             /\ Cell(tb, at + 3) = at + 3 - At(start, Owner(lens, j, layout))
             /\ lens[j] # NoSeq => /\ Cell(tb, at + 4) = 1
                                   /\ Cell(tb, at + 5) = lens[j]
                                   /\ Cell(tb, at + 6) = Contents(j)
             /\ Owner(lens, j, layout) = j =>
                  \E size \in 0 .. 1 :
                    /\ Cell(tb, at) = 2 + size
                    /\ size = 1 => Cell(tb, at + 2)
                                     = IF lens[j] # NoSeq THEN 1 ELSE 0
                    /\ lens[j] # NoSeq => size = 1
  <1> DEFINE at == start + BytesSize * (j - 1)
             has == lens[j] # NoSeq
             fields == IF has THEN {0} ELSE {}
             owner == Owner(lens, j, layout)
             vt == start + BytesSize * (owner - 1)
             vtable == VTable(fields, 1, layout.trimmed)
             table == <<at + 3 - vt>> \o (IF has THEN <<1>> ELSE <<>>)
             vector == IF has THEN <<lens[j], Contents(j)>> ELSE <<>>
             own == IF owner = j THEN vtable ELSE <<>>
             tb == Over(Place(at, own),
                        Over(Place(at + 3, table), Place(at + 5, vector)))
  <1>1. BytesTable(start, lens, j, layout) = tb
    BY Zenon DEF BytesTable, Owner, First
  <1>2. at \in Nat /\ At(start, j) = at /\ vt = At(start, owner)
    BY DEF At, BytesSize
  <1>3. PICK size \in 0 .. 1 : HasSlots(vtable, fields, size)
    <2> DEFINE one == 1
    <2>1. one \in Nat /\ fields \in SUBSET (0 .. one - 1) OBVIOUS
    <2> HIDE DEF fields, one
    <2>2. \E size \in 0 .. one :
            HasSlots(VTable(fields, one, layout.trimmed), fields, size)
      BY <2>1, VTableFacts
    <2> QED BY <2>2 DEF one
  <1>4. /\ Len(vtable) = 2 + size /\ vtable[1] = 2 + size
        /\ size = 1 => vtable[3] = IF has THEN Pos(fields, 0) ELSE 0
        /\ has => size = 1
    BY <1>3 DEF HasSlots
  <1>5. /\ Len(own) = IF owner = j THEN 2 + size ELSE 0
        /\ owner = j => /\ own[1] = 2 + size
                        /\ size = 1 => own[3] = IF has THEN 1 ELSE 0
        /\ has => size = 1
    <2>1. has => Pos(fields, 0) = 1
      <3> SUFFICES ASSUME has PROVE Pos(fields, 0) = 1 OBVIOUS
      <3>1. {k \in fields : k <= 0} = {0} OBVIOUS
      <3>2. Cardinality({0}) = 1 BY FS_Singleton
      <3> QED BY <3>1, <3>2 DEF Pos
    <2>2. size = 1 => vtable[3] = IF has THEN 1 ELSE 0 BY <1>4, <2>1
    <2> HIDE DEF vtable, has, fields
    <2> QED BY <1>4, <2>2
  <1>6. /\ Len(table) = IF has THEN 2 ELSE 1
        /\ table[1] = at + 3 - vt
        /\ has => table[2] = 1
    OBVIOUS
  <1>7. /\ Len(vector) = IF has THEN 2 ELSE 0
        /\ has => vector[1] = lens[j] /\ vector[2] = Contents(j)
    OBVIOUS
  <1> HIDE DEF at, has, vtable, table, vector, own, vt, owner
  <1>8. /\ DOMAIN Place(at, own) = at .. at + Len(own) - 1
        /\ \A p \in at .. at + Len(own) - 1 : Place(at, own)[p] = own[p - at + 1]
    BY DEF Place
  <1>9. /\ DOMAIN Place(at + 3, table) = at + 3 .. at + 3 + Len(table) - 1
        /\ \A p \in at + 3 .. at + 3 + Len(table) - 1 :
             Place(at + 3, table)[p] = table[p - (at + 3) + 1]
    BY DEF Place
  <1>10. /\ DOMAIN Place(at + 5, vector) = at + 5 .. at + 5 + Len(vector) - 1
         /\ \A p \in at + 5 .. at + 5 + Len(vector) - 1 :
              Place(at + 5, vector)[p] = vector[p - (at + 5) + 1]
    BY DEF Place
  <1> DEFINE A == Place(at, own)
             B == Place(at + 3, table)
             C == Place(at + 5, vector)
  <1>11. \A p : Cell(tb, p) = IF p \in DOMAIN A THEN A[p]
                                ELSE IF p \in DOMAIN B THEN B[p]
                                ELSE Cell(C, p)
    BY CellOver
  <1>12. DOMAIN tb = DOMAIN A \cup DOMAIN B \cup DOMAIN C BY DEF Over
  <1>13. DOMAIN tb \subseteq at .. at + 6
    <2>1. DOMAIN A \subseteq at .. at + 6 BY <1>2, <1>5, <1>8
    <2>2. DOMAIN B \subseteq at .. at + 6 BY <1>2, <1>6, <1>9
    <2>3. DOMAIN C \subseteq at .. at + 6 BY <1>2, <1>7, <1>10
    <2> HIDE DEF A, B, C, tb
    <2> QED BY <1>12, <2>1, <2>2, <2>3
  <1> HIDE DEF tb, A, B, C
  <1>14. Cell(tb, at + 3) = at + 3 - vt
    <2>1. at + 3 \notin DOMAIN A /\ at + 3 \in DOMAIN B
      BY <1>2, <1>5, <1>6, <1>8, <1>9 DEF A, B
    <2>2. B[at + 3] = table[1] BY <1>2, <1>6, <1>9 DEF B
    <2> QED BY <1>6, <1>11, <2>1, <2>2
  <1>15. ASSUME has
         PROVE  /\ Cell(tb, at + 4) = 1 /\ Cell(tb, at + 5) = lens[j]
                /\ Cell(tb, at + 6) = Contents(j)
    <2>1. /\ at + 4 \notin DOMAIN A /\ at + 4 \in DOMAIN B
          /\ at + 5 \notin DOMAIN A /\ at + 5 \notin DOMAIN B
          /\ at + 6 \notin DOMAIN A /\ at + 6 \notin DOMAIN B
          /\ at + 5 \in DOMAIN C /\ at + 6 \in DOMAIN C
      BY <1>2, <1>5, <1>6, <1>7, <1>8, <1>9, <1>10, <1>15 DEF A, B, C
    <2>2. B[at + 4] = table[2] BY <1>2, <1>6, <1>9, <1>15 DEF B
    <2>3. C[at + 5] = vector[1] /\ C[at + 6] = vector[2]
      BY <1>2, <1>7, <1>10, <1>15 DEF C
    <2> QED BY <1>6, <1>7, <1>11, <1>15, <2>1, <2>2, <2>3 DEF Cell
  <1>16. ASSUME owner = j
         PROVE  /\ Cell(tb, at) = 2 + size
                /\ size = 1 => Cell(tb, at + 2) = IF has THEN 1 ELSE 0
    <2>1. at \in DOMAIN A /\ A[at] = own[1]
      BY <1>2, <1>4, <1>5, <1>8, <1>16 DEF A
    <2>2. size = 1 => at + 2 \in DOMAIN A /\ A[at + 2] = own[3]
      BY <1>2, <1>5, <1>8, <1>16 DEF A
    <2> QED BY <1>5, <1>11, <1>16, <2>1, <2>2
  <1> QED BY <1>1, <1>2, <1>5, <1>13, <1>14, <1>15, <1>16 DEF has, owner

\* The cells of a Bytes table are among those of all.
LEMMA AllCells ==
  ASSUME NEW start \in Nat, NEW lens, NEW m \in Nat, DOMAIN lens = 1 .. m,
         NEW layout \in Layouts, NEW j \in 1 .. m,
         NEW p \in At(start, j) .. At(start, j) + 6
  PROVE  Cell(AllBytes(start, lens, layout), p)
           = Cell(BytesTable(start, lens, j, layout), p)
  <1> DEFINE table == [k \in DOMAIN lens |-> BytesTable(start, lens, k, layout)]
             D == UNION {DOMAIN table[k] : k \in DOMAIN lens}
             Whose(q) == CHOOSE k \in DOMAIN lens : q \in DOMAIN table[k]
  <1>1. AllBytes(start, lens, layout) = [q \in D |-> table[Whose(q)][q]]
    BY Zenon DEF AllBytes
  <1>2. table[j] = BytesTable(start, lens, j, layout) OBVIOUS
  <1>3. ASSUME NEW k \in 1 .. m, p \in DOMAIN table[k] PROVE k = j
    <2>1. table[k] = BytesTable(start, lens, k, layout) OBVIOUS
    <2>2. k \in Nat \ {0} OBVIOUS
    <2>3. p \in At(start, k) .. At(start, k) + 6
      <3>1. DOMAIN BytesTable(start, lens, k, layout)
              \subseteq At(start, k) .. At(start, k) + 6
        BY <2>2, BytesCells
      <3> HIDE DEF table
      <3> QED BY <1>3, <2>1, <3>1
    <2> QED BY <2>3 DEF At, BytesSize
  <1> HIDE DEF table
  <1>4. CASE p \in DOMAIN table[j]
    <2>1. p \in D BY <1>4
    <2>2. Whose(p) = j BY <1>3, <1>4
    <2> QED BY <1>1, <1>2, <1>4, <2>1, <2>2 DEF Cell
  <1>5. CASE p \notin DOMAIN table[j]
    <2>1. p \notin D BY <1>3, <1>5
    <2> QED BY <1>1, <1>2, <1>5, <2>1 DEF Cell
  <1> QED BY <1>4, <1>5

\* Reading a Bytes table finds the bytes that were written, or none.
LEMMA BytesRead ==
  ASSUME NEW start \in Nat \ {0}, NEW lens, NEW m \in Nat, DOMAIN lens = 1 .. m,
         NEW layout \in Layouts, NEW j \in 1 .. m, NEW mem,
         \A p \in Nat : p >= start =>
           Cell(mem, p) = Cell(AllBytes(start, lens, layout), p)
  PROVE  LET seq == VectorField(mem, At(start, j) + 3, 0) IN
         /\ VecLen(mem, seq) = IF lens[j] = NoSeq THEN 0 ELSE lens[j]
         /\ lens[j] # NoSeq => Cell(mem, seq) = Contents(j)
  <1> DEFINE at == At(start, j)
             owner == Owner(lens, j, layout)
             up == At(start, owner)
             tb == BytesTable(start, lens, j, layout)
             ob == BytesTable(start, lens, owner, layout)
  <1>1. /\ owner \in 1 .. j /\ (lens[owner] = NoSeq <=> lens[j] = NoSeq)
        /\ Owner(lens, owner, layout) = owner
    <2>1. j \in Nat \ {0} OBVIOUS
    <2> QED BY <2>1, OwnerFacts
  <1>2. at \in Nat /\ at >= start /\ up \in Nat /\ up >= start
    BY <1>1 DEF At, BytesSize
  <1>3. \A p \in at .. at + 6 : Cell(mem, p) = Cell(tb, p)
    BY <1>2, AllCells
  <1>4. \A p \in up .. up + 6 : Cell(mem, p) = Cell(ob, p)
    <2>1. owner \in 1 .. m BY <1>1
    <2> HIDE DEF owner
    <2>2. ASSUME NEW p \in up .. up + 6
          PROVE  Cell(AllBytes(start, lens, layout), p) = Cell(ob, p)
      BY <2>1, AllCells
    <2> QED BY <1>2, <2>2
  <1>5. /\ Cell(tb, at + 3) = at + 3 - up
        /\ lens[j] # NoSeq => /\ Cell(tb, at + 4) = 1
                              /\ Cell(tb, at + 5) = lens[j]
                              /\ Cell(tb, at + 6) = Contents(j)
    <2>1. j \in Nat \ {0} OBVIOUS
    <2> QED BY <2>1, BytesCells
  <1>6. PICK size \in 0 .. 1 :
           /\ Cell(ob, up) = 2 + size
           /\ size = 1 => Cell(ob, up + 2) = IF lens[owner] # NoSeq THEN 1 ELSE 0
           /\ lens[owner] # NoSeq => size = 1
    <2>1. owner \in Nat \ {0} BY <1>1
    <2> HIDE DEF owner
    <2> QED BY <1>1, <2>1, BytesCells
  <1> HIDE DEF at, owner, up, tb, ob
  <1>7. /\ Cell(mem, at + 3) = at + 3 - up
        /\ Cell(mem, up) = 2 + size
        /\ size = 1 => Cell(mem, up + 2) = IF lens[j] # NoSeq THEN 1 ELSE 0
        /\ lens[j] # NoSeq => size = 1
    <2>1. at + 3 \in at .. at + 6 /\ up \in up .. up + 6 /\ up + 2 \in up .. up + 6
      BY <1>2
    <2> QED BY <1>1, <1>3, <1>4, <1>5, <1>6, <2>1
  <1>8. lens[j] # NoSeq => /\ Cell(mem, at + 4) = 1
                           /\ Cell(mem, at + 5) = lens[j]
                           /\ Cell(mem, at + 6) = Contents(j)
    <2>1. at + 4 \in at .. at + 6 /\ at + 5 \in at .. at + 6 /\ at + 6 \in at .. at + 6
      BY <1>2
    <2> QED BY <1>3, <1>5, <2>1
  <1>9. (at + 3) - ((at + 3) - up) = up BY <1>2
  <1>10. ReadVt(mem, at + 3, 0) = IF lens[j] # NoSeq THEN 1 ELSE 0
    <2>1. ReadVt(mem, at + 3, 0)
            = IF Cell(mem, up) >= 0 + 3 THEN Cell(mem, up + 0 + 2) ELSE 0
      <3>1. (at + 3) - Cell(mem, at + 3) = up BY <1>2, <1>7
      <3> QED BY <3>1 DEF ReadVt
    <2>2. up + 0 + 2 = up + 2 BY <1>2
    <2>3. CASE size = 1 BY <1>7, <2>1, <2>2, <2>3
    <2>4. CASE size = 0 BY <1>7, <2>1, <2>4
    <2> QED BY <1>6, <2>3, <2>4
  <1> DEFINE seq == VectorField(mem, at + 3, 0)
  <1>11. CASE lens[j] = NoSeq
    <2>1. seq = 0 BY <1>10, <1>11 DEF VectorField, OffsetField
    <2> QED BY <1>11, <2>1 DEF VecLen, at
  <1>12. CASE lens[j] # NoSeq
    <2>1. ReadVt(mem, at + 3, 0) = 1 BY <1>10, <1>12
    <2>2. seq = (at + 3) + 1 + 1 + Cell(mem, (at + 3) + 1)
      BY <2>1 DEF VectorField, OffsetField
    <2>3. (at + 3) + 1 = at + 4 BY <1>2
    <2>4. seq = at + 6 BY <1>2, <1>8, <1>12, <2>2, <2>3
    <2>5. VecLen(mem, at + 6) = Cell(mem, at + 5)
      <3>1. at + 6 # 0 /\ (at + 6) - 1 = at + 5 BY <1>2
      <3> QED BY <3>1 DEF VecLen
    <2> QED BY <1>8, <1>12, <2>4, <2>5 DEF at
  <1> QED BY <1>11, <1>12

-----------------------------------------------------------------------------
(* The root and its vector.                                                *)

\* What the cell of a field holds, with the root at t and the vector at vec.
StoredAt(kinds, d, t, vec, id) ==
  LET cell == t + Pos(d.present, id)
      nth  == Cardinality({k \in 0 .. id : kinds[k + 1] = "bytes"})
  IN  CASE kinds[id + 1] = "scalar" -> ScalarValue(d, id)
        [] kinds[id + 1] = "hash"   -> HashValue(id)
        [] kinds[id + 1] = "vector" -> vec - cell
        [] OTHER -> (At(vec + 1 + Len(d.lens), nth) + 3) - cell

\* Memory with a document in it.
HasRoot(mem, kinds, d, t, vec) ==
  /\ AsRoot(mem) = t
  /\ \A id \in 0 .. Len(kinds) - 1 :
       ReadVt(mem, t, id) = IF id \in d.present THEN Pos(d.present, id) ELSE 0
  /\ \A id \in d.present :
       Cell(mem, t + Pos(d.present, id)) = StoredAt(kinds, d, t, vec, id)

HasVector(mem, d, layout, vec) ==
  LET m == Len(d.lens) IN
  /\ Cell(mem, vec) = m
  /\ \A j \in 1 .. m :
       Cell(mem, vec + j) = (At(vec + 1 + m, j) + 3) - (vec + j)
  /\ \A p \in Nat : p >= vec + 1 + m =>
       Cell(mem, p) = Cell(AllBytes(vec + 1 + m, d.lens, layout), p)

\* The writer's offsets lead where the accessors look, in every layout.
LEMMA WrittenRead ==
  ASSUME NEW kinds, Len(kinds) \in Nat, NEW d, NEW layout \in Layouts,
         d.present \in SUBSET (0 .. Len(kinds) - 1), Len(d.lens) \in Nat
  PROVE  \E t \in Nat \ {0}, vec \in Nat \ {0} :
           /\ HasRoot(Written(kinds, d, layout), kinds, d, t, vec)
           /\ HasVector(Written(kinds, d, layout), d, layout, vec)
  <1> DEFINE n == Len(kinds)
             present == d.present
             card == Cardinality(present)
             vtable == VTable(present, n, layout.trimmed)
             size == 1 + card
             w == IF layout.after THEN 2 + size ELSE 2
             t == IF layout.after THEN 2 ELSE 2 + Len(vtable)
             vec == 2 + Len(vtable) + size
             m == Len(d.lens)
             start == vec + 1 + m
             Tbl(j) == start + BytesSize * (j - 1) + 3
             CellOf(id) == t + Cardinality({k \in present : k <= id})
             Bytes(id) == Cardinality({k \in 0 .. id : kinds[k + 1] = "bytes"})
             Stored(id) == CASE kinds[id + 1] = "scalar" -> ScalarValue(d, id)
                             [] kinds[id + 1] = "hash"   -> HashValue(id)
                             [] kinds[id + 1] = "vector" -> vec - CellOf(id)
                             [] OTHER -> Tbl(Bytes(id)) - CellOf(id)
             fields == [p \in {CellOf(id) : id \in present} |->
                          Stored(CHOOSE id \in present : CellOf(id) = p)]
             vector == <<m>> \o [j \in 1 .. m |-> Tbl(j) - (vec + j)]
             A == Place(1, <<t - 1>>)
             B == Place(w, vtable)
             C == Place(t, <<t - w>>)
             E == Place(vec, vector)
             F == AllBytes(start, d.lens, layout)
             mem == Over(A, Over(B, Over(C, Over(fields, Over(E, F)))))
  <1>1. Written(kinds, d, layout) = mem BY Zenon DEF Written
  <1>2. n \in Nat /\ present \in SUBSET (0 .. n - 1) /\ card \in Nat /\ m \in Nat
    BY FieldsFinite
  <1>3. PICK sz \in 0 .. n : HasSlots(vtable, present, sz)
    <2> HIDE DEF n, present
    <2> QED BY <1>2, VTableFacts
  <1>4. Len(vtable) = 2 + sz /\ vtable[1] = 2 + sz
    BY <1>3 DEF HasSlots
  <1>5. /\ sz \in Nat /\ t \in Nat /\ w \in Nat /\ vec = 5 + sz + card
        /\ \/ t = 2 /\ w = 3 + card
           \/ t = 4 + sz /\ w = 2
    <2> HIDE DEF vtable, card
    <2> QED BY <1>2, <1>4
  \* What the places are of:
  <1>6. \A id \in present : /\ CellOf(id) = t + Pos(present, id)
                            /\ Pos(present, id) \in 1 .. card
    <2> HIDE DEF n, present, t
    <2> QED BY <1>2, PosFacts DEF Pos
  <1>7. \A id \in present : /\ CellOf(id) \in DOMAIN fields
                            /\ fields[CellOf(id)] = Stored(id)
    <2> SUFFICES ASSUME NEW id \in present
                 PROVE  fields[CellOf(id)] = Stored(id)
      OBVIOUS
    <2> DEFINE p == CellOf(id)
               other == CHOOSE o \in present : CellOf(o) = p
    <2>1. other \in present /\ CellOf(other) = p
      <3> HIDE DEF CellOf
      <3> QED BY Zenon DEF p
    <2>2. other = id
      <3>1. t + Pos(present, other) = t + Pos(present, id) BY <1>6, <2>1
      <3>2. Pos(present, other) \in Int /\ Pos(present, id) \in Int
        <4> HIDE DEF other, card, present
        <4> QED BY <1>2, <1>6, <2>1
      <3>3. Pos(present, other) = Pos(present, id)
        <4> HIDE DEF t, other, present
        <4> QED BY <1>5, <3>1, <3>2
      <3> HIDE DEF n, present, other
      <3> QED BY <1>2, <2>1, <3>3, PosFacts
    <2>3. fields[p] = Stored(other)
      <3> HIDE DEF Stored, CellOf
      <3> QED BY Zenon DEF p
    <2> QED BY <2>2, <2>3
  <1>8. DOMAIN fields \subseteq t + 1 .. t + card
    <2>1. \A id \in present : CellOf(id) \in t + 1 .. t + card
      <3> HIDE DEF CellOf, t, card
      <3> QED BY <1>2, <1>5, <1>6
    <2> QED BY <2>1
  <1>9. /\ Len(vector) = m + 1 /\ vector[1] = m
        /\ \A j \in 1 .. m : vector[j + 1] = Tbl(j) - (vec + j)
    <2> DEFINE tail == [j \in 1 .. m |-> Tbl(j) - (vec + j)]
    <2>1. \A j \in 1 .. m : Tbl(j) - (vec + j) \in Int
      <3> HIDE DEF vec, m
      <3> QED BY <1>2, <1>5 DEF BytesSize
    <2>2. tail \in Seq(Int) /\ Len(tail) = m
      <3> HIDE DEF Tbl, vec, m
      <3> QED BY <1>2, <2>1
    <2>3. \A j \in 1 .. m : tail[j] = Tbl(j) - (vec + j) OBVIOUS
    <2>4. <<m>> \in Seq(Int) /\ Len(<<m>>) = 1 /\ <<m>>[1] = m BY <1>2
    <2> HIDE DEF tail, m, Tbl
    <2>5. /\ Len(<<m>> \o tail) = Len(<<m>>) + Len(tail)
          /\ \A x \in 1 .. Len(<<m>>) : (<<m>> \o tail)[x] = <<m>>[x]
          /\ \A x \in 1 .. Len(tail) : (<<m>> \o tail)[Len(<<m>>) + x] = tail[x]
      BY <2>2, <2>4, Concat
    <2>6. Len(<<m>> \o tail) = m + 1 /\ (<<m>> \o tail)[1] = m
      BY <1>2, <2>2, <2>4, <2>5
    <2>7. ASSUME NEW j \in 1 .. m
          PROVE  (<<m>> \o tail)[j + 1] = Tbl(j) - (vec + j)
      <3>1. 1 + j = j + 1 BY <1>2
      <3> QED BY <2>2, <2>3, <2>4, <2>5, <3>1
    <2> QED BY <2>6, <2>7 DEF tail
  <1> HIDE DEF vtable, fields, vector, CellOf, Stored, Tbl, F
  <1>10. /\ DOMAIN A = 1 .. 1 /\ A[1] = t - 1
         /\ DOMAIN B = w .. w + 1 + sz
         /\ \A p \in w .. w + 1 + sz : B[p] = vtable[p - w + 1]
         /\ DOMAIN C = t .. t /\ C[t] = t - w
         /\ DOMAIN E = vec .. vec + m
         /\ \A p \in vec .. vec + m : E[p] = vector[p - vec + 1]
    <2> HIDE DEF t, w, vec, m
    <2>1. DOMAIN A = 1 .. 1 /\ A[1] = t - 1 BY <1>5 DEF Place
    <2>2. /\ DOMAIN B = w .. w + 1 + sz
          /\ \A p \in w .. w + 1 + sz : B[p] = vtable[p - w + 1]
      <3>1. w + Len(vtable) - 1 = w + 1 + sz BY <1>4, <1>5
      <3> QED BY <3>1 DEF Place
    <2>3. DOMAIN C = t .. t /\ C[t] = t - w BY <1>5 DEF Place
    <2>4. /\ DOMAIN E = vec .. vec + m
          /\ \A p \in vec .. vec + m : E[p] = vector[p - vec + 1]
      <3>1. vec + Len(vector) - 1 = vec + m BY <1>2, <1>5, <1>9
      <3> QED BY <3>1 DEF Place
    <2> QED BY <2>1, <2>2, <2>3, <2>4
  <1>11. \A p : Cell(mem, p) = IF p \in DOMAIN A THEN A[p]
                               ELSE IF p \in DOMAIN B THEN B[p]
                               ELSE IF p \in DOMAIN C THEN C[p]
                               ELSE IF p \in DOMAIN fields THEN fields[p]
                               ELSE IF p \in DOMAIN E THEN E[p]
                               ELSE Cell(F, p)
    BY CellOver
  <1> HIDE DEF A, B, C, E, mem, w, t, vec, m, card
  \* What the accessors find:
  <1>12. Cell(mem, 1) = t - 1 BY <1>10, <1>11
  <1>13. Cell(mem, t) = t - w
    <2>1. t \notin DOMAIN A /\ t \notin DOMAIN B /\ t \in DOMAIN C
      BY <1>2, <1>5, <1>10
    <2> QED BY <1>10, <1>11, <2>1
  <1>14. \A p \in w .. w + 1 + sz : Cell(mem, p) = vtable[p - w + 1]
    <2> SUFFICES ASSUME NEW p \in w .. w + 1 + sz
                 PROVE  Cell(mem, p) = vtable[p - w + 1]
      OBVIOUS
    <2>1. p \notin DOMAIN A /\ p \in DOMAIN B BY <1>2, <1>5, <1>10
    <2> QED BY <1>10, <1>11, <2>1
  <1>15. ASSUME NEW id \in present
         PROVE  Cell(mem, t + Pos(present, id)) = Stored(id)
    <2> DEFINE p == t + Pos(present, id)
    <2>1. p = CellOf(id) /\ p \in t + 1 .. t + card BY <1>6, <1>7, <1>8
    <2>2. p \in DOMAIN fields /\ fields[p] = Stored(id) BY <1>7, <2>1
    <2> HIDE DEF p
    <2>3. p \notin DOMAIN A /\ p \notin DOMAIN B /\ p \notin DOMAIN C
      BY <1>2, <1>5, <1>10, <2>1
    <2>4. Cell(mem, p) = Stored(id) BY <1>11, <2>2, <2>3
    <2> QED BY <2>4 DEF p
  <1>16. \A p \in Nat : p >= vec =>
           /\ p \notin DOMAIN A /\ p \notin DOMAIN B
           /\ p \notin DOMAIN C /\ p \notin DOMAIN fields
    BY <1>2, <1>5, <1>8, <1>10
  <1>17. AsRoot(mem) = t BY <1>5, <1>12 DEF AsRoot
  <1>18. ASSUME NEW id \in 0 .. n - 1
         PROVE  ReadVt(mem, t, id)
                  = IF id \in present THEN Pos(present, id) ELSE 0
    <2>1. t - Cell(mem, t) = w BY <1>5, <1>13
    <2>2. ReadVt(mem, t, id)
            = IF Cell(mem, w) >= id + 3 THEN Cell(mem, w + id + 2) ELSE 0
      BY <2>1 DEF ReadVt
    <2>3. Cell(mem, w) = 2 + sz
      <3>1. w \in w .. w + 1 + sz /\ w - w + 1 = 1 BY <1>5
      <3> QED BY <1>4, <1>14, <3>1
    <2>4. CASE id < sz
      <3>1. /\ w + id + 2 \in w .. w + 1 + sz
            /\ (w + id + 2) - w + 1 = id + 3
            /\ id \in 0 .. sz - 1
        BY <1>2, <1>5, <2>4
      <3>2. Cell(mem, w + id + 2) = vtable[id + 3] BY <1>14, <3>1
      <3>3. vtable[id + 3] = IF id \in present THEN Pos(present, id) ELSE 0
        BY <1>3, <3>1 DEF HasSlots
      <3>4. 2 + sz >= id + 3 BY <1>2, <1>5, <2>4
      <3> QED BY <2>2, <2>3, <3>2, <3>3, <3>4
    <2>5. CASE ~ (id < sz)
      <3>1. id \notin present BY <1>3, <2>5 DEF HasSlots
      <3>2. ~ (2 + sz >= id + 3) BY <1>2, <1>5, <2>5
      <3> QED BY <2>2, <2>3, <3>1, <3>2
    <2> QED BY <2>4, <2>5
  <1>19. HasRoot(mem, kinds, d, t, vec)
    <2>1. ASSUME NEW id \in present
          PROVE  Stored(id) = StoredAt(kinds, d, t, vec, id)
      <3>1. CellOf(id) = t + Pos(present, id) BY <1>6
      <3>2. Tbl(Bytes(id)) = At(vec + 1 + Len(d.lens), Bytes(id)) + 3
        BY DEF Tbl, At, m
      <3> DEFINE kind == kinds[id + 1]
                 nth == Bytes(id)
                 cell == t + Pos(present, id)
      <3>3. Tbl(nth) - CellOf(id)
              = (At(vec + 1 + Len(d.lens), nth) + 3) - cell
        BY <3>1, <3>2, Zenon
      <3>4. vec - CellOf(id) = vec - cell BY <3>1, Zenon
      <3>5. CASE kind = "scalar" BY <3>5 DEF Stored, StoredAt
      <3>6. CASE kind = "hash" BY <3>6 DEF Stored, StoredAt
      <3>7. CASE kind = "vector" BY <3>4, <3>7 DEF Stored, StoredAt
      <3>8. CASE kind \notin {"scalar", "hash", "vector"}
        BY <3>3, <3>8 DEF Stored, StoredAt
      <3> QED BY <3>5, <3>6, <3>7, <3>8
    <2> QED BY <1>15, <1>17, <1>18, <2>1 DEF HasRoot
  <1>20. HasVector(mem, d, layout, vec)
    <2>1. Cell(mem, vec) = m
      <3>1. vec \in Nat /\ vec \in vec .. vec + m /\ vec - vec + 1 = 1
        BY <1>2, <1>5
      <3> QED BY <1>9, <1>10, <1>11, <1>16, <3>1
    <2>2. ASSUME NEW j \in 1 .. m
          PROVE  Cell(mem, vec + j) = (At(vec + 1 + m, j) + 3) - (vec + j)
      <3>1. /\ vec + j \in Nat /\ vec + j \in vec .. vec + m
            /\ (vec + j) - vec + 1 = j + 1 /\ vec + j >= vec
        BY <1>2, <1>5
      <3>2. Cell(mem, vec + j) = vector[j + 1]
        BY <1>10, <1>11, <1>16, <3>1
      <3>3. Tbl(j) = At(vec + 1 + m, j) + 3 BY DEF Tbl, At
      <3>4. vector[j + 1] = Tbl(j) - (vec + j) BY <1>9
      <3>5. Tbl(j) - (vec + j) = (At(vec + 1 + m, j) + 3) - (vec + j)
        BY <3>3, Zenon
      <3> QED BY <3>2, <3>4, <3>5, Zenon
    <2>3. ASSUME NEW p \in Nat, p >= vec + 1 + m
          PROVE  Cell(mem, p) = Cell(AllBytes(vec + 1 + m, d.lens, layout), p)
      <3>1. p >= vec /\ p \notin vec .. vec + m BY <1>2, <1>5, <2>3
      <3> QED BY <1>10, <1>11, <1>16, <3>1 DEF F
    <2> QED BY <2>1, <2>2, <2>3 DEF HasVector, m
  <1>21. t \in Nat \ {0} /\ vec \in Nat \ {0} BY <1>2, <1>5
  <1> QED BY <1>1, <1>19, <1>20, <1>21

-----------------------------------------------------------------------------
(* What each kind of field reads.                                          *)

\* bytes_to_string of a table at b.
BytesIn(mem, b) ==
  LET seq == VectorField(mem, b, 0)
  IN  IF VecLen(mem, seq) = HashLen THEN Cell(mem, seq) ELSE NoString

\* What is answered for the Bytes table j of a document.
StringOf(d, j) == IF d.lens[j] = HashLen THEN Contents(j) ELSE NoString

Read(mem, kinds, d, t, vec) == /\ HasRoot(mem, kinds, d, t, vec)
                               /\ Len(kinds) \in Nat
                               /\ d.present \in SUBSET (0 .. Len(kinds) - 1)
                               /\ t \in Nat \ {0} /\ vec \in Nat \ {0}

LEMMA CellOfField ==
  ASSUME NEW mem, NEW kinds, NEW d, NEW t, NEW vec, Read(mem, kinds, d, t, vec),
         NEW id \in d.present
  PROVE  /\ Pos(d.present, id) \in Nat \ {0}
         /\ ReadVt(mem, t, id) = Pos(d.present, id)
         /\ Cell(mem, t + Pos(d.present, id)) = StoredAt(kinds, d, t, vec, id)
  <1>1. Pos(d.present, id) \in 1 .. Cardinality(d.present)
    <2> DEFINE present == d.present
               n == Len(kinds)
    <2>1. n \in Nat /\ present \in SUBSET (0 .. n - 1) /\ id \in present
      BY DEF Read
    <2> HIDE DEF present, n
    <2>2. Pos(present, id) \in 1 .. Cardinality(present) BY <2>1, PosFacts
    <2> QED BY <2>2 DEF present
  <1>2. Cardinality(d.present) \in Nat
    <2>1. IsFiniteSet(d.present)
      <3> DEFINE present == d.present
                 n == Len(kinds)
      <3>1. n \in Nat /\ present \in SUBSET (0 .. n - 1) BY DEF Read
      <3> HIDE DEF present, n
      <3>2. IsFiniteSet(present) BY <3>1, FieldsFinite
      <3> QED BY <3>2 DEF present
    <2> QED BY <2>1, FS_CardinalityType
  <1>3. id \in 0 .. Len(kinds) - 1 BY DEF Read
  <1>4. ReadVt(mem, t, id) = Pos(d.present, id) BY <1>3 DEF Read, HasRoot
  <1>5. Cell(mem, t + Pos(d.present, id)) = StoredAt(kinds, d, t, vec, id)
    BY DEF Read, HasRoot
  <1> QED BY <1>1, <1>2, <1>4, <1>5

LEMMA NoField ==
  ASSUME NEW mem, NEW kinds, NEW d, NEW t, NEW vec, Read(mem, kinds, d, t, vec),
         NEW id \in 0 .. Len(kinds) - 1, id \notin d.present
  PROVE  ReadVt(mem, t, id) = 0
  BY DEF Read, HasRoot

LEMMA ScalarRead ==
  ASSUME NEW mem, NEW kinds, NEW d, NEW t, NEW vec, Read(mem, kinds, d, t, vec),
         NEW id \in 0 .. Len(kinds) - 1, kinds[id + 1] = "scalar"
  PROVE  ScalarField(mem, t, id)
           = IF id \in d.present THEN ScalarValue(d, id) ELSE 0
  <1>1. CASE id \in d.present
    <2>1. ScalarField(mem, t, id) = Cell(mem, t + Pos(d.present, id))
      BY <1>1, CellOfField DEF ScalarField
    <2>2. StoredAt(kinds, d, t, vec, id) = ScalarValue(d, id) BY DEF StoredAt
    <2> QED BY <1>1, <2>1, <2>2, CellOfField
  <1>2. CASE id \notin d.present BY <1>2, NoField DEF ScalarField
  <1> QED BY <1>1, <1>2

LEMMA StructRead ==
  ASSUME NEW mem, NEW kinds, NEW d, NEW t, NEW vec, Read(mem, kinds, d, t, vec),
         NEW id \in 0 .. Len(kinds) - 1, kinds[id + 1] = "hash"
  PROVE  /\ id \notin d.present => StructField(mem, t, id) = 0
         /\ id \in d.present =>
              /\ StructField(mem, t, id) # 0
              /\ Cell(mem, StructField(mem, t, id)) = HashValue(id)
  <1>1. CASE id \in d.present
    <2> DEFINE pos == Pos(d.present, id)
    <2>1. pos \in Nat \ {0} /\ ReadVt(mem, t, id) = pos BY <1>1, CellOfField
    <2>2. Cell(mem, t + pos) = HashValue(id)
      <3>1. StoredAt(kinds, d, t, vec, id) = HashValue(id) BY DEF StoredAt
      <3> QED BY <1>1, <3>1, CellOfField
    <2> HIDE DEF pos
    <2>3. StructField(mem, t, id) = t + pos BY <2>1 DEF StructField
    <2>4. t + pos # 0 BY <2>1 DEF Read
    <2> QED BY <1>1, <2>2, <2>3, <2>4
  <1>2. CASE id \notin d.present BY <1>2, NoField DEF StructField
  <1> QED BY <1>1, <1>2

\* A table or a vector: the offset in the cell leads to `at'.
LEMMA OffsetRead ==
  ASSUME NEW mem, NEW kinds, NEW d, NEW t, NEW vec, Read(mem, kinds, d, t, vec),
         NEW id \in d.present, NEW at \in Int, NEW adjust \in Int,
         StoredAt(kinds, d, t, vec, id) = at - (t + Pos(d.present, id))
  PROVE  OffsetField(mem, t, id, adjust) = at + adjust
  <1> DEFINE pos == Pos(d.present, id)
             elem == t + pos
  <1>1. pos \in Nat \ {0} /\ ReadVt(mem, t, id) = pos BY CellOfField
  <1>2. Cell(mem, elem) = at - elem BY CellOfField
  <1>3. OffsetField(mem, t, id, adjust) = elem + adjust + Cell(mem, elem)
    BY <1>1 DEF OffsetField
  <1>4. elem \in Int BY <1>1 DEF Read
  <1> HIDE DEF elem
  <1> QED BY <1>2, <1>3, <1>4

LEMMA VectorRead ==
  ASSUME NEW mem, NEW kinds, NEW d, NEW t, NEW vec, Read(mem, kinds, d, t, vec),
         NEW id \in 0 .. Len(kinds) - 1, kinds[id + 1] = "vector"
  PROVE  VectorField(mem, t, id) = IF id \in d.present THEN vec + 1 ELSE 0
  <1>1. CASE id \in d.present
    <2>1. StoredAt(kinds, d, t, vec, id) = vec - (t + Pos(d.present, id))
      BY DEF StoredAt
    <2>2. OffsetField(mem, t, id, 1) = vec + 1
      BY <1>1, <2>1, OffsetRead DEF Read
    <2> QED BY <1>1, <2>2 DEF VectorField
  <1>2. CASE id \notin d.present
    BY <1>2, NoField DEF VectorField, OffsetField
  <1> QED BY <1>1, <1>2

\* The Bytes tables, through the vector or through a field.
LEMMA StringRead ==
  ASSUME NEW mem, NEW d, NEW layout \in Layouts, NEW vec \in Nat \ {0},
         HasVector(mem, d, layout, vec), Len(d.lens) \in Nat,
         DOMAIN d.lens = 1 .. Len(d.lens), NEW j \in 1 .. Len(d.lens)
  PROVE  BytesIn(mem, At(vec + 1 + Len(d.lens), j) + 3) = StringOf(d, j)
  <1> DEFINE m == Len(d.lens)
             start == vec + 1 + m
             lens == d.lens
             seq == VectorField(mem, At(start, j) + 3, 0)
  <1>1. /\ m \in Nat /\ start \in Nat \ {0} /\ DOMAIN lens = 1 .. m
        /\ j \in 1 .. m
    OBVIOUS
  <1>2. \A p \in Nat : p >= start =>
          Cell(mem, p) = Cell(AllBytes(start, lens, layout), p)
    BY DEF HasVector
  <1> HIDE DEF m, start, lens
  <1>3. /\ VecLen(mem, seq) = IF lens[j] = NoSeq THEN 0 ELSE lens[j]
        /\ lens[j] # NoSeq => Cell(mem, seq) = Contents(j)
    BY <1>1, <1>2, BytesRead
  <1>4. BytesIn(mem, At(start, j) + 3)
          = IF VecLen(mem, seq) = HashLen THEN Cell(mem, seq) ELSE NoString
    BY DEF BytesIn
  <1>5. NoSeq # HashLen /\ 0 # HashLen BY HashLenAssumption DEF NoSeq
  <1> HIDE DEF seq
  <1>6. BytesIn(mem, At(start, j) + 3)
          = IF lens[j] = HashLen THEN Contents(j) ELSE NoString
    BY <1>3, <1>4, <1>5
  <1> QED BY <1>6 DEF StringOf, start, m, lens

LEMMA ElementRead ==
  ASSUME NEW mem, NEW d, NEW layout \in Layouts, NEW vec \in Nat \ {0},
         HasVector(mem, d, layout, vec), Len(d.lens) \in Nat,
         DOMAIN d.lens = 1 .. Len(d.lens), NEW k \in 0 .. Len(d.lens) - 1
  PROVE  BytesIn(mem, OffsetVecAt(mem, vec + 1, k)) = StringOf(d, k + 1)
  <1> DEFINE m == Len(d.lens)
             at == At(vec + 1 + m, k + 1) + 3
  <1>1. k + 1 \in 1 .. m /\ at \in Int /\ k \in Int BY DEF At, BytesSize
  <1>2. Cell(mem, vec + (k + 1)) = at - (vec + (k + 1))
    BY <1>1 DEF HasVector
  <1>3. vec + 1 + k = vec + (k + 1) BY <1>1
  <1>4. OffsetVecAt(mem, vec + 1, k) = (vec + (k + 1)) + Cell(mem, vec + (k + 1))
    BY <1>3 DEF OffsetVecAt
  <1>5. OffsetVecAt(mem, vec + 1, k) = at
    <2> HIDE DEF at
    <2> QED BY <1>1, <1>2, <1>4
  <1>6. BytesIn(mem, at) = StringOf(d, k + 1) BY <1>1, StringRead
  <1> QED BY <1>5, <1>6

-----------------------------------------------------------------------------
(* The three roots.                                                        *)

\* The document d of a root r.
Fits(r, d) == /\ d.present \in SUBSET Ids(r)
              /\ d.scale \in Nat
              /\ Len(d.lens) \in Nat /\ DOMAIN d.lens = 1 .. Len(d.lens)
              /\ r = "header" => Len(d.lens) = 2
              /\ r # "header" => Len(d.lens) <= MaxArgs

LEMMA DocumentsFit ==
  ASSUME NEW r \in Roots, NEW d \in Documents[r]
  PROVE  Fits(r, d)
  <1> DEFINE P == {p \in SUBSET Ids(r) : \/ Cardinality(p) <= MaxOdd
                                         \/ Cardinality(Ids(r) \ p) <= MaxOdd}
             L == IF r = "header" THEN [1 .. 2 -> Lens]
                  ELSE UNION {[1 .. m -> Lens] : m \in 0 .. MaxArgs}
  <1>1. Documents[r] = {[present |-> p, scale |-> c, lens |-> l] :
                          p \in P, c \in Scales, l \in L}
    BY DEF Documents
  <1> HIDE DEF P, L
  <1>2. PICK p \in P, c \in Scales, l \in L :
          d = [present |-> p, scale |-> c, lens |-> l]
    BY <1>1
  <1>3. d.present = p /\ d.scale = c /\ d.lens = l BY <1>2
  <1>4. p \in SUBSET Ids(r) BY DEF P
  <1>5. c \in Nat BY ParseAssumption
  <1>6. /\ Len(l) \in Nat /\ DOMAIN l = 1 .. Len(l)
        /\ r = "header" => Len(l) = 2
        /\ r # "header" => Len(l) <= MaxArgs
    <2>1. CASE r = "header"
      <3>1. l \in [1 .. 2 -> Lens] BY <2>1 DEF L
      <3>2. Len(l) = 2 BY <3>1
      <3> QED BY <2>1, <3>1, <3>2
    <2>2. CASE r # "header"
      <3>1. PICK m \in 0 .. MaxArgs : l \in [1 .. m -> Lens]
        BY <2>2 DEF L
      <3>2. m \in Nat /\ m <= MaxArgs BY ParseAssumption
      <3>3. Len(l) = m BY <3>1, <3>2
      <3> QED BY <2>2, <3>1, <3>2, <3>3
    <2> QED BY <2>1, <2>2
  <1> QED BY <1>3, <1>4, <1>5, <1>6 DEF Fits

\* The fields of the roots.
LEMMA KindFacts ==
  /\ Len(Kinds("script")) = 2 /\ Len(Kinds("input")) = 5
  /\ Len(Kinds("header")) = 13
  /\ Ids("script") = 0 .. 1 /\ Ids("input") = 0 .. 4 /\ Ids("header") = 0 .. 12
  /\ Kinds("script")[1] = "vector" /\ Kinds("input")[5] = "vector"
  BY DEF Kinds, Ids, ScriptKinds, InputKinds, HeaderKinds

LEMMA HeaderBytes ==
  /\ Kinds("header")[8] = "bytes" /\ Kinds("header")[10] = "bytes"
  /\ Cardinality({k \in 0 .. 7 : Kinds("header")[k + 1] = "bytes"}) = 1
  /\ Cardinality({k \in 0 .. 9 : Kinds("header")[k + 1] = "bytes"}) = 2
  <1>1. /\ Kinds("header")[1] = "scalar" /\ Kinds("header")[2] = "hash"
        /\ Kinds("header")[3] = "scalar" /\ Kinds("header")[4] = "scalar"
        /\ Kinds("header")[5] = "hash" /\ Kinds("header")[6] = "hash"
        /\ Kinds("header")[7] = "hash" /\ Kinds("header")[8] = "bytes"
        /\ Kinds("header")[9] = "scalar" /\ Kinds("header")[10] = "bytes"
    BY DEF Kinds, HeaderKinds
  <1>2. {k \in 0 .. 7 : Kinds("header")[k + 1] = "bytes"} = {7}
    <2> SUFFICES ASSUME NEW k \in 0 .. 7
                 PROVE  Kinds("header")[k + 1] = "bytes" <=> k = 7
      OBVIOUS
    <2>1. k \in {0, 1, 2, 3, 4, 5, 6, 7} OBVIOUS
    <2> QED BY <1>1, <2>1
  <1>3. {k \in 0 .. 9 : Kinds("header")[k + 1] = "bytes"} = {7, 9}
    <2> SUFFICES ASSUME NEW k \in 0 .. 9
                 PROVE  Kinds("header")[k + 1] = "bytes" <=> k \in {7, 9}
      OBVIOUS
    <2>1. k \in {0, 1, 2, 3, 4, 5, 6, 7, 8, 9} OBVIOUS
    <2> QED BY <1>1, <2>1
  <1>4. Cardinality({7}) = 1 /\ IsFiniteSet({7}) BY FS_Singleton
  <1>5. Cardinality({7} \cup {9}) = 2 BY <1>4, FS_AddElement
  <1>6. {7} \cup {9} = {7, 9} OBVIOUS
  <1> QED BY <1>1, <1>2, <1>3, <1>4, <1>5, <1>6

\* Where the vector of a script or an input is, and how many Bytes it has.
ArgsId(r) == IF r = "script" THEN 0 ELSE 4
ArgsLen(r, d) == IF ArgsId(r) \in d.present THEN Len(d.lens) ELSE 0

\* The two Bytes fields of a header.
BytesId(j) == 5 + 2 * j

\* The accessors read d out of mem.
ScalarsReadable(mem, r, d) ==
  \A id \in Ids(r) : Kinds(r)[id + 1] = "scalar" =>
    ScalarField(mem, AsRoot(mem), id)
      = IF id \in d.present THEN ScalarValue(d, id) ELSE 0

HashesReadable(mem, r, d) ==
  \A id \in Ids(r) : Kinds(r)[id + 1] = "hash" =>
    /\ id \notin d.present => StructField(mem, AsRoot(mem), id) = 0
    /\ id \in d.present =>
         /\ StructField(mem, AsRoot(mem), id) # 0
         /\ Cell(mem, StructField(mem, AsRoot(mem), id)) = HashValue(id)

BytesReadable(mem, d) ==
  \A j \in 1 .. 2 :
    /\ BytesId(j) \notin d.present =>
         TableField(mem, AsRoot(mem), BytesId(j)) = 0
    /\ BytesId(j) \in d.present =>
         /\ TableField(mem, AsRoot(mem), BytesId(j)) # 0
         /\ BytesIn(mem, TableField(mem, AsRoot(mem), BytesId(j))) = StringOf(d, j)

ArgsReadable(mem, r, d) ==
  /\ VecLen(mem, VectorField(mem, AsRoot(mem), ArgsId(r))) = ArgsLen(r, d)
  /\ \A k \in 0 .. ArgsLen(r, d) - 1 :
       BytesIn(mem, OffsetVecAt(mem, VectorField(mem, AsRoot(mem), ArgsId(r)), k))
         = StringOf(d, k + 1)

Readable(mem, r, d) == /\ ScalarsReadable(mem, r, d)
                       /\ HashesReadable(mem, r, d)
                       /\ r = "header" => BytesReadable(mem, d)
                       /\ r # "header" => ArgsReadable(mem, r, d)

\* What was written is read, whatever the layout.
LEMMA WrittenReadable ==
  ASSUME NEW r \in Roots, NEW d, Fits(r, d), NEW layout \in Layouts
  PROVE  Readable(Written(Kinds(r), d, layout), r, d)
  <1> DEFINE kinds == Kinds(r)
             mem == Written(kinds, d, layout)
             m == Len(d.lens)
  <1>1. r \in {"script", "input", "header"} BY DEF Roots
  <1>2. Len(kinds) \in Nat /\ Ids(r) = 0 .. Len(kinds) - 1
    BY <1>1, KindFacts DEF Ids
  <1>3. d.present \in SUBSET (0 .. Len(kinds) - 1) BY <1>2 DEF Fits
  <1>4. m \in Nat /\ DOMAIN d.lens = 1 .. m BY DEF Fits
  <1>5. PICK t \in Nat \ {0}, vec \in Nat \ {0} :
           /\ HasRoot(mem, kinds, d, t, vec)
           /\ HasVector(mem, d, layout, vec)
    <2> HIDE DEF kinds
    <2> QED BY <1>2, <1>3, <1>4, WrittenRead
  <1>6. Read(mem, kinds, d, t, vec) BY <1>2, <1>3, <1>5 DEF Read
  <1>7. AsRoot(mem) = t BY <1>5 DEF HasRoot
  <1> HIDE DEF mem, kinds
  <1>8. ScalarsReadable(mem, r, d)
    BY <1>2, <1>6, <1>7, ScalarRead DEF ScalarsReadable, kinds
  <1>9. HashesReadable(mem, r, d)
    BY <1>2, <1>6, <1>7, StructRead DEF HashesReadable, kinds
  <1>10. ASSUME r = "header" PROVE BytesReadable(mem, d)
    <2> SUFFICES ASSUME NEW j \in 1 .. 2
                 PROVE  /\ BytesId(j) \notin d.present =>
                             TableField(mem, t, BytesId(j)) = 0
                        /\ BytesId(j) \in d.present =>
                             /\ TableField(mem, t, BytesId(j)) # 0
                             /\ BytesIn(mem, TableField(mem, t, BytesId(j)))
                                  = StringOf(d, j)
      BY <1>7 DEF BytesReadable
    <2> DEFINE id == BytesId(j)
               at == At(vec + 1 + Len(d.lens), j) + 3
    <2>1. /\ id \in 0 .. Len(kinds) - 1
          /\ kinds[id + 1] = "bytes"
          /\ Cardinality({k \in 0 .. id : kinds[k + 1] = "bytes"}) = j
      <3>1. kinds = Kinds("header") /\ Len(kinds) = 13
        BY <1>10, KindFacts DEF kinds
      <3>2. CASE j = 1
        <4>1. id = 7 /\ id + 1 = 8 /\ id \in 0 .. 12 BY <3>2 DEF BytesId
        <4> HIDE DEF id
        <4>2. kinds[id + 1] = "bytes" BY <3>1, <4>1, HeaderBytes
        <4>3. Cardinality({k \in 0 .. id : kinds[k + 1] = "bytes"}) = 1
          BY <3>1, <4>1, HeaderBytes, Zenon
        <4> QED BY <3>1, <3>2, <4>1, <4>2, <4>3
      <3>3. CASE j = 2
        <4>1. id = 9 /\ id + 1 = 10 /\ id \in 0 .. 12 BY <3>3 DEF BytesId
        <4> HIDE DEF id
        <4>2. kinds[id + 1] = "bytes" BY <3>1, <4>1, HeaderBytes
        <4>3. Cardinality({k \in 0 .. id : kinds[k + 1] = "bytes"}) = 2
          BY <3>1, <4>1, HeaderBytes, Zenon
        <4> QED BY <3>1, <3>3, <4>1, <4>2, <4>3
      <3> QED BY <3>2, <3>3
    <2> HIDE DEF id
    <2>2. CASE id \notin d.present
      <3>1. ReadVt(mem, t, id) = 0 BY <1>6, <2>1, <2>2, NoField
      <3>2. TableField(mem, t, id) = 0
        BY <3>1 DEF TableField, OffsetField
      <3> QED BY <2>2, <3>2 DEF id
    <2>3. CASE id \in d.present
      <3>1. at \in Nat /\ at # 0
        <4> HIDE DEF m
        <4>1. at = (vec + 1 + m) + 7 * (j - 1) + 3 BY DEF At, BytesSize, m
        <4> HIDE DEF at
        <4>2. j - 1 \in Nat /\ vec + 1 + m \in Nat BY <1>4
        <4>3. 7 * (j - 1) \in Nat BY <4>2
        <4> QED BY <4>1, <4>2, <4>3
      <3>2. StoredAt(kinds, d, t, vec, id) = at - (t + Pos(d.present, id))
        <4>1. kinds[id + 1] \notin {"scalar", "hash", "vector"} BY <2>1
        <4> HIDE DEF at
        <4>2. StoredAt(kinds, d, t, vec, id)
                = (At(vec + 1 + Len(d.lens),
                      Cardinality({k \in 0 .. id : kinds[k + 1] = "bytes"})) + 3)
                  - (t + Pos(d.present, id))
          BY <4>1 DEF StoredAt
        <4> QED BY <2>1, <4>2 DEF at
      <3>3. TableField(mem, t, id) = at
        <4> HIDE DEF at
        <4>1. at \in Int /\ 0 \in Int BY <3>1
        <4>2. OffsetField(mem, t, id, 0) = at + 0
          BY <1>6, <2>3, <3>2, <4>1, OffsetRead
        <4>3. at + 0 = at BY <4>1
        <4> QED BY <4>2, <4>3 DEF TableField
      <3>4. BytesIn(mem, at) = StringOf(d, j)
        <4>1. j \in 1 .. Len(d.lens) BY <1>10 DEF Fits
        <4> QED BY <1>4, <1>5, <4>1, StringRead
      <3> QED BY <2>3, <3>1, <3>3, <3>4 DEF id
    <2> QED BY <2>2, <2>3
  <1>11. ASSUME r # "header" PROVE ArgsReadable(mem, r, d)
    <2> DEFINE id == ArgsId(r)
               seq == VectorField(mem, t, id)
    <2>1. id \in 0 .. Len(kinds) - 1 /\ kinds[id + 1] = "vector"
      BY <1>1, <1>11, KindFacts DEF ArgsId, kinds
    <2> HIDE DEF id
    <2>2. seq = IF id \in d.present THEN vec + 1 ELSE 0
      BY <1>6, <2>1, VectorRead
    <2> HIDE DEF seq
    <2>3. CASE id \in d.present
      <3>1. ArgsLen(r, d) = m BY <2>3 DEF ArgsLen, id
      <3>2. seq = vec + 1 BY <2>2, <2>3
      <3>3. VecLen(mem, vec + 1) = Cell(mem, vec)
        <4>1. vec + 1 # 0 /\ (vec + 1) - 1 = vec OBVIOUS
        <4> QED BY <4>1 DEF VecLen
      <3>4. Cell(mem, vec) = m BY <1>5 DEF HasVector
      <3>5. \A k \in 0 .. m - 1 :
              BytesIn(mem, OffsetVecAt(mem, vec + 1, k)) = StringOf(d, k + 1)
        BY <1>4, <1>5, ElementRead
      <3> QED BY <1>7, <3>1, <3>2, <3>3, <3>4, <3>5 DEF ArgsReadable, seq, id
    <2>4. CASE id \notin d.present
      <3>1. ArgsLen(r, d) = 0 BY <2>4 DEF ArgsLen, id
      <3>2. seq = 0 BY <2>2, <2>4
      <3> QED BY <1>7, <3>1, <3>2 DEF ArgsReadable, VecLen, seq, id
    <2> QED BY <2>3, <2>4
  <1> QED BY <1>8, <1>9, <1>10, <1>11 DEF Readable, mem, kinds

-----------------------------------------------------------------------------
(* The invariant.                                                          *)

\* The hash of the whole document.
Whole == Parser!DocumentHash

\* The keys that a field of the reading order sets, and the ones that the
\* fields before k have set.
FieldKeys(f) ==
  CASE f.kind = "vector" -> {"args"}
    [] f.kind = "scalar" -> {f.name}
    [] f.kind = "cell" -> IF f.id \in doc.present THEN {"cell", "index"} ELSE {}
    [] OTHER           -> IF f.id \in doc.present THEN {f.name} ELSE {}

KeysRead(k) == UNION {FieldKeys(Program(root)[h]) : h \in 1 .. k - 1}

Started == pc = "start" => /\ doc = NoDocument
                           /\ step = 1 /\ i = 0 /\ margs = <<>> /\ v = <<>>
                           /\ ret = NoAnswer

Given == pc # "start" => Fits(root, doc) /\ Readable(s, root, doc)

\* The hash under construction is the part of the whole hash for the fields
\* that were read.
Filled == pc # "start" => /\ step \in 1 .. Len(Program(root)) + 1
                          /\ v = [key \in KeysRead(step) |-> Whole[key]]

\* The loop has passed i Bytes, and what was passed was as long as a hash.
Looped ==
  pc # "start" =>
    /\ root = "header" => i = 0
    /\ root # "header" => /\ i \in 0 .. ArgsLen(root, doc)
                          /\ step > 1 => i = ArgsLen(root, doc)
    /\ margs = [j \in 1 .. i |-> Contents(j)]
    /\ \A j \in 1 .. i : doc.lens[j] = HashLen
    /\ root = "header" =>
         \A j \in 1 .. 2 : step > BytesId(j) + 1 /\ BytesId(j) \in doc.present
                             => doc.lens[j] = HashLen

Answered == /\ pc = "parse" => ret = NoAnswer
            /\ pc = "done" => ret = Parser!Expected

IInv == /\ pc \in {"start", "parse", "done"} /\ root \in Roots
        /\ Started /\ Given /\ Filled /\ Looped /\ Answered

-----------------------------------------------------------------------------
(* The fields in the order in which they are read.                         *)

ReadLen(r) == CASE r = "script" -> 2 [] r = "input" -> 4 [] OTHER -> 13

LEMMA ProgramLength ==
  ASSUME NEW r \in Roots
  PROVE  Len(Program(r)) = ReadLen(r)
  BY DEF Roots, Program, ReadLen, ParseScript, ParseInput, ParseHeader,
         HeaderKinds

\* A field of the reading order is the field of the schema with its id.
LEMMA FieldFacts ==
  ASSUME NEW r \in Roots, NEW k \in 1 .. Len(Program(r)), NEW f,
         f = Program(r)[k]
  PROVE  /\ f.kind \in {"vector", "cell", "hash", "scalar", "bytes"}
         /\ f.id \in Ids(r)
         /\ f.kind \in {"hash", "scalar", "bytes", "vector"} =>
              Kinds(r)[f.id + 1] = f.kind /\ Names(r)[f.id + 1] = f.name
         /\ f.kind = "vector" => /\ r # "header" /\ k = 1
                                 /\ f.id = ArgsId(r) /\ f.name = "args"
         /\ f.kind = "cell" => r = "input" /\ f.id = 1
         /\ r = "header" => f.id = k - 1
         /\ f.kind = "bytes" => r = "header" /\ f.id \in {7, 9}
         /\ r # "header" /\ k = 1 => f.kind = "vector"
  <1>1. r \in {"script", "input", "header"} BY DEF Roots
  <1>2. k \in 1 .. ReadLen(r) BY ProgramLength
  <1>3. CASE r = "script"
    <2>1. k \in {1, 2} BY <1>2, <1>3 DEF ReadLen
    <2>2. f = ParseScript[k] BY <1>3 DEF Program
    <2>3. CASE k = 1
      <3>1. f = Field("vector", "args", 0) BY <2>2, <2>3 DEF ParseScript
      <3> QED BY <1>3, <2>3, <3>1, KindFacts
                 DEF Field, Kinds, Names, ScriptKinds, ScriptNames, ArgsId
    <2>4. CASE k = 2
      <3>1. f = Field("hash", "code_hash", 1) BY <2>2, <2>4 DEF ParseScript
      <3> QED BY <1>3, <2>4, <3>1, KindFacts
                 DEF Field, Kinds, Names, ScriptKinds, ScriptNames, ArgsId
    <2> QED BY <2>1, <2>3, <2>4
  <1>4. CASE r = "input"
    <2>1. k \in {1, 2, 3, 4} BY <1>2, <1>4 DEF ReadLen
    <2>2. f = ParseInput[k] BY <1>4 DEF Program
    <2>3. CASE k = 1
      <3>1. f = Field("vector", "args", 4) BY <2>2, <2>3 DEF ParseInput
      <3> QED BY <1>4, <2>3, <3>1, KindFacts
                 DEF Field, Kinds, Names, InputKinds, InputNames, ArgsId
    <2>4. CASE k = 2
      <3>1. f = Field("cell", "cell", 1) BY <2>2, <2>4 DEF ParseInput
      <3> QED BY <1>4, <2>4, <3>1, KindFacts DEF Field
    <2>5. CASE k = 3
      <3>1. f = Field("hash", "block_hash", 0) BY <2>2, <2>5 DEF ParseInput
      <3> QED BY <1>4, <2>5, <3>1, KindFacts
                 DEF Field, Kinds, Names, InputKinds, InputNames
    <2>6. CASE k = 4
      <3>1. f = Field("scalar", "since", 3) BY <2>2, <2>6 DEF ParseInput
      <3> QED BY <1>4, <2>6, <3>1, KindFacts
                 DEF Field, Kinds, Names, InputKinds, InputNames
    <2> QED BY <2>1, <2>3, <2>4, <2>5, <2>6
  <1>5. CASE r = "header"
    <2>1. k \in 1 .. 13 /\ Len(HeaderKinds) = 13
      BY <1>2, <1>5 DEF ReadLen, HeaderKinds
    <2>2. f = Field(HeaderKinds[k], HeaderNames[k], k - 1)
      BY <1>5, <2>1 DEF Program, ParseHeader
    <2>3. f.kind = HeaderKinds[k] /\ f.name = HeaderNames[k] /\ f.id = k - 1
      BY <2>2 DEF Field
    <2>4. Kinds(r) = HeaderKinds /\ Names(r) = HeaderNames /\ Ids(r) = 0 .. 12
      BY <1>5, KindFacts DEF Kinds, Names
    <2>5. k \in {1, 2, 3, 4, 5, 6, 7, 8, 9, 10, 11, 12, 13} BY <2>1
    <2>6. /\ HeaderKinds[k] \in {"hash", "scalar", "bytes"}
          /\ HeaderKinds[k] = "bytes" => k \in {8, 10}
      BY <2>5 DEF HeaderKinds
    <2>7. k - 1 \in 0 .. 12 /\ (k - 1) + 1 = k BY <2>1
    <2> QED BY <1>5, <2>3, <2>4, <2>6, <2>7
  <1> QED BY <1>1, <1>3, <1>4, <1>5

\* No two fields of a root have the same name.
LEMMA NamesDiffer ==
  ASSUME NEW r \in Roots, NEW a \in Ids(r), NEW b \in Ids(r),
         Names(r)[a + 1] = Names(r)[b + 1]
  PROVE  a = b
  <1>1. r \in {"script", "input", "header"} BY DEF Roots
  <1>2. CASE r = "script"
    BY <1>2, KindFacts DEF Names, ScriptNames
  <1>3. CASE r = "input"
    <2>1. a \in {0, 1, 2, 3, 4} /\ b \in {0, 1, 2, 3, 4} BY <1>3, KindFacts
    <2> QED BY <1>3, <2>1 DEF Names, InputNames
  <1>4. CASE r = "header"
    <2>1. /\ a \in {0, 1, 2, 3, 4, 5, 6, 7, 8, 9, 10, 11, 12}
          /\ b \in {0, 1, 2, 3, 4, 5, 6, 7, 8, 9, 10, 11, 12}
      BY <1>4, KindFacts
    <2> QED BY <1>4, <2>1 DEF Names, HeaderNames
  <1> QED BY <1>1, <1>2, <1>3, <1>4

-----------------------------------------------------------------------------
(* The whole hash.                                                         *)

\* The schema is the same for the reader and for the specification.
LEMMA SameSchema ==
  /\ \A r : /\ Parser!Kinds(r) = Kinds(r) /\ Parser!Names(r) = Names(r)
            /\ Parser!Ids(r) = Ids(r)
  /\ \A n : /\ Parser!Fixnum(n) = Fixnum(n) /\ Parser!HashValue(n) = HashValue(n)
            /\ Parser!Contents(n) = Contents(n)
  /\ \A d, n : Parser!ScalarValue(d, n) = ScalarValue(d, n)
  /\ Parser!HeaderKinds = HeaderKinds /\ Parser!HeaderNames = HeaderNames
  <1>1. \A r : Parser!Kinds(r) = Kinds(r)
    BY DEF Parser!Kinds, Kinds, Parser!ScriptKinds, ScriptKinds,
           Parser!InputKinds, InputKinds, Parser!HeaderKinds, HeaderKinds
  <1>2. \A r : Parser!Names(r) = Names(r)
    BY DEF Parser!Names, Names, Parser!ScriptNames, ScriptNames,
           Parser!InputNames, InputNames, Parser!HeaderNames, HeaderNames
  <1>3. \A r : Parser!Ids(r) = Ids(r) BY <1>1 DEF Parser!Ids, Ids
  <1>4. \A n : /\ Parser!Fixnum(n) = Fixnum(n)
               /\ Parser!HashValue(n) = HashValue(n)
               /\ Parser!Contents(n) = Contents(n)
    BY DEF Parser!Fixnum, Fixnum, Parser!HashValue, HashValue,
           Parser!Contents, Contents
  <1>5. \A d, n : Parser!ScalarValue(d, n) = ScalarValue(d, n)
    BY DEF Parser!ScalarValue, ScalarValue
  <1>6. Parser!HeaderKinds = HeaderKinds /\ Parser!HeaderNames = HeaderNames
    BY DEF Parser!HeaderKinds, HeaderKinds, Parser!HeaderNames, HeaderNames
  <1> QED BY <1>1, <1>2, <1>3, <1>4, <1>5, <1>6

\* A field is found by its name.
LEMMA Named ==
  ASSUME root \in Roots, Fits(root, doc), NEW id \in Ids(root)
  PROVE  /\ Parser!Has(Names(root)[id + 1]) <=> id \in doc.present
         /\ Parser!Id(Names(root)[id + 1]) = id
  <1> DEFINE name == Names(root)[id + 1]
  <1>1. \A a \in Ids(root) : Names(root)[a + 1] = name => a = id
    BY NamesDiffer
  <1>2. Parser!Has(name) <=> \E a \in doc.present : Names(root)[a + 1] = name
    BY SameSchema DEF Parser!Has
  <1>3. Parser!Id(name) = CHOOSE a \in Ids(root) : Names(root)[a + 1] = name
    BY SameSchema DEF Parser!Id
  <1>4. doc.present \subseteq Ids(root) BY DEF Fits
  <1>5. Parser!Has(name) <=> id \in doc.present BY <1>1, <1>2, <1>4
  <1>6. Parser!Id(name) = id BY <1>1, <1>3
  <1> QED BY <1>5, <1>6

\* An mrb_int is signed.
LEMMA FixnumRange ==
  ASSUME NEW n \in Int
  PROVE  /\ Fixnum(n) \in -(IntMod \div 2) .. IntMod \div 2 - 1
         /\ Fixnum(0) = 0 /\ 0 \in -(IntMod \div 2) .. IntMod \div 2 - 1
  <1> DEFINE half == IntMod \div 2
  <1>1. half \in Nat \ {0} /\ IntMod = 2 * half BY ParseAssumption
  <1>2. Fixnum(n) = ((n + half) % IntMod) - half
        /\ Fixnum(0) = ((0 + half) % IntMod) - half
    BY DEF Fixnum
  <1> HIDE DEF half
  <1>3. (n + half) % IntMod \in 0 .. IntMod - 1 BY <1>1, ParseAssumption
  <1>4. (0 + half) % IntMod = half BY <1>1
  <1>5. Fixnum(n) \in -half .. half - 1 BY <1>1, <1>2, <1>3
  <1>6. Fixnum(0) = 0 /\ 0 \in -half .. half - 1 BY <1>1, <1>2, <1>4
  <1> QED BY <1>5, <1>6 DEF half

LEMMA NumberOf ==
  ASSUME root \in Roots, Fits(root, doc), NEW id \in Ids(root)
  PROVE  /\ Parser!Number(Names(root)[id + 1])
              = Fixnum(IF id \in doc.present THEN ScalarValue(doc, id) ELSE 0)
         /\ Parser!Number(Names(root)[id + 1])
              \in -(IntMod \div 2) .. IntMod \div 2 - 1
  <1> DEFINE name == Names(root)[id + 1]
             n == IF id \in doc.present THEN ScalarValue(doc, id) ELSE 0
  <1>1. Parser!Number(name)
          = IF Parser!Has(name) THEN Fixnum(ScalarValue(doc, Parser!Id(name))) ELSE 0
    BY SameSchema DEF Parser!Number
  <1>2. (Parser!Has(name) <=> id \in doc.present) /\ Parser!Id(name) = id
    BY Named
  <1>3. id \in Nat
    <2>1. root \in {"script", "input", "header"} BY DEF Roots
    <2> QED BY <2>1, KindFacts
  <1>4. ScalarValue(doc, id) \in Int
    <2>1. doc.scale \in Nat BY DEF Fits
    <2> QED BY <1>3, <2>1 DEF ScalarValue
  <1>5. n \in Int BY <1>4
  <1> HIDE DEF name
  <1>6. Parser!Number(name) = Fixnum(n) BY <1>1, <1>2, <1>5, FixnumRange
  <1>7. Fixnum(n) \in -(IntMod \div 2) .. IntMod \div 2 - 1
    <2> HIDE DEF n
    <2> QED BY <1>5, FixnumRange
  <1> QED BY <1>6, <1>7 DEF name

\* One more field adds its keys.
LEMMA KeysStep ==
  /\ KeysRead(1) = {}
  /\ \A k \in Nat \ {0} :
       KeysRead(k + 1) = KeysRead(k) \cup FieldKeys(Program(root)[k])
  <1>1. KeysRead(1) = {}
    <2>1. 1 .. 1 - 1 = {} OBVIOUS
    <2> QED BY <2>1 DEF KeysRead
  <1>2. ASSUME NEW k \in Nat \ {0}
        PROVE  KeysRead(k + 1) = KeysRead(k) \cup FieldKeys(Program(root)[k])
    <2> DEFINE Keys(h) == FieldKeys(Program(root)[h])
    <2>1. 1 .. (k + 1) - 1 = (1 .. k - 1) \cup {k} OBVIOUS
    <2>2. /\ KeysRead(k + 1) = UNION {Keys(h) : h \in 1 .. (k + 1) - 1}
          /\ KeysRead(k) = UNION {Keys(h) : h \in 1 .. k - 1}
      BY DEF KeysRead
    <2> HIDE DEF Keys
    <2>3. UNION {Keys(h) : h \in (1 .. k - 1) \cup {k}}
            = (UNION {Keys(h) : h \in 1 .. k - 1}) \cup Keys(k)
      OBVIOUS
    <2>4. KeysRead(k + 1) = KeysRead(k) \cup Keys(k) BY <2>1, <2>2, <2>3
    <2> QED BY <2>4 DEF Keys
  <1> QED BY <1>1, <1>2

\* What the names of a script and an input stand for.
LEMMA ScriptNamed ==
  ASSUME root = "script", Fits(root, doc)
  PROVE  /\ Parser!Has("args") <=> 0 \in doc.present
         /\ Parser!Has("code_hash") <=> 1 \in doc.present
  <1>1. root \in Roots /\ 0 \in Ids(root) /\ 1 \in Ids(root)
    BY KindFacts DEF Roots
  <1>2. Names(root)[0 + 1] = "args" /\ Names(root)[1 + 1] = "code_hash"
    BY DEF Names, ScriptNames
  <1>3. Parser!Has(Names(root)[0 + 1]) <=> 0 \in doc.present BY <1>1, Named
  <1>4. Parser!Has(Names(root)[1 + 1]) <=> 1 \in doc.present BY <1>1, Named
  <1> QED BY <1>2, <1>3, <1>4

LEMMA InputNamed ==
  ASSUME root = "input", Fits(root, doc)
  PROVE  /\ Parser!Has("args") <=> 4 \in doc.present
         /\ Parser!Has("block_hash") <=> 0 \in doc.present
         /\ Parser!Has("tx_hash") <=> 1 \in doc.present
  <1>1. root \in Roots /\ 0 \in Ids(root) /\ 1 \in Ids(root) /\ 4 \in Ids(root)
    BY KindFacts DEF Roots
  <1>2. /\ Names(root)[4 + 1] = "args" /\ Names(root)[0 + 1] = "block_hash"
        /\ Names(root)[1 + 1] = "tx_hash"
    BY DEF Names, InputNames
  <1>3. Parser!Has(Names(root)[4 + 1]) <=> 4 \in doc.present BY <1>1, Named
  <1>4. Parser!Has(Names(root)[0 + 1]) <=> 0 \in doc.present BY <1>1, Named
  <1>5. Parser!Has(Names(root)[1 + 1]) <=> 1 \in doc.present BY <1>1, Named
  <1> QED BY <1>2, <1>3, <1>4, <1>5

LEMMA ArgsWhole ==
  ASSUME root \in {"script", "input"}, Fits(root, doc)
  PROVE  Parser!ArgsOf = [j \in 1 .. ArgsLen(root, doc) |-> Contents(j)]
  <1>1. Parser!Has("args") <=> ArgsId(root) \in doc.present
    BY ScriptNamed, InputNamed DEF ArgsId
  <1>2. Parser!ArgsOf = IF Parser!Has("args")
                          THEN [j \in 1 .. Len(doc.lens) |-> Contents(j)] ELSE <<>>
    BY SameSchema DEF Parser!ArgsOf
  <1>3. CASE ArgsId(root) \in doc.present BY <1>1, <1>2, <1>3 DEF ArgsLen
  <1>4. CASE ArgsId(root) \notin doc.present
    <2>1. [j \in 1 .. 0 |-> Contents(j)] = <<>> OBVIOUS
    <2> QED BY <1>1, <1>2, <1>4, <2>1 DEF ArgsLen
  <1> QED BY <1>3, <1>4

\* When the last field is read, every key of the whole hash is set.
LEMMA AllKeys ==
  ASSUME root \in Roots, Fits(root, doc)
  PROVE  /\ DOMAIN Whole = KeysRead(Len(Program(root)) + 1)
         /\ Whole = [key \in DOMAIN Whole |-> Whole[key]]
  <1>1. root \in {"script", "input", "header"} BY DEF Roots
  <1>2. CASE root = "script"
    <2>1. KeysRead(3) = FieldKeys(Program(root)[1]) \cup FieldKeys(Program(root)[2])
      <3>1. KeysRead(1 + 1) = KeysRead(1) \cup FieldKeys(Program(root)[1])
        BY KeysStep
      <3>2. KeysRead(2 + 1) = KeysRead(2) \cup FieldKeys(Program(root)[2])
        BY KeysStep
      <3> QED BY <3>1, <3>2, KeysStep
    <2>2. FieldKeys(Program(root)[1]) = {"args"}
      BY <1>2 DEF Program, ParseScript, Field, FieldKeys
    <2>3. FieldKeys(Program(root)[2])
            = IF 1 \in doc.present THEN {"code_hash"} ELSE {}
      BY <1>2 DEF Program, ParseScript, Field, FieldKeys
    <2>4. Whole = Parser!ScriptHash BY <1>2 DEF Whole, Parser!DocumentHash
    <2>5. DOMAIN Parser!ScriptHash
            = {"args"} \cup (IF 1 \in doc.present THEN {"code_hash"} ELSE {})
      BY <1>2, ScriptNamed DEF Parser!ScriptHash
    <2>6. Len(Program(root)) + 1 = 3
      <3>1. Len(Program(root)) = 2 BY <1>2, ProgramLength DEF ReadLen
      <3> QED BY <3>1
    <2>7. Parser!ScriptHash
            = [key \in DOMAIN Parser!ScriptHash |-> Parser!ScriptHash[key]]
      BY DEF Parser!ScriptHash
    <2> QED BY <2>1, <2>2, <2>3, <2>4, <2>5, <2>6, <2>7
  <1>3. CASE root = "input"
    <2> DEFINE Keys(h) == FieldKeys(Program(root)[h])
    <2>1. KeysRead(5) = Keys(1) \cup Keys(2) \cup Keys(3) \cup Keys(4)
      <3>1. KeysRead(1 + 1) = KeysRead(1) \cup Keys(1) BY KeysStep
      <3>2. KeysRead(2 + 1) = KeysRead(2) \cup Keys(2) BY KeysStep
      <3>3. KeysRead(3 + 1) = KeysRead(3) \cup Keys(3) BY KeysStep
      <3>4. KeysRead(4 + 1) = KeysRead(4) \cup Keys(4) BY KeysStep
      <3> HIDE DEF Keys
      <3> QED BY <3>1, <3>2, <3>3, <3>4, KeysStep
    <2>2. Keys(1) = {"args"} /\ Keys(4) = {"since"}
      BY <1>3 DEF Program, ParseInput, Field, FieldKeys
    <2>3. Keys(2) = IF 1 \in doc.present THEN {"cell", "index"} ELSE {}
      BY <1>3 DEF Program, ParseInput, Field, FieldKeys
    <2>4. Keys(3) = IF 0 \in doc.present THEN {"block_hash"} ELSE {}
      BY <1>3 DEF Program, ParseInput, Field, FieldKeys
    <2>5. Whole = Parser!InputHash BY <1>3 DEF Whole, Parser!DocumentHash
    <2>6. DOMAIN Parser!InputHash
            = {"args", "since"}
              \cup (IF 0 \in doc.present THEN {"block_hash"} ELSE {})
              \cup (IF 1 \in doc.present THEN {"cell", "index"} ELSE {})
      BY <1>3, InputNamed DEF Parser!InputHash
    <2>7. Len(Program(root)) + 1 = 5
      <3>1. Len(Program(root)) = 4 BY <1>3, ProgramLength DEF ReadLen
      <3> QED BY <3>1
    <2>8. Parser!InputHash
            = [key \in DOMAIN Parser!InputHash |-> Parser!InputHash[key]]
      BY DEF Parser!InputHash
    <2> HIDE DEF Keys
    <2> QED BY <2>1, <2>2, <2>3, <2>4, <2>5, <2>6, <2>7, <2>8
  <1>4. CASE root = "header"
    <2>1. Len(Program(root)) = 13 /\ Len(HeaderNames) = 13
      BY <1>4, ProgramLength DEF ReadLen, Roots, HeaderNames
    <2>2. ASSUME NEW h \in 1 .. 13
          PROVE  FieldKeys(Program(root)[h])
                   = IF HeaderKinds[h] = "scalar" \/ h - 1 \in doc.present
                       THEN {HeaderNames[h]} ELSE {}
      <3> DEFINE f == Program(root)[h]
      <3>1. f = Field(HeaderKinds[h], HeaderNames[h], h - 1)
        BY <1>4, <2>1 DEF Program, ParseHeader, HeaderKinds
      <3>2. f.kind = HeaderKinds[h] /\ f.name = HeaderNames[h] /\ f.id = h - 1
        BY <3>1 DEF Field
      <3>3. f.kind \notin {"vector", "cell"} BY <1>1, <1>4, <2>1, FieldFacts DEF Roots
      <3> HIDE DEF f
      <3>4. FieldKeys(f) = IF HeaderKinds[h] = "scalar" \/ h - 1 \in doc.present
                             THEN {HeaderNames[h]} ELSE {}
        BY <3>2, <3>3 DEF FieldKeys
      <3> QED BY <3>4 DEF f
    <2> DEFINE Keys(h) == FieldKeys(Program(root)[h])
    <2>3. KeysRead(14) = UNION {Keys(h) : h \in 1 .. 13}
      <3>1. 1 .. 14 - 1 = 1 .. 13 OBVIOUS
      <3> QED BY <3>1 DEF KeysRead
    <2>4. Whole = Parser!HeaderHash BY <1>4 DEF Whole, Parser!DocumentHash
    <2>5. DOMAIN Parser!HeaderHash
            = {HeaderNames[k] : k \in {k \in 1 .. 13 :
                                  HeaderKinds[k] = "scalar" \/ k - 1 \in doc.present}}
      BY <2>1, SameSchema DEF Parser!HeaderHash
    <2>6. \A h \in 1 .. 13 :
            Keys(h) = IF HeaderKinds[h] = "scalar" \/ h - 1 \in doc.present
                        THEN {HeaderNames[h]} ELSE {}
      BY <2>2
    <2> HIDE DEF Keys
    <2>7. UNION {Keys(h) : h \in 1 .. 13} = DOMAIN Parser!HeaderHash
      BY <2>5, <2>6
    <2>8. Parser!HeaderHash
            = [key \in DOMAIN Parser!HeaderHash |-> Parser!HeaderHash[key]]
      BY DEF Parser!HeaderHash
    <2> QED BY <2>1, <2>3, <2>4, <2>7, <2>8
  <1> QED BY <1>1, <1>2, <1>3, <1>4

\* What the whole hash has for a field of the reading order.
LEMMA WholeScalar ==
  ASSUME root \in Roots, Fits(root, doc), NEW k \in 1 .. Len(Program(root)),
         NEW f, f = Program(root)[k], f.kind = "scalar"
  PROVE  Whole[f.name]
           = Fixnum(IF f.id \in doc.present THEN ScalarValue(doc, f.id) ELSE 0)
  <1> DEFINE id == f.id
             number == Fixnum(IF id \in doc.present THEN ScalarValue(doc, id) ELSE 0)
  <1>1. /\ id \in Ids(root) /\ Names(root)[id + 1] = f.name
        /\ Kinds(root)[id + 1] = "scalar"
    BY FieldFacts
  <1>2. Parser!Number(f.name) = number BY <1>1, NumberOf
  <1>3. Parser!Id(f.name) = id BY <1>1, Named
  <1>4. KeysRead(Len(Program(root)) + 1) = DOMAIN Whole BY AllKeys
  <1>5. f.name \in DOMAIN Whole
    <2>1. f.name \in FieldKeys(Program(root)[k]) BY DEF FieldKeys
    <2>2. k \in 1 .. (Len(Program(root)) + 1) - 1
      BY ProgramLength DEF ReadLen
    <2> QED BY <1>4, <2>1, <2>2 DEF KeysRead
  <1> HIDE DEF number, id
  <1>6. CASE root = "script"
    <2>1. id \in {0, 1} BY <1>1, <1>6, KindFacts
    <2> QED BY <1>1, <1>6, <2>1 DEF Kinds, ScriptKinds
  <1>7. CASE root = "input"
    <2>1. f.name \in {"index", "since"}
      <3>1. id \in {0, 1, 2, 3, 4} BY <1>1, <1>7, KindFacts
      <3> QED BY <1>1, <1>7, <3>1 DEF Kinds, InputKinds, Names, InputNames
    <2>2. Whole = Parser!InputHash BY <1>7 DEF Whole, Parser!DocumentHash
    <2>3. Parser!InputHash[f.name] = Parser!Number(f.name)
      BY <1>5, <2>1, <2>2 DEF Parser!InputHash
    <2> QED BY <1>2, <2>2, <2>3 DEF number, id
  <1>8. CASE root = "header"
    <2>1. Whole = Parser!HeaderHash BY <1>8 DEF Whole, Parser!DocumentHash
    <2>2. HeaderKinds[Parser!Id(f.name) + 1] = "scalar"
      BY <1>1, <1>3, <1>8 DEF Kinds
    <2>3. Parser!HeaderHash[f.name] = Parser!Number(f.name)
      BY <1>5, <2>1, <2>2, SameSchema DEF Parser!HeaderHash
    <2> QED BY <1>2, <2>1, <2>3 DEF number, id
  <1> QED BY <1>6, <1>7, <1>8 DEF Roots

LEMMA WholeHash ==
  ASSUME root \in Roots, Fits(root, doc), NEW k \in 1 .. Len(Program(root)),
         NEW f, f = Program(root)[k], f.kind = "hash", f.id \in doc.present
  PROVE  Whole[f.name] = HashValue(f.id)
  <1> DEFINE id == f.id
  <1>1. /\ id \in Ids(root) /\ Names(root)[id + 1] = f.name
        /\ Kinds(root)[id + 1] = "hash" /\ f.id = id
    BY FieldFacts
  <1>2. Parser!Id(f.name) = id BY <1>1, Named
  <1>3. KeysRead(Len(Program(root)) + 1) = DOMAIN Whole BY AllKeys
  <1>4. f.name \in DOMAIN Whole
    <2>1. f.name \in FieldKeys(Program(root)[k]) BY DEF FieldKeys
    <2>2. k \in 1 .. (Len(Program(root)) + 1) - 1
      BY ProgramLength DEF ReadLen
    <2> QED BY <1>3, <2>1, <2>2 DEF KeysRead
  <1> HIDE DEF id
  <1>5. CASE root = "script"
    <2>1. id = 1 /\ f.name = "code_hash"
      <3>1. id \in {0, 1} BY <1>1, <1>5, KindFacts
      <3> QED BY <1>1, <1>5, <3>1 DEF Kinds, ScriptKinds, Names, ScriptNames
    <2>2. Whole = Parser!ScriptHash BY <1>5 DEF Whole, Parser!DocumentHash
    <2>3. Parser!ScriptHash["code_hash"] = HashValue(1)
      BY <1>4, <2>1, <2>2, SameSchema DEF Parser!ScriptHash
    <2> QED BY <1>1, <2>1, <2>2, <2>3
  <1>6. CASE root = "input"
    <2>1. Program(root) = ParseInput BY <1>6 DEF Program
    <2>2. k \in {1, 2, 3, 4} BY <2>1 DEF ParseInput
    <2>3. k = 3 BY <2>1, <2>2 DEF ParseInput, Field
    <2>4. f.name = "block_hash" /\ f.id = 0
      BY <2>1, <2>3 DEF ParseInput, Field
    <2>5. Whole = Parser!InputHash BY <1>6 DEF Whole, Parser!DocumentHash
    <2>6. Parser!InputHash["block_hash"] = HashValue(0)
      BY <1>4, <2>4, <2>5, SameSchema DEF Parser!InputHash
    <2> QED BY <2>4, <2>5, <2>6
  <1>7. CASE root = "header"
    <2>1. Whole = Parser!HeaderHash BY <1>7 DEF Whole, Parser!DocumentHash
    <2>2. HeaderKinds[Parser!Id(f.name) + 1] = "hash"
      BY <1>1, <1>2, <1>7 DEF Kinds
    <2>3. Parser!HeaderHash[f.name] = HashValue(Parser!Id(f.name))
      BY <1>4, <2>1, <2>2, SameSchema DEF Parser!HeaderHash
    <2> QED BY <1>1, <1>2, <2>1, <2>3
  <1> QED BY <1>5, <1>6, <1>7 DEF Roots

\* `cell' and `index' come together.
LEMMA WholeCell ==
  ASSUME root = "input", Fits(root, doc), 1 \in doc.present
  PROVE  /\ Whole["cell"] = HashValue(1)
         /\ Whole["index"]
              = Fixnum(IF 2 \in doc.present THEN ScalarValue(doc, 2) ELSE 0)
  <1>1. Parser!Has("tx_hash") BY InputNamed
  <1>2. Whole = Parser!InputHash BY DEF Whole, Parser!DocumentHash
  <1>3. {"cell", "index"} \subseteq DOMAIN Parser!InputHash
    BY <1>1 DEF Parser!InputHash
  <1>4. /\ Parser!InputHash["cell"] = HashValue(1)
        /\ Parser!InputHash["index"] = Parser!Number("index")
    BY <1>3, SameSchema DEF Parser!InputHash
  <1>5. root \in Roots /\ 2 \in Ids(root) BY KindFacts DEF Roots
  <1>6. Names(root)[2 + 1] = "index" BY DEF Names, InputNames
  <1>7. Parser!Number(Names(root)[2 + 1])
          = Fixnum(IF 2 \in doc.present THEN ScalarValue(doc, 2) ELSE 0)
    BY <1>5, NumberOf
  <1> QED BY <1>2, <1>4, <1>6, <1>7

LEMMA WholeArgs ==
  ASSUME root \in Roots, root # "header", Fits(root, doc)
  PROVE  Whole["args"] = [j \in 1 .. ArgsLen(root, doc) |-> Contents(j)]
  <1>1. root \in {"script", "input"} BY DEF Roots
  <1>2. Whole["args"] = Parser!ArgsOf
    BY <1>1 DEF Whole, Parser!DocumentHash, Parser!ScriptHash,
                  Parser!InputHash
  <1> QED BY <1>1, <1>2, ArgsWhole

LEMMA WholeBytes ==
  ASSUME root = "header", Fits(root, doc), NEW j \in 1 .. 2,
         BytesId(j) \in doc.present
  PROVE  Whole[HeaderNames[BytesId(j) + 1]] = Contents(j)
  <1> DEFINE id == BytesId(j)
             name == HeaderNames[id + 1]
  <1>1. id \in {7, 9} /\ id \in doc.present BY DEF BytesId
  <1>2. /\ root \in Roots /\ id \in Ids(root) /\ Kinds(root)[id + 1] = "bytes"
        /\ Names(root)[id + 1] = name
    <2> HIDE DEF id
    <2>1. Names(root) = HeaderNames BY DEF Names
    <2> QED BY <1>1, <2>1, KindFacts, HeaderBytes DEF Roots
  <1>3. Parser!Id(name) = id
    <2> HIDE DEF id
    <2> QED BY <1>2, Named
  <1>4. name \in DOMAIN Parser!HeaderHash
    <2>1. id + 1 \in 1 .. 13 /\ (id + 1) - 1 = id BY <1>1
    <2>2. Len(HeaderNames) = 13 BY DEF HeaderNames
    <2> HIDE DEF id
    <2> QED BY <1>1, <2>1, <2>2, SameSchema DEF Parser!HeaderHash
  <1>5. name = (IF j = 1 THEN "difficulty" ELSE "proof")
    BY DEF BytesId, HeaderNames
  <1>6. Parser!BytesOf(name) = Contents(j)
    <2> HIDE DEF name
    <2>1. j = 1 \/ j = 2 OBVIOUS
    <2> QED BY <1>5, <2>1, SameSchema DEF Parser!BytesOf
  <1>7. HeaderKinds[Parser!Id(name) + 1] = "bytes" BY <1>2, <1>3 DEF Kinds
  <1> HIDE DEF name
  <1>8. Parser!HeaderHash[name] = Parser!BytesOf(name)
    BY <1>4, <1>7, SameSchema DEF Parser!HeaderHash
  <1>9. Whole = Parser!HeaderHash BY DEF Whole, Parser!DocumentHash
  <1> QED BY <1>6, <1>8, <1>9 DEF name

-----------------------------------------------------------------------------
(* The Bytes that a root refers to.                                        *)

LEMMA LongArgs ==
  ASSUME root \in Roots, root # "header", Fits(root, doc)
  PROVE  Parser!AllHashLong
           <=> \A j \in 1 .. ArgsLen(root, doc) : doc.lens[j] = HashLen
  <1>1. root \in {"script", "input"} BY DEF Roots
  <1>2. Parser!ArgsOf = [j \in 1 .. ArgsLen(root, doc) |-> Contents(j)]
    BY <1>1, ArgsWhole
  <1>3. Parser!BytesUsed = 1 .. ArgsLen(root, doc) BY <1>2 DEF Parser!BytesUsed
  <1> QED BY <1>3 DEF Parser!AllHashLong

LEMMA LongBytes ==
  ASSUME root = "header", Fits(root, doc)
  PROVE  Parser!AllHashLong
           <=> \A j \in 1 .. 2 : BytesId(j) \in doc.present
                                   => doc.lens[j] = HashLen
  <1>1. root \in Roots /\ 7 \in Ids(root) /\ 9 \in Ids(root)
    BY KindFacts DEF Roots
  <1>2. Names(root)[7 + 1] = "difficulty" /\ Names(root)[9 + 1] = "proof"
    BY DEF Names, HeaderNames
  <1>3. Parser!Has("difficulty") <=> 7 \in doc.present
    <2>1. Parser!Has(Names(root)[7 + 1]) <=> 7 \in doc.present BY <1>1, Named
    <2> QED BY <1>2, <2>1
  <1>4. Parser!Has("proof") <=> 9 \in doc.present
    <2>1. Parser!Has(Names(root)[9 + 1]) <=> 9 \in doc.present BY <1>1, Named
    <2> QED BY <1>2, <2>1
  <1>5. BytesId(1) = 7 /\ BytesId(2) = 9 BY DEF BytesId
  <1>6. \A j \in 1 .. 2 : j = 1 \/ j = 2 OBVIOUS
  <1>7. \A j \in 1 .. 2 : j \in Parser!BytesUsed <=> BytesId(j) \in doc.present
    <2>1. Parser!BytesUsed = {j \in 1 .. 2 : Parser!Has(<<"difficulty", "proof">>[j])}
      BY DEF Parser!BytesUsed
    <2>2. 1 \in Parser!BytesUsed <=> 7 \in doc.present BY <1>3, <2>1
    <2>3. 2 \in Parser!BytesUsed <=> 9 \in doc.present BY <1>4, <2>1
    <2> QED BY <1>5, <1>6, <2>2, <2>3
  <1>8. Parser!BytesUsed \subseteq 1 .. 2 BY DEF Parser!BytesUsed
  <1> QED BY <1>7, <1>8 DEF Parser!AllHashLong

LEMMA Answers ==
  /\ Parser!AllHashLong => Parser!Expected = Answer("hash", Whole)
  /\ ~ Parser!AllHashLong => Parser!Expected = ArgumentError
  BY DEF Parser!Expected, Parser!Answer, Answer, Parser!ArgumentError,
         ArgumentError, Whole

-----------------------------------------------------------------------------
(* The steps.                                                              *)

\* A parser that reads on keeps what it reads.
LEMMA Kept ==
  ASSUME root' = root, doc' = doc
  PROVE  /\ Whole' = Whole /\ Parser!Expected' = Parser!Expected
         /\ \A k : KeysRead(k)' = KeysRead(k)
  <1>1. \A name : Parser!Has(name)' <=> Parser!Has(name) BY DEF Parser!Has
  <1>2. \A name : Parser!Id(name)' = Parser!Id(name) BY DEF Parser!Id
  <1>3. \A name : Parser!Number(name)' = Parser!Number(name)
    BY <1>1, <1>2 DEF Parser!Number
  <1>4. Parser!ArgsOf' = Parser!ArgsOf BY <1>1 DEF Parser!ArgsOf
  <1>5. Parser!ScriptHash' = Parser!ScriptHash
    BY <1>1, <1>4 DEF Parser!ScriptHash
  <1>6. Parser!InputHash' = Parser!InputHash
    BY <1>1, <1>3, <1>4 DEF Parser!InputHash
  <1>7. Parser!HeaderHash' = Parser!HeaderHash
    BY <1>2, <1>3 DEF Parser!HeaderHash
  <1>8. Parser!DocumentHash' = Parser!DocumentHash
    BY <1>5, <1>6, <1>7 DEF Parser!DocumentHash
  <1>9. Parser!AllHashLong' <=> Parser!AllHashLong
    <2>1. Parser!BytesUsed' = Parser!BytesUsed BY <1>1, <1>4 DEF Parser!BytesUsed
    <2> QED BY <2>1 DEF Parser!AllHashLong
  <1>10. Parser!Expected' = Parser!Expected BY <1>8, <1>9 DEF Parser!Expected
  <1>11. \A k : KeysRead(k)' = KeysRead(k) BY DEF KeysRead, FieldKeys
  <1> QED BY <1>8, <1>10, <1>11 DEF Whole

\* Past a field whose keys are set as they are in the whole hash.
LEMMA Advance ==
  ASSUME IInv, pc = "parse", step <= Len(Program(root)),
         UNCHANGED <<pc, root, doc, s, i, margs, ret>>, step' = step + 1,
         v' = [key \in KeysRead(step + 1) |-> Whole[key]],
         root # "header" /\ step = 1 => i = ArgsLen(root, doc),
         root = "header" =>
           \A j \in 1 .. 2 : step = BytesId(j) + 1 /\ BytesId(j) \in doc.present
                               => doc.lens[j] = HashLen
  PROVE  IInv'
  <1>1. /\ Whole' = Whole /\ Parser!Expected' = Parser!Expected
        /\ \A k : KeysRead(k)' = KeysRead(k)
    BY Kept
  <1>2. root \in Roots /\ Fits(root, doc) /\ Readable(s, root, doc)
    BY DEF IInv, Given
  <1>3. step \in Nat \ {0} /\ Len(Program(root)) \in Nat
    BY <1>2, ProgramLength DEF IInv, Filled, ReadLen
  <1>4. Started' BY DEF Started
  <1>5. Given' BY <1>2 DEF Given
  <1>6. Filled'
    <2>1. step + 1 \in 1 .. Len(Program(root)) + 1 BY <1>3
    <2>2. v' = [key \in KeysRead(step)' |-> Whole'[key]] BY <1>1
    <2> QED BY <2>1, <2>2 DEF Filled
  <1>7. Looped'
    <2>1. root = "header" =>
            \A j \in 1 .. 2 : step + 1 > BytesId(j) + 1 /\ BytesId(j) \in doc.present
                                => doc.lens[j] = HashLen
      <3>1. \A j \in 1 .. 2 : step + 1 > BytesId(j) + 1
              => step > BytesId(j) + 1 \/ step = BytesId(j) + 1
        BY <1>3 DEF BytesId
      <3> QED BY <3>1 DEF IInv, Looped
    <2>2. root # "header" => i = ArgsLen(root, doc)
      BY <1>3 DEF IInv, Looped
    <2> QED BY <2>1, <2>2 DEF IInv, Looped
  <1>8. Answered' BY <1>1 DEF IInv, Answered
  <1> QED BY <1>2, <1>4, <1>5, <1>6, <1>7, <1>8 DEF IInv

\* The new keys beside the ones that were set.
LEMMA SetKeys ==
  ASSUME IInv, pc = "parse", step <= Len(Program(root)),
         NEW new, new = [key \in FieldKeys(Current) |-> Whole[key]]
  PROVE  Over(new, v) = [key \in KeysRead(step + 1) |-> Whole[key]]
  <1>1. root \in Roots BY DEF IInv
  <1>2. step \in Nat \ {0} /\ v = [key \in KeysRead(step) |-> Whole[key]]
    BY <1>1, ProgramLength DEF IInv, Filled, ReadLen
  <1>3. KeysRead(step + 1) = KeysRead(step) \cup FieldKeys(Current)
    BY <1>2, KeysStep DEF Current
  <1> QED BY <1>2, <1>3 DEF Over

LEMMA SkipKeys ==
  ASSUME IInv, pc = "parse", step <= Len(Program(root)),
         FieldKeys(Current) = {}
  PROVE  v = [key \in KeysRead(step + 1) |-> Whole[key]]
  <1>1. root \in Roots BY DEF IInv
  <1>2. step \in Nat \ {0} /\ v = [key \in KeysRead(step) |-> Whole[key]]
    BY <1>1, ProgramLength DEF IInv, Filled, ReadLen
  <1>3. KeysRead(step + 1) = KeysRead(step) \cup FieldKeys(Current)
    BY <1>2, KeysStep DEF Current
  <1> QED BY <1>2, <1>3

\* A field that is neither the vector nor Bytes has nothing to be as long as
\* a hash.
LEMMA Elsewhere ==
  ASSUME IInv, pc = "parse", step <= Len(Program(root)),
         Current.kind \notin {"vector", "bytes"}
  PROVE  /\ root # "header" => step # 1
         /\ root = "header" => \A j \in 1 .. 2 : step # BytesId(j) + 1
  <1>1. root \in Roots /\ step \in 1 .. Len(Program(root))
    BY ProgramLength DEF IInv, Filled, ReadLen
  <1>2. root # "header" => step # 1 BY <1>1, FieldFacts DEF Current
  <1>3. ASSUME root = "header", NEW j \in 1 .. 2, step = BytesId(j) + 1
        PROVE  FALSE
    <2>1. Current.id = step - 1 /\ Kinds(root)[Current.id + 1] = Current.kind
      BY <1>1, <1>3, FieldFacts DEF Current
    <2>2. step = 8 \/ step = 10 BY <1>3 DEF BytesId
    <2>3. Kinds(root)[step] = "bytes" BY <1>3, <2>2, HeaderBytes
    <2>4. (step - 1) + 1 = step BY <2>2
    <2> QED BY <2>1, <2>3, <2>4
  <1> QED BY <1>2, <1>3

LEMMA CallStep ==
  ASSUME IInv, Call
  PROVE  IInv'
  <1>1. root' \in Roots /\ doc' \in Documents[root'] BY DEF Call
  <1>2. Fits(root', doc') BY <1>1, DocumentsFit
  <1>3. PICK layout \in Layouts : s' = Written(Kinds(root'), doc', layout)
    BY DEF Call
  <1>4. Readable(s', root', doc') BY <1>1, <1>2, <1>3, WrittenReadable
  <1>5. /\ step = 1 /\ i = 0 /\ margs = <<>> /\ v = <<>> /\ ret = NoAnswer
        /\ UNCHANGED <<step, i, margs, v, ret>> /\ pc' = "parse"
    BY DEF IInv, Started, Call
  <1>6. Started' BY <1>5 DEF Started
  <1>7. Given' BY <1>2, <1>4 DEF Given
  <1>8. Filled'
    <2>1. Len(Program(root')) \in Nat BY <1>1, ProgramLength DEF ReadLen
    <2>2. KeysRead(1)' = {} BY DEF KeysRead
    <2>3. v' = [key \in KeysRead(1)' |-> Whole'[key]] BY <1>5, <2>2
    <2> QED BY <1>5, <2>1, <2>3 DEF Filled
  <1>9. Looped'
    <2>1. ArgsLen(root', doc') \in Nat BY <1>2 DEF Fits, ArgsLen
    <2>2. margs' = [j \in 1 .. 0 |-> Contents(j)] BY <1>5
    <2>3. \A j \in 1 .. 2 : ~ (1 > BytesId(j) + 1) BY DEF BytesId
    <2> QED BY <1>5, <2>1, <2>2, <2>3 DEF Looped
  <1>10. Answered' BY <1>5 DEF Answered
  <1> QED BY <1>1, <1>5, <1>6, <1>7, <1>8, <1>9, <1>10 DEF IInv

LEMMA ScalarStep ==
  ASSUME IInv, Scalar
  PROVE  IInv'
  <1> DEFINE f == Current
             new == Only(f.name, Fixnum(ScalarField(s, Table, f.id)))
  <1>1. /\ pc = "parse" /\ step <= Len(Program(root)) /\ f.kind = "scalar"
        /\ Set(new)
    BY DEF Scalar, Reading
  <1>2. /\ root \in Roots /\ Fits(root, doc) /\ Readable(s, root, doc)
        /\ step \in 1 .. Len(Program(root)) /\ f = Program(root)[step]
    BY <1>1, ProgramLength DEF IInv, Given, Filled, ReadLen, Current
  <1> HIDE DEF f
  <1>3. f.id \in Ids(root) /\ Kinds(root)[f.id + 1] = "scalar"
    BY <1>1, <1>2, FieldFacts
  <1>4. ScalarField(s, Table, f.id)
          = IF f.id \in doc.present THEN ScalarValue(doc, f.id) ELSE 0
    BY <1>2, <1>3 DEF Readable, ScalarsReadable, Table
  <1>5. Whole[f.name] = Fixnum(ScalarField(s, Table, f.id))
    BY <1>1, <1>2, <1>4, WholeScalar
  <1>6. new = [key \in FieldKeys(f) |-> Whole[key]]
    BY <1>1, <1>5 DEF FieldKeys, Only
  <1>7. v' = [key \in KeysRead(step + 1) |-> Whole[key]]
    BY <1>1, <1>6, SetKeys DEF Set, f
  <1>8. f.kind \notin {"vector", "bytes"} BY <1>1
  <1> QED BY <1>1, <1>7, <1>8, Elsewhere, Advance DEF Set, f

LEMMA HashStep ==
  ASSUME IInv, HashField
  PROVE  IInv'
  <1> DEFINE f == Current
             p == StructField(s, Table, f.id)
             new == Only(f.name, Hash(p))
  <1>1. /\ pc = "parse" /\ step <= Len(Program(root)) /\ f.kind = "hash"
        /\ (p = 0 /\ Skip) \/ (p # 0 /\ Set(new))
    BY DEF HashField, Reading
  <1>2. /\ root \in Roots /\ Fits(root, doc) /\ Readable(s, root, doc)
        /\ step \in 1 .. Len(Program(root)) /\ f = Program(root)[step]
    BY <1>1, ProgramLength DEF IInv, Given, Filled, ReadLen, Current
  <1> HIDE DEF f
  <1>3. f.id \in Ids(root) /\ Kinds(root)[f.id + 1] = "hash"
    BY <1>1, <1>2, FieldFacts
  <1>4. /\ f.id \notin doc.present => p = 0
        /\ f.id \in doc.present => p # 0 /\ Cell(s, p) = HashValue(f.id)
    BY <1>2, <1>3 DEF Readable, HashesReadable, Table
  <1> HIDE DEF p
  <1>5. CASE f.id \in doc.present
    <2>1. Whole[f.name] = Hash(p) BY <1>1, <1>2, <1>4, <1>5, WholeHash DEF Hash
    <2>2. new = [key \in FieldKeys(f) |-> Whole[key]]
      BY <1>1, <1>5, <2>1 DEF FieldKeys, Only
    <2>3. v' = [key \in KeysRead(step + 1) |-> Whole[key]]
      BY <1>1, <1>4, <1>5, <2>2, SetKeys DEF Set, f
    <2>4. f.kind \notin {"vector", "bytes"} BY <1>1
    <2> QED BY <1>1, <1>4, <1>5, <2>3, <2>4, Elsewhere, Advance DEF Set, f
  <1>6. CASE f.id \notin doc.present
    <2>1. FieldKeys(f) = {} BY <1>1, <1>6 DEF FieldKeys
    <2>2. v' = [key \in KeysRead(step + 1) |-> Whole[key]]
      BY <1>1, <1>4, <1>6, <2>1, SkipKeys DEF Skip, f
    <2>3. f.kind \notin {"vector", "bytes"} BY <1>1
    <2> QED BY <1>1, <1>4, <1>6, <2>2, <2>3, Elsewhere, Advance DEF Skip, f
  <1> QED BY <1>5, <1>6

LEMMA CellStep ==
  ASSUME IInv, CellField
  PROVE  IInv'
  <1> DEFINE f == Current
             p == StructField(s, Table, f.id)
             new == Over(Only("cell", Hash(p)),
                         Only("index", Fixnum(ScalarField(s, Table, 2))))
  <1>1. /\ pc = "parse" /\ step <= Len(Program(root)) /\ f.kind = "cell"
        /\ (p = 0 /\ Skip) \/ (p # 0 /\ Set(new))
    BY DEF CellField, Reading
  <1>2. /\ root \in Roots /\ Fits(root, doc) /\ Readable(s, root, doc)
        /\ step \in 1 .. Len(Program(root)) /\ f = Program(root)[step]
    BY <1>1, ProgramLength DEF IInv, Given, Filled, ReadLen, Current
  <1> HIDE DEF f
  <1>3. root = "input" /\ f.id = 1 BY <1>1, <1>2, FieldFacts
  <1>4. /\ 1 \in Ids(root) /\ Kinds(root)[1 + 1] = "hash"
        /\ 2 \in Ids(root) /\ Kinds(root)[2 + 1] = "scalar"
    BY <1>3, KindFacts DEF Kinds, InputKinds
  <1>5. /\ 1 \notin doc.present => p = 0
        /\ 1 \in doc.present => p # 0 /\ Cell(s, p) = HashValue(1)
    BY <1>2, <1>3, <1>4 DEF Readable, HashesReadable, Table
  <1>6. ScalarField(s, Table, 2)
          = IF 2 \in doc.present THEN ScalarValue(doc, 2) ELSE 0
    BY <1>2, <1>4 DEF Readable, ScalarsReadable, Table
  <1> HIDE DEF p
  <1>7. CASE 1 \in doc.present
    <2>1. /\ Whole["cell"] = Hash(p)
          /\ Whole["index"] = Fixnum(ScalarField(s, Table, 2))
      BY <1>2, <1>3, <1>5, <1>6, <1>7, WholeCell DEF Hash
    <2>2. new = [key \in FieldKeys(f) |-> Whole[key]]
      <3>1. FieldKeys(f) = {"cell", "index"} BY <1>1, <1>3, <1>7 DEF FieldKeys
      <3> QED BY <2>1, <3>1 DEF Over, Only
    <2>3. v' = [key \in KeysRead(step + 1) |-> Whole[key]]
      BY <1>1, <1>5, <1>7, <2>2, SetKeys DEF Set, f
    <2>4. f.kind \notin {"vector", "bytes"} BY <1>1
    <2> QED BY <1>1, <1>5, <1>7, <2>3, <2>4, Elsewhere, Advance DEF Set, f
  <1>8. CASE 1 \notin doc.present
    <2>1. FieldKeys(f) = {} BY <1>1, <1>3, <1>8 DEF FieldKeys
    <2>2. v' = [key \in KeysRead(step + 1) |-> Whole[key]]
      BY <1>1, <1>5, <1>8, <2>1, SkipKeys DEF Skip, f
    <2>3. f.kind \notin {"vector", "bytes"} BY <1>1
    <2> QED BY <1>1, <1>5, <1>8, <2>2, <2>3, Elsewhere, Advance DEF Skip, f
  <1> QED BY <1>7, <1>8

\* The error is answered when some Bytes are not as long as a hash.
LEMMA RaiseStep ==
  ASSUME IInv, pc = "parse", Raise, ~ Parser!AllHashLong
  PROVE  IInv' /\ ret' = Parser!Expected
  <1>1. /\ Whole' = Whole /\ Parser!Expected' = Parser!Expected
        /\ \A k : KeysRead(k)' = KeysRead(k)
    BY Kept DEF Raise
  <1>2. ret' = Parser!Expected BY Answers DEF Raise
  <1>3. pc' = "done" /\ UNCHANGED <<root, doc, s, step, i, margs, v>>
    BY DEF Raise
  <1>4. Started' BY <1>3 DEF Started
  <1>5. Given' BY <1>3 DEF IInv, Given
  <1>6. Filled'
    <2>1. v' = [key \in KeysRead(step)' |-> Whole'[key]]
      BY <1>1, <1>3 DEF IInv, Filled
    <2> QED BY <1>3, <2>1 DEF IInv, Filled
  <1>7. Looped' BY <1>3 DEF IInv, Looped
  <1>8. Answered' BY <1>1, <1>2, <1>3 DEF Answered
  <1> QED BY <1>2, <1>3, <1>4, <1>5, <1>6, <1>7, <1>8 DEF IInv

\* A string, or none when the Bytes are not as long as a hash.
LEMMA Strings ==
  ASSUME NEW d, NEW j \in Nat
  PROVE  /\ StringOf(d, j) = NoString <=> d.lens[j] # HashLen
         /\ StringOf(d, j) # NoString => StringOf(d, j) = Contents(j)
  <1>1. Contents(j) # NoString BY DEF Contents, NoString
  <1> QED BY <1>1 DEF StringOf

LEMMA BytesStep ==
  ASSUME IInv, BytesField
  PROVE  IInv' /\ (ret' # ret => ret = NoAnswer /\ ret' = Parser!Expected)
  <1> DEFINE f == Current
             b == TableField(s, Table, f.id)
             string == BytesToString(b)
  <1>1. /\ pc = "parse" /\ step <= Len(Program(root)) /\ f.kind = "bytes"
        /\ \/ b = 0 /\ Skip
           \/ /\ b # 0
              /\ \/ string = NoString /\ Raise
                 \/ string # NoString /\ Set(Only(f.name, string))
    BY DEF BytesField, Reading
  <1>2. /\ root \in Roots /\ Fits(root, doc) /\ Readable(s, root, doc)
        /\ step \in 1 .. Len(Program(root)) /\ f = Program(root)[step]
        /\ ret = NoAnswer
    BY <1>1, ProgramLength DEF IInv, Given, Filled, Answered, ReadLen, Current
  <1>3. string = BytesIn(s, b) BY DEF BytesToString, BytesIn
  <1> HIDE DEF f, string
  <1>4. /\ root = "header" /\ f.id \in {7, 9} /\ f.id = step - 1
        /\ Names(root)[f.id + 1] = f.name
    BY <1>1, <1>2, FieldFacts
  <1>5. PICK j \in 1 .. 2 : f.id = BytesId(j)
    <2>1. BytesId(1) = 7 /\ BytesId(2) = 9 BY DEF BytesId
    <2> QED BY <1>4, <2>1
  <1>6. f.name = HeaderNames[BytesId(j) + 1] BY <1>4, <1>5 DEF Names
  <1>7. /\ BytesId(j) \notin doc.present => b = 0
        /\ BytesId(j) \in doc.present => b # 0 /\ string = StringOf(doc, j)
    BY <1>2, <1>3, <1>4, <1>5 DEF Readable, BytesReadable, Table
  <1> HIDE DEF b
  <1>8. \A k \in 1 .. 2 : step = BytesId(k) + 1 => k = j
    BY <1>2, <1>4, <1>5, ProgramLength DEF BytesId
  <1>9. CASE BytesId(j) \notin doc.present
    <2>1. FieldKeys(f) = {} BY <1>1, <1>5, <1>9 DEF FieldKeys
    <2>2. Skip BY <1>1, <1>7, <1>9
    <2>3. v' = [key \in KeysRead(step + 1) |-> Whole[key]]
      BY <1>1, <2>1, <2>2, SkipKeys DEF Skip, f
    <2> QED BY <1>1, <1>4, <1>8, <1>9, <2>2, <2>3, Advance DEF Skip
  <1>10. CASE BytesId(j) \in doc.present /\ doc.lens[j] = HashLen
    <2>1. string # NoString /\ string = Contents(j) BY <1>7, <1>10, Strings
    <2>2. Set(Only(f.name, string)) BY <1>1, <1>7, <1>10, <2>1
    <2>3. Whole[f.name] = string BY <1>2, <1>4, <1>6, <1>10, <2>1, WholeBytes
    <2>4. FieldKeys(f) = {f.name} BY <1>1, <1>5, <1>10 DEF FieldKeys
    <2>5. Only(f.name, string) = [key \in FieldKeys(f) |-> Whole[key]]
      BY <2>3, <2>4 DEF Only
    <2>6. v' = [key \in KeysRead(step + 1) |-> Whole[key]]
      BY <1>1, <2>2, <2>5, SetKeys DEF Set, f
    <2> QED BY <1>1, <1>4, <1>8, <1>10, <2>2, <2>6, Advance DEF Set
  <1>11. CASE BytesId(j) \in doc.present /\ doc.lens[j] # HashLen
    <2>1. string = NoString BY <1>7, <1>11, Strings
    <2>2. Raise BY <1>1, <1>7, <1>11, <2>1
    <2>3. ~ Parser!AllHashLong BY <1>2, <1>4, <1>11, LongBytes
    <2> QED BY <1>1, <1>2, <2>2, <2>3, RaiseStep
  <1> QED BY <1>9, <1>10, <1>11

\* What a step of the loop finds.
LEMMA LoopFacts ==
  ASSUME IInv, Reading("vector")
  PROVE  /\ pc = "parse" /\ step = 1 /\ step <= Len(Program(root))
         /\ root \in Roots /\ root # "header"
         /\ Fits(root, doc) /\ ret = NoAnswer
         /\ ArgsLen(root, doc) \in Nat /\ i \in 0 .. ArgsLen(root, doc)
         /\ VecLen(s, Args) = ArgsLen(root, doc)
         /\ i < ArgsLen(root, doc) =>
              BytesToString(OffsetVecAt(s, Args, i)) = StringOf(doc, i + 1)
         /\ FieldKeys(Current) = {"args"}
  <1>1. /\ pc = "parse" /\ step <= Len(Program(root))
        /\ Current.kind = "vector"
    BY DEF Reading
  <1>2. /\ root \in Roots /\ Fits(root, doc) /\ Readable(s, root, doc)
        /\ step \in 1 .. Len(Program(root)) /\ ret = NoAnswer
    BY <1>1, ProgramLength DEF IInv, Given, Filled, Answered, ReadLen
  <1>3. root # "header" /\ step = 1 /\ Current.id = ArgsId(root)
    BY <1>1, <1>2, FieldFacts DEF Current
  <1>4. ArgsLen(root, doc) \in Nat BY <1>2 DEF Fits, ArgsLen
  <1>5. i \in 0 .. ArgsLen(root, doc) BY <1>1, <1>3 DEF IInv, Looped
  <1>6. Args = VectorField(s, AsRoot(s), ArgsId(root))
    BY <1>3 DEF Args, Table
  <1>7. /\ VecLen(s, Args) = ArgsLen(root, doc)
        /\ \A k \in 0 .. ArgsLen(root, doc) - 1 :
             BytesIn(s, OffsetVecAt(s, Args, k)) = StringOf(doc, k + 1)
    BY <1>2, <1>3, <1>6 DEF Readable, ArgsReadable
  <1>8. \A b : BytesToString(b) = BytesIn(s, b) BY DEF BytesToString, BytesIn
  <1>9. i < ArgsLen(root, doc) => i \in 0 .. ArgsLen(root, doc) - 1
    BY <1>4, <1>5
  <1> QED BY <1>1, <1>2, <1>3, <1>4, <1>5, <1>7, <1>8, <1>9 DEF FieldKeys

LEMMA PushStep ==
  ASSUME IInv, PushArg
  PROVE  IInv' /\ (ret' # ret => ret = NoAnswer /\ ret' = Parser!Expected)
  <1> DEFINE string == BytesToString(OffsetVecAt(s, Args, i))
             len == ArgsLen(root, doc)
  <1>1. /\ Reading("vector") /\ i < VecLen(s, Args)
        /\ \/ string = NoString /\ Raise
           \/ /\ string # NoString
              /\ margs' = Append(margs, string)
              /\ i' = i + 1
              /\ UNCHANGED <<pc, root, doc, s, step, v, ret>>
    BY DEF PushArg, MoreArgs
  <1>2. /\ pc = "parse" /\ step = 1 /\ root \in Roots /\ root # "header"
        /\ Fits(root, doc) /\ ret = NoAnswer
        /\ len \in Nat /\ i \in 0 .. len /\ i < len
        /\ string = StringOf(doc, i + 1)
    BY <1>1, LoopFacts
  <1> HIDE DEF string, len
  <1>3. i \in Nat /\ i + 1 \in 1 .. len /\ i + 1 \in Nat BY <1>2
  <1>4. CASE doc.lens[i + 1] # HashLen
    <2>1. Raise BY <1>1, <1>2, <1>3, <1>4, Strings
    <2>2. ~ Parser!AllHashLong BY <1>2, <1>3, <1>4, LongArgs DEF len
    <2> QED BY <1>2, <2>1, <2>2, RaiseStep
  <1>5. CASE doc.lens[i + 1] = HashLen
    <2>1. /\ margs' = Append(margs, Contents(i + 1)) /\ i' = i + 1
          /\ UNCHANGED <<pc, root, doc, s, step, v, ret>>
      BY <1>1, <1>2, <1>3, <1>5, Strings
    <2>2. margs = [j \in 1 .. i |-> Contents(j)] BY <1>2 DEF IInv, Looped
    <2>3. margs' = [j \in 1 .. i + 1 |-> Contents(j)] BY <1>3, <2>1, <2>2
    <2>4. \A j \in 1 .. i + 1 : doc.lens[j] = HashLen
      <3>1. \A j \in 1 .. i : doc.lens[j] = HashLen BY <1>2 DEF IInv, Looped
      <3>2. \A j \in 1 .. i + 1 : j \in 1 .. i \/ j = i + 1 BY <1>3
      <3> QED BY <1>5, <3>1, <3>2
    <2>5. Looped'
      <3>1. i' \in 0 .. len BY <1>2, <1>3, <2>1
      <3>2. step' = 1 /\ ~ (1 > 1) BY <1>2, <2>1
      <3> QED BY <1>2, <2>1, <2>3, <2>4, <3>1, <3>2 DEF Looped, len
    <2>6. /\ Whole' = Whole /\ Parser!Expected' = Parser!Expected
          /\ \A k : KeysRead(k)' = KeysRead(k)
      BY <2>1, Kept
    <2>7. Filled'
      <3>1. v' = [key \in KeysRead(step)' |-> Whole'[key]]
        BY <1>2, <2>1, <2>6 DEF IInv, Filled
      <3> QED BY <1>2, <2>1, <3>1 DEF IInv, Filled
    <2>8. Started' BY <1>2, <2>1 DEF Started
    <2>9. Given' BY <1>2, <2>1 DEF IInv, Given
    <2>10. Answered' BY <1>2, <2>1 DEF Answered
    <2>11. IInv' BY <1>2, <2>1, <2>5, <2>7, <2>8, <2>9, <2>10 DEF IInv
    <2> QED BY <2>1, <2>11
  <1> QED BY <1>4, <1>5

LEMMA ArgsDoneStep ==
  ASSUME IInv, ArgsDone
  PROVE  IInv'
  <1>1. /\ Reading("vector") /\ ~ (i < VecLen(s, Args))
        /\ Set(Only("args", margs))
    BY DEF ArgsDone, MoreArgs
  <1>2. /\ pc = "parse" /\ step <= Len(Program(root))
        /\ root \in Roots /\ root # "header" /\ Fits(root, doc)
        /\ i = ArgsLen(root, doc) /\ FieldKeys(Current) = {"args"}
    BY <1>1, LoopFacts
  <1>3. margs = [j \in 1 .. i |-> Contents(j)] BY <1>2 DEF IInv, Looped
  <1>4. Whole["args"] = margs BY <1>2, <1>3, WholeArgs
  <1>5. Only("args", margs) = [key \in FieldKeys(Current) |-> Whole[key]]
    BY <1>2, <1>4 DEF Only
  <1>6. v' = [key \in KeysRead(step + 1) |-> Whole[key]]
    BY <1>1, <1>2, <1>5, SetKeys DEF Set
  <1> QED BY <1>1, <1>2, <1>6, Advance DEF Set

LEMMA ReturnStep ==
  ASSUME IInv, Return
  PROVE  IInv' /\ ret = NoAnswer /\ ret' = Parser!Expected
  <1>1. /\ pc = "parse" /\ step > Len(Program(root)) /\ pc' = "done"
        /\ ret' = Answer("hash", v)
        /\ UNCHANGED <<root, doc, s, step, i, margs, v>>
    BY DEF Return
  <1>2. /\ root \in Roots /\ Fits(root, doc) /\ ret = NoAnswer
        /\ step = Len(Program(root)) + 1
        /\ v = [key \in KeysRead(step) |-> Whole[key]]
    BY <1>1, ProgramLength DEF IInv, Given, Filled, Answered, ReadLen
  <1>3. v = Whole BY <1>2, AllKeys
  <1>4. step >= 3 /\ (root = "header" => step = 14)
    <2>1. step = ReadLen(root) + 1 BY <1>2, ProgramLength
    <2>2. ReadLen(root) \in {2, 4, 13} /\ (root = "header" => ReadLen(root) = 13)
      BY DEF ReadLen
    <2> QED BY <2>1, <2>2
  <1>5. Parser!AllHashLong
    <2>1. CASE root = "header"
      <3>1. \A j \in 1 .. 2 : step > BytesId(j) + 1
        BY <1>4, <2>1 DEF BytesId
      <3> QED BY <1>1, <1>2, <2>1, <3>1, LongBytes DEF IInv, Looped
    <2>2. CASE root # "header"
      <3>1. step > 1 BY <1>2, <1>4, ProgramLength DEF ReadLen
      <3>2. i = ArgsLen(root, doc) /\ \A j \in 1 .. i : doc.lens[j] = HashLen
        BY <1>1, <2>2, <3>1 DEF IInv, Looped
      <3> QED BY <1>2, <2>2, <3>2, LongArgs
    <2> QED BY <2>1, <2>2
  <1>6. ret' = Parser!Expected BY <1>1, <1>3, <1>5, Answers
  <1>7. /\ Whole' = Whole /\ Parser!Expected' = Parser!Expected
        /\ \A k : KeysRead(k)' = KeysRead(k)
    BY <1>1, Kept
  <1>8. Started' BY <1>1 DEF Started
  <1>9. Given' BY <1>1 DEF IInv, Given
  <1>10. Filled'
    <2>1. v' = [key \in KeysRead(step)' |-> Whole'[key]]
      BY <1>1, <1>2, <1>7
    <2> QED BY <1>1, <2>1 DEF IInv, Filled
  <1>11. Looped' BY <1>1 DEF IInv, Looped
  <1>12. Answered' BY <1>1, <1>6, <1>7 DEF Answered
  <1> QED BY <1>1, <1>2, <1>6, <1>8, <1>9, <1>10, <1>11, <1>12 DEF IInv

-----------------------------------------------------------------------------
(* The theorems.                                                           *)

LEMMA InitInv == Init => IInv
  <1> SUFFICES ASSUME Init PROVE IInv OBVIOUS
  <1>1. root \in Roots BY DEF Init, Roots
  <1>2. Started /\ Given /\ Filled /\ Looped /\ Answered
    BY DEF Init, Started, Given, Filled, Looped, Answered
  <1> QED BY <1>1, <1>2 DEF Init, IInv

\* Every step keeps the invariant, and only a call and an answer are seen.
LEMMA NextInv ==
  ASSUME IInv, [Next]_vars
  PROVE  /\ IInv'
         /\ \/ Call
            \/ /\ UNCHANGED <<root, doc>>
               /\ ret' # ret => /\ pc = "parse" /\ ret = NoAnswer
                                /\ ret' = Parser!Expected
  <1>1. CASE Call BY <1>1, CallStep
  <1>2. CASE Scalar
    BY <1>2, ScalarStep DEF Scalar, Set
  <1>3. CASE HashField
    BY <1>3, HashStep DEF HashField, Set, Skip
  <1>4. CASE CellField
    BY <1>4, CellStep DEF CellField, Set, Skip
  <1>5. CASE BytesField
    <2>1. pc = "parse" /\ UNCHANGED <<root, doc>>
      BY <1>5 DEF BytesField, Reading, Set, Skip, Raise
    <2> QED BY <1>5, <2>1, BytesStep
  <1>6. CASE PushArg
    <2>1. pc = "parse" /\ UNCHANGED <<root, doc>>
      BY <1>6 DEF PushArg, Reading, Raise
    <2> QED BY <1>6, <2>1, PushStep
  <1>7. CASE ArgsDone
    BY <1>7, ArgsDoneStep DEF ArgsDone, Set
  <1>8. CASE Return
    BY <1>8, ReturnStep DEF Return
  <1>9. CASE UNCHANGED vars
    <2>1. UNCHANGED <<pc, root, doc, s, step, i, margs, v, ret>>
      BY <1>9 DEF vars
    <2>2. /\ Whole' = Whole /\ Parser!Expected' = Parser!Expected
          /\ \A k : KeysRead(k)' = KeysRead(k)
      BY <2>1, Kept
    <2>3. Started' /\ Given' /\ Looped' /\ Answered'
      BY <2>1, <2>2 DEF IInv, Started, Given, Looped, Answered
    <2>4. Filled' BY <2>1, <2>2 DEF IInv, Filled
    <2> QED BY <2>1, <2>3, <2>4 DEF IInv
  <1> QED BY <1>1, <1>2, <1>3, <1>4, <1>5, <1>6, <1>7, <1>8, <1>9 DEF Next

\* The hash is filled in the order of the fields with what the document says,
\* and nothing is answered before the last of them or an error (ckb.c:131-253).
THEOREM ParseInductive == Spec => []IInv
  <1>1. Init => IInv BY InitInv
  <1>2. IInv /\ [Next]_vars => IInv' BY NextInv
  <1> QED BY <1>1, <1>2, PTL DEF Spec

\* A key of the hash that has a number has a signed one.
LEMMA NumbersSigned ==
  ASSUME root \in Roots, Fits(root, doc), NEW k \in 1 .. Len(Program(root)),
         NEW key \in FieldKeys(Program(root)[k]) \cap Numbers
  PROVE  Whole[key] \in -(IntMod \div 2) .. IntMod \div 2 - 1
  <1> DEFINE f == Program(root)[k]
             range == -(IntMod \div 2) .. IntMod \div 2 - 1
  <1>1. /\ f.kind \in {"vector", "cell", "hash", "scalar", "bytes"}
        /\ f.id \in Ids(root)
        /\ f.kind \in {"hash", "scalar", "bytes"} =>
             Kinds(root)[f.id + 1] = f.kind /\ Names(root)[f.id + 1] = f.name
        /\ f.kind = "cell" => root = "input" /\ f.id = 1
    BY FieldFacts
  <1>2. key \in FieldKeys(f) /\ key \in Numbers /\ k \in 1 .. Len(Program(root))
        /\ f = Program(root)[k]
    OBVIOUS
  <1> HIDE DEF f, range
  <1>3. CASE f.kind = "scalar"
    <2>1. key = f.name BY <1>2, <1>3 DEF FieldKeys
    <2>2. Whole[key]
            = Fixnum(IF f.id \in doc.present THEN ScalarValue(doc, f.id) ELSE 0)
      BY <1>2, <1>3, <2>1, WholeScalar
    <2>3. Parser!Number(Names(root)[f.id + 1])
            = Fixnum(IF f.id \in doc.present THEN ScalarValue(doc, f.id) ELSE 0)
          /\ Parser!Number(Names(root)[f.id + 1]) \in range
      BY <1>1, NumberOf DEF range
    <2> QED BY <2>2, <2>3 DEF range
  <1>4. CASE f.kind = "cell"
    <2>1. 1 \in doc.present /\ key = "index"
      BY <1>1, <1>2, <1>4 DEF FieldKeys, Numbers
    <2>2. Whole[key] = Fixnum(IF 2 \in doc.present THEN ScalarValue(doc, 2) ELSE 0)
      BY <1>1, <1>4, <2>1, WholeCell
    <2>3. 2 \in Ids(root) BY <1>1, <1>4, KindFacts
    <2>4. Parser!Number(Names(root)[2 + 1])
            = Fixnum(IF 2 \in doc.present THEN ScalarValue(doc, 2) ELSE 0)
          /\ Parser!Number(Names(root)[2 + 1]) \in range
      BY <2>3, NumberOf DEF range
    <2> QED BY <2>2, <2>4 DEF range
  <1>5. CASE f.kind = "vector" BY <1>2, <1>5 DEF FieldKeys, Numbers
  <1>6. CASE f.kind \in {"hash", "bytes"}
    <2> DEFINE id == f.id
    <2>1. /\ key = Names(root)[id + 1] /\ id \in Ids(root)
          /\ Kinds(root)[id + 1] # "scalar"
      BY <1>1, <1>2, <1>6 DEF FieldKeys
    <2> HIDE DEF id
    <2>2. CASE root = "script"
      <3>1. id \in {0, 1} BY <2>1, <2>2, KindFacts
      <3> QED BY <1>2, <2>1, <2>2, <3>1 DEF Names, ScriptNames, Numbers
    <2>3. CASE root = "input"
      <3>1. id \in {0, 1, 2, 3, 4} BY <2>1, <2>3, KindFacts
      <3> QED BY <1>2, <2>1, <2>3, <3>1
                 DEF Names, InputNames, Kinds, InputKinds, Numbers
    <2>4. CASE root = "header"
      <3>1. id \in {0, 1, 2, 3, 4, 5, 6, 7, 8, 9, 10, 11, 12}
        BY <2>1, <2>4, KindFacts
      <3> QED BY <1>2, <2>1, <2>4, <3>1
                 DEF Names, HeaderNames, Kinds, HeaderKinds, Numbers
    <2> QED BY <2>2, <2>3, <2>4 DEF Roots
  <1> QED BY <1>1, <1>3, <1>4, <1>5, <1>6

\* The type invariant: a number is seen as an mrb_int (ckb.c:184 and the other
\* scalars), and the loop stays in the vector.
THEOREM ParseTypeCorrect == Spec => []TypeOK
  <1>1. IInv => TypeOK
    <2> SUFFICES ASSUME IInv PROVE TypeOK OBVIOUS
    <2>1. pc \in {"start", "parse", "done"} /\ root \in Roots BY DEF IInv
    <2>2. CASE pc = "start"
      <3>1. step = 1 /\ i = 0 /\ DOMAIN v = {} /\ ret.kind = "none"
        BY <2>2 DEF IInv, Started, NoAnswer, Answer
      <3>2. 0 \in 0 .. MaxArgs /\ 1 \in 1 .. 14 BY ParseAssumption
      <3> QED BY <2>1, <3>1, <3>2 DEF TypeOK
    <2>3. CASE pc # "start"
      <3>1. /\ Fits(root, doc) /\ step \in 1 .. Len(Program(root)) + 1
            /\ v = [key \in KeysRead(step) |-> Whole[key]]
        BY <2>3 DEF IInv, Given, Filled
      <3>2. Len(Program(root)) = ReadLen(root) /\ ReadLen(root) \in {2, 4, 13}
        BY <2>1, ProgramLength DEF ReadLen
      <3>3. step \in 1 .. 14 BY <3>1, <3>2
      <3>4. i \in 0 .. MaxArgs
        BY <2>3, <3>1, ParseAssumption DEF IInv, Looped, Fits, ArgsLen
      <3>5. ASSUME NEW key \in DOMAIN v \cap Numbers
            PROVE  v[key] \in -(IntMod \div 2) .. IntMod \div 2 - 1
        <4>1. key \in KeysRead(step) /\ v[key] = Whole[key] BY <3>1, <3>5
        <4>2. PICK k \in 1 .. step - 1 : key \in FieldKeys(Program(root)[k])
          BY <4>1 DEF KeysRead
        <4>3. k \in 1 .. Len(Program(root)) BY <3>1, <3>2
        <4> QED BY <2>1, <3>1, <3>5, <4>1, <4>2, <4>3, NumbersSigned
      <3>6. ret.kind \in {"none", "ArgumentError", "hash"}
        BY <2>1, <2>3, Answers
           DEF IInv, Answered, NoAnswer, ArgumentError, Answer
      <3> QED BY <2>1, <3>3, <3>4, <3>5, <3>6 DEF TypeOK
    <2> QED BY <2>2, <2>3
  <1> QED BY <1>1, ParseInductive, PTL

\* ParsedExact: for every document, however many Bytes it has and however they
\* are laid out, the answer is what the document says (ckb.c:84-253).
THEOREM ParsedTheorem == Spec => []ParsedExact
  <1>1. IInv => ParsedExact BY DEF IInv, Answered, ParsedExact
  <1> QED BY <1>1, ParseInductive, PTL

\* Every step is a step of a parser that has the whole document at once, or
\* cannot be seen (ParserSpec without its fairness).
THEOREM ParserImplemented ==
  Spec => Parser!Init /\ [][Parser!Next]_(Parser!vars)
  <1>1. Init => Parser!Init
    BY DEF Init, Parser!Init, Parser!NoDocument, NoDocument, Parser!NoAnswer,
           NoAnswer, Parser!Answer, Answer, Parser!NoSeq, NoSeq
  <1>2. IInv /\ [Next]_vars => [Parser!Next]_(Parser!vars)
    <2> SUFFICES ASSUME IInv, [Next]_vars
                 PROVE  [Parser!Next]_(Parser!vars)
      OBVIOUS
    <2>1. /\ Parser!NoDocument = NoDocument /\ Parser!NoAnswer = NoAnswer
          /\ Parser!Roots = Roots /\ Parser!Documents = Documents
      <3>1. /\ Parser!NoDocument = NoDocument /\ Parser!NoAnswer = NoAnswer
            /\ Parser!Roots = Roots
        BY DEF Parser!NoDocument, NoDocument, Parser!NoAnswer, NoAnswer,
               Parser!Answer, Answer, Parser!Roots, Roots
      <3>2. Parser!Documents = Documents
        <4> DEFINE Of(r, ids) ==
              {[present |-> p, scale |-> c, lens |-> l] :
                 p \in {p \in SUBSET ids : \/ Cardinality(p) <= MaxOdd
                                          \/ Cardinality(ids \ p) <= MaxOdd},
                 c \in Scales,
                 l \in IF r = "header" THEN [1 .. 2 -> Lens]
                       ELSE UNION {[1 .. m -> Lens] : m \in 0 .. MaxArgs}}
        <4>1. Documents = [r \in Roots |-> Of(r, Ids(r))] BY DEF Documents
        <4>2. Parser!Documents = [r \in Parser!Roots |-> Of(r, Parser!Ids(r))]
          BY DEF Parser!Documents, Parser!Cardinality, Cardinality
        <4> HIDE DEF Of
        <4>3. \A r : Of(r, Parser!Ids(r)) = Of(r, Ids(r)) BY SameSchema
        <4> QED BY <3>1, <4>1, <4>2, <4>3
      <3> QED BY <3>1, <3>2
    <2>2. CASE Call
      <3>1. doc = NoDocument /\ ret' = ret
        BY <2>2 DEF Call, IInv, Started
      <3>2. root' \in Roots /\ doc' \in Documents[root'] BY <2>2 DEF Call
      <3> QED BY <2>1, <3>1, <3>2 DEF Parser!Next, Parser!Call
    <2>3. CASE /\ UNCHANGED <<root, doc>>
               /\ ret' # ret => /\ pc = "parse" /\ ret = NoAnswer
                                /\ ret' = Parser!Expected
      <3>1. CASE ret' = ret BY <2>3, <3>1 DEF Parser!vars
      <3>2. CASE ret' # ret
        <4>1. doc # NoDocument
          <5>1. doc.scale \in Nat BY <2>3, <3>2 DEF IInv, Given, Fits
          <5>2. NoDocument.scale = -1 BY DEF NoDocument
          <5> QED BY <5>1, <5>2
        <4> QED BY <2>1, <2>3, <3>2, <4>1 DEF Parser!Next, Parser!Reply
      <3> QED BY <3>1, <3>2
    <2> QED BY <2>2, <2>3, NextInv
  <1> QED BY <1>1, <1>2, ParseInductive, PTL DEF Spec

\* What a call has still to do: fields, Bytes and the answer.
Left == IF pc = "parse" THEN (15 - step) + (MaxArgs - i) ELSE 0

\* A parse comes to its end: every step of it leaves less to do, whatever the
\* document and the layout.  (That a step is possible, ParserSpec shows.)
THEOREM ParseEnds ==
  Spec => [][pc = "parse" => Left \in Nat /\ Left' \in Nat /\ Left' < Left]_vars
  <1>1. IInv /\ TypeOK /\ TypeOK' /\ [Next]_vars
          => [pc = "parse" => Left \in Nat /\ Left' \in Nat /\ Left' < Left]_vars
    <2> SUFFICES ASSUME IInv, TypeOK, TypeOK', Next, pc = "parse"
                 PROVE  Left \in Nat /\ Left' \in Nat /\ Left' < Left
      OBVIOUS
    <2>1. /\ step \in 1 .. 14 /\ i \in 0 .. MaxArgs /\ MaxArgs \in Nat
          /\ step' \in 1 .. 14 /\ i' \in 0 .. MaxArgs
      BY ParseAssumption DEF TypeOK
    <2>2. \/ pc' = "parse" /\ step' = step + 1 /\ i' = i
          \/ pc' = "parse" /\ step' = step /\ i' = i + 1
          \/ pc' = "done"
      BY DEF Next, Call, Scalar, HashField, CellField, BytesField, PushArg,
             ArgsDone, Return, Set, Skip, Raise
    <2>3. Left = (15 - step) + (MaxArgs - i) /\ Left \in Nat /\ Left > 0
      BY <2>1 DEF Left
    <2>4. CASE pc' = "done" BY <2>3, <2>4 DEF Left
    <2>5. CASE pc' = "parse" /\ step' = step + 1 /\ i' = i
      <3>1. Left' = (15 - (step + 1)) + (MaxArgs - i) BY <2>5 DEF Left
      <3>2. step + 1 \in 1 .. 14 BY <2>1, <2>5
      <3> QED BY <2>1, <2>3, <3>1, <3>2
    <2>6. CASE pc' = "parse" /\ step' = step /\ i' = i + 1
      <3>1. Left' = (15 - step) + (MaxArgs - (i + 1)) BY <2>6 DEF Left
      <3>2. i + 1 \in 0 .. MaxArgs BY <2>1, <2>6
      <3> QED BY <2>1, <2>3, <3>1, <3>2
    <2> QED BY <2>2, <2>4, <2>5, <2>6
  <1> QED BY <1>1, ParseInductive, ParseTypeCorrect, PTL DEF Spec
=============================================================================
