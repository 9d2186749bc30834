-------------------------- MODULE TinyBignumProofs --------------------------
(***************************************************************************)
(* Proofs about TinyBignum for every width of a bignum and of an int, every *)
(* heap, memory and set of counts, and whatever the library answers for the *)
(* operators left to it: who owns which struct, what is leaked, and what    *)
(* the numbers are.                                                         *)
(***************************************************************************)
EXTENDS TinyBignum, FiniteSetTheorems, WellFoundedInduction, TLAPS

\* The structs in use.
Used == {p \in Ptr : block[p] # Unused}

BignumIInv == TypeOK /\ NotShared /\ BlocksExact /\ ModularExact

\* What a step leaves of the bignums (the action of ValuesNeverChange).
Undisturbed ==
  \A o \in Bignums : obj'[o] # Free => obj'[o] = obj[o] /\ Value(o)' = Value(o)

-----------------------------------------------------------------------------
(* Sets.                                                                   *)

\* A set of numbers has a least one.
LEMMA LeastElement ==
  ASSUME NEW S, S \subseteq Nat, S # {}
  PROVE  Least(S) \in S
  <1> DEFINE R == OpToRel(<, Nat)
  <1>1. IsWellFoundedOn(R, Nat) BY NatLessThanWellFounded
  <1> HIDE DEF R
  <1>2. PICK x \in S : \A y \in S : ~ (<<y, x>> \in R)
    BY <1>1, WFMin
  <1>3. \A y \in S : x <= y
    <2> SUFFICES ASSUME NEW y \in S PROVE x <= y OBVIOUS
    <2>1. ~ (<<y, x>> \in R) BY <1>2
    <2>2. x \in Nat /\ y \in Nat BY <1>2
    <2>3. y < x => <<y, x>> \in R BY <2>2 DEF R, OpToRel
    <2> QED BY <2>1, <2>2, <2>3
  <1> QED BY <1>2, <1>3 DEF Least

\* Where a new struct and a new object go.
LEMMA FreePlaces ==
  /\ FreeBlocks # {} => /\ Least(FreeBlocks) \in Ptr
                        /\ block[Least(FreeBlocks)] = Unused
  /\ FreeObjects # {} => /\ Least(FreeObjects) \in Obj
                         /\ obj[Least(FreeObjects)].kind = "free"
  <1>1. FreeBlocks \subseteq Nat BY DEF FreeBlocks, Ptr
  <1>2. FreeObjects \subseteq Nat BY DEF FreeObjects, Obj
  <1>3. FreeBlocks # {} => Least(FreeBlocks) \in FreeBlocks BY <1>1, LeastElement
  <1>4. FreeObjects # {} => Least(FreeObjects) \in FreeObjects BY <1>2, LeastElement
  <1> QED BY <1>3, <1>4 DEF FreeBlocks, FreeObjects

\* Heap and memory are finite.
LEMMA Finite ==
  /\ IsFiniteSet(Ptr) /\ Cardinality(Ptr) = MaxBlocks
  /\ IsFiniteSet(Used) /\ Cardinality(Used) \in 0 .. MaxBlocks
  /\ IsFiniteSet(Bignums) /\ Cardinality(Bignums) \in Nat
  <1>1. MaxBlocks \in Nat /\ MaxObjects \in Nat BY SizeAssumption
  <1>2. IsFiniteSet(Ptr) /\ Cardinality(Ptr) = MaxBlocks
    BY <1>1, FS_Interval DEF Ptr
  <1>3. IsFiniteSet(Obj) BY <1>1, FS_Interval DEF Obj
  <1>4. IsFiniteSet(Used) /\ Cardinality(Used) <= Cardinality(Ptr)
    <2>1. Used \in SUBSET Ptr BY DEF Used
    <2> QED BY <1>2, <2>1, FS_Subset
  <1>5. IsFiniteSet(Bignums)
    <2>1. Bignums \in SUBSET Obj BY DEF Bignums
    <2> QED BY <1>3, <2>1, FS_Subset
  <1>6. Cardinality(Used) \in Nat /\ Cardinality(Bignums) \in Nat
    BY <1>4, <1>5, FS_CardinalityType
  <1> QED BY <1>1, <1>2, <1>4, <1>5, <1>6

-----------------------------------------------------------------------------
(* Arithmetic modulo m.                                                    *)

\* Division with a remainder.
LEMMA Quotient ==
  ASSUME NEW a \in Int, NEW m \in Nat, m > 0
  PROVE  /\ a % m \in 0 .. m - 1
         /\ a \div m \in Int
         /\ a = m * (a \div m) + (a % m)
  OBVIOUS

\* A multiple of m that is smaller than m is 0 times m.
LEMMA NoMultiple ==
  ASSUME NEW m \in Nat, NEW d \in Int, m * d < m, -m < m * d, m > 0
  PROVE  d = 0
  <1>1. CASE d >= 1
    <2>1. m * d >= m BY <1>1
    <2> QED BY <2>1
  <1>2. CASE d <= -1
    <2>1. m * d <= -m BY <1>2
    <2> QED BY <2>1
  <1> QED BY <1>1, <1>2

\* Multiples of m do not count.
LEMMA MultiplesVanish ==
  ASSUME NEW m \in Nat, m > 0, NEW k \in Int, NEW z \in Int
  PROVE  (m * k + z) % m = z % m
  <1> DEFINE a == m * k + z
             qa == a \div m
             qz == z \div m
             ra == a % m
             rz == z % m
  <1>0. m * k \in Int OBVIOUS
  <1>1. a \in Int BY <1>0
  <1>2. /\ ra \in 0 .. m - 1 /\ qa \in Int /\ a = m * qa + ra
        /\ rz \in 0 .. m - 1 /\ qz \in Int /\ z = m * qz + rz
    BY <1>1, Quotient
  <1>3. a = m * k + z OBVIOUS
  <1> HIDE DEF a, qa, qz, ra, rz
  <1>4. m * k + m * qz + rz = m * qa + ra BY <1>0, <1>2, <1>3
  <1> DEFINE d == qa - (k + qz)
  <1>5. d \in Int BY <1>2
  <1>6. m * d = m * qa - (m * k + m * qz) BY <1>2
  <1>7. m * d = rz - ra
    <2> DEFINE x == m * k
               y == m * qz
               w == m * qa
    <2>1. x \in Int /\ y \in Int /\ w \in Int BY <1>0, <1>2
    <2>2. x + y + rz = w + ra /\ m * d = w - (x + y) BY <1>4, <1>6
    <2> HIDE DEF x, y, w, d
    <2> QED BY <1>2, <2>1, <2>2
  <1> HIDE DEF d
  <1>8. m * d < m /\ -m < m * d BY <1>2, <1>7
  <1>9. d = 0 BY <1>5, <1>8, NoMultiple
  <1>10. ra = rz BY <1>2, <1>7, <1>9
  <1> QED BY <1>10 DEF ra, rz, a

\* Numbers that are apart by a multiple of m have the same remainder.
LEMMA SameRemainder ==
  ASSUME NEW m \in Nat, m > 0, NEW a \in Int, NEW z \in Int,
         \E k \in Int : a = m * k + z
  PROVE  a % m = z % m
  BY MultiplesVanish

\* +, - and * on remainders make the remainder of +, - and *.
LEMMA RingModular ==
  ASSUME NEW m \in Nat, m > 0, NEW a \in Int, NEW b \in Int
  PROVE  /\ ((a % m) + (b % m)) % m = (a + b) % m
         /\ ((a % m) - (b % m)) % m = (a - b) % m
         /\ ((a % m) * (b % m)) % m = (a * b) % m
         /\ ((a % m) * b) % m = (a * b) % m
  <1> DEFINE ka == a \div m
             kb == b \div m
             ra == a % m
             rb == b % m
  <1>1. /\ ra \in Int /\ ka \in Int /\ a = m * ka + ra
        /\ rb \in Int /\ kb \in Int /\ b = m * kb + rb
    BY Quotient
  <1> HIDE DEF ka, kb, ra, rb
  <1>2. a + b = m * (ka + kb) + (ra + rb)
    <2>1. m * (ka + kb) = m * ka + m * kb BY <1>1
    <2> QED BY <1>1, <2>1
  <1>3. a - b = m * (ka - kb) + (ra - rb)
    <2>1. m * (ka - kb) = m * ka - m * kb BY <1>1
    <2> QED BY <1>1, <2>1
  <1>4. a * b = m * (ka * b) + ra * b
    <2>1. a * b = (m * ka) * b + ra * b BY <1>1
    <2>2. (m * ka) * b = m * (ka * b) BY <1>1
    <2> QED BY <2>1, <2>2
  <1>5. ra * b = m * (ra * kb) + ra * rb
    <2>1. ra * b = ra * (m * kb) + ra * rb BY <1>1
    <2>2. ra * (m * kb) = m * (ra * kb) BY <1>1
    <2> QED BY <2>1, <2>2
  <1>6. /\ ka + kb \in Int /\ ra + rb \in Int /\ ka - kb \in Int /\ ra - rb \in Int
        /\ ka * b \in Int /\ ra * b \in Int /\ ra * kb \in Int /\ ra * rb \in Int
    BY <1>1
  <1>7. (a + b) % m = (ra + rb) % m
    <2>1. \E k \in Int : a + b = m * k + (ra + rb) BY <1>2, <1>6
    <2>2. a + b \in Int BY <1>1
    <2> QED BY <1>6, <2>1, <2>2, SameRemainder
  <1>8. (a - b) % m = (ra - rb) % m
    <2>1. \E k \in Int : a - b = m * k + (ra - rb) BY <1>3, <1>6
    <2>2. a - b \in Int BY <1>1
    <2> QED BY <1>6, <2>1, <2>2, SameRemainder
  <1>9. (a * b) % m = (ra * b) % m
    <2>1. \E k \in Int : a * b = m * k + (ra * b) BY <1>4, <1>6
    <2>2. a * b \in Int BY <1>1
    <2> QED BY <1>6, <2>1, <2>2, SameRemainder
  <1>10. (ra * b) % m = (ra * rb) % m
    <2>1. \E k \in Int : ra * b = m * k + (ra * rb) BY <1>5, <1>6
    <2>2. ra * b \in Int BY <1>1
    <2> QED BY <1>6, <2>1, <2>2, SameRemainder
  <1> QED BY <1>7, <1>8, <1>9, <1>10 DEF ra, rb

\* A value is its own remainder, and every remainder is a value.
LEMMA ValueModular ==
  /\ \A v \in Values : v \in Int /\ v % BigMod = v
  /\ \A v \in Values : v \in -MaxExact .. MaxExact
  /\ \A x \in Int : x % BigMod \in Values
  BY SizeAssumption DEF Values

-----------------------------------------------------------------------------
(* The invariant, operator by operator.                                    *)

\* What the invariant says of one bignum.
LEMMA BignumFacts ==
  ASSUME BignumIInv, NEW o \in Bignums
  PROVE  /\ o \in Obj /\ obj[o].kind = "big" /\ obj[o] \notin {Free, Bare}
         /\ obj[o].ptr \in Ptr /\ obj[o].ptr \in Used
         /\ Value(o) \in Values
         /\ obj[o].exact \in Int
         /\ obj[o].exact \in -MaxExact .. MaxExact
         /\ Value(o) = obj[o].exact % BigMod
  <1>1. o \in Obj /\ obj[o].kind = "big" BY DEF Bignums, Bignum
  <1>2. obj[o] \notin {Free, Bare} BY <1>1 DEF Free, Bare, Object
  <1>3. Value(o) \in Values /\ Value(o) # Unused
    BY <1>1, <1>2 DEF BignumIInv, TypeOK, Values, Unused
  <1>4. MaxExact \in Nat BY SizeAssumption
  <1> QED BY <1>1, <1>2, <1>3, <1>4 DEF BignumIInv, TypeOK, ModularExact, Used, Value

\* An object whose number fits the history, or that starts a new history.
LEMMA TrackedFacts ==
  ASSUME NEW v \in Values, NEW exact \in Int, v = exact % BigMod
  PROVE  /\ Tracked(exact, v) \in -MaxExact .. MaxExact
         /\ v = Tracked(exact, v) % BigMod
  BY ValueModular DEF Tracked

\* An object without a struct is made or goes.
LEMMA BareIInv ==
  ASSUME BignumIInv, NEW o \in Obj, ~ Bignum(o), NEW new \in {Free, Bare},
         obj' = [obj EXCEPT ![o] = new], block' = block, lost' = lost
  PROVE  BignumIInv' /\ Undisturbed
  <1>1. DOMAIN obj = Obj /\ new.kind # "big" BY DEF BignumIInv, TypeOK, Free, Bare, Object
  <1>2. obj'[o] = new /\ \A q \in Obj : q # o => obj'[q] = obj[q] BY <1>1
  <1>3. Bignums' = Bignums BY <1>1, <1>2 DEF Bignums, Bignum
  <1>4. \A q \in Bignums : q # o /\ obj'[q] = obj[q] BY <1>2 DEF Bignums
  <1>5. TypeOK' BY <1>1, <1>2 DEF BignumIInv, TypeOK, Value
  <1>6. NotShared' BY <1>3, <1>4 DEF BignumIInv, NotShared
  <1>7. BlocksExact' BY <1>3 DEF BignumIInv, BlocksExact
  <1>8. ModularExact' BY <1>3, <1>4 DEF BignumIInv, ModularExact, Value
  <1>9. Undisturbed BY <1>4 DEF Undisturbed, Value
  <1> QED BY <1>5, <1>6, <1>7, <1>8, <1>9 DEF BignumIInv

\* Nothing changes but the answer.
LEMMA AnswerIInv ==
  ASSUME BignumIInv, UNCHANGED <<obj, block, lost>>
  PROVE  BignumIInv' /\ Undisturbed
  BY DEF BignumIInv, TypeOK, NotShared, BlocksExact, ModularExact, Undisturbed,
         Bignums, Bignum, Value

\* A struct is used and no object gets it.
LEMMA LoseIInv ==
  ASSUME BignumIInv, NEW v \in Values, FreeBlocks # {},
         block' = [block EXCEPT ![Least(FreeBlocks)] = v],
         lost' = lost + 1, obj' = obj
  PROVE  BignumIInv' /\ Undisturbed
  <1> DEFINE p == Least(FreeBlocks)
  <1>1. p \in Ptr /\ block[p] = Unused BY FreePlaces
  <1> HIDE DEF p
  <1>2. /\ block \in [Ptr -> Values \cup {Unused}] /\ v # Unused
        /\ block' = [block EXCEPT ![p] = v]
    BY DEF BignumIInv, TypeOK, Values, Unused, p
  <1>3. Bignums' = Bignums BY DEF Bignums, Bignum
  <1>4. \A q \in Bignums : Value(q)' = Value(q)
    BY <1>1, <1>2, BignumFacts DEF Value, Used
  <1>5. BlocksExact' /\ lost' \in 0 .. MaxBlocks
    <2>1. Used' = Used \cup {p} /\ p \notin Used BY <1>1, <1>2 DEF Used
    <2>2. Cardinality(Used') = Cardinality(Used) + 1 BY <2>1, Finite, FS_AddElement
    <2>3. Cardinality(Used') \in 0 .. MaxBlocks
      <3>1. Used' \in SUBSET Ptr BY <1>1, <2>1 DEF Used
      <3>2. MaxBlocks \in Nat BY SizeAssumption
      <3> QED BY <3>1, <3>2, Finite, FS_Subset, FS_CardinalityType
    <2>4. Cardinality(Used) = Cardinality(Bignums) + lost
      BY DEF BignumIInv, BlocksExact, Used
    <2>5. lost \in Nat BY SizeAssumption DEF BignumIInv, TypeOK
    <2>6. Cardinality(Used') = Cardinality(Bignums') + lost'
      BY <1>3, <2>2, <2>4, <2>5, Finite
    <2> QED BY <1>3, <2>3, <2>5, <2>6, Finite, SizeAssumption DEF BlocksExact, Used
  <1>6. TypeOK'
    <2>1. block' \in [Ptr -> Values \cup {Unused}] BY <1>1, <1>2
    <2>2. \A o \in Obj : Bignum(o) => Value(o)' \in Values
      BY <1>4, BignumFacts DEF Bignums
    <2> QED BY <1>5, <2>1, <2>2 DEF BignumIInv, TypeOK, Bignum
  <1>7. NotShared' BY <1>3 DEF BignumIInv, NotShared
  <1>8. ModularExact' BY <1>3, <1>4 DEF BignumIInv, ModularExact
  <1>9. Undisturbed BY <1>4 DEF Undisturbed
  <1> QED BY <1>5, <1>6, <1>7, <1>8, <1>9 DEF BignumIInv

\* A struct is used and a new object owns it.
LEMMA OwnIInv ==
  ASSUME BignumIInv, NEW v \in Values, NEW exact \in -MaxExact .. MaxExact,
         v = exact % BigMod, FreeBlocks # {}, FreeObjects # {},
         block' = [block EXCEPT ![Least(FreeBlocks)] = v],
         obj' = [obj EXCEPT ![Least(FreeObjects)] =
                              Object("big", Least(FreeBlocks), exact)],
         lost' = lost
  PROVE  BignumIInv' /\ Undisturbed
  <1>1. PICK p \in Ptr, o \in Obj :
          /\ p = Least(FreeBlocks) /\ block[p] = Unused
          /\ o = Least(FreeObjects) /\ obj[o].kind = "free"
    BY FreePlaces
  <1> DEFINE new == Object("big", p, exact)
  <1>2. /\ block \in [Ptr -> Values \cup {Unused}] /\ v # Unused /\ DOMAIN obj = Obj
        /\ block' = [block EXCEPT ![p] = v]
        /\ obj' = [obj EXCEPT ![o] = new]
    BY <1>1 DEF BignumIInv, TypeOK, Values, Unused
  <1>3. new.kind = "big" /\ new.ptr = p /\ new.exact = exact BY DEF Object
  <1> HIDE DEF new
  <1>4. obj'[o] = new /\ \A q \in Obj : q # o => obj'[q] = obj[q] BY <1>1, <1>2
  <1>5. Bignums' = Bignums \cup {o} /\ o \notin Bignums
    BY <1>1, <1>2, <1>3, <1>4 DEF Bignums, Bignum
  <1>6. \A q \in Bignums : /\ obj'[q] = obj[q] /\ obj[q].ptr # p
                           /\ Value(q)' = Value(q)
    <2> SUFFICES ASSUME NEW q \in Bignums
                 PROVE  obj'[q] = obj[q] /\ obj[q].ptr # p /\ Value(q)' = Value(q)
      OBVIOUS
    <2>1. q \in Obj /\ q # o BY <1>5 DEF Bignums
    <2>2. obj[q].ptr \in Ptr /\ obj[q].ptr # p BY <1>1, BignumFacts DEF Used
    <2> QED BY <1>2, <1>4, <2>1, <2>2 DEF Value
  <1>7. Value(o)' = v BY <1>1, <1>2, <1>3, <1>4 DEF Value
  <1>8. BlocksExact'
    <2>1. Used' = Used \cup {p} /\ p \notin Used BY <1>1, <1>2 DEF Used
    <2>2. Cardinality(Used') = Cardinality(Used) + 1 BY <2>1, Finite, FS_AddElement
    <2>3. Cardinality(Bignums') = Cardinality(Bignums) + 1
      BY <1>5, Finite, FS_AddElement
    <2>4. Cardinality(Used) = Cardinality(Bignums) + lost
      BY DEF BignumIInv, BlocksExact, Used
    <2>5. lost \in Nat BY SizeAssumption DEF BignumIInv, TypeOK
    <2>6. Cardinality(Used') = Cardinality(Bignums') + lost'
      BY <2>2, <2>3, <2>4, <2>5, Finite
    <2> QED BY <2>6 DEF BlocksExact, Used
  <1>9. TypeOK'
    <2>1. block' \in [Ptr -> Values \cup {Unused}] BY <1>1, <1>2
    <2>2. DOMAIN obj' = Obj BY <1>2
    <2>3. ASSUME NEW q \in Obj
          PROVE  \/ obj'[q] \in {Free, Bare}
                 \/ /\ obj'[q].kind = "big" /\ obj'[q].ptr \in Ptr
                    /\ obj'[q].exact \in -MaxExact .. MaxExact
                    /\ Value(q)' \in Values
      <3>1. CASE q = o BY <1>1, <1>3, <1>4, <1>7, <3>1
      <3>2. CASE q # o /\ q \in Bignums BY <1>6, <3>2, BignumFacts
      <3>3. CASE q # o /\ q \notin Bignums
        BY <1>4, <3>3 DEF BignumIInv, TypeOK, Bignums, Bignum
      <3> QED BY <3>1, <3>2, <3>3
    <2> QED BY <2>1, <2>2, <2>3 DEF BignumIInv, TypeOK
  <1>10. NotShared'
    BY <1>3, <1>4, <1>5, <1>6 DEF BignumIInv, NotShared
  <1>11. ModularExact'
    BY <1>3, <1>4, <1>5, <1>6, <1>7 DEF BignumIInv, ModularExact
  <1>12. Undisturbed BY <1>6 DEF Undisturbed
  <1> QED BY <1>8, <1>9, <1>10, <1>11, <1>12 DEF BignumIInv

\* new_tiny_bignum_value, whichever of its two allocations fails.
LEMMA MakeIInv ==
  ASSUME BignumIInv, NEW v \in Values, NEW exact \in Int, v = exact % BigMod,
         NEW why, Make(v, exact, why)
  PROVE  BignumIInv' /\ Undisturbed
  <1>1. CASE FreeBlocks = {} BY <1>1, AnswerIInv DEF Make
  <1>2. CASE FreeBlocks # {} /\ FreeObjects = {} BY <1>2, LoseIInv DEF Make
  <1>3. CASE FreeBlocks # {} /\ FreeObjects # {}
    <2> DEFINE t == Tracked(exact, v)
    <2>1. t \in -MaxExact .. MaxExact /\ v = t % BigMod BY TrackedFacts
    <2>2. /\ block' = [block EXCEPT ![Least(FreeBlocks)] = v]
          /\ obj' = [obj EXCEPT ![Least(FreeObjects)] =
                                   Object("big", Least(FreeBlocks), t)]
          /\ lost' = lost
      BY <1>3 DEF Make
    <2> HIDE DEF t
    <2> QED BY <1>3, <2>1, <2>2, OwnIInv
  <1> QED BY <1>1, <1>2, <1>3

\* A number that starts a history of its own.
LEMMA MakeFresh ==
  ASSUME BignumIInv, NEW v \in Values, NEW why, Make(v, v, why)
  PROVE  BignumIInv' /\ Undisturbed
  BY ValueModular, MakeIInv

\* Where the code leaves the behaviour undefined it disturbs no other bignum,
\* as long as the program goes on at all.
LEMMA UndefinedIInv ==
  ASSUME BignumIInv, NEW why, Undefined(why)
  PROVE  BignumIInv' /\ Undisturbed
  BY MakeFresh, AnswerIInv DEF Undefined

\* The garbage collector.
LEMMA CollectIInv ==
  ASSUME BignumIInv, NEW o \in Obj, Collect(o)
  PROVE  BignumIInv' /\ Undisturbed
  <1>1. obj' = [obj EXCEPT ![o] = Free] /\ lost' = lost BY DEF Collect
  <1>2. CASE ~ Bignum(o) BY <1>1, <1>2, BareIInv DEF Collect
  <1>3. CASE Bignum(o)
    <2> DEFINE p == obj[o].ptr
    <2>1. o \in Bignums BY <1>3 DEF Bignums
    <2>2. p \in Ptr /\ p \in Used BY <2>1, BignumFacts
    <2>3. /\ block \in [Ptr -> Values \cup {Unused}] /\ DOMAIN obj = Obj
          /\ block' = [block EXCEPT ![p] = Unused]
      BY <1>3 DEF BignumIInv, TypeOK, Collect
    <2>p. obj[o].ptr = p OBVIOUS
    <2> HIDE DEF p
    <2>4. obj'[o] = Free /\ \A q \in Obj : q # o => obj'[q] = obj[q]
      BY <1>1, <2>3
    <2>5. Free.kind # "big" BY DEF Free, Object
    <2>6. Bignums' = Bignums \ {o}
      BY <1>1, <2>3, <2>4, <2>5 DEF Bignums, Bignum
    <2>7. \A q \in Bignums : q # o => /\ obj'[q] = obj[q] /\ Value(q)' = Value(q)
      <3> SUFFICES ASSUME NEW q \in Bignums, q # o
                   PROVE  obj'[q] = obj[q] /\ Value(q)' = Value(q)
        OBVIOUS
      <3>1. q \in Obj /\ obj[q].ptr \in Ptr BY BignumFacts
      <3>2. obj[q].ptr # p BY <2>1, <2>p DEF BignumIInv, NotShared
      <3> QED BY <2>3, <2>4, <3>1, <3>2 DEF Value
    <2>8. BlocksExact'
      <3>1. Used' = Used \ {p} BY <2>2, <2>3 DEF Used
      <3>2. Cardinality(Used') = Cardinality(Used) - 1
        BY <2>2, <3>1, Finite, FS_RemoveElement
      <3>3. Cardinality(Bignums') = Cardinality(Bignums) - 1
        BY <2>1, <2>6, Finite, FS_RemoveElement
      <3>4. Cardinality(Used) = Cardinality(Bignums) + lost
        BY DEF BignumIInv, BlocksExact, Used
      <3>5. lost \in Nat BY SizeAssumption DEF BignumIInv, TypeOK
      <3>6. Cardinality(Used') = Cardinality(Bignums') + lost'
        BY <1>1, <3>2, <3>3, <3>4, <3>5, Finite
      <3> QED BY <3>6 DEF BlocksExact, Used
    <2>9. TypeOK'
      <3>1. block' \in [Ptr -> Values \cup {Unused}] BY <2>2, <2>3
      <3>2. DOMAIN obj' = Obj BY <1>1, <2>3
      <3>3. ASSUME NEW q \in Obj
            PROVE  \/ obj'[q] \in {Free, Bare}
                   \/ /\ obj'[q].kind = "big" /\ obj'[q].ptr \in Ptr
                      /\ obj'[q].exact \in -MaxExact .. MaxExact
                      /\ Value(q)' \in Values
        <4>1. CASE q = o BY <2>4, <4>1
        <4>2. CASE q # o /\ q \in Bignums BY <2>7, <4>2, BignumFacts
        <4>3. CASE q # o /\ q \notin Bignums
          BY <2>4, <4>3 DEF BignumIInv, TypeOK, Bignums, Bignum
        <4> QED BY <4>1, <4>2, <4>3
      <3> QED BY <1>1, <3>1, <3>2, <3>3 DEF BignumIInv, TypeOK
    <2>10. NotShared' BY <2>6, <2>7 DEF BignumIInv, NotShared
    <2>11. ModularExact' BY <2>6, <2>7 DEF BignumIInv, ModularExact
    <2>12. Undisturbed BY <2>4, <2>7 DEF Undisturbed
    <2> QED BY <2>8, <2>9, <2>10, <2>11, <2>12 DEF BignumIInv
  <1> QED BY <1>2, <1>3

\* The numbers of +, - and * are those of the integers modulo the width.
LEMMA RingIInv ==
  ASSUME BignumIInv, NEW self \in Bignums, NEW other \in Bignums, NEW op \in Ring,
         Operate(op, self, other)
  PROVE  BignumIInv' /\ Undisturbed
  <1> DEFINE v == RingResult(op, Value(self), Value(other))
             exact == InRing(op, obj[self].exact, obj[other].exact)
  <1>1. /\ obj[self].exact \in Int /\ Value(self) = obj[self].exact % BigMod
        /\ obj[other].exact \in Int /\ Value(other) = obj[other].exact % BigMod
    BY BignumFacts
  <1>2. BigMod \in Nat /\ BigMod > 0 BY SizeAssumption
  <1>3. exact \in Int /\ v = exact % BigMod
    <2> DEFINE a == obj[self].exact
               b == obj[other].exact
               x == Value(self)
               y == Value(other)
    <2>1. a \in Int /\ b \in Int /\ x = a % BigMod /\ y = b % BigMod BY <1>1
    <2>2. /\ op = "+" => exact = a + b /\ v = (x + y) % BigMod
          /\ op = "-" => exact = a - b /\ v = (x - y) % BigMod
          /\ op = "*" => exact = a * b /\ v = (x * y) % BigMod
      BY DEF RingResult, InRing
    <2> HIDE DEF a, b, x, y, v, exact
    <2>3. /\ (x + y) % BigMod = (a + b) % BigMod
          /\ (x - y) % BigMod = (a - b) % BigMod
          /\ (x * y) % BigMod = (a * b) % BigMod
      BY <1>2, <2>1, RingModular
    <2>4. CASE op = "+" BY <2>1, <2>2, <2>3, <2>4
    <2>5. CASE op = "-" BY <2>1, <2>2, <2>3, <2>5
    <2>6. CASE op = "*" BY <2>1, <2>2, <2>3, <2>6
    <2> QED BY <2>4, <2>5, <2>6 DEF Ring
  <1>4. Make(v, exact, Defined) BY DEF Operate
  <1> HIDE DEF v, exact
  <1>5. v \in Values BY <1>3, ValueModular
  <1> QED BY <1>3, <1>4, <1>5, MakeIInv

\* The operators of the library answer numbers, whatever they are.
LEMMA LibraryIInv ==
  ASSUME BignumIInv, NEW self \in Bignums, NEW other \in Bignums,
         NEW op \in Binary \ Ring, Operate(op, self, other)
  PROVE  BignumIInv' /\ Undisturbed
  <1> DEFINE v == Library(op, Value(self), Value(other))
  <1>1. Make(v, v, Defined) BY DEF Operate
  <1>2. v \in Values
    <2>1. Value(self) \in Values /\ Value(other) \in Values BY BignumFacts
    <2> QED BY <2>1, LibraryAssumption DEF Binary
  <1> HIDE DEF v
  <1> QED BY <1>1, <1>2, MakeFresh

\* A binary operator, with operands of either sort.
LEMMA BinaryIInv ==
  ASSUME BignumIInv, NEW self \in Obj, NEW other \in Live \cup {Foreign},
         NEW op \in Binary, BinaryOp(op, self, other)
  PROVE  BignumIInv' /\ Undisturbed
  <1>1. CASE ~ IsBignum(other)
    <2>1. UNCHANGED <<obj, block, lost>> BY <1>1 DEF BinaryOp
    <2> QED BY <2>1, AnswerIInv
  <1>2. CASE IsBignum(other) /\ ~ Bignum(self)
    <2>1. Undefined("self") BY <1>2 DEF BinaryOp
    <2> QED BY <2>1, UndefinedIInv
  <1>3. CASE IsBignum(other) /\ Bignum(self)
    <2>1. self \in Bignums /\ other \in Bignums
      BY <1>3 DEF IsBignum, Bignums, Live
    <2>2. CASE Undefined("zero divisor") BY <2>2, UndefinedIInv
    <2>3. CASE Operate(op, self, other)
      BY <2>1, <2>3, RingIInv, LibraryIInv
    <2> QED BY <1>3, <2>2, <2>3 DEF BinaryOp
  <1> QED BY <1>1, <1>2, <1>3

\* A shift by a count that an int can hold, or by what is left of it.
LEMMA ShiftIInv ==
  ASSUME BignumIInv, NEW self \in Obj, NEW bits \in Counts, NEW op \in {"<<", ">>"},
         Shift(op, self, bits)
  PROVE  BignumIInv' /\ Undisturbed
  <1> DEFINE n == Narrowed(bits)
             v == Shifted(op, Value(self), n)
             why == IF n = bits THEN Defined ELSE "count"
  <1>1. CASE bits < 0
    <2>1. bits \in Int BY SizeAssumption
    <2>2. UNCHANGED <<obj, block, lost>> BY <1>1, <2>1 DEF Shift
    <2> QED BY <2>2, AnswerIInv
  <1>2. CASE Undefined("self") \/ Undefined("count") BY <1>2, UndefinedIInv
  <1>3. CASE /\ Bignum(self) /\ n >= 0
             /\ \/ op = "<<" /\ n = bits /\ Make(v, obj[self].exact * 2 ^ bits, Defined)
                \/ Make(v, v, why)
    <2>1. self \in Bignums BY <1>3 DEF Bignums
    <2>2. /\ Value(self) \in Values /\ Value(self) \in Int /\ obj[self].exact \in Int
          /\ Value(self) = obj[self].exact % BigMod
      BY <2>1, BignumFacts, ValueModular
    <2>3. n \in 0 .. IntMod
      <3>1. bits \in Int /\ IntMod \in Nat /\ IntMod > 0 BY SizeAssumption
      <3> DEFINE half == IntMod \div 2
                 m == (bits + half) % IntMod
      <3>2. half \in Nat BY <3>1
      <3>3. m \in 0 .. IntMod - 1 BY <3>1, <3>2
      <3>4. n = m - half BY DEF Narrowed
      <3> HIDE DEF m, half, n
      <3> QED BY <1>3, <3>1, <3>2, <3>3, <3>4
    <2>4. 2 ^ n \in Int
      <3> HIDE DEF n
      <3> QED BY <2>3, SMT
    <2>5. v \in Values
      <3>1. CASE op = "<<"
        <4>1. v = (Value(self) * 2 ^ n) % BigMod BY <3>1 DEF Shifted
        <4>2. Value(self) * 2 ^ n \in Int BY <2>2, <2>4
        <4> QED BY <4>1, <4>2, ValueModular
      <3>2. CASE op = ">>"
        <4>1. v = Library(">>", Value(self), n) BY <3>2 DEF Shifted
        <4> HIDE DEF n
        <4> QED BY <2>2, <2>3, <4>1, LibraryAssumption
      <3> QED BY <3>1, <3>2
    <2>6. CASE op = "<<" /\ n = bits /\ Make(v, obj[self].exact * 2 ^ bits, Defined)
      <3> DEFINE power == 2 ^ bits
                 exact == obj[self].exact * power
      <3>1. power \in Int BY <2>4, <2>6
      <3>2. exact \in Int BY <2>2, <3>1
      <3>3. v = (Value(self) * power) % BigMod BY <2>6 DEF Shifted
      <3> HIDE DEF power
      <3>4. v = exact % BigMod
        <4> DEFINE e == obj[self].exact
        <4>1. BigMod \in Nat /\ BigMod > 0 BY SizeAssumption
        <4>2. e \in Int BY <2>2
        <4>3. v = ((e % BigMod) * power) % BigMod BY <2>2, <3>3, Zenon
        <4> HIDE DEF e, v
        <4>4. ((e % BigMod) * power) % BigMod = (e * power) % BigMod
          BY <3>1, <4>1, <4>2, RingModular
        <4> QED BY <4>3, <4>4, Zenon DEF e
      <3>5. Make(v, exact, Defined) BY <2>6 DEF power
      <3> HIDE DEF v, exact
      <3> QED BY <2>5, <3>2, <3>4, <3>5, MakeIInv
    <2>7. CASE Make(v, v, why)
      <3> HIDE DEF v, why
      <3> QED BY <2>5, <2>7, MakeFresh
    <2> QED BY <1>3, <2>6, <2>7
  <1>4. bits >= 0 => \/ Undefined("self") \/ Undefined("count")
                     \/ /\ Bignum(self) /\ n >= 0
                        /\ \/ op = "<<" /\ n = bits /\ Make(v, obj[self].exact * 2 ^ bits, Defined)
                           \/ Make(v, v, why)
    <2>1. bits \in Int BY SizeAssumption
    <2>2. CASE op = "<<" /\ n = bits BY <2>1, <2>2 DEF Shift
    <2>3. CASE ~ (op = "<<" /\ n = bits) BY <2>1, <2>3 DEF Shift
    <2> QED BY <2>2, <2>3
  <1>5. bits \in Int BY SizeAssumption
  <1> HIDE DEF n, v, why
  <1> QED BY <1>1, <1>2, <1>3, <1>4, <1>5

\* Isqrt and clone.
LEMMA UnaryIInv ==
  ASSUME BignumIInv, NEW self \in Obj, Isqrt(self) \/ Clone(self)
  PROVE  BignumIInv' /\ Undisturbed
  <1>1. CASE ~ Bignum(self)
    <2>1. Undefined("self") BY <1>1 DEF Isqrt, Clone
    <2> QED BY <2>1, UndefinedIInv
  <1>2. CASE Bignum(self) /\ Isqrt(self)
    <2> DEFINE v == Library("isqrt", Value(self), 0)
    <2>1. self \in Bignums BY <1>2 DEF Bignums
    <2>2. v \in Values
      <3>1. Value(self) \in Values BY <2>1, BignumFacts
      <3>2. 0 \in Values BY SizeAssumption DEF Values
      <3> QED BY <3>1, <3>2, LibraryAssumption
    <2>3. Make(v, v, Defined) BY <1>2 DEF Isqrt
    <2> HIDE DEF v
    <2> QED BY <2>2, <2>3, MakeFresh
  <1>3. CASE Bignum(self) /\ Clone(self)
    <2>1. self \in Bignums BY <1>3 DEF Bignums
    <2>2. Make(Value(self), obj[self].exact, Defined) BY <1>3 DEF Clone
    <2> QED BY <2>1, <2>2, BignumFacts, MakeIInv
  <1> QED BY <1>1, <1>2, <1>3

-----------------------------------------------------------------------------
(* The theorems.                                                           *)

\* No object exists and no struct is used.
LEMMA InitBignum == Init => BignumIInv
  <1> SUFFICES ASSUME Init PROVE BignumIInv OBVIOUS
  <1>1. Free.kind # "big" BY DEF Free, Object
  <1>2. Bignums = {} BY <1>1 DEF Init, Bignums, Bignum
  <1>3. Used = {} BY DEF Init, Used
  <1>4. TypeOK BY SizeAssumption DEF Init, TypeOK
  <1>5. BlocksExact BY <1>2, <1>3, FS_EmptySet DEF Init, BlocksExact, Used
  <1> QED BY <1>2, <1>4, <1>5 DEF BignumIInv, NotShared, ModularExact

\* Every operation of the class, in any order.
LEMMA StepBignum == BignumIInv /\ Next => BignumIInv' /\ Undisturbed
  <1> SUFFICES ASSUME BignumIInv, Next PROVE BignumIInv' /\ Undisturbed OBVIOUS
  <1>1. CASE Convert BY <1>1, MakeFresh DEF Convert
  <1>2. CASE New
    <2>1. PICK o \in Obj : o = Least(FreeObjects) /\ obj[o].kind = "free"
      BY <1>2, FreePlaces DEF New
    <2>2. ~ Bignum(o) BY <2>1 DEF Bignum
    <2>3. obj' = [obj EXCEPT ![o] = Bare] /\ block' = block /\ lost' = lost
      BY <1>2, <2>1 DEF New
    <2> QED BY <2>2, <2>3, BareIInv
  <1>3. CASE \E o \in Obj : Collect(o) BY <1>3, CollectIInv
  <1>4. CASE \E o \in Obj : Isqrt(o) \/ Clone(o) BY <1>4, UnaryIInv
  <1>5. CASE \E o \in Obj : \/ ToBig(o) \/ ToS(o)
                            \/ \E other \in Live \cup {Foreign} : Compare(o, other)
    <2>1. UNCHANGED <<obj, block, lost>> BY <1>5 DEF ToBig, ToS, Compare
    <2> QED BY <2>1, AnswerIInv
  <1>6. CASE \E o \in Obj, other \in Live \cup {Foreign}, op \in Binary :
               BinaryOp(op, o, other)
    BY <1>6, BinaryIInv
  <1>8. CASE \E o \in Obj, other \in Live \cup {Foreign} : Pow(o, other)
    <2>1. "**" \in Binary BY DEF Binary
    <2> QED BY <1>8, <2>1, BinaryIInv DEF Pow
  <1>7. CASE \E o \in Obj, bits \in Counts, op \in {"<<", ">>"} : Shift(op, o, bits)
    BY <1>7, ShiftIInv
  <1> QED BY <1>1, <1>2, <1>3, <1>4, <1>5, <1>6, <1>7, <1>8 DEF Next

LEMMA StutterBignum == BignumIInv /\ UNCHANGED vars => BignumIInv'
  BY AnswerIInv DEF vars

THEOREM BignumInductive == Spec => []BignumIInv
  <1>1. BignumIInv /\ [Next]_vars => BignumIInv' BY StepBignum, StutterBignum
  <1> QED BY <1>1, InitBignum, PTL DEF Spec

\* A bignum points to a struct in use that holds a number of the width, and
\* any other object nowhere (tiny_bignum_gem.c:16-31).
THEOREM BignumTypeCorrect == Spec => []TypeOK
  <1>1. BignumIInv => TypeOK BY DEF BignumIInv
  <1> QED BY <1>1, BignumInductive, PTL

\* No struct has two owners, however objects are made, cloned and collected,
\* so that mrb_free gets each one once (tiny_bignum_gem.c:16-23).
THEOREM StructsNotShared == Spec => []NotShared
  <1>1. BignumIInv => NotShared BY DEF BignumIInv
  <1> QED BY <1>1, BignumInductive, PTL

\* The memory leaked is exactly the structs made before an allocation of their
\* object failed (tiny_bignum_gem.c:18-22).
THEOREM StructsAccounted == Spec => []BlocksExact
  <1>1. BignumIInv => BlocksExact BY DEF BignumIInv
  <1> QED BY <1>1, BignumInductive, PTL

\* Chains of +, -, *, << and clone compute modulo the width, whatever the
\* intermediate results wrap to.
THEOREM BignumsModular == Spec => []ModularExact
  <1>1. BignumIInv => ModularExact BY DEF BignumIInv
  <1> QED BY <1>1, BignumInductive, PTL

\* A bignum is immutable: no operator writes to its operands and no collection
\* of one object frees the struct of another.
THEOREM BignumsImmutable == Spec => ValuesNeverChange
  <1>1. BignumIInv /\ [Next]_vars => [Undisturbed]_vars BY StepBignum
  <1>2. Spec => [][Undisturbed]_vars BY <1>1, BignumInductive, PTL DEF Spec
  <1> QED BY <1>2, PTL DEF ValuesNeverChange, Undisturbed
=============================================================================
