------------------------- MODULE StringToBigProofs -------------------------
(***************************************************************************)
(* Proofs about StringToBig for every word, DTYPE_TMP and bignum width, and *)
(* strings of any length: as long as `times' keeps its bits, to_big answers *)
(* the number that the string writes.                                       *)
(***************************************************************************)
EXTENDS StringToBig, WellFoundedInduction, TLAPS

\* The bounds on the constants, as the provers want them.
LEMMA Params == /\ Decimal \in Nat /\ Hex \in Nat /\ 1 < Decimal /\ Decimal < Hex
                /\ Word \in Nat /\ Double \in Nat /\ BigMod \in Nat
                /\ Hex <= Word /\ Word * Hex <= Double /\ Double <= BigMod
                /\ 1 < Word /\ Word <= Double /\ 1 < Double /\ 0 < BigMod
                /\ Hex < Double
  <1>1. /\ Decimal \in Nat /\ Hex \in Nat /\ 1 < Decimal /\ Decimal < Hex
        /\ Word \in Nat /\ Double \in Nat /\ BigMod \in Nat
        /\ Hex <= Word /\ Word * Hex <= Double /\ Double <= BigMod
    BY BaseAssumption, WidthAssumption
  <1>2. \A w, x \in Nat : w > 1 /\ x > 1 => w < w * x
    OBVIOUS
  <1>3. 1 < Word /\ 1 < Hex BY <1>1
  <1>4. Word < Word * Hex BY <1>1, <1>2, <1>3
  <1> DEFINE w == Word * Hex
  <1>5. w \in Nat BY <1>1
  <1>6. Word < w /\ w <= Double BY <1>1, <1>4
  <1> QED BY <1>1, <1>3, <1>5, <1>6

-----------------------------------------------------------------------------
(* Arithmetic modulo m.                                                    *)

\* A multiple of m that is smaller than m is 0 times m.
LEMMA SmallMultiple ==
  ASSUME NEW m \in Nat, NEW d \in Int, m * d < m, -m < m * d, m > 0
  PROVE  d = 0
  <1>1. CASE d >= 1
    <2>1. m * d >= m BY <1>1
    <2> QED BY <2>1
  <1>2. CASE d <= -1
    <2>1. m * d <= -m BY <1>2
    <2> QED BY <2>1
  <1> QED BY <1>1, <1>2

\* Division with a remainder.
LEMMA Division ==
  ASSUME NEW a \in Int, NEW m \in Nat, m > 0
  PROVE  /\ a % m \in 0 .. m - 1
         /\ a \div m \in Int
         /\ a = m * (a \div m) + (a % m)
  OBVIOUS

\* The remainder is unique.
LEMMA RemainderUnique ==
  ASSUME NEW m \in Nat, m > 0, NEW q \in Int, NEW r \in 0 .. m - 1
  PROVE  (m * q + r) % m = r
  <1> DEFINE a == m * q + r
             k == a \div m
             s == a % m
  <1>1. a \in Int OBVIOUS
  <1>2. s \in 0 .. m - 1 /\ k \in Int /\ a = m * k + s
    BY <1>1, Division
  <1>3. m * k + s = m * q + r BY <1>2
  <1> HIDE DEF a, k, s
  <1>4. m * (k - q) = m * k - m * q BY <1>2
  <1>5. m * (k - q) = r - s
    <2> DEFINE u == m * k
               v == m * q
    <2>1. u \in Int /\ v \in Int /\ u + s = v + r BY <1>2, <1>3
    <2>2. m * (k - q) = u - v BY <1>4
    <2> HIDE DEF u, v
    <2> QED BY <1>2, <2>1, <2>2
  <1>6. k - q \in Int BY <1>2
  <1> DEFINE d == k - q
  <1>7. d \in Int /\ m * d = r - s BY <1>5, <1>6
  <1>8. k = q + d BY <1>2
  <1> HIDE DEF d
  <1>9. m * d < m /\ -m < m * d BY <1>2, <1>7
  <1>10. d = 0 BY <1>7, <1>9, SmallMultiple
  <1>11. r - s = 0 BY <1>7, <1>10
  <1>12. s = r BY <1>2, <1>11
  <1> QED BY <1>12 DEF s, a

\* A step of the loop: congruent numbers stay congruent when one more digit
\* is written behind them.
LEMMA AppendBig ==
  \A a, b, c, d \in Nat :
    a % BigMod = b % BigMod => (a * c + d) % BigMod = (b * c + d) % BigMod
  <1> SUFFICES ASSUME NEW a \in Nat, NEW b \in Nat, NEW c \in Nat, NEW d \in Nat,
                      a % BigMod = b % BigMod
               PROVE  (a * c + d) % BigMod = (b * c + d) % BigMod
    BY Zenon
  <1> DEFINE m == BigMod
  <1>m. m \in Nat /\ m > 0 BY Params
  <1>e. a % m = b % m OBVIOUS
  <1> HIDE DEF m
  <1> DEFINE ka == a \div m
             kb == b \div m
             r == a % m
             x == r * c + d
             kx == x \div m
             rx == x % m
  <1>1. r \in 0 .. m - 1 /\ ka \in Int /\ kb \in Int
        /\ a = m * ka + r /\ b = m * kb + r
    BY <1>m, <1>e, Division
  <1> HIDE DEF ka, kb, r
  <1>2. x \in Int BY <1>m, <1>1
  <1>3. rx \in 0 .. m - 1 /\ kx \in Int /\ x = m * kx + rx
    BY <1>m, <1>2, Division
  <1>4. a * c + d = m * (ka * c) + x
    <2>1. a * c = (m * ka) * c + r * c BY <1>m, <1>1
    <2>2. (m * ka) * c = m * (ka * c) BY <1>m, <1>1
    <2> QED BY <1>m, <1>1, <2>1, <2>2
  <1>5. b * c + d = m * (kb * c) + x
    <2>1. b * c = (m * kb) * c + r * c BY <1>m, <1>1
    <2>2. (m * kb) * c = m * (kb * c) BY <1>m, <1>1
    <2> QED BY <1>m, <1>1, <2>1, <2>2
  <1> HIDE DEF x, kx, rx
  <1>6. m * (ka * c) + x = m * (ka * c + kx) + rx BY <1>m, <1>1, <1>3
  <1>7. m * (kb * c) + x = m * (kb * c + kx) + rx BY <1>m, <1>1, <1>3
  <1>8. ka * c + kx \in Int /\ kb * c + kx \in Int BY <1>m, <1>1, <1>3
  <1>9. (a * c + d) % m = rx 
    <2>1. (m * (ka * c + kx) + rx) % m = rx BY <1>m, <1>3, <1>8, RemainderUnique
    <2> QED BY <1>4, <1>6, <2>1
  <1>10. (b * c + d) % m = rx 
    <2>1. (m * (kb * c + kx) + rx) % m = rx BY <1>m, <1>3, <1>8, RemainderUnique
    <2> QED BY <1>5, <1>7, <2>1
  <1> QED BY <1>9, <1>10 DEF m

\* A number below m is its own remainder.
LEMMA SmallRemainder == ASSUME NEW m \in Nat, NEW a \in 0 .. m - 1 PROVE a % m = a
  OBVIOUS

-----------------------------------------------------------------------------
(* The invariant, action by action.                                        *)

\* A digit of the base that counts.
LEMMA DigitFacts ==
  ASSUME TypeOK, IsDigit(base, Char)
  PROVE  /\ base \in Nat /\ 1 < base /\ base <= Hex /\ base < Double
         /\ Char \in Nat /\ Char < base /\ Char < Word
  BY Params DEF TypeOK, IsDigit

\* A digit behind a word never overflows a DTYPE_TMP.
LEMMA TmpExact ==
  ASSUME TypeOK, IsDigit(base, Char)
  PROVE  Tmp(Char) = current * base + Char
  <1>1. /\ base \in Nat /\ base <= Hex /\ Char \in Nat /\ Char < base
        /\ current \in Nat /\ current <= Word - 1 /\ Word \in Nat
        /\ Hex \in Nat /\ Double \in Nat /\ Word * Hex <= Double
    BY DigitFacts, Params DEF TypeOK
  <1>2. current * base <= (Word - 1) * base BY <1>1
  <1>3. (Word - 1) * base = Word * base - base BY <1>1
  <1>4. Word * base <= Word * Hex BY <1>1
  <1> DEFINE x == current * base
             y == Word * base
             z == Word * Hex
  <1>5. /\ x \in Nat /\ y \in Nat /\ z \in Nat
        /\ x <= y - base /\ y <= z /\ z <= Double
    BY <1>1, <1>2, <1>3, <1>4
  <1> HIDE DEF x, y, z
  <1>6. x + Char \in 0 .. Double - 1 BY <1>1, <1>5
  <1>7. (x + Char) % Double = x + Char BY <1>1, <1>6, SmallRemainder
  <1> QED BY <1>7 DEF x, Tmp

\* One more digit of the number.
LEMMA OneMoreDigit ==
  ASSUME TypeOK, IsDigit(base, Char),
         (n * times + current) % BigMod = value % BigMod
  PROVE  ((n * times + current) * base + Char) % BigMod
           = (value * base + Char) % BigMod
  <1> DEFINE a == n * times + current
  <1>1. a \in Nat /\ value \in Nat /\ base \in Nat /\ Char \in Nat
    BY DigitFacts, Params DEF TypeOK
  <1>2. a % BigMod = value % BigMod OBVIOUS
  <1> HIDE DEF a
  <1>3. (a * base + Char) % BigMod = (value * base + Char) % BigMod
    BY <1>1, <1>2, AppendBig
  <1> QED BY <1>3 DEF a

\* What is moved is a bignum.
LEMMA MovedType == ASSUME TypeOK PROVE Moved \in 0 .. BigMod - 1
  BY Params DEF TypeOK, Moved

\* The start: nothing read, nothing to make up for.
LEMMA InitIInv == Init => IInv
  BY Params DEF Init, IInv, TypeOK, PrefixHeld, ResultExact, Converted,
     StartEmpty, NoAnswer, Answer

\* to_big up to its loop.
LEMMA BeginIInv ==
  ASSUME IInv, NEW s, NEW b, NEW from \in {-1} \cup 0 .. BigMod - 1,
         Begin(s, b, from)
  PROVE  IInv'
  <1>1. TypeOK'
    <2>1. base' \in {Decimal, Hex} /\ i' \in Nat BY DEF Begin
    <2>2. /\ 0 \in 0 .. Word - 1 /\ 1 \in 0 .. Double - 1
          /\ 0 \in 0 .. BigMod - 1
      BY Params
    <2>3. /\ pc' = "digits" /\ current' = 0 /\ times' = 1 /\ n' = 0
          /\ value' = 0 /\ exact' = TRUE /\ printed' = from
      BY DEF Begin
    <2>4. ret' = [kind |-> "none", big |-> 0] BY DEF Begin, NoAnswer, Answer
    <2>5. ret' \in [kind : {"none", "ArgumentError", "big"}, big : 0 .. BigMod - 1]
      BY <2>2, <2>4
    <2> QED BY <2>1, <2>2, <2>3, <2>5 DEF TypeOK
  <1>2. PrefixHeld'
    <2>1. n' = 0 /\ times' = 1 /\ current' = 0 /\ value' = 0 BY DEF Begin
    <2>2. 0 * 1 + 0 = 0 OBVIOUS
    <2> QED BY <2>1, <2>2 DEF PrefixHeld
  <1>3. ResultExact' /\ StartEmpty'
    BY DEF Begin, ResultExact, Converted, StartEmpty
  <1> QED BY <1>1, <1>2, <1>3 DEF IInv

\* A digit gathered in `current'.
LEMMA AccumulateIInv == ASSUME IInv, Accumulate PROVE IInv'
  <1>0. /\ TypeOK /\ IsDigit(base, Char) /\ pc = "digits"
        /\ FitsWord(Tmp(Char)) /\ current' = Tmp(Char) /\ times' = Scaled
        /\ exact' = (exact /\ Scaled = times * base)
        /\ value' = value * base + Char /\ i' = i + 1
        /\ UNCHANGED <<pc, str, base, n, printed, ret>>
    BY DEF IInv, Accumulate
  <1>1. /\ base \in Nat /\ 1 < base /\ Char \in Nat /\ Char < base
    BY <1>0, DigitFacts
  <1>2. TypeOK'
    <2>1. current' \in 0 .. Word - 1
      <3>1. Tmp(Char) \in Nat BY <1>0, <1>1, TmpExact DEF TypeOK
      <3> QED BY <1>0, <3>1, Params DEF FitsWord
    <2>2. times' \in 0 .. Double - 1
      <3>1. times * base \in Nat BY <1>0, <1>1 DEF TypeOK
      <3> QED BY <1>0, <3>1, Params DEF Scaled
    <2>3. value' \in Nat /\ i' \in Nat BY <1>0, <1>1 DEF TypeOK
    <2>4. exact' \in BOOLEAN BY <1>0
    <2> QED BY <1>0, <2>1, <2>2, <2>3, <2>4 DEF TypeOK
  <1>3. PrefixHeld'
    <2>1. SUFFICES ASSUME exact'
                   PROVE /\ (n * times' + current') % BigMod = value' % BigMod
                         /\ times' >= 1
                         /\ times' = 1 => current' = 0
      BY <1>0 DEF PrefixHeld
    <2>2. exact /\ times' = times * base BY <1>0, <2>1
    <2>3. (n * times + current) % BigMod = value % BigMod /\ times >= 1
      BY <1>0, <2>2 DEF IInv, PrefixHeld
    <2>4. /\ n \in Nat /\ times \in Nat /\ current \in Nat /\ value \in Nat
      BY <1>0, Params DEF TypeOK
    <2>5. times' >= 2
      <3>1. times * base >= base BY <1>1, <2>3, <2>4
      <3> DEFINE tb == times * base
      <3>2. tb \in Nat /\ tb >= base BY <1>1, <2>4, <3>1
      <3> HIDE DEF tb
      <3>3. tb >= 2 BY <1>1, <3>2
      <3> QED BY <2>2, <3>3 DEF tb
    <2>6. n * times' + current' = (n * times + current) * base + Char
      <3>1. current' = current * base + Char BY <1>0, TmpExact
      <3>2. n * (times * base) = (n * times) * base BY <1>1, <2>4
      <3>3. (n * times + current) * base = (n * times) * base + current * base
        BY <1>1, <2>4
      <3> DEFINE x == (n * times) * base
                 y == current * base
      <3>4. x \in Nat /\ y \in Nat BY <1>1, <2>4
      <3>5. n * times' + current' = x + (y + Char) BY <2>2, <3>1, <3>2
      <3>6. (n * times + current) * base + Char = (x + y) + Char BY <3>3
      <3> HIDE DEF x, y
      <3> QED BY <1>1, <3>4, <3>5, <3>6
    <2>7. (n * times' + current') % BigMod = value' % BigMod
      BY <1>0, <2>3, <2>6, OneMoreDigit
    <2>8. times' \in Int BY <1>2, Params DEF TypeOK
    <2>9. times' >= 1 /\ times' # 1 BY <2>5, <2>8
    <2> QED BY <2>7, <2>9
  <1>4. ResultExact' /\ StartEmpty'
    BY <1>0 DEF ResultExact, Converted, StartEmpty
  <1> QED BY <1>2, <1>3, <1>4 DEF IInv

\* A word moved into n.
LEMMA FlushIInv == ASSUME IInv, Flush PROVE IInv'
  <1>0. /\ TypeOK /\ IsDigit(base, Char) /\ pc = "digits"
        /\ n' = Moved /\ current' = Char /\ times' = base
        /\ value' = value * base + Char /\ i' = i + 1
        /\ UNCHANGED <<pc, str, base, exact, printed, ret>>
    BY DEF IInv, Flush
  <1>1. /\ base \in Nat /\ 1 < base /\ base < Double
        /\ Char \in Nat /\ Char < Word
    BY <1>0, DigitFacts
  <1>2. TypeOK'
    <2>1. current' \in 0 .. Word - 1 BY <1>0, <1>1, Params
    <2>2. times' \in 0 .. Double - 1 BY <1>0, <1>1, Params
    <2>3. value' \in Nat /\ i' \in Nat BY <1>0, <1>1 DEF TypeOK
    <2>4. n' \in 0 .. BigMod - 1 BY <1>0, MovedType
    <2> QED BY <1>0, <2>1, <2>2, <2>3, <2>4 DEF TypeOK
  <1>3. PrefixHeld'
    <2>1. SUFFICES ASSUME exact
                   PROVE /\ (n' * base + Char) % BigMod = value' % BigMod
                         /\ base >= 1
                         /\ base = 1 => Char = 0
      BY <1>0 DEF PrefixHeld
    <2>2. (n * times + current) % BigMod = value % BigMod
      BY <1>0, <2>1 DEF IInv, PrefixHeld
    <2> DEFINE a == n * times + current
    <2>3. a \in Nat /\ n' \in Nat BY <1>0, MovedType, Params DEF TypeOK
    <2>4. n' = a % BigMod /\ n' \in 0 .. BigMod - 1
      BY <1>0, MovedType DEF Moved
    <2> HIDE DEF a
    <2>5. n' % BigMod = a % BigMod
      <3>1. n' % BigMod = n' BY <2>4, Params, SmallRemainder
      <3> QED BY <2>4, <3>1
    <2>6. (n' * base + Char) % BigMod = (a * base + Char) % BigMod
      BY <1>1, <2>3, <2>5, AppendBig
    <2>7. (a * base + Char) % BigMod = (value * base + Char) % BigMod
      BY <1>0, <2>2, OneMoreDigit DEF a
    <2> QED BY <1>0, <1>1, <2>6, <2>7
  <1>4. ResultExact' /\ StartEmpty'
    BY <1>0 DEF ResultExact, Converted, StartEmpty
  <1> QED BY <1>2, <1>3, <1>4 DEF IInv

\* The answer.
LEMMA FinishIInv == ASSUME IInv, Finish PROVE IInv'
  <1>0. /\ TypeOK /\ pc = "digits" /\ pc' = "done"
        /\ n' = IF times > 1 THEN Moved ELSE n
        /\ ret' = Big(n')
        /\ UNCHANGED <<str, base, i, current, times, value, exact, printed>>
    BY DEF IInv, Finish
  <1>1. n' \in 0 .. BigMod - 1 BY <1>0, MovedType DEF TypeOK
  <1>2. TypeOK' BY <1>0, <1>1 DEF TypeOK, Big, Answer
  <1>3. PrefixHeld' /\ StartEmpty' BY <1>0 DEF PrefixHeld, StartEmpty
  <1>4. ResultExact'
    <2>1. SUFFICES ASSUME exact PROVE n' = value % BigMod
      BY <1>0 DEF ResultExact, Big, Answer
    <2>2. /\ (n * times + current) % BigMod = value % BigMod
          /\ times >= 1 /\ (times = 1 => current = 0)
      BY <1>0, <2>1 DEF IInv, PrefixHeld
    <2>3. CASE times > 1 BY <1>0, <2>2, <2>3 DEF Moved
    <2>4. CASE ~ (times > 1)
      <3>1. times = 1 /\ current = 0 BY <1>0, <2>2, <2>4 DEF TypeOK
      <3>2. n * 1 + 0 = n /\ n \in 0 .. BigMod - 1 BY <1>0, Params DEF TypeOK
      <3>3. n % BigMod = n BY <3>2, Params, SmallRemainder
      <3> QED BY <1>0, <2>2, <2>4, <3>1, <3>2, <3>3
    <2> QED BY <2>3, <2>4
  <1> QED BY <1>2, <1>3, <1>4 DEF IInv

\* The calls that convert no string, and the errors.
LEMMA OthersIInv ==
  ASSUME IInv, ToBigBadBase \/ FixnumToBig \/ InvalidCharacter PROVE IInv'
  <1>1. CASE ToBigBadBase \/ InvalidCharacter
    <2>1. /\ pc' = "done" /\ ret' = ArgumentError
          /\ UNCHANGED <<str, base, i, current, times, n, value, exact, printed>>
      BY <1>1 DEF ToBigBadBase, InvalidCharacter
    <2>2. ret' = [kind |-> "ArgumentError", big |-> 0]
      BY <2>1 DEF ArgumentError, Answer
    <2>3. ret' \in [kind : {"none", "ArgumentError", "big"}, big : 0 .. BigMod - 1]
      BY <2>2, Params
    <2>4. TypeOK' BY <2>1, <2>3 DEF IInv, TypeOK
    <2> QED BY <2>1, <2>2, <2>4 DEF IInv, PrefixHeld, ResultExact, Converted,
            StartEmpty
  <1>2. CASE FixnumToBig
    <2>1. PICK v \in Fixnums : ret' = Big(v % Double)
      BY <1>2 DEF FixnumToBig
    <2>2. v % Double \in 0 .. BigMod - 1
      <3>1. v \in Int BY WidthAssumption
      <3> QED BY <3>1, Params
    <2>3. TypeOK' BY <1>2, <2>1, <2>2 DEF FixnumToBig, IInv, TypeOK, Big, Answer
    <2> QED BY <1>2, <2>3 DEF FixnumToBig, IInv, PrefixHeld, ResultExact,
            Converted, StartEmpty
  <1> QED BY <1>1, <1>2

-----------------------------------------------------------------------------
(* The powers of Hex.                                                      *)

\* A set of naturals that is not empty has a smallest element.
LEMMA Smallest ==
  ASSUME NEW S, S \subseteq Nat, S # {}
  PROVE  \E x \in S : \A y \in S : x <= y
  <1> DEFINE R == OpToRel(<, Nat)
  <1>1. IsWellFoundedOn(R, Nat) BY NatLessThanWellFounded
  <1> HIDE DEF R
  <1>2. PICK x \in S : \A y \in S : ~ (<<y, x>> \in R)
    BY <1>1, WFMin
  <1>3. \A y \in S : x <= y
    <2> SUFFICES ASSUME NEW y \in S PROVE x <= y OBVIOUS
    <2>1. ~ (<<y, x>> \in R) BY <1>2
    <2>2. x \in Nat /\ y \in Nat BY <1>2
    <2>3. y < x => <<y, x>> \in R BY <2>2 DEF R, OpToRel
    <2> QED BY <2>1, <2>2, <2>3
  <1> QED BY <1>2, <1>3

\* f holds the powers up to N.
PowersTo(f, N) == /\ f \in [0 .. N -> Nat]
                  /\ f[0] = 1
                  /\ \A k \in 0 .. N : k < N => f[k + 1] = Hex * f[k]

\* There is such a function for every N: the smallest N without one would
\* have a predecessor with one.
LEMMA PowersExist == \A N \in Nat : \E f : PowersTo(f, N)
  <1> DEFINE S == {N \in Nat : ~ \E f : PowersTo(f, N)}
  <1> SUFFICES ASSUME S # {} PROVE FALSE
    BY Zenon
  <1>1. PICK m \in S : \A y \in S : m <= y BY Smallest
  <1>2. m \in Nat /\ ~ \E f : PowersTo(f, m) BY <1>1
  <1>3. CASE m = 0
    <2> DEFINE f == [k \in 0 .. 0 |-> 1]
    <2>1. PowersTo(f, 0) BY DEF PowersTo
    <2> QED BY <1>2, <1>3, <2>1
  <1>4. CASE m > 0
    <2>1. m - 1 \in Nat /\ ~ (m <= m - 1) BY <1>2, <1>4
    <2>2. m - 1 \notin S BY <1>1, <2>1
    <2>3. PICK g : PowersTo(g, m - 1) BY <2>1, <2>2
    <2> DEFINE f == [k \in 0 .. m |-> IF k = m THEN Hex * g[m - 1] ELSE g[k]]
    <2>4. g \in [0 .. m - 1 -> Nat] /\ g[0] = 1 BY <2>3 DEF PowersTo
    <2>5. m - 1 \in 0 .. m - 1 BY <1>2, <1>4
    <2>6. f \in [0 .. m -> Nat]
      <3> SUFFICES ASSUME NEW k \in 0 .. m
                   PROVE (IF k = m THEN Hex * g[m - 1] ELSE g[k]) \in Nat
        OBVIOUS
      <3>1. Hex * g[m - 1] \in Nat BY <2>4, <2>5, Params
      <3>2. k # m => g[k] \in Nat BY <1>2, <2>4
      <3> QED BY <3>1, <3>2
    <2>7. f[0] = 1 BY <1>2, <1>4, <2>4
    <2>8. ASSUME NEW k \in 0 .. m, k < m PROVE f[k + 1] = Hex * f[k]
      <3>1. f[k] = g[k] BY <1>2, <2>8
      <3>2. CASE k = m - 1 BY <1>2, <3>1, <3>2
      <3>3. CASE k < m - 1
        <4>1. k \in 0 .. m - 1 /\ k + 1 \in 0 .. m /\ k + 1 # m
          BY <1>2, <3>3
        <4>2. g[k + 1] = Hex * g[k] BY <2>3, <3>3, <4>1 DEF PowersTo
        <4>3. f[k + 1] = g[k + 1] BY <4>1
        <4> QED BY <3>1, <4>2, <4>3
      <3> QED BY <1>2, <2>8, <3>2, <3>3
    <2>9. PowersTo(f, m)
      <3> HIDE DEF f
      <3> QED BY <2>6, <2>7, <2>8 DEF PowersTo
    <2> QED BY <1>2, <2>9
  <1> QED BY <1>2, <1>3, <1>4

\* Two of them agree where both are defined.
LEMMA PowersAgree ==
  ASSUME NEW N \in Nat, NEW M \in Nat, NEW f, NEW g, NEW k \in Nat,
         PowersTo(f, N), PowersTo(g, M), k <= N, k <= M
  PROVE  f[k] = g[k]
  <1> DEFINE S == {j \in Nat : j <= N /\ j <= M /\ f[j] # g[j]}
  <1> SUFFICES ASSUME S # {} PROVE FALSE
    OBVIOUS
  <1>1. PICK m \in S : \A y \in S : m <= y BY Smallest
  <1>2. m \in Nat /\ m <= N /\ m <= M /\ f[m] # g[m] BY <1>1
  <1>3. m # 0 BY <1>2 DEF PowersTo
  <1>4. m - 1 \in Nat /\ ~ (m <= m - 1) BY <1>2, <1>3
  <1>5. f[m - 1] = g[m - 1] BY <1>1, <1>2, <1>4
  <1> DEFINE j == m - 1
  <1>6. /\ j \in 0 .. N /\ j < N /\ j \in 0 .. M /\ j < M /\ j + 1 = m
    BY <1>2, <1>4
  <1>7. f[j + 1] = Hex * f[j] BY <1>6 DEF PowersTo
  <1>8. g[j + 1] = Hex * g[j] BY <1>6 DEF PowersTo
  <1> QED BY <1>2, <1>5, <1>6, <1>7, <1>8

\* The recursive definition of Power has a solution, so Power is one.
LEMMA PowerLaw == /\ Power \in [Nat -> Nat]
                  /\ Power[0] = 1
                  /\ \A k \in Nat : Power[k + 1] = Hex * Power[k]
  <1> DEFINE to == [k \in Nat |-> CHOOSE f : PowersTo(f, k)]
             h == [k \in Nat |-> to[k][k]]
  <1>1. \A k \in Nat : PowersTo(to[k], k) BY PowersExist, Zenon
  <1> HIDE DEF to
  <1>2. h \in [Nat -> Nat]
    <2> SUFFICES ASSUME NEW k \in Nat PROVE to[k][k] \in Nat OBVIOUS
    <2>1. to[k] \in [0 .. k -> Nat] BY <1>1 DEF PowersTo
    <2> QED BY <2>1
  <1>3. h[0] = 1 BY <1>1 DEF PowersTo
  <1>4. ASSUME NEW k \in Nat PROVE h[k + 1] = Hex * h[k]
    <2>1. PowersTo(to[k], k) /\ PowersTo(to[k + 1], k + 1) /\ k + 1 \in Nat
      BY <1>1
    <2>2. to[k + 1][k] = to[k][k] BY <2>1, PowersAgree
    <2>3. to[k + 1][k + 1] = Hex * to[k + 1][k]
      BY <2>1 DEF PowersTo
    <2> QED BY <2>1, <2>2, <2>3
  <1> HIDE DEF h
  <1>5. h = [k \in Nat |-> IF k = 0 THEN 1 ELSE Hex * h[k - 1]]
    <2> DEFINE r == [k \in Nat |-> IF k = 0 THEN 1 ELSE Hex * h[k - 1]]
    <2>1. ASSUME NEW k \in Nat PROVE h[k] = r[k]
      <3>1. CASE k = 0 BY <1>3, <3>1
      <3>2. CASE k # 0
        <4>1. k - 1 \in Nat /\ (k - 1) + 1 = k BY <3>2
        <4>2. h[(k - 1) + 1] = Hex * h[k - 1] BY <1>4, <4>1
        <4> QED BY <3>2, <4>1, <4>2
      <3> QED BY <3>1, <3>2
    <2> QED BY <1>2, <2>1
  <1>6. Power = [k \in Nat |-> IF k = 0 THEN 1 ELSE Hex * Power[k - 1]]
    BY <1>5, Zenon DEF Power
  <1> DEFINE P == Power
  <1>7. P = [k \in Nat |-> IF k = 0 THEN 1 ELSE Hex * P[k - 1]]
    BY <1>6
  <1> HIDE DEF P
  <1>8. P[0] = 1 /\ \A k \in Nat : P[k + 1] = Hex * P[k]
    <2>1. P[0] = 1 BY <1>7
    <2>2. ASSUME NEW k \in Nat PROVE P[k + 1] = Hex * P[k]
      <3>1. k + 1 \in Nat /\ k + 1 # 0 /\ (k + 1) - 1 = k OBVIOUS
      <3> QED BY <1>7, <3>1
    <2> QED BY <2>1, <2>2
  <1>9. \A k \in Nat : P[k] \in Nat
    <2> DEFINE S == {k \in Nat : P[k] \notin Nat}
    <2> SUFFICES ASSUME S # {} PROVE FALSE OBVIOUS
    <2>1. PICK m \in S : \A y \in S : m <= y BY Smallest
    <2>2. m \in Nat /\ P[m] \notin Nat BY <2>1
    <2>3. m # 0 BY <1>8, <2>2
    <2>4. m - 1 \in Nat /\ ~ (m <= m - 1) /\ (m - 1) + 1 = m BY <2>2, <2>3
    <2>5. P[m - 1] \in Nat BY <2>1, <2>4
    <2>6. P[m] = Hex * P[m - 1] BY <1>8, <2>4
    <2> QED BY <2>2, <2>5, <2>6, Params
  <1>10. P \in [Nat -> Nat] BY <1>7, <1>9
  <1> QED BY <1>8, <1>10 DEF P

\* They grow, faster than their exponents.
LEMMA PowerGrows ==
  \A k \in Nat : Power[k] \in Nat /\ k < Power[k]
  <1> DEFINE S == {k \in Nat : ~ (k < Power[k])}
  <1>1. \A k \in Nat : Power[k] \in Nat BY PowerLaw
  <1>2. ASSUME S # {} PROVE FALSE
    <2>1. PICK m \in S : \A y \in S : m <= y BY <1>2, Smallest
    <2>2. m \in Nat /\ ~ (m < Power[m]) BY <2>1
    <2>3. m # 0 BY <2>2, PowerLaw
    <2>4. m - 1 \in Nat /\ ~ (m <= m - 1) /\ (m - 1) + 1 = m BY <2>2, <2>3
    <2>5. m - 1 < Power[m - 1] BY <2>1, <2>4
    <2> DEFINE x == Power[m - 1]
    <2>6. Power[m] = Hex * x /\ x \in Nat BY <1>1, <2>4, PowerLaw
    <2>7. m - 1 < x BY <2>5
    <2> HIDE DEF x
    <2>8. Hex >= 2 /\ Hex \in Nat BY Params
    <2>9. Hex * x >= 2 * x BY <2>6, <2>8
    <2> DEFINE y == Hex * x
    <2>10. y \in Nat /\ y >= 2 * x /\ Power[m] = y BY <2>6, <2>8, <2>9
    <2> HIDE DEF y
    <2> QED BY <2>2, <2>3, <2>6, <2>7, <2>10
  <1> QED BY <1>1, <1>2

LEMMA PowerMonotone ==
  ASSUME NEW a \in Nat, NEW b \in Nat, a <= b
  PROVE  Power[a] <= Power[b]
  <1> DEFINE S == {k \in Nat : a <= k /\ ~ (Power[a] <= Power[k])}
  <1>1. \A k \in Nat : Power[k] \in Nat BY PowerLaw
  <1> SUFFICES ASSUME S # {} PROVE FALSE BY <1>1
  <1>2. PICK m \in S : \A y \in S : m <= y BY Smallest
  <1>3. m \in Nat /\ a <= m /\ ~ (Power[a] <= Power[m]) BY <1>2
  <1>4. m # a BY <1>1, <1>3
  <1>5. m - 1 \in Nat /\ ~ (m <= m - 1) /\ (m - 1) + 1 = m /\ a <= m - 1
    BY <1>3, <1>4
  <1>6. Power[a] <= Power[m - 1] BY <1>2, <1>5
  <1> DEFINE x == Power[m - 1]
             y == Power[a]
  <1>7. Power[m] = Hex * x /\ x \in Nat /\ y \in Nat /\ y <= x
    BY <1>1, <1>5, <1>6, PowerLaw
  <1>8. ~ (y <= Power[m]) BY <1>3
  <1> HIDE DEF x, y
  <1>9. Hex * x >= x BY <1>7, Params
  <1> DEFINE z == Hex * x
  <1>10. z \in Nat /\ z >= x /\ ~ (y <= z) BY <1>7, <1>8, <1>9, Params
  <1> HIDE DEF z
  <1> QED BY <1>7, <1>10

-----------------------------------------------------------------------------
(* Short strings.                                                          *)

\* Behind ShortIsExact: `times' is the weight of at most the digits read.
ShortHeld == /\ Len(str) \in Nat
             /\ pc = "digits" => i <= Len(str)
             /\ Power[Len(str)] < Double =>
                  exact /\ (pc = "digits" => times <= Power[i])

\* to_s writes the prefix and as many digits as the number has.
LEMMA PrintedFacts ==
  ASSUME NEW w \in 0 .. BigMod - 1
  PROVE  \E k \in 1 .. BigMod :
           /\ Len(Printed(w)) = k + 2
           /\ Printed(w)[1] = 0 /\ Printed(w)[2] = X
           /\ \A j \in 1 .. k : Printed(w)[j + 2] = (w \div Power[k - j]) % Hex
           /\ w < Power[k]
  <1> DEFINE Q(k) == /\ w < Power[k]
                     /\ k = 1 \/ Power[k - 1] <= w
             S == {k \in Nat : 1 <= k /\ w < Power[k]}
  <1>0. w \in Nat /\ w < BigMod /\ BigMod \in Nat BY Params
  <1>1. w + 1 \in S
    <2>1. w + 1 \in Nat /\ w + 1 < Power[w + 1] /\ Power[w + 1] \in Nat
      BY <1>0, PowerGrows
    <2> QED BY <1>0, <2>1
  <1>2. PICK m \in S : \A y \in S : m <= y BY <1>1, Smallest
  <1>3. m \in 1 .. BigMod BY <1>0, <1>1, <1>2
  <1>4. Q(m)
    <2>1. w < Power[m] BY <1>2
    <2>2. CASE m # 1
      <3>1. m - 1 \in Nat /\ 1 <= m - 1 /\ ~ (m <= m - 1) BY <1>3, <2>2
      <3>2. ~ (w < Power[m - 1]) BY <1>2, <3>1
      <3>3. Power[m - 1] \in Nat BY <3>1, PowerGrows
      <3> QED BY <1>0, <2>1, <3>2, <3>3
    <2> QED BY <2>1, <2>2
  <1> DEFINE k == CHOOSE k \in 1 .. BigMod : Q(k)
             digits == [j \in 1 .. k |-> (w \div Power[k - j]) % Hex]
  <1>5. k \in 1 .. BigMod /\ Q(k) BY <1>3, <1>4, Zenon
  <1>6. Printed(w) = <<0, X>> \o digits BY Zenon DEF Printed
  <1>7. k \in Nat /\ 1 <= k BY <1>0, <1>5
  <1>w. w < Power[k] BY <1>5
  <1> HIDE DEF k
  <1>8. digits \in Seq(Int) /\ Len(digits) = k
    <2>1. ASSUME NEW j \in 1 .. k PROVE (w \div Power[k - j]) % Hex \in Int
      <3>1. k - j \in Nat BY <1>7
      <3>2. Power[k - j] \in Nat /\ Power[k - j] > 0 BY <3>1, PowerGrows
      <3>3. w \div Power[k - j] \in Int BY <1>0, <3>2
      <3> QED BY <3>3, Params
    <2> QED BY <1>7, <2>1
  <1>9. <<0, X>> \in Seq(Int) BY Params DEF X
  <1>10. ASSUME NEW j \in 1 .. k
         PROVE  Printed(w)[j + 2] = (w \div Power[k - j]) % Hex
    <2>1. digits[j] = (w \div Power[k - j]) % Hex OBVIOUS
    <2> HIDE DEF digits
    <2>2. (<<0, X>> \o digits)[j + 2] = digits[j] BY <1>7, <1>8, <1>9
    <2> QED BY <1>6, <2>1, <2>2
  <1> HIDE DEF digits
  <1>11. /\ Len(Printed(w)) = k + 2
         /\ Printed(w)[1] = 0 /\ Printed(w)[2] = X
    BY <1>6, <1>7, <1>8, <1>9
  <1> QED BY <1>5, <1>10, <1>11, <1>w

\* The loop begins behind the prefix, or at the first character.
LEMMA BeginShort ==
  ASSUME NEW t, NEW b, NEW from, Begin(t, b, from), Len(t) \in Nat
  PROVE  ShortHeld'
  <1>1. /\ pc' = "digits" /\ str' = t /\ times' = 1 /\ exact' = TRUE
        /\ i' = IF Prefixed(t) THEN 2 ELSE 0
    BY DEF Begin
  <1>2. i' \in Nat /\ i' <= Len(t) BY <1>1 DEF Prefixed
  <1>3. 1 <= Power[i'] BY <1>2, PowerGrows
  <1> QED BY <1>1, <1>2, <1>3 DEF ShortHeld

\* One digit more: the weight grows by the base, the power by Hex.
LEMMA DigitShort ==
  ASSUME IInv, ShortHeld, Accumulate \/ Flush
  PROVE  ShortHeld'
  <1>1. /\ TypeOK /\ IsDigit(base, Char) /\ pc = "digits" /\ i < Len(str)
        /\ i' = i + 1 /\ UNCHANGED <<pc, str, base>>
    BY DEF IInv, Accumulate, Flush
  <1>2. /\ base \in Nat /\ 1 < base /\ base <= Hex /\ Hex \in Nat
        /\ i \in Nat /\ Len(str) \in Nat /\ times \in Nat /\ Double \in Nat
    BY <1>1, DigitFacts, Params DEF TypeOK, ShortHeld
  <1>3. i' \in Nat /\ i' <= Len(str) BY <1>1, <1>2
  <1> DEFINE p == Power[i]
             q == Power[i + 1]
             l == Power[Len(str)]
  <1>4. p \in Nat /\ 1 <= p /\ q = Hex * p /\ q \in Nat /\ l \in Nat
    <2>1. p \in Nat /\ i < p /\ l \in Nat BY <1>2, PowerGrows
    <2>2. q = Hex * p BY <1>2, PowerLaw
    <2>3. i + 1 \in Nat BY <1>2
    <2>4. q \in Nat BY <2>3, PowerGrows
    <2> QED BY <1>2, <2>1, <2>2, <2>4
  <1>5. q <= l BY <1>1, <1>2, <1>3, PowerMonotone
  <1>6. Hex <= q BY <1>2, <1>4
  <1> SUFFICES ASSUME l < Double PROVE exact' /\ times' <= q
    BY <1>1, <1>3 DEF ShortHeld
  <1>7. exact /\ times <= p BY <1>1 DEF ShortHeld
  <1> HIDE DEF p, q, l
  <1>8. CASE Accumulate
    <2>1. times' = Scaled /\ exact' = (exact /\ Scaled = times * base)
      BY <1>8 DEF Accumulate
    <2>2. times * base <= p * base BY <1>2, <1>4, <1>7
    <2>3. p * base <= p * Hex BY <1>2, <1>4
    <2>4. p * Hex = Hex * p BY <1>2, <1>4
    <2> DEFINE x == times * base
               y == p * base
    <2>5. x \in Nat /\ y \in Nat /\ x <= y /\ y <= q
      BY <1>2, <1>4, <2>2, <2>3, <2>4
    <2>6. Scaled = x % Double BY DEF Scaled
    <2> HIDE DEF x, y
    <2>7. x <= q /\ x < Double BY <1>2, <1>4, <1>5, <2>5
    <2>8. x % Double = x BY <1>2, <2>5, <2>7, SmallRemainder
    <2> QED BY <1>7, <2>1, <2>6, <2>7, <2>8 DEF x
  <1>9. CASE Flush
    <2>1. times' = base /\ exact' = exact BY <1>9 DEF Flush
    <2> QED BY <1>2, <1>4, <1>6, <1>7, <2>1
  <1> QED BY <1>8, <1>9

\* Every step.
LEMMA NextShort ==
  ASSUME IInv, ShortHeld, [Next]_vars PROVE ShortHeld'
  <1>1. CASE ToBig
    <2>1. PICK t \in BoundedSeq(Chars, MaxChars), b \in Bases : Begin(t, b, -1)
      BY <1>1 DEF ToBig
    <2>2. PICK m \in 0 .. MaxChars : t \in [1 .. m -> Chars]
      BY DEF BoundedSeq, SeqOf
    <2>3. m \in Nat BY WidthAssumption
    <2>4. Len(t) = m BY <2>2, <2>3
    <2> QED BY <2>1, <2>3, <2>4, BeginShort
  <1>2. CASE PrintAndRead
    <2>1. ret.big \in 0 .. BigMod - 1 BY DEF IInv, TypeOK
    <2>2. Len(Printed(ret.big)) \in Nat BY <2>1, PrintedFacts, Params
    <2> QED BY <1>2, <2>2, BeginShort DEF PrintAndRead
  <1>3. CASE Accumulate \/ Flush BY <1>3, DigitShort
  <1>4. CASE Finish \/ ToBigBadBase \/ FixnumToBig \/ InvalidCharacter
    <2>1. pc' = "done" /\ UNCHANGED <<str, i, times, exact>>
      BY <1>4 DEF Finish, ToBigBadBase, FixnumToBig, InvalidCharacter
    <2> QED BY <2>1 DEF ShortHeld
  <1>5. CASE UNCHANGED vars BY <1>5 DEF vars, ShortHeld
  <1> QED BY <1>1, <1>2, <1>3, <1>4, <1>5 DEF Next

-----------------------------------------------------------------------------
(* What to_s gives is read back.                                           *)

\* Behind PrintedExactly: the digits read are the upper digits of `printed'.
PrintedExactly ==
  (pc = "done" /\ printed >= 0 /\ exact) => ret = Big(printed)

PrintHeld ==
  /\ pc = "start" => printed = -1
  /\ (pc = "digits" /\ printed >= 0) =>
       /\ str = Printed(printed) /\ base = Hex
       /\ i >= 2
       /\ value = printed \div Power[Len(str) - i]
  /\ PrintedExactly

\* The quotient is unique.
LEMMA QuotientUnique ==
  ASSUME NEW m \in Nat, m > 0, NEW q \in Int, NEW r \in 0 .. m - 1
  PROVE  (m * q + r) \div m = q
  <1> DEFINE a == m * q + r
             d == a \div m
  <1>1. a \in Int OBVIOUS
  <1>2. a % m = r BY RemainderUnique
  <1>3. d \in Int /\ a = m * d + r BY <1>1, <1>2, Division
  <1>4. m * q = m * d
    <2> DEFINE u == m * q
               z == m * d
    <2>1. u \in Int /\ z \in Int /\ u + r = z + r BY <1>3
    <2> HIDE DEF u, z
    <2> QED BY <2>1
  <1> HIDE DEF d
  <1>5. m * (q - d) = 0 BY <1>3, <1>4
  <1>6. q - d \in Int BY <1>3
  <1> DEFINE e == q - d
  <1>7. e \in Int /\ m * e = 0 BY <1>5, <1>6
  <1> HIDE DEF e
  <1>8. e = 0 BY <1>7, SmallMultiple
  <1> QED BY <1>3, <1>8 DEF e, d, a

\* The digit of weight p, behind those of a larger weight.
LEMMA DigitBehind ==
  ASSUME NEW w \in Nat, NEW p \in Nat, p > 0
  PROVE  (w \div (Hex * p)) * Hex + ((w \div p) % Hex) = w \div p
  <1>h. Hex \in Nat /\ Hex > 0 BY Params
  <1> DEFINE q == w \div p
             r == w % p
             u == q \div Hex
             c == q % Hex
  <1>1. r \in 0 .. p - 1 /\ q \in Int /\ w = p * q + r BY Division
  <1> HIDE DEF q, r
  <1>2. c \in 0 .. Hex - 1 /\ u \in Int /\ q = Hex * u + c
    BY <1>h, <1>1, Division
  <1> HIDE DEF u, c
  <1>3. w = (Hex * p) * u + (p * c + r)
    <2>1. p * q = p * (Hex * u) + p * c BY <1>h, <1>2
    <2>2. p * (Hex * u) = (Hex * p) * u BY <1>h, <1>2
    <2> DEFINE x == (Hex * p) * u
               y == p * c
    <2>3. x \in Int /\ y \in Int /\ w = (x + y) + r
      BY <1>h, <1>1, <1>2, <2>1, <2>2
    <2> HIDE DEF x, y
    <2>4. w = x + (y + r) BY <1>1, <2>3
    <2> QED BY <2>4 DEF x, y
  <1>4. p * c + r \in 0 .. Hex * p - 1
    <2>1. c \in Nat /\ c <= Hex - 1 BY <1>h, <1>2
    <2>2. p * c <= p * (Hex - 1) BY <1>h, <2>1
    <2>3. p * (Hex - 1) = Hex * p - p BY <1>h
    <2> DEFINE x == p * c
               y == Hex * p
    <2>4. x \in Nat /\ y \in Nat /\ x <= y - p BY <1>h, <2>1, <2>2, <2>3
    <2> HIDE DEF x, y
    <2>5. x + r \in 0 .. y - 1 BY <1>1, <2>4
    <2> QED BY <2>5 DEF x, y
  <1>5. Hex * p \in Nat /\ Hex * p > 0 BY <1>h
  <1> DEFINE m == Hex * p
             t == p * c + r
  <1>6. m \in Nat /\ m > 0 /\ t \in 0 .. m - 1 /\ w = m * u + t
    BY <1>3, <1>4, <1>5
  <1> HIDE DEF m, t
  <1>7. w \div m = u BY <1>2, <1>6, QuotientUnique
  <1>8. (w \div (Hex * p)) = u BY <1>7 DEF m
  <1>9. u * Hex + c = q BY <1>h, <1>2
  <1> QED BY <1>8, <1>9 DEF q, c

\* What was printed begins with its prefix, and nothing of it is read yet.
LEMMA BeginPrint ==
  ASSUME NEW w \in 0 .. BigMod - 1, Begin(Printed(w), Decimal, w)
  PROVE  PrintHeld'
  <1>1. PICK k \in 1 .. BigMod : /\ Len(Printed(w)) = k + 2
                                 /\ Printed(w)[1] = 0 /\ Printed(w)[2] = X
                                 /\ w < Power[k]
    BY PrintedFacts
  <1>2. k \in Nat /\ w \in Nat /\ Power[k] \in Nat BY Params, PowerGrows
  <1>3. Prefixed(Printed(w)) BY <1>1, <1>2 DEF Prefixed
  <1>4. /\ pc' = "digits" /\ str' = Printed(w) /\ base' = Hex /\ i' = 2
        /\ value' = 0 /\ printed' = w
    BY <1>3 DEF Begin
  <1>5. Len(str') - i' = k BY <1>1, <1>2, <1>4
  <1>6. w \div Power[k] = 0
    <2> DEFINE p == Power[k]
    <2>1. p \in Nat /\ w < p BY <1>1, <1>2
    <2> HIDE DEF p
    <2>2. p * 0 + w = w /\ w \in 0 .. p - 1 /\ p > 0 BY <1>2, <2>1
    <2>3. (p * 0 + w) \div p = 0 BY <2>1, <2>2, QuotientUnique
    <2> QED BY <2>2, <2>3 DEF p
  <1> QED BY <1>4, <1>5, <1>6 DEF PrintHeld, PrintedExactly

\* The next character of what was printed is the next digit.
LEMMA NextPrinted ==
  ASSUME IInv, ShortHeld, PrintHeld, pc = "digits", printed >= 0, i < Len(str)
  PROVE  /\ Char \in 0 .. Hex - 1
         /\ value * Hex + Char = printed \div Power[Len(str) - (i + 1)]
  <1>1. printed \in 0 .. BigMod - 1 BY DEF IInv, TypeOK
  <1>2. PICK k \in 1 .. BigMod :
          /\ Len(Printed(printed)) = k + 2
          /\ \A j \in 1 .. k : Printed(printed)[j + 2]
                                 = (printed \div Power[k - j]) % Hex
    BY <1>1, PrintedFacts
  <1>3. /\ str = Printed(printed) /\ i >= 2 /\ i \in Nat
        /\ value = printed \div Power[Len(str) - i]
        /\ k \in Nat /\ printed \in Nat
    BY <1>1, Params DEF PrintHeld, IInv, TypeOK
  <1> DEFINE j == i - 1
  <1>4. j \in 1 .. k /\ k - j \in Nat /\ j + 2 = i + 1 BY <1>2, <1>3
  <1>5. Len(str) - i = (k - j) + 1 /\ Len(str) - (i + 1) = k - j
    BY <1>2, <1>3
  <1> HIDE DEF j
  <1> DEFINE p == Power[k - j]
  <1>6. Power[(k - j) + 1] = Hex * p /\ p \in Nat /\ p > 0
    <2>1. p \in Nat /\ k - j < p BY <1>4, PowerGrows
    <2>2. Power[(k - j) + 1] = Hex * p BY <1>4, PowerLaw
    <2> QED BY <1>4, <2>1, <2>2
  <1>7. Char = (printed \div p) % Hex BY <1>2, <1>3, <1>4 DEF Char
  <1>8. value = printed \div (Hex * p) BY <1>3, <1>5, <1>6
  <1>9. Len(str) - (i + 1) = k - j BY <1>5
  <1>10. printed \div Power[Len(str) - (i + 1)] = printed \div p BY <1>9
  <1> HIDE DEF p
  <1>11. value * Hex + Char = printed \div p
    <2>1. (printed \div (Hex * p)) * Hex + ((printed \div p) % Hex)
            = printed \div p
      BY <1>3, <1>6, DigitBehind
    <2> QED BY <1>7, <1>8, <2>1
  <1>12. Char \in 0 .. Hex - 1
    <2>1. printed \div p \in Int BY <1>3, <1>6
    <2> QED BY <1>7, <2>1, Params
  <1> QED BY <1>10, <1>11, <1>12

\* The digits of the loop.
LEMMA DigitPrint ==
  ASSUME IInv, ShortHeld, PrintHeld, Accumulate \/ Flush
  PROVE  PrintHeld'
  <1>1. /\ pc = "digits" /\ i < Len(str) /\ i \in Nat
        /\ i' = i + 1 /\ value' = value * base + Char
        /\ UNCHANGED <<pc, str, base, printed>>
    BY DEF IInv, TypeOK, Accumulate, Flush
  <1>2. ASSUME printed >= 0
        PROVE  /\ str = Printed(printed) /\ base = Hex /\ i + 1 >= 2
               /\ value' = printed \div Power[Len(str) - (i + 1)]
    <2>1. str = Printed(printed) /\ base = Hex /\ i >= 2
      BY <1>1, <1>2 DEF PrintHeld
    <2> QED BY <1>1, <1>2, <2>1, NextPrinted
  <1> QED BY <1>1, <1>2 DEF PrintHeld, PrintedExactly

\* The answer.
LEMMA FinishPrint ==
  ASSUME IInv, ShortHeld, PrintHeld, Finish PROVE PrintHeld'
  <1>1. /\ pc = "digits" /\ i = Len(str) /\ pc' = "done"
        /\ ret' = Big(n')
        /\ UNCHANGED <<str, base, i, value, exact, printed>>
    BY DEF Finish
  <1>2. IInv' BY FinishIInv
  <1> SUFFICES ASSUME printed >= 0, exact PROVE ret' = Big(printed)
    BY <1>1 DEF PrintHeld, PrintedExactly
  <1>3. printed \in 0 .. BigMod - 1 /\ i \in Nat BY DEF IInv, TypeOK
  <1>4. value = printed
    <2>1. value = printed \div Power[0] BY <1>1, <1>3 DEF PrintHeld
    <2>2. Power[0] = 1 /\ printed \in Nat BY <1>3, PowerLaw, Params
    <2>3. printed \div 1 = printed BY <2>2
    <2> QED BY <2>1, <2>2, <2>3
  <1>5. str' # <<>> /\ ret'.kind = "big" /\ ret'.big = n'
    <2>1. Len(str) # 0 BY <1>1, <1>3 DEF PrintHeld
    <2> QED BY <1>1, <2>1 DEF Big, Answer
  <1>6. ret'.big = value % BigMod
    BY <1>1, <1>2, <1>5 DEF IInv, ResultExact, Converted
  <1>7. value % BigMod = printed BY <1>3, <1>4, Params, SmallRemainder
  <1> QED BY <1>1, <1>5, <1>6, <1>7

\* Every step: no character of what was printed is refused.
LEMMA NextPrint ==
  ASSUME IInv, ShortHeld, PrintHeld, [Next]_vars PROVE PrintHeld'
  <1>1. CASE ToBig
    <2>1. pc' = "digits" /\ printed' = -1 BY <1>1 DEF ToBig, Begin
    <2> QED BY <2>1 DEF PrintHeld, PrintedExactly
  <1>2. CASE PrintAndRead
    <2>1. ret.big \in 0 .. BigMod - 1 BY DEF IInv, TypeOK
    <2> QED BY <1>2, <2>1, BeginPrint DEF PrintAndRead
  <1>3. CASE Accumulate \/ Flush BY <1>3, DigitPrint
  <1>4. CASE Finish BY <1>4, FinishPrint
  <1>5. CASE ToBigBadBase \/ FixnumToBig
    <2>1. pc = "start" /\ pc' = "done" /\ printed' = printed
      BY <1>5 DEF ToBigBadBase, FixnumToBig
    <2>2. printed' = -1 BY <2>1 DEF PrintHeld
    <2> QED BY <2>1, <2>2 DEF PrintHeld, PrintedExactly
  <1>6. CASE InvalidCharacter
    <2>1. /\ pc = "digits" /\ i < Len(str) /\ ~ IsDigit(base, Char)
          /\ pc' = "done" /\ printed' = printed
      BY <1>6 DEF InvalidCharacter
    <2>2. CASE printed >= 0
      <3>1. Char \in 0 .. Hex - 1 BY <2>1, <2>2, NextPrinted
      <3>2. base = Hex BY <2>1, <2>2 DEF PrintHeld
      <3> QED BY <2>1, <3>1, <3>2 DEF IsDigit
    <2>3. CASE ~ (printed >= 0)
      BY <2>1, <2>3 DEF PrintHeld, PrintedExactly
    <2> QED BY <2>2, <2>3
  <1>7. CASE UNCHANGED vars BY <1>7 DEF vars, PrintHeld, PrintedExactly
  <1> QED BY <1>1, <1>2, <1>3, <1>4, <1>5, <1>6, <1>7 DEF Next

-----------------------------------------------------------------------------
(* The theorems.                                                           *)

\* IInv holds in every reachable state, whatever the strings (string_to_big,
\* tiny_bignum_gem.c:52-98).
THEOREM Invariant == Spec => []IInv
  <1>1. Init => IInv BY InitIInv
  <1>2. IInv /\ [Next]_vars => IInv'
    <2> SUFFICES ASSUME IInv, [Next]_vars PROVE IInv'
      OBVIOUS
    <2>1. CASE ToBig BY <2>1, BeginIInv DEF ToBig
    <2>2. CASE PrintAndRead
      <3>1. ret.big \in 0 .. BigMod - 1 BY DEF IInv, TypeOK
      <3> QED BY <2>2, <3>1, BeginIInv DEF PrintAndRead
    <2>3. CASE Accumulate BY <2>3, AccumulateIInv
    <2>4. CASE Flush BY <2>4, FlushIInv
    <2>5. CASE Finish BY <2>5, FinishIInv
    <2>6. CASE ToBigBadBase \/ FixnumToBig \/ InvalidCharacter
      BY <2>6, OthersIInv
    <2>7. CASE UNCHANGED vars
      BY <2>7 DEF vars, IInv, TypeOK, PrefixHeld, ResultExact, Converted,
         StartEmpty
    <2> QED BY <2>1, <2>2, <2>3, <2>4, <2>5, <2>6, <2>7 DEF Next
  <1> QED BY <1>1, <1>2, PTL DEF Spec

\* `current' never outgrows a word, so that the DTYPE_TMP `tmp' is exact
\* (tiny_bignum_gem.c:77-78).
THEOREM TypeCorrect == Spec => []TypeOK
  <1>1. IInv => TypeOK BY DEF IInv
  <1> QED BY <1>1, Invariant, PTL

\* n, times and current make the number read so far, until `times' loses a bit.
THEOREM PrefixTheorem == Spec => []PrefixHeld
  <1>1. IInv => PrefixHeld BY DEF IInv
  <1> QED BY <1>1, Invariant, PTL

\* to_big answers the number its string writes, unless `times' lost a bit.
THEOREM ResultTheorem == Spec => []ResultExact
  <1>1. IInv => ResultExact BY DEF IInv
  <1> QED BY <1>1, Invariant, PTL

\* The two invariants hold beside IInv.
THEOREM ReadingInvariant == Spec => [](ShortHeld /\ PrintHeld)
  <1>1. Init => ShortHeld /\ PrintHeld
    <2>1. Len(<<>>) = 0 /\ 0 \in Nat OBVIOUS
    <2> QED BY <2>1 DEF Init, ShortHeld, PrintHeld, PrintedExactly
  <1>2. IInv /\ ShortHeld /\ PrintHeld /\ [Next]_vars
          => ShortHeld' /\ PrintHeld'
    BY NextShort, NextPrint
  <1> QED BY <1>1, <1>2, Invariant, PTL DEF Spec

\* A string with fewer digits than a DTYPE_TMP holds never makes `times' wrap
\* (tiny_bignum_gem.c:87).
THEOREM ShortTheorem == Spec => []ShortIsExact
  <1>1. ShortHeld => ShortIsExact BY DEF ShortHeld, ShortIsExact
  <1> QED BY <1>1, ReadingInvariant, PTL

\* to_big of what to_s gave is the bignum again, if its print is shorter than
\* the digits of a DTYPE_TMP or `times' lost no bit over it
\* (tiny_bignum_gem.c:87,100-120).
THEOREM PrintTheorem == Spec => []PrintedIsRead
  <1>1. ShortHeld /\ PrintHeld => PrintedIsRead
    BY DEF ShortHeld, PrintHeld, PrintedExactly, PrintedIsRead
  <1> QED BY <1>1, ReadingInvariant, PTL

-----------------------------------------------------------------------------
(* How long a conversion can take.                                         *)

\* A turn of the loop is within the string and leaves less of it, whatever the
\* width of `times'; no other call begins before the loop is left, and it is
\* left at the end of the string or at a character that is no digit
\* (tiny_bignum_gem.c:74-89).
THEOREM ReadingShortens ==
  Spec => [][pc = "digits" => \/ pc' = "done" /\ (i < Len(str) => ret' = ArgumentError)
                              \/ /\ pc' = "digits" /\ str' = str
                                 /\ Len(str) - i' \in Nat
                                 /\ Len(str) - i' < Len(str) - i]_vars
  <1> DEFINE Shortens ==
               pc = "digits" => \/ pc' = "done" /\ (i < Len(str) => ret' = ArgumentError)
                                \/ /\ pc' = "digits" /\ str' = str
                                   /\ Len(str) - i' \in Nat
                                   /\ Len(str) - i' < Len(str) - i
  <1>1. IInv /\ ShortHeld /\ [Next]_vars => [Shortens]_vars
    <2> SUFFICES ASSUME IInv, ShortHeld, Next, pc = "digits" PROVE Shortens
      OBVIOUS
    <2>1. Accumulate \/ Flush \/ InvalidCharacter \/ Finish
      BY DEF Next, ToBig, ToBigBadBase, PrintAndRead, FixnumToBig
    <2>2. CASE Accumulate \/ Flush
      <3>1. /\ pc' = "digits" /\ str' = str /\ i' = i + 1 /\ i < Len(str)
            /\ i \in Nat /\ Len(str) \in Nat
        BY <2>2 DEF Accumulate, Flush, IInv, TypeOK, ShortHeld
      <3>2. Len(str) - (i + 1) \in Nat /\ Len(str) - (i + 1) < Len(str) - i BY <3>1
      <3> QED BY <3>1, <3>2
    <2>3. CASE InvalidCharacter BY <2>3 DEF InvalidCharacter
    <2>4. CASE Finish
      <3>1. pc' = "done" /\ i = Len(str) /\ i \in Nat
        BY <2>4 DEF Finish, IInv, TypeOK
      <3> QED BY <3>1
    <2> QED BY <2>1, <2>2, <2>3, <2>4
  <1>2. Spec => [][Shortens]_vars BY <1>1, Invariant, ReadingInvariant, PTL DEF Spec
  <1> QED BY <1>2
=============================================================================
