---------------------------- MODULE StringToBig ----------------------------
(***************************************************************************)
(* String#to_big of tiny_bignum_gem.c: the digits are gathered in `current' *)
(* while it fits a word and moved to the bignum n a word at a time; `times' *)
(* is the weight that n has to be moved by.  Integer#to_big makes a bignum  *)
(* in one go, and TinyBignum#to_s writes one, so that what a contract       *)
(* prints can be read back.                                                 *)
(*                                                                         *)
(* A character is known by its value as a digit; X stands for the `x' of a  *)
(* prefix, which is no digit.  The bignum library (external) computes       *)
(* modulo BigMod.  A conversion shares nothing with another, so one is      *)
(* followed, and then those of what its answer prints.                      *)
(***************************************************************************)
EXTENDS Integers, Sequences, SequencesExt

CONSTANTS Decimal, Hex,   \* 10 and 16
          Word,           \* MAX_VAL + 1, the modulus of a word of a bignum
          Double,         \* modulus of DTYPE_TMP, which `times' is one of
          BigMod,         \* modulus of a bignum
          Bases,          \* the arguments of to_big, bad ones too
          Fixnums,        \* the integers converted
          MaxChars        \* bound: the longest string a contract makes itself

ASSUME BaseAssumption == /\ Decimal \in Nat /\ Hex \in Nat
                         /\ 1 < Decimal /\ Decimal < Hex /\ Hex <= Word
                         /\ Bases \subseteq Int

ASSUME WidthAssumption == /\ Word \in Nat /\ Double \in Nat /\ BigMod \in Nat
                          /\ Word * Hex <= Double /\ Double <= BigMod
                          /\ Fixnums \subseteq Int /\ MaxChars \in Nat

VARIABLES pc,             \* "start", "digits" inside the loop, "done"
          str, base, i,   \* the string, the base that counts, the loop index
          current, times, \* as in string_to_big
          n,              \* the bignum
          value,          \* history: the number the digits read so far make
          exact,          \* history: `times' never lost a bit
          printed,        \* history: the bignum that str was printed from
          ret             \* the answer of the last call

vars == <<pc, str, base, i, current, times, n, value, exact, printed, ret>>

X == Hex

\* The digits 0 .. Hex - 1, the `x', and any other character.
Chars == 0 .. Hex + 1

-----------------------------------------------------------------------------

Answer(kind, big) == [kind |-> kind, big |-> big]

NoAnswer == Answer("none", 0)
ArgumentError == Answer("ArgumentError", 0)
Big(v) == Answer("big", v)

\* A prefix makes the base hexadecimal whatever the argument says.
Prefixed(s) == Len(s) >= 2 /\ s[1] = 0 /\ s[2] = X

\* Mutant: the upper half of the hexadecimal digits refused.
IsDigitDecimalOnly(b, ch) == ch \in 0 .. Decimal - 1

\* get_value: a digit of the base, or an ArgumentError.
IsDigit(b, ch) == ch \in 0 .. b - 1

\* Mutant: n moved by one digit only.
MovedByBase == (n * base + current) % BigMod

\* bignum_mul and bignum_add: n moved to the left, the digits of current in.
Moved == (n * times + current) % BigMod

Tmp(ch) == (current * base + ch) % Double

\* Mutant: the comparison with MAX_VAL off by one.
FitsWordOrOne(t) == t <= Word

FitsWord(t) == t < Word

\* Mutant: `times' wraps a word too early.
ScaledToWord == (times * base) % Word

Scaled == (times * base) % Double

-----------------------------------------------------------------------------

Init == /\ pc = "start"
        /\ str = <<>> /\ base = Decimal /\ i = 0
        /\ current = 0 /\ times = 1 /\ n = 0
        /\ value = 0 /\ exact = TRUE /\ printed = -1
        /\ ret = NoAnswer

\* to_big up to its loop.
Begin(s, b, from) ==
  /\ b \in {Decimal, Hex}
  /\ pc' = "digits"
  /\ str' = s
  /\ base' = IF Prefixed(s) THEN Hex ELSE b
  /\ i' = IF Prefixed(s) THEN 2 ELSE 0
  /\ current' = 0 /\ times' = 1 /\ n' = 0
  /\ value' = 0 /\ exact' = TRUE /\ printed' = from
  /\ ret' = NoAnswer

ToBig == /\ pc = "start"
         /\ \E s \in BoundedSeq(Chars, MaxChars), b \in Bases : Begin(s, b, -1)

\* Another base: nothing is read.
ToBigBadBase == /\ pc = "start"
                /\ Bases \ {Decimal, Hex} # {}
                /\ pc' = "done"
                /\ ret' = ArgumentError
                /\ UNCHANGED <<str, base, i, current, times, n,
                               value, exact, printed>>

Char == str[i + 1]

\* One turn of the loop: a digit that fits the word ...
Accumulate ==
  /\ pc = "digits" /\ i < Len(str) /\ IsDigit(base, Char)
  /\ FitsWord(Tmp(Char))
  /\ current' = Tmp(Char)
  /\ times' = Scaled
  /\ exact' = (exact /\ Scaled = times * base)
  /\ value' = value * base + Char
  /\ i' = i + 1
  /\ UNCHANGED <<pc, str, base, n, printed, ret>>

\* ... one that does not ...
Flush ==
  /\ pc = "digits" /\ i < Len(str) /\ IsDigit(base, Char)
  /\ ~ FitsWord(Tmp(Char))
  /\ n' = Moved
  /\ current' = Char
  /\ times' = base
  /\ value' = value * base + Char
  /\ i' = i + 1
  /\ UNCHANGED <<pc, str, base, exact, printed, ret>>

\* ... and a character that is none.
InvalidCharacter ==
  /\ pc = "digits" /\ i < Len(str) /\ ~ IsDigit(base, Char)
  /\ pc' = "done"
  /\ ret' = ArgumentError
  /\ UNCHANGED <<str, base, i, current, times, n, value, exact, printed>>

\* Mutant: the zeros at the end lost.
FinishIfCurrent ==
  /\ pc = "digits" /\ i = Len(str)
  /\ pc' = "done"
  /\ n' = IF current > 0 THEN Moved ELSE n
  /\ ret' = Big(n')
  /\ UNCHANGED <<str, base, i, current, times, value, exact, printed>>

\* The rest of the digits: none were read since the last move when times = 1.
Finish ==
  /\ pc = "digits" /\ i = Len(str)
  /\ pc' = "done"
  /\ n' = IF times > 1 THEN Moved ELSE n
  /\ ret' = Big(n')
  /\ UNCHANGED <<str, base, i, current, times, value, exact, printed>>

\* Integer#to_big: the fixnum as a DTYPE_TMP.
FixnumToBig ==
  /\ pc = "start"
  /\ pc' = "done"
  /\ \E v \in Fixnums : ret' = Big(v % Double)
  /\ UNCHANGED <<str, base, i, current, times, n, value, exact, printed>>

\* The powers of Hex: the weights of the digits.  (A function of its own,
\* since the provers have no definition of ^.)
Power[k \in Nat] == IF k = 0 THEN 1 ELSE Hex * Power[k - 1]

\* TinyBignum#to_s: "0x" and the digits without leading zeros, at least one.
Printed(v) ==
  LET k == CHOOSE k \in 1 .. BigMod : /\ v < Power[k]
                                      /\ k = 1 \/ Power[k - 1] <= v
  IN  <<0, X>> \o [j \in 1 .. k |-> (v \div Power[k - j]) % Hex]

\* to_s and to_big of what it gave.
PrintAndRead == /\ pc = "done"
                /\ ret.kind = "big"
                /\ Begin(Printed(ret.big), Decimal, ret.big)

Next == \/ ToBig \/ ToBigBadBase \/ PrintAndRead \/ FixnumToBig
        \/ Accumulate \/ Flush \/ InvalidCharacter \/ Finish

Spec == Init /\ [][Next]_vars

-----------------------------------------------------------------------------
(* Properties.                                                             *)

\* The type invariant: `current' fits a word and `times' a DTYPE_TMP, so the
\* sum `tmp' is exact (tiny_bignum_gem.c:77).
TypeOK == /\ pc \in {"start", "digits", "done"}
          /\ base \in {Decimal, Hex}
          /\ i \in Nat
          /\ current \in 0 .. Word - 1
          /\ times \in 0 .. Double - 1
          /\ n \in 0 .. BigMod - 1
          /\ value \in Nat
          /\ exact \in BOOLEAN
          /\ printed \in {-1} \cup 0 .. BigMod - 1
          /\ ret \in [kind : {"none", "ArgumentError", "big"}, big : 0 .. BigMod - 1]

\* While `times' has its bits, n and current make the number read so far.
PrefixHeld == (pc = "digits" /\ exact) =>
                /\ (n * times + current) % BigMod = value % BigMod
                /\ times >= 1
                /\ times = 1 => current = 0

Converted == pc = "done" /\ str # <<>> /\ ret.kind = "big"

\* to_big gives the number that its string writes, modulo the width of a
\* bignum, as long as no run of zeros pushed `times' out of its width.
ResultExact == Converted /\ exact => ret.big = value % BigMod

\* A string of fewer digits than a DTYPE_TMP holds is always converted exactly.
ShortIsExact == Power[Len(str)] < Double => exact

\* to_big of what to_s gave is the bignum again, if its print is shorter than
\* the digits of a DTYPE_TMP or no run of zeros in it pushed `times' out: not
\* of 1 << 200, which EveryStringExact is about (tiny_bignum_gem.c:87,112).
PrintedIsRead ==
  (pc = "done" /\ printed >= 0 /\ (exact \/ Power[Len(str)] < Double))
    => ret = Big(printed)

StartEmpty == pc = "start" => str = <<>>

\* The inductive invariant behind ResultExact.
IInv == TypeOK /\ PrefixHeld /\ ResultExact /\ StartEmpty

\* What to_big accepts it converts: a string is the number it writes or an
\* "invalid character" (tiny_bignum_gem.c:39).
EveryStringExact == Converted => ret.big = value % BigMod
=============================================================================
