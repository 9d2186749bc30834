------------------------------ MODULE TinyBignum ----------------------------
(***************************************************************************)
(* The objects of class TinyBignum and their operators (tiny_bignum_gem.c). *)
(* An object points to a `struct bn' that it owns; what an operator answers *)
(* is a new object with a struct of its own, which the garbage collector    *)
(* frees with it.  TinyBignum.new and dup make an object without a struct,  *)
(* because only the functions of the gem set DATA_PTR.                      *)
(*                                                                          *)
(* The bignum library (external) computes modulo BigMod and leaves its      *)
(* operands alone; a null pointer, a zero divisor or a negative count is    *)
(* undefined: the program stops, or some number comes out.  Both sorts of   *)
(* memory are bounded, and running out of either is a NoMemoryError.        *)
(***************************************************************************)
EXTENDS Integers, FiniteSets

CONSTANTS BigMod,            \* modulus of a bignum
          IntMod,            \* modulus of an int, which may be narrower than an mrb_int
          Counts,            \* the shift counts that a contract uses
          MaxObjects,        \* objects that fit the heap
          MaxBlocks,         \* structs that fit the memory
          MaxExact,          \* bound of the history variable `exact' of an object
          Library(_, _, _)   \* what the library answers for the other operators

ASSUME SizeAssumption == /\ BigMod \in Nat \ {0} /\ IntMod \in Nat \ {0}
                         /\ MaxObjects \in Nat /\ MaxBlocks \in Nat
                         /\ MaxExact \in Nat /\ BigMod <= MaxExact
                         /\ Counts \subseteq Int

Values == 0 .. BigMod - 1

ASSUME LibraryAssumption ==
         /\ \A op \in {"/", "%", "&", "|", "^", "**", "isqrt"} :
              \A a, b \in Values : Library(op, a, b) \in Values
         /\ \A a \in Values, n \in 0 .. IntMod : Library(">>", a, n) \in Values

VARIABLES obj,     \* the heap: for each slot the object there
          block,   \* the structs: for each the number, or Unused
          lost,    \* history: structs that no object got
          ret      \* the answer of the last call

vars == <<obj, block, lost, ret>>

Obj == 1 .. MaxObjects
Ptr == 1 .. MaxBlocks
Null == 0
Unused == -1

\* exact is a history: the integer that the object stands for when +, -, *
\* and << do not wrap.
Object(kind, ptr, exact) == [kind |-> kind, ptr |-> ptr, exact |-> exact]

Free == Object("free", Null, 0)
Bare == Object("bare", Null, 0)   \* DATA_PTR is NULL, and so is DATA_TYPE

Live == {o \in Obj : obj[o].kind # "free"}
Bignum(o) == obj[o].kind = "big"
Value(o) == block[obj[o].ptr]

\* Any object that is no TinyBignum: an Integer, a String, nil.
Foreign == 0

\* Did the call return, raise (an ArgumentError, a TypeError or a
\* NoMemoryError) or stop the program, and if that is undefined, why?
Answer(kind, why) == [kind |-> kind, why |-> why]

Defined == "defined"
Raised == ret' = Answer("raised", Defined)

-----------------------------------------------------------------------------

Init == /\ obj = [o \in Obj |-> Free]
        /\ block = [p \in Ptr |-> Unused]
        /\ lost = 0
        /\ ret = Answer("returned", Defined)

FreeObjects == {o \in Obj : obj[o].kind = "free"}
FreeBlocks == {p \in Ptr : block[p] = Unused}

Least(S) == CHOOSE x \in S : \A y \in S : x <= y

Tracked(exact, v) == IF exact \in -MaxExact .. MaxExact THEN exact ELSE v

\* Mutant: the struct freed again although the object points to it.
MakeFreeing(v, exact, why) ==
  /\ FreeBlocks # {} /\ FreeObjects # {}
  /\ obj' = [obj EXCEPT ![Least(FreeObjects)] =
                           Object("big", Least(FreeBlocks), Tracked(exact, v))]
  /\ ret' = Answer("returned", why)
  /\ UNCHANGED <<block, lost>>

\* new_tiny_bignum_value: a struct, and an object that points to it.  When the
\* object cannot be made the struct stays behind.
Make(v, exact, why) ==
  \/ /\ FreeBlocks = {}
     /\ Raised
     /\ UNCHANGED <<obj, block, lost>>
  \/ /\ FreeBlocks # {}
     /\ block' = [block EXCEPT ![Least(FreeBlocks)] = v]
     /\ IF FreeObjects = {}
        THEN /\ Raised
             /\ lost' = lost + 1
             /\ UNCHANGED obj
        ELSE /\ obj' = [obj EXCEPT ![Least(FreeObjects)] =
                           Object("big", Least(FreeBlocks), Tracked(exact, v))]
             /\ ret' = Answer("returned", why)
             /\ UNCHANGED lost

Undefined(why) == \/ /\ ret' = Answer("stopped", why)
                     /\ UNCHANGED <<obj, block, lost>>
                  \/ \E v \in Values : Make(v, v, why)

Running == ret.kind # "stopped"

\* String#to_big and Integer#to_big (StringToBig), with what they answer.
Convert == Running /\ \E v \in Values : Make(v, v, Defined)

\* TinyBignum.new, and dup: mruby makes the object, without DATA_PTR.
New == /\ Running
       /\ FreeObjects # {}
       /\ obj' = [obj EXCEPT ![Least(FreeObjects)] = Bare]
       /\ ret' = Answer("returned", Defined)
       /\ UNCHANGED <<block, lost>>

\* Mutant: a type without a function that frees.
CollectObjectOnly(o) ==
  /\ Running
  /\ o \in Live
  /\ obj' = [obj EXCEPT ![o] = Free]
  /\ UNCHANGED <<block, lost, ret>>

\* The garbage collector frees an object that is not used any more, and its
\* struct by the mrb_free of tiny_bignum_state_type.
Collect(o) ==
  /\ Running
  /\ o \in Live
  /\ obj' = [obj EXCEPT ![o] = Free]
  /\ block' = IF Bignum(o) THEN [block EXCEPT ![obj[o].ptr] = Unused] ELSE block
  /\ UNCHANGED <<lost, ret>>

-----------------------------------------------------------------------------

\* mrb_type(other) and DATA_TYPE(other), the test of every binary operator.
IsBignum(other) == other # Foreign /\ Bignum(other)

Ring == {"+", "-", "*"}
Binary == Ring \cup {"/", "%", "&", "|", "^", "**"}

InRing(op, a, b) ==
  CASE op = "+" -> a + b [] op = "-" -> a - b [] op = "*" -> a * b

\* Mutant: the operands in the other order.
RingResultSwapped(op, a, b) == InRing(op, b, a) % BigMod

RingResult(op, a, b) == InRing(op, a, b) % BigMod

\* Mutant: the result written over self.
OperateInPlace(op, self, other) ==
  /\ block' = [block EXCEPT ![obj[self].ptr] =
                               RingResult("+", Value(self), Value(other))]
  /\ ret' = Answer("returned", Defined)
  /\ UNCHANGED <<obj, lost>>

\* self op other, which the library writes to `tmp'.
Operate(op, self, other) ==
  IF op \in Ring
  THEN Make(RingResult(op, Value(self), Value(other)),
            InRing(op, obj[self].exact, obj[other].exact), Defined)
  ELSE LET v == Library(op, Value(self), Value(other)) IN Make(v, v, Defined)

BinaryOp(op, self, other) ==
  /\ Running
  /\ self \in Live
  /\ \/ /\ ~ IsBignum(other)
        /\ Raised
        /\ UNCHANGED <<obj, block, lost>>
     \/ IsBignum(other) /\ ~ Bignum(self) /\ Undefined("self")
     \/ /\ IsBignum(other) /\ Bignum(self)
        /\ IF op \in {"/", "%"} /\ Value(other) = 0
           THEN Undefined("zero divisor")
           ELSE Operate(op, self, other)

Pow(self, other) == BinaryOp("**", self, other)

\* <=>: a fixnum.
Compare(self, other) ==
  /\ Running
  /\ self \in Live
  /\ \/ ~ IsBignum(other) /\ Raised
     \/ IsBignum(other) /\ Bignum(self) /\ ret' = Answer("returned", Defined)
     \/ /\ IsBignum(other) /\ ~ Bignum(self)
        /\ \E kind \in {"returned", "stopped"} : ret' = Answer(kind, "self")
  /\ UNCHANGED <<obj, block, lost>>

\* An mrb_int passed as an int.
Narrowed(n) == ((n + IntMod \div 2) % IntMod) - (IntMod \div 2)

Shifted(op, v, n) == IF op = "<<" THEN (v * 2 ^ n) % BigMod
                                  ELSE Library(">>", v, n)

Shift(op, self, bits) ==
  /\ Running
  /\ self \in Live
  /\ \/ bits < 0 /\ Raised /\ UNCHANGED <<obj, block, lost>>
     \/ bits >= 0 /\ ~ Bignum(self) /\ Undefined("self")
     \/ bits >= 0 /\ Bignum(self) /\ Narrowed(bits) < 0 /\ Undefined("count")
     \/ /\ bits >= 0 /\ Bignum(self) /\ Narrowed(bits) >= 0
        /\ LET v == Shifted(op, Value(self), Narrowed(bits))
           IN  IF op = "<<" /\ Narrowed(bits) = bits
               THEN Make(v, obj[self].exact * 2 ^ bits, Defined)
               ELSE Make(v, v, IF Narrowed(bits) = bits THEN Defined ELSE "count")

Isqrt(self) ==
  /\ Running
  /\ self \in Live
  /\ IF Bignum(self)
     THEN LET v == Library("isqrt", Value(self), 0) IN Make(v, v, Defined)
     ELSE Undefined("self")

\* Mutant: the object made points to the struct of self.
CloneShared(self) ==
  /\ Running
  /\ self \in Live /\ Bignum(self)
  /\ FreeObjects # {}
  /\ obj' = [obj EXCEPT ![Least(FreeObjects)] = obj[self]]
  /\ ret' = Answer("returned", Defined)
  /\ UNCHANGED <<block, lost>>

Clone(self) ==
  /\ Running
  /\ self \in Live
  /\ IF Bignum(self) THEN Make(Value(self), obj[self].exact, Defined)
                     ELSE Undefined("self")

\* to_big answers self.
ToBig(self) == /\ Running
               /\ self \in Live
               /\ ret' = Answer("returned", Defined)
               /\ UNCHANGED <<obj, block, lost>>

\* to_s asks for the type.
ToS(self) == /\ Running
             /\ self \in Live
             /\ ret' = Answer(IF Bignum(self) THEN "returned" ELSE "raised", Defined)
             /\ UNCHANGED <<obj, block, lost>>

Next ==
  \/ Convert \/ New
  \/ \E o \in Obj :
       \/ Collect(o) \/ Isqrt(o) \/ Clone(o) \/ ToBig(o) \/ ToS(o)
       \/ \E other \in Live \cup {Foreign} :
            \/ Compare(o, other) \/ Pow(o, other)
            \/ \E op \in Binary \ {"**"} : BinaryOp(op, o, other)
       \/ \E bits \in Counts, op \in {"<<", ">>"} : Shift(op, o, bits)

Spec == Init /\ [][Next]_vars

-----------------------------------------------------------------------------
(* Properties.                                                             *)

Bignums == {o \in Obj : Bignum(o)}

\* The type invariant: a bignum points to a struct in use, any other object
\* nowhere.
TypeOK ==
  /\ \A o \in Obj : \/ obj[o] \in {Free, Bare}
                    \/ /\ obj[o].kind = "big"
                       /\ obj[o].ptr \in Ptr
                       /\ obj[o].exact \in -MaxExact .. MaxExact
                       /\ Value(o) \in Values
  /\ DOMAIN obj = Obj
  /\ block \in [Ptr -> Values \cup {Unused}]
  /\ lost \in 0 .. MaxBlocks

\* No two objects own the same struct, so that none is freed twice or under
\* another object (tiny_bignum_gem.c:16-23).
NotShared == \A o, q \in Bignums : obj[o].ptr = obj[q].ptr => o = q

\* A struct in use has its object, but for those lost where mrb_malloc
\* succeeds and mrb_data_object_alloc fails (tiny_bignum_gem.c:18-22).
BlocksExact ==
  Cardinality({p \in Ptr : block[p] # Unused}) = Cardinality(Bignums) + lost

\* A bignum keeps its number as long as it lives, whatever is computed with it
\* and whatever else is collected.
ValuesNeverChange ==
  [][\A o \in Bignums : obj'[o] # Free => obj'[o] = obj[o] /\ Value(o)' = Value(o)]_vars

\* However +, -, *, <<, clone and conversions are chained, a bignum is the
\* integer they make modulo the width: wrapping early loses nothing.
ModularExact == \A o \in Bignums : Value(o) = obj[o].exact % BigMod

\* No null pointer reaches the library as self: "Operand is not TinyBignum
\* type!" (tiny_bignum_gem.c:131).
SelfAlwaysChecked == ret.why # "self"
=============================================================================
