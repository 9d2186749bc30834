# Verification of the CKB mruby contracts

`mruby-contracts` runs Ruby scripts as CKB contracts: a small program of `c/`
starts an mruby interpreter inside the CKB VM, the script reads the transaction
through the gem `mruby-ckb`, hashes with `mruby-blake2b`, checks signatures with
`mruby-secp256k1` and computes with `mruby-tiny-bignum`, and the exit code of the
program decides whether the transaction is valid.

This directory holds TLA+ modules of the parts that have state or an algorithm of
their own, TLC configurations that check them on small instances, and proofs that
TLAPS checks for every value of the constants. `PROJECT.json` lists the
components, runs, mutants, hazards, findings and theorems, and for each
definition the lines of `src/` that it stands for.

    tlc -workers 2 -config MCBlake2b.cfg MCBlake2b     # a run
    tlapm Blake2bProofs.tla                            # the proofs of a module

Paths below are relative to `src/`.

## The system

Everything is sequential: one contract, one interpreter, one thread, no storage
that outlives the run. What makes the code hard is not concurrency but long
sequences of calls on one object, boundaries of lengths and widths, the parts of
an operation that can fail after others were done, and return codes that nobody
looks at.

| component | state it keeps | operations | hard part |
|---|---|---|---|
| **Blake2b streaming hash**, `mruby-blake2b/src/blake2b.h` | chain value `h`, counter `t[2]`, flag `f[0]`, `buf`, `buflen`, `outlen` | `blake2b_init`, `blake2b_update`, `blake2b_final` | a full block must stay buffered until more bytes follow; the carry of the counter; the old bytes behind a short last block |
| **Blake2b binding**, `mruby_blake2b.c` | one `blake2b_state` per object | `initialize`, `update`, `final`, `outlen` | calls in any order: before `initialize`, after `final`, a second `initialize`; both -1 answers of the library are ignored; a length whose upper half is not initialised |
| **CKB::Reader**, `mruby-ckb/mrblib/ckb.rb`, `src/ckb.c:257-458` | the key of a reader (`@source`, `@index`, `@field`); between the syscalls of `readall`, its length | `initialize`, `exists?`, `length`, `read`, `readall`, `load_tx_hash`, `load_script_hash`, `debug` | `readall` is two syscalls; a length of 0 means "tell me the length"; bytes that nobody wrote behind a short load; a key that goes through three orders of its numbers on the way to the item, or was never set |
| **Syscalls, CKB VM**, `c/ckb_syscalls.h`, `c/ckb_consts.h` | none here (the kernel is outside the repository) | seven loads, `debug` | return codes |
| **Syscalls, host build**, `mruby-ckb/src/ckb_syscalls.c` | the files it opened | the same loads over files | no file is closed; `size - offset` wraps |
| **Protocol parsing**, `ckb.c:82-255` | the hash being filled, the loop over `args` | `CKB.parse_script`, `parse_header`, `parse_input` | fields that are absent; a document that fails in the middle; wide unsigned numbers |
| **FlatBuffers readers**, `flatbuffers_common_reader.h`, `protocol_reader.h` (generated) | none: pointers into the string | field, vector and root accessors | a vtable shorter than the schema, shared, or behind its table |
| **Bignum conversions**, `mruby-tiny-bignum/src/tiny_bignum_gem.c:28-120, 343-372` | in the loop of `string_to_big`: `n`, `current`, `times` | `String#to_big`, `Integer#to_big`, `TinyBignum#to_s` | a word flushed one digit before it overflows; the weight `times` in a fixed width |
| **Bignum operators**, same file, lines 122-341 | a bignum per object | `add` `sub` `mul` `div` `mod` `and` `or` `xor` `lshift` `rshift` `cmp` `pow` `isqrt` `clone` | who owns a struct; memory that runs out between the struct and its object; an object without data; narrowed shift counts |
| **Secp256k1 binding**, `mruby-secp256k1/src/secp256k1.c` | a curve context per call | `pubkey`, `sign`, `verify` | contexts that are not released; lengths that are not initialised |
| **Entry programs**, `c/entry.c`, `argv_entry.c`, `argv_source_entry.c` | the interpreter, `ARGV` | `main`, `custom_abort` | exit codes: 0 valid, -1 exception, -2 no arguments, 10 abort |
| **Build**, `build_config.rb`, `Makefile` | none | chooses the gems and one of the two syscall builds | |

How they interact: the entry program hands its arguments and the script to mruby
and turns an exception into the exit code -1. The script calls the gems, which do
not call each other; a result of one is a Ruby string that the script passes to
another (an item read with `CKB::Reader` is parsed with `CKB.parse_script`, or
hashed with `Blake2b`, and the hash is a message for `Secp256k1.verify`). The only
shared resource is the memory of the interpreter and, on the host build, the file
descriptors. No component schedules another and there are no callbacks but
`custom_abort`.

What makes each part correct:

* *Hash*: `final` gives the BLAKE2b digest of all the bytes `update` took since
  `initialize`, however the message was cut; these are the strings it was given, where
  an `mrb_int` fills a `size_t`.
* *Reader*: an answer depends on the item alone; a load stays inside its string;
  `readall` gives all of the item or says that there is none.
* *Parsing*: the hash has exactly what the document says, in every layout that
  the format allows, or the call raises.
* *Conversions*: `to_big` gives the number its string writes, `to_s` and
  `to_big` are inverse (neither holds once a run of zeros is too long for `times`).
* *Operators*: a number never changes once it is made, an object owns its struct
  alone, and a chain of operators gives the integer modulo the width.
* *Signatures*: an answer depends on the arguments alone; what `sign` made for a
  key, `verify` accepts for `pubkey` of it; a refusal of good arguments has its
  reason in the memory.
* *Entry*: exit code 0 exactly when the script ended without an exception, and for a
  lock only behind a signature that holds.

## Modules

| module | what it is |
|---|---|
| `Blake2bHash` | the promise of a hash object, with sequential BLAKE2b as reference definition |
| `Blake2b` | `blake2b.h` and `mruby_blake2b.c`; contains `Hash == INSTANCE Blake2bHash` |
| `Blake2bProofs` | its theorems |
| `ItemReader` | the promise of `CKB::Reader`: one indivisible step per call |
| `CkbReader` | `ckb.rb`, the `internal_read` functions, both builds of the syscalls; contains `Promise == INSTANCE ItemReader` |
| `CkbReaderProofs` | its theorems |
| `StringToBig` | the conversions between bignums, strings and integers |
| `StringToBigProofs` | its theorems |
| `FlatBuffer` | the accessors, and an external writer that lays tables out |
| `ProtocolSchema` | the tables of `protocol.fbs`, the documents and the answers; extends `FlatBuffer` |
| `DocumentParser` | the promise of a parse: a document goes in, its hash or one error comes out |
| `ProtocolParse` | the three parse functions; extends `ProtocolSchema`, contains `Parser == INSTANCE DocumentParser` |
| `ProtocolParseProofs` | its theorems |
| `TinyBignum` | the objects of class `TinyBignum`, their structs and their operators |
| `TinyBignumProofs` | its theorems |
| `ReaderRequest` | which item a reader asks for: `initialize`, the registers, the path of a file |
| `ReaderRequestProofs` | its theorems |
| `Curve` | the strings, calls and answers of the module `Secp256k1`, over an opaque curve |
| `SignatureScheme` | the promise of `Secp256k1`: an answer by the arguments alone |
| `Secp256k1` | `secp256k1.c`; contains `Scheme == INSTANCE SignatureScheme` |
| `Secp256k1Proofs` | its theorems |
| `Contract` | the three `main` functions around a script; contains `Secp == INSTANCE Secp256k1` |
| `ContractProofs` | its theorems; contains `Gem == INSTANCE Secp256k1Proofs` |
| `MC...` | the sets that the `.cfg` files give to the constants |

The definitions whose comment starts with "Mutant" are bugs somebody could write:
each property of a passing run is violated when one of them replaces the
definition behind it.

### Blake2b

`pc`, `outlen`, `h`, `t0`, `t1`, `f0`, `buf`, `buflen` are the fields of
`blake2b_state` and where the call is; `in` is the rest of the string of a running
update; `given` and `message` are history: the strings given to `update` since
`initialize`, and the bytes it took for them. They differ because the binding reads the
length with `"s"`, which writes an `mrb_int`, into a `size_t` that it never set
(`mruby_blake2b.c:33,36`): where the two have different widths, the upper half is whatever
the stack held. `UpperHalf` is the set of values it may have (`{0}` where an `mrb_int`
fills a `size_t`), and `Taken` the byte strings that such a length makes of a string: the
string itself, or the string and bytes behind it. `UpdateStrays` is a length with which
the library runs out of the memory. The compression
function is opaque: `h` is the *list of the inputs* it was given (block, counter,
last-block flag), so two digests are equal in the model exactly when the function
saw the same inputs, which is what a streaming hash has to get right.

`Initialize` / `InitializeRejected` are `mrb_blake2b_initialize` with a length that
`blake2b_init` takes or refuses. A refused one leaves memory that nobody wrote:
the phase `indeterminate`, in which `UseIndeterminate` allows any answer or a
crash. `UpdateBuffer`, `UpdateFill`, `UpdateBlock`, `UpdateRest` are the paths of
`blake2b_update`: a string that fits; the fill and its block; one turn of the
loop; the copy of the rest. `Final` and `FinalAgain` are the two paths of
`blake2b_final`. `UseBeforeInitialize` is the exception of `mrb_data_get_ptr`.

`Phase` maps a state to that of the promise, and `HashSpec` says that every
behaviour of the code is one of `Blake2bHash`: updates feed what they take to a message,
the steps inside an update stutter, the first `final` is the digest. With `UpperHalf = {0}`
that promise is the plain one: what is taken is what was given. `DigestCorrect` says both:
the digest is that of the bytes taken, and these are the strings given or longer by at
least one stray length.

### CkbReader

An item is `absent`, `missing` (its field is not there) or present with a
length; a byte string is where its bytes come from: `len` bytes, the first
`copied` of them those of the item from `from` on, the others never written.
`host`, which Init leaves open and no step changes, is the build. `FileLoad` has the wrapping difference, the `MIN`, the
`fseek` that refuses a negative offset and the `fread` that stops at the end;
`fds` counts the files, of which `fopen` gives `MaxFds` and then fails. `VMLoad` is
external and nondeterministic where `ckb.c` does not depend on it: an offset past
the end copies nothing or is an error of its own.

`Length` (`length`, `exists?`), `Read`, `LoadHash` are one syscall each;
`ReadAllLength` and `ReadAllRead` are the two of `readall`, and `l` is what it holds
in between. `ReaderSpec` says that both builds implement `ItemReader`: one step
per call, `ReadAllLength` a stutter unless it ends the call. `ItemReader` promises
nothing of a read past the end (unwritten bytes are visible there), nor of
`readall` of an item of no bytes; on the host build any call may also fail for
want of a file.

### StringToBig

`str`, `base`, `i`, `current`, `times`, `n` are the variables of `string_to_big`. A
character is its value as a digit; the `x` of a prefix is a value of its own.
`Accumulate`, `Flush`, `InvalidCharacter` are the branches of a turn of the loop,
`Finish` is what follows it, `ToBig` / `ToBigBadBase` are the entry,
`FixnumToBig` is `Integer#to_big`, `PrintAndRead` prints a bignum (`Printed`, from
`mrb_bignum_to_s`) and reads that string. `value` is history: the number that the
digits read so far make, in unbounded integers. `exact` is history too: `times`
has lost no bit in its width. The bignum library (a submodule) is external and
computes modulo `BigMod`.

### ProtocolParse and FlatBuffer

Memory is cells, one per vtable entry, offset, scalar, length, `H256` and
contents of a byte vector; pointers are numbers of cells and 0 is NULL.
`ReadVt`, `ScalarField`, `StructField`, `VectorField`, `TableField`,
`OffsetVecAt`, `AsRoot` are the generated accessors. `Written` is external: it is
the other side, which writes a document in one of the layouts that FlatBuffers
leaves open (a vtable trimmed after its last field, behind its table, or shared by
tables). `ParseScript`, `ParseInput`, `ParseHeader` list the fields in the order
in which `ckb.c` reads them, and each field is a step: `Scalar`, `HashField`,
`CellField` (`tx_hash` with its `index`), `BytesField`, `PushArg` / `ArgsDone` (the
loop over `args`), `Return`. A step that meets `Bytes` of another length than a
hash raises and drops what was read.

`DocumentParser` knows no bytes: `Expected` computes the answer from the document,
and `Reply` gives it in one step. `ParserSpec` says that `ProtocolParse`
implements it, liveness included: reading a field stutters, `Return` and the
error are the reply.

### TinyBignum

`obj` is the heap of mruby and `block` the memory of the structs; an object is
free, `bare` (made by `TinyBignum.new` or `dup`, with a null `DATA_PTR`) or a bignum
that points to its struct. `Make` is `new_tiny_bignum_value`: a struct first, the
object after it, either of which may find no memory; `lost` counts the structs that
stay behind when it is the object. `Collect` is the collector with the `mrb_free` of
`tiny_bignum_state_type`, at any time. `BinaryOp`, `Compare`, `Shift`, `Isqrt`, `Clone`,
`Pow`, `ToBig`, `ToS` are the functions of the gem with their tests; `Convert` stands for the
two conversions of `StringToBig`. `Undefined` is what the code leaves to a null
pointer, a zero divisor or a count that turned negative when an `mrb_int` was
passed as an `int`: the program stops, or any number comes out; `why` remembers
which. `BinaryOp` is the form of nine functions, `pow` the last of them. Ring operators and
shifts to the left are exact, the others are a parameter
(`Library`). `exact` in an object is history: the unbounded integer that a chain of
operators stands for.

### ReaderRequest

A reader is its four instance variables. `New` is `initialize` of its class in
`ckb.rb`: `Input` and `Header` have none, so their variables stay nil, which
`mrb_fixnum` reads as some number (`NilNumber`, external). `Ask...` are the three ways
to call `internal_read`: from `length`, from `read`, and directly with one argument,
which leaves the offset as it was (`Junk`). `Request` is what a build makes of it,
`Registers` in the order of `ckb_syscalls.h` and `Path` in the order in which
`ckb_syscalls.c` prints a file name. `KernelFinds` and `FileFinds` are external: the
item that the kernel, or a reader of the test data, takes such a request for. What is then done with the
item is `CkbReader`, whose items this module tells apart.

### Secp256k1

A byte string is what it encodes, and a signature verifies for the key and the
message it was made from (`Curve`). `pc` is the next call of the library in the
function that runs, `point` and `sig` are its locals, `held` the contexts that
nobody released, `lost` (history) the calls that ended without releasing theirs.
`CheckLengths`, `Initialize` / `InitializeFails`, `Create` or `Sign` / `NotAScalar`,
`Serialize`; `ParsePubKey`, `ParseSignature`, `Verify`: each is one library call with
its error path, and `Raise` is `mrb_raise` behind `context_initialize`. `Seen` is a
length as C finds it: `mrb_get_args` fills an `mrb_int`, and `pubkey` and `sign` hand
it a `size_t` that they never set (`IntFillsSize` says whether it is filled).

`SignatureScheme` promises an answer by the arguments alone, lets a call take a
part of the memory for good, except a `verify` that answers, and allows a refusal
of good arguments or the end of the program only without memory (or, for
`pubkey` and `sign`, where an `mrb_int` is narrower). `SchemeSpec` says that
`Secp256k1` implements it, with the promise that every call ends.

### Contract

`program` is one of the three `main` functions (the `Makefile` builds two of them, `Loaders`;
no rule builds `entry.c`, which expects its script as a symbol `code`), `script` what it loads, `argv` its
arguments. `TooFewArguments`, `Open`, `PushArgument` (the loop that fills `ARGV`, each
argument cut at its first NUL), `Load`, `Report` follow the code; `OutOfMemory` is
what no line handles. The script is external and arbitrary: it calls the gem
(`CallGem`, then `GemStep`s, which are the steps of `Secp256k1`), raises, rescues,
ends. A `guarded` one is a lock: it rescues nothing and ends only behind a `verify`
that was true. `custom_abort` inside of a gem is the exit code 10 in the two
programs that define it.

## Runs

| run | properties | what it shows |
|---|---|---|
| `blake2b` | `TypeOK`, `BytesAccounted`, `CounterExact`, `DigestCorrect`, `HashSpec`, `UpdateEnds` | the digest is that of the whole message for every way to cut one of up to four blocks, with every order of calls and with the upper half of a length clear or set, the object implements `Blake2bHash`, and every update returns |
| `blake2b_final_twice` (violation) | `FinalIsDigest` | the second `final` answers unwritten bytes |
| `reader` | `TypeOK`, `CopyFits`, `UnwrittenOnlyPastEnd`, `IndexErrorExplained`, `ReadAllWhole`, `ReaderSpec` | no overrun, whole items, explained errors, one step per call; over both builds |
| `reader_leak` (violation) | `IndexErrorMeansAbsent` | without a descriptor left, an item that is there is "Index out of bound!" |
| `request` | `TypeOK`, `OwnItem` | a reader of a class with an `initialize` of its own asks for the item it was made for; over both builds |
| `string_to_big` | `TypeOK`, `PrefixHeld`, `ResultExact`, `ShortIsExact`, `PrintedIsRead` | the number that is written, by a contract or by `to_s`, is read as long as `times` keeps its bits, which a string shorter than a `DTYPE_TMP` cannot make it lose |
| `string_to_big_zeros` (violation) | `EveryStringExact` | a run of zeros makes `times` wrap and digits disappear |
| `protocol_parse` | `TypeOK`, `ParsedExact`, `ParserSpec` | the hash is the document in every layout, an error for `Bytes` that are not as long as a hash and only for them; a parse can be taken for one step, and ends |
| `tiny_bignum` | `TypeOK`, `NotShared`, `BlocksExact`, `ModularExact`, `ValuesNeverChange` | structs have one owner, numbers never change, chains of operators are exact modulo the width, through every failure of the memory |
| `tiny_bignum_bare` (violation) | `SelfAlwaysChecked` | an operator of an object that `TinyBignum.new` made follows a null pointer |
| `secp256k1` | `TypeOK`, `HeldExact`, `AbortNeedsLeaks`, `NeverWrong`, `SchemeSpec` | every call ends, answered as promised or refused, and never wrongly; only lost contexts abort the program |
| `contract` | `TypeOK`, `ZeroMeansEnded`, `ArgvExact`, `OnlySigned` | `ARGV` is what was given, from its place on; a lock exits with 0 only behind a signature that holds, whatever the gem refuses and however the memory ends |

A run asks as much of its instance as fits it: both builds of the syscalls are
initial states of one run, and safety, refinement and liveness of a component are
checked over one state space.

### Bounds, and why they are enough

* *Blake2b*: blocks of two bytes of two values, a counter word of three values,
  strings of up to five bytes, messages of up to eight, an `mrb_int` of six values and an
  upper half of 0 or 1, so that a stray length adds six bytes. That is up to four blocks, so
  the loop of one update turns more than once, messages end inside and at the end
  of a block, and the low word of the counter wraps within a message (block size
  and modulus are coprime, so the carry meets different remainders). Digest
  lengths -1, 0, 2, 3 are below, at, inside and above the range. The proofs remove
  all of these bounds except the width of the counter: `MaxMessage < Word * Word`
  stands for the 2^128 bytes past which BLAKE2b itself is not defined.
* *CkbReader*: two items and a hash, a `size_t` of 16 values, items of up to
  three bytes, offsets and lengths negative, inside, at and past the end; on the
  host build three files, so that every call, and either syscall of `readall`,
  can be the one that gets no file. Two items are enough because an answer
  depends on one item and the number of open files. Proved for all values.
* *StringToBig*: bases 3 and 4 for 10 and 16, words of two digits, a `DTYPE_TMP`
  of two words, a bignum of five digits, every string of up to six characters, bad
  ones included. There are strings with several flushes, strings that wrap a
  bignum, and strings whose zeros wrap `times`. The invariants are proved for all
  widths and lengths.
* *ProtocolParse*: up to two `Bytes` in a vector (none, one, two of equal and
  different shape), all subsets of the fields of a script and an input, headers
  that have or lack up to two of their 13 fields;
  scalars that are all 0 or all different, the later ones past the largest signed
  number. The fields of a header are read one after the other and one field's slot
  depends on how many fields lie before it, so gaps of up to two fields, and a
  document of up to two fields, meet every distance between a slot and its cell
  that a vtable of 13 can be wrong about by one. Proved for vectors and scalars of
  any size.
* *TinyBignum*: two bits and three objects, so that an operator can have both
  operands and its answer live, and three structs, so that losing one is followed
  by running out of them. Shift counts are negative, small, past the width of a
  number and past that of an `int`. Proved for any number of objects and structs and
  any width.
* *ReaderRequest*: two readers, two indexes that are also the numbers of a source
  and of nil, all sources, all fields: every mix-up of two numbers meets a pair of
  items that it confuses. Proved for all sets of indexes.
* *Secp256k1*: two keys and two messages, for a signature of the wrong key and of the
  wrong message; three contexts, so that a leak is seen twice before it is fatal.
  The run takes an `mrb_int` that is narrower than a `size_t`, where every behaviour
  of the other width happens too; `contract` runs over the same.
  Proved for all sets and sizes.
* *Contract*: up to three arguments with and without a NUL, so that `ARGV` has none,
  one or two elements; three calls and rescues with memory for two contexts, so that
  the third call can abort. Proved for any number of arguments and moves.

`CHECK_DEADLOCK FALSE` is used where the system stops: a contract whose hash
object or bignum took it down or that exited, one conversion and one parse
followed to their end, a contract that was aborted. The readers never stop, and
their runs check for deadlock.

### Fairness

The code schedules nothing: a C function that was called runs on, because there is
one thread and it waits for nobody. So the fairness assumed is weak fairness of the
steps *inside* a call, and never of the contract, which calls when it likes and may
stop calling:

* `Blake2b` (`LiveSpec`): `UpdateBlock` and `UpdateRest`, the loop and the copy of
  `blake2b_update`. `UpdateEnds` says that a call of update returns.
* `ProtocolParse`: the steps behind `Call`, for `ParserSpec`.
* `Secp256k1`: `Step`, all of it but `Begin`, for `SchemeSpec`.

`StringToBig` and `Contract` state no liveness: a `for` loop over a string and the
straight line of a `main` end by their shape (what bounds them is proved, see "How long
things take").

Without the fairness each of these properties is violated by a program that just
stops.

## What is proved

Every theorem holds for all values of the constants that the named assumptions
allow.

**Blake2bProofs** (`ParameterAssumption`, `LengthAssumption`, `CounterAssumption`: a block
is not empty and fits a counter word, the length of a string is an `mrb_int`, the upper
half of a `size_t` may be any set of numbers with 0, and a message is shorter than the
counter's range).
The property of interest, `DigestCorrect`, is not inductive: it speaks of the
answer only. `IInv` adds what `final` relies on: every byte taken is in a compressed
block, in the buffer or still to come, and a call does not end with an empty buffer
behind a message (`BytesAccounted`); the counter is the number of bytes
compressed (`CounterExact`); chain, buffer and rest are the message in order
(`MessageHeld`); the message is the strings given, or longer by a stray length
(`TakenAsGiven`); an open object has no digest pending (`AnswerFresh`). Each step
preserves `IInv`, one step of the proof per action; `IncrementCounter` is a lemma
on the carry, and block positions are lemmas on `Len(h) * BlockBytes`. Theorems:
`Invariant`, `TypeCorrect`, `NoByteLost`, `CounterCorrect`, `OrderKept`, `DigestTheorem`, and
`Refinement` (`Spec => HashSpec`), which maps each action to one of `Blake2bHash`
or a stutter. Both are for every set of upper halves: for `{0}` they say that exactly the
strings given are hashed, for others that nothing worse than `Blake2bHash` allows happens.

**CkbReaderProofs** (`ParameterAssumption`: sizes below half of `size_t`, offsets
and lengths that fit an `mrb_int`). The inductive invariant is the conjunction of
the properties with `ItemsPossible`, which holds because no step changes an item.
One lemma per build says what a load may answer, one what `InternalRead` makes of it,
and the steps follow. Theorems: `Invariant`, `TypeCorrect`, `NoOverrun`,
`UnwrittenTheorem`, `IndexErrorTheorem`, `ReadAllTheorem`, `LengthTheorem` and
`Refinement` (`Spec => ReaderSpec`).

**StringToBigProofs** (`BaseAssumption`, `WidthAssumption`: a word is a digit or
more, a `DTYPE_TMP` a word and a digit or more, a bignum a `DTYPE_TMP` or more).
`PrefixHeld` is the loop invariant: `n * times + current` is the number read so
far, modulo the width of a bignum. The arithmetic is in lemmas on remainders
(`RemainderUnique` and those that follow it). Theorems: `Invariant`, `TypeCorrect`,
`PrefixTheorem`, `ResultTheorem`.

Two more invariants stand on it. `ShortHeld`: `times` is at most the weight
`Power[i]` of the digits read, so it keeps its bits while the string is shorter
than a `DTYPE_TMP` (`ShortTheorem`). `PrintHeld`: while the digits of a printed number are
read, `value` is that number without its lower digits,
`printed \div Power[Len(str) - i]`, and each character is a digit, so nothing is refused
and the end is the number unless `times` lost a bit; a print shorter than a `DTYPE_TMP`
cannot make it (`PrintTheorem`; `DigitBehind` is the arithmetic of one
digit). A longer print with a run of zeros, as of `1 << 200`, is not read back: that is the
third finding. The provers have no definition of `^`, so `Power` is a recursive function,
and that its definition has a solution is proved (`PowersExist`, `PowersAgree`,
`PowerLaw`: by the smallest exponent without one, since the induction theorems of the
library cannot be used).

**TinyBignumProofs** (`SizeAssumption`: a bignum and an `int` have some width;
`LibraryAssumption`: the library answers a bignum). `TypeOK`, `NotShared`, `BlocksExact`
and `ModularExact` together are inductive (`BignumIInv`): a struct freed with its object
must have been that object's alone, and the structs in use can be counted only
while no two objects share one. Where a new struct and object go (`FreePlaces`) and
what they do to the cardinalities (`MakeFresh`, `CollectIInv`) are lemmas; the arithmetic
modulo a power is `RingModular`. Theorems: `BignumInductive`, `BignumTypeCorrect`,
`StructsNotShared`, `StructsAccounted`, `BignumsModular`, and the action property
`BignumsImmutable`.

**ReaderRequestProofs** (`RequestAssumption`: indexes are naturals, `Junk` is no
offset). `OwnItem` speaks of the request of a `Cell`, `CellField` or `InputField`; `RequestIInv` adds what each class keeps of its
arguments (`Kept`) and which item the last request is for (`Asked`). Theorems:
`RequestInductive`, `RequestTypeCorrect`, `RequestsOwnItem`.

**ContractProofs** (`BoundAssumption`; `KilledAssumption`: the code of a killed process
is none of those that the programs give). `Contract` runs the gem as
`Secp == INSTANCE Secp256k1`, and the theorems about the gem come with
`Gem == INSTANCE Secp256k1Proofs`: the lemmas `Same...` show that the two instances define
the same steps, so that the gem's `IInv` and `NeverWrong` hold of the contract's state
(`GemInit`, `GemNext`). `ContractIInv` adds what a main function knows at each stage:
how much of ARGV is filled (`ArgvSoFar`), at which stages an exception may be pending
and the gem may be at work (`StagesExact`), and
that a guarded script came to its end only behind a verify that answered true
(`EndedExact`). Theorems: `ContractInductive`, `ContractTypeCorrect`,
`ZeroOnlyAtTheEnd`, `ArgvComplete`, `LockNeedsSignature`, and `SchemeKept`: what happens to the gem within a contract is the
safety part of `SignatureScheme`, since nothing but a call touches it from outside.

**ProtocolParseProofs** (`HashLenAssumption`: a hash has some bytes; `ParseAssumption`: an
`mrb_int` has an even modulus, scalars are naturals; `MaxOdd` and `MaxArgs` are any
naturals, so that no document is left out). The proof has two halves. The first is about
memory and has no state: `WrittenRead` says in which cells of `Written` the root, its
fields, the vector and the `Bytes` tables are (`HasRoot`, `HasVector`), whatever the
layout, and `ScalarRead`, `StructRead`, `VectorRead`, `StringRead` and `ElementRead` that the
accessors go there; together they are `WrittenReadable`. Behind them are the order of the
fields in a table (`PosFacts`: the cells of the fields that are there differ), the vtable
that is trimmed at its last field (`VTableFacts`), and the table that owns a shared vtable
(`OwnerFacts`: the first of the same shape). The second half is the invariant: the hash under
construction is the whole hash, restricted to the keys of the fields that were
read (`Filled`), and every `Bytes` that was passed is as long as a hash (`Looped`). One lemma
per action follows, and at the end all keys are set (`AllKeys`), so the
answer is the expected one. Theorems: `ParseInductive`, `ParseTypeCorrect`, `ParsedTheorem`,
and `ParserImplemented`, the safety part of `ParserSpec`. The provers have no definition
of `@@` and `:>`, so `FlatBuffer` defines both (`Over`, `Only`).

**Secp256k1Proofs** (`CapacityAssumption`: the memory has room for some natural
number of contexts). `NeverWrong` speaks of answers; `IInv` adds what the functions
know on their way there: `ArgumentsKnown` (which arguments the lengths and the
library have accepted at each call) and `LocalsExact` (what `point` and `sig` hold
where they are read). `TypeOK` itself needs `HeldExact`: that a release never finds
zero contexts follows from the context of the running call. Theorems:
`Invariant`, `TypeCorrect`, `LeaksCounted`, `AbortOnlyForLeaks`, `AnswersPromised`, and
`Refinement`: the initial state and every step are those of `SignatureScheme`, or a
stutter. An error inside a call maps to a `Respond` with the `ArgumentError` of a
malformed argument (`RaiseRefines`), and a refused length that was right to a
`Refuse` (`RightLengthsSeen`: only where an `mrb_int` does not fill a `size_t`). The
fairness in `SchemeSpec` is left to the runs.

**How long things take.** Liveness has two halves: that there are only finitely many
steps to go, and that one of them is possible and taken. The first is an action
property, and proved: each step of a call lowers a natural number, so no call goes
on for ever. `UpdateShortens` (the string left to an update, on a closed object too),
`ReadingShortens` (the digits left; a turn never leaves the string, and the loop is left only
at its end or at a character that is no digit), `ParseEnds` (the fields and `Bytes` left), `CallsEnd` (six
steps of the curve library at most, by `StepsLeft`), and `EveryStepLeavesLess` for a
whole contract: stages, arguments, moves of the script and steps of the gem together,
where a call is worth the steps that it makes possible (`Left`). The moves are bounded
by `MaxMoves`, which stands for the cycles of the VM. The second half needs ENABLED
and fairness and stays with TLC, for `update`, the parses and the calls of the curve; for
`string_to_big` and the `main` functions it is not stated.

`IInv`, `MessageHeld`, `LengthFresh` and the other parts of the invariants that only
serve a proof are proved and are in no run; TLC confirmed them before.

Every invariant and every refinement that a run checks is a theorem, and so is the
action property. Only model-checked is liveness, which is out of the prover's
reach but for the measures above: `UpdateEnds` and the
fairness parts of `ParserSpec` and `SchemeSpec`.

## Findings

1. A second `final` ignores the -1 of `blake2b_final` and returns a string nobody
   wrote (`mruby_blake2b.c:51`).
2. The host build never closes a file, and a failed `fopen` looks like an absent
   item (`ckb_syscalls.c:66`).
3. Zeros push `times` out of its width, and digits are lost without an error
   (`tiny_bignum_gem.c:87`); `to_s` of a sparse bignum writes such strings.
4. `TinyBignum.new` and `dup` make objects with a null `DATA_PTR`, which the operators
   test in `other` and follow in `self` (`tiny_bignum_gem.c:134`).

Not findings, but facts that the properties state: `readall` of an item of no bytes
answers the Integer 0 on the VM (`ReadAllWhole`, `ckb.c:316`); `Bytes` other than of 32
bytes make a document unreadable, although the schema gives them no length
(`ParsedExact`, `ckb.c:91`, `protocol.fbs:19`); `Input` and `Header` keep none of the
arguments they are made with, and address one item by the numbers of nil, so that
`OwnItem` is false without its restriction to the other three classes (`ckb.c:340`,
`ckb.c:370`); `update` reads the length of its string into a `size_t` that it never set,
and where an `mrb_int` is narrower the digest can be that of more bytes than were given
(`TakenAsGiven` in `DigestCorrect`, `mruby_blake2b.c:33`); `internal_read` with one argument uses an offset that was not written
(`AskWithoutOffset`, `ckb.c:313`); `pubkey`, `sign` and every error
lose a context (`HeldExact`), so that a contract that signs or fails often enough is
refused or aborted; division by zero and shift counts past an `int` are passed to
the bignum library as they are.

## What is not modelled

* The compression function of BLAKE2b (opaque), the curve library (opaque), the bignum
  library (modulo a width), mruby itself and the kernel of the CKB VM: external
  code, modelled by what this code relies on. That a curve context takes memory
  until it is released is the library's doing, and so is what `custom_abort` stands
  in for.
* Widths that are chosen outside of the repository (`mrb_int`, `int`, `size_t`) are
  parameters.
* `blake2b_init_key` and the one-shot `blake2b`, which nothing reaches from Ruby;
  `outpoint_to_value`, which nothing calls; the find, scan, sort and union macros of
  the generated headers and the tables of the sync and relay protocols, which
  nothing instantiates.
* The memory that a repeated `initialize` of a `Blake2b` leaks, and the memory of the
  VM except for the contexts of the curve and the structs of the bignums.
* Malformed FlatBuffers: the accessors do not verify; only written documents are
  parsed.
* The text that `argv_source_entry` and `CKB.debug` print.
* The build files: no state.
