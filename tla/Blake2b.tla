------------------------------ MODULE Blake2b ------------------------------
(***************************************************************************)
(* The streaming hash of blake2b.h behind the Ruby class Blake2b           *)
(* (mruby_blake2b.c): a counter of two words, a buffer of one block that   *)
(* is compressed only when more bytes follow it, and the padding of the    *)
(* last block over whatever the buffer still holds.  One object, the calls *)
(* a contract can make on it in any order.                                 *)
(*                                                                         *)
(* An update that overflows the buffer is several steps (the fill, one per *)
(* turn of its loop, the copy of the rest), so that the properties hold in *)
(* the middle of it too.  h, the chain value, is the list of the inputs    *)
(* the compression function was given.                                     *)
(*                                                                         *)
(* The binding reads the length of update's string with "s", which writes  *)
(* an mrb_int, into a size_t it left uninitialised: where the two differ   *)
(* in width the upper half is indeterminate, and the bytes update takes    *)
(* (Hash!Taken) may run past the string.                                   *)
(***************************************************************************)
EXTENDS Integers, Sequences, SequencesExt

CONSTANTS Byte, Zero, BlockBytes, OutBytes, OutLens, IntMod, UpperHalf,
          MaxUpdate,
          Word,        \* modulus of a word of the counter (2^64)
          MaxMessage   \* bound: the longest message fed to one object

ASSUME ParameterAssumption ==
         /\ Zero \in Byte
         /\ BlockBytes \in Nat \ {0}
         /\ OutBytes \in Nat \ {0}
         /\ OutLens \subseteq Int
         /\ MaxUpdate \in Nat

\* A string's length is an mrb_int, and the upper half may well be clear.
ASSUME LengthAssumption ==
         /\ IntMod \in Nat /\ MaxUpdate < IntMod
         /\ UpperHalf \subseteq Nat /\ 0 \in UpperHalf

ASSUME CounterAssumption ==
         /\ Word \in Nat /\ BlockBytes <= Word
         /\ MaxMessage \in Nat /\ MaxMessage < Word * Word

VARIABLES pc,          \* where the object is: see Phases
          outlen,      \* S->outlen
          h,           \* S->h
          t0, t1,      \* S->t[0], S->t[1]
          f0,          \* S->f[0] # 0
          buf, buflen, \* S->buf (slot j is buf[j - 1]), S->buflen
          in,          \* the rest of the string of the running update
          given,       \* history: the strings given to update,
          message,     \* and the bytes it took, before the digest was taken
          ret          \* what the last call of `final' gave back

vars == <<pc, outlen, h, t0, t1, f0, buf, buflen, in, given, message, ret>>

\* The life of the object as the promise sees it.
Phase == CASE pc \in {"ready", "blocks"} /\ f0   -> "closed"
           [] pc \in {"ready", "blocks"} /\ ~ f0 -> "open"
           [] pc = "indeterminate"               -> "broken"
           [] OTHER                              -> pc

Hash == INSTANCE Blake2bHash WITH phase <- Phase

-----------------------------------------------------------------------------

(* The object has no state before `initialize', holds a blake2b_state that  *)
(* the library never wrote when blake2b_init failed, is between two calls   *)
(* (ready) or inside the loop of an update (blocks).                        *)
Phases == {"none", "ready", "blocks", "indeterminate", "crashed"}

Slots == 1 .. BlockBytes

MemCpy(b, left, s) ==
  [j \in Slots |-> IF left < j /\ j <= left + Len(s) THEN s[j - left] ELSE b[j]]

\* Mutant: the bytes of an earlier block stay behind the last one.
PaddedStale(b, len) == b

Padded(b, len) == [j \in Slots |-> IF j <= len THEN b[j] ELSE Zero]

AddLow(inc) == (t0 + inc) % Word

\* Mutant: the high word never moves.
CarryLost(inc) == 0

Carry(inc) == IF AddLow(inc) < inc THEN 1 ELSE 0

IncrementCounter(inc) == /\ t0' = AddLow(inc)
                         /\ t1' = (t1 + Carry(inc)) % Word

Compress(block) ==
  h' = Append(h, Hash!Input(block, t0' + Word * t1', f0'))

\* Mutant: the state does not remember that the last block is done.
IsLastBlockForgotten == FALSE

IsLastBlock == f0

Left(s, n) == SubSeq(s, 1, n)
Rest(s, n) == SubSeq(s, n + 1, Len(s))

\* The histories of what update was given and took end with the digest.
Feed(m, t) == /\ given' = IF f0 THEN given ELSE given \o m
              /\ message' = IF f0 THEN message ELSE message \o t

Strings == BoundedSeq(Byte, MaxUpdate)

\* What update takes for m, within the bound on a message.
Pieces(m) == {t \in Hash!Taken(m) :
                Len(h) * BlockBytes + buflen + Len(t) <= MaxMessage}

-----------------------------------------------------------------------------

Init == /\ pc = "none"
        /\ outlen = 0
        /\ h = <<>>
        /\ t0 = 0 /\ t1 = 0 /\ f0 = FALSE
        /\ buf = [j \in Slots |-> Zero] /\ buflen = 0
        /\ in = <<>>
        /\ given = <<>> /\ message = <<>>
        /\ ret = Hash!NoAnswer

Idle == pc \in {"none", "ready", "indeterminate"}

\* memset of the whole state and the parameter block.
ResetState(n) == /\ outlen' = n
                 /\ h' = <<>>
                 /\ t0' = 0 /\ t1' = 0 /\ f0' = FALSE
                 /\ buf' = [j \in Slots |-> Zero] /\ buflen' = 0

\* Blake2b.new(n), or `initialize' called again: a state of its own.
Initialize == /\ Idle
              /\ \E n \in OutLens : Hash!ValidOutLen(n) /\ ResetState(n)
              /\ pc' = "ready"
              /\ in' = <<>> /\ given' = <<>> /\ message' = <<>>
              /\ ret' = Hash!NoAnswer

\* blake2b_init answers -1, which nobody looks at: the state stays as malloc
\* gave it.  Its contents are not modelled, only what calls on it may do.
InitializeRejected == /\ Idle
                      /\ \E n \in OutLens : ~ Hash!ValidOutLen(n)
                      /\ pc' = "indeterminate"
                      /\ ResetState(0)
                      /\ in' = <<>> /\ given' = <<>> /\ message' = <<>>
                      /\ ret' = Hash!NoAnswer

\* Mutants: the test of blake2b_update with >=, or against the whole block.
FitsStrictly(t) == Len(t) < BlockBytes - buflen
FitsEmptyBuffer(t) == Len(t) <= BlockBytes

Fits(t) == Len(t) <= BlockBytes - buflen

\* update of bytes that fit: no block is compressed, not even a full one.
UpdateBuffer ==
  /\ pc = "ready"
  /\ \E m \in Strings : \E t \in Pieces(m) :
       /\ Fits(t)
       /\ buf' = MemCpy(buf, buflen, t)
       /\ buflen' = buflen + Len(t)
       /\ Feed(m, t)
  /\ UNCHANGED <<pc, outlen, h, t0, t1, f0, in, ret>>

\* update of more: fill the buffer and compress it.
UpdateFill ==
  /\ pc = "ready"
  /\ \E m \in Strings : \E t \in Pieces(m) :
       LET fill == BlockBytes - buflen
       IN  /\ ~ Fits(t)
           /\ buf' = MemCpy(buf, buflen, Left(t, fill))
           /\ in' = Rest(t, fill)
           /\ Feed(m, t)
  /\ buflen' = 0
  /\ IncrementCounter(BlockBytes)
  /\ UNCHANGED f0
  /\ Compress(buf')
  /\ pc' = "blocks"
  /\ UNCHANGED <<outlen, ret>>

\* while (inlen > BLAKE2B_BLOCKBYTES): the last full block stays in `in'.
UpdateBlock ==
  /\ pc = "blocks"
  /\ Len(in) > BlockBytes
  /\ IncrementCounter(BlockBytes)
  /\ UNCHANGED f0
  /\ Compress(Left(in, BlockBytes))
  /\ in' = Rest(in, BlockBytes)
  /\ UNCHANGED <<pc, outlen, buf, buflen, given, message, ret>>

\* Mutant: a full block at the end left to nobody.
UpdateRestStrict ==
  /\ pc = "blocks"
  /\ Len(in) < BlockBytes
  /\ buf' = MemCpy(buf, buflen, in)
  /\ buflen' = buflen + Len(in)
  /\ in' = <<>>
  /\ pc' = "ready"
  /\ UNCHANGED <<outlen, h, t0, t1, f0, given, message, ret>>

UpdateRest ==
  /\ pc = "blocks"
  /\ Len(in) <= BlockBytes
  /\ buf' = MemCpy(buf, buflen, in)
  /\ buflen' = buflen + Len(in)
  /\ in' = <<>>
  /\ pc' = "ready"
  /\ UNCHANGED <<outlen, h, t0, t1, f0, given, message, ret>>

\* update with a length behind which the memory ends: the copies, or the
\* compressions of the caller's bytes, run out of it.
UpdateStrays ==
  /\ pc = "ready"
  /\ Hash!LengthStrays
  /\ pc' = "crashed"
  /\ UNCHANGED <<outlen, h, t0, t1, f0, buf, buflen, in, given, message, ret>>

\* The first final: count the bytes of the last block, pad and compress it.
Final ==
  /\ pc = "ready"
  /\ ~ IsLastBlock
  /\ IncrementCounter(buflen)
  /\ f0' = TRUE
  /\ buf' = Padded(buf, buflen)
  /\ Compress(buf')
  /\ ret' = Hash!Answer("digest", outlen, h')
  /\ UNCHANGED <<pc, outlen, buflen, in, given, message>>

\* A later one: blake2b_final answers -1, the binding returns the string it
\* allocated and nobody wrote.
FinalAgain ==
  /\ pc = "ready"
  /\ IsLastBlock
  /\ ret' = Hash!Answer("garbage", outlen, <<>>)
  /\ UNCHANGED <<pc, outlen, h, t0, t1, f0, buf, buflen, in, given, message>>

\* update, final or outlen before `initialize': mruby raises.
UseBeforeInitialize ==
  /\ pc = "none"
  /\ ret' = Hash!Answer("raised", 0, <<>>)
  /\ UNCHANGED <<pc, outlen, h, t0, t1, f0, buf, buflen, in, given, message>>

\* Calls on a state nobody wrote: buflen and outlen are any numbers, so the
\* copies may run out of the state, and final answers or raises anything.
UseIndeterminate ==
  /\ pc = "indeterminate"
  /\ pc' \in {"indeterminate", "crashed"}
  /\ \/ UNCHANGED ret
     \/ \E n \in OutLens : ret' = Hash!Answer("garbage", n, <<>>)
     \/ ret' = Hash!Answer("raised", 0, <<>>)
  /\ UNCHANGED <<outlen, h, t0, t1, f0, buf, buflen, in, given, message>>

Next == \/ Initialize \/ InitializeRejected
        \/ UpdateBuffer \/ UpdateFill \/ UpdateBlock \/ UpdateRest
        \/ UpdateStrays
        \/ Final \/ FinalAgain
        \/ UseBeforeInitialize \/ UseIndeterminate

Spec == Init /\ [][Next]_vars

\* An update that has begun goes on; the contract calls when it likes.
LiveSpec == Spec /\ WF_vars(UpdateBlock \/ UpdateRest)

-----------------------------------------------------------------------------
(* Properties.                                                             *)

Inputs == [block : [Slots -> Byte], count : Nat, last : BOOLEAN]

Answers == [kind : {"none", "digest", "garbage", "raised"},
            outlen : Int, hash : Seq(Inputs)]

\* The type invariant: the buffer index stays within the block, the counter
\* words within their width (blake2b_state, blake2b.h:42-51).
TypeOK == /\ pc \in Phases
          /\ outlen \in Int
          /\ h \in Seq(Inputs)
          /\ t0 \in 0 .. Word - 1 /\ t1 \in 0 .. Word - 1
          /\ f0 \in BOOLEAN
          /\ buf \in [Slots -> Byte]
          /\ buflen \in 0 .. BlockBytes
          /\ in \in Seq(Byte)
          /\ given \in Seq(Byte) /\ message \in Seq(Byte)
          /\ ret \in Answers

Open == pc \in {"ready", "blocks"} /\ ~ f0

\* Byte number k of the message counted from the first block not compressed.
Uncompressed(k) == message[Len(h) * BlockBytes + k]

\* Every byte fed is in a compressed block, in the buffer or still to be
\* copied, and a call never ends with an empty buffer behind a full block:
\* `final' could not mark that block as the last one any more
\* (the `>' of blake2b.h:390 and :397).
BytesAccounted ==
  Open => /\ Len(message) = Len(h) * BlockBytes + buflen + Len(in)
          /\ pc = "ready" => (in = <<>> /\ (message # <<>> => buflen > 0))
          /\ pc = "blocks" => (buflen = 0 /\ Len(in) > 0)

\* The two words of the counter are the number of bytes compressed, the
\* carry of blake2b_increment_counter included (blake2b.h:225-229).
CounterExact == Open => t0 + Word * t1 = Len(h) * BlockBytes

\* The chain, the buffer and the rest of the update hold the message in
\* order, no byte lost, doubled or left over from an earlier block.
MessageHeld ==
  Open => /\ \A i \in 1 .. Len(h) : h[i] = Hash!InnerInput(message, i)
          /\ \A j \in 1 .. buflen : buf[j] = Uncompressed(j)
          /\ \A j \in 1 .. Len(in) : in[j] = Uncompressed(buflen + j)

\* The bytes taken are the strings given, or longer by what at least one
\* stray length added; with an mrb_int that fills a size_t only the former.
TakenAsGiven == \/ message = given
                \/ /\ Hash!LengthStrays
                   /\ Len(message) >= Len(given) + IntMod

\* What `final' answers as a digest is the BLAKE2b digest of all that update
\* took since `initialize', in however many pieces, and that is the strings
\* it was given unless a length strayed (mruby_blake2b.c:33,36).
DigestCorrect == ret.kind = "digest" =>
                   /\ f0
                   /\ ret = Hash!DigestOf(outlen, message)
                   /\ TakenAsGiven

\* No digest is pending before the first final, and none survives a
\* rejected initialisation.
AnswerFresh == Open \/ pc = "indeterminate" => ret.kind # "digest"

Bounded == Open => Len(message) <= MaxMessage

\* The rest of an update goes to the start of the buffer, closed or not.
BlocksStartEmpty == pc = "blocks" => buflen = 0

\* The inductive invariant behind DigestCorrect and HashSpec.
IInv == /\ TypeOK
        /\ BytesAccounted
        /\ CounterExact
        /\ MessageHeld
        /\ TakenAsGiven
        /\ AnswerFresh
        /\ DigestCorrect
        /\ Bounded
        /\ BlocksStartEmpty

\* The object implements the hash it promises.
HashSpec == Hash!Spec

\* An update of any length comes to its end: the loop and the copy behind it
\* leave no length to neither of them (blake2b.h:390-405).
UpdateEnds == pc = "blocks" ~> pc = "ready"

\* What a caller of a Blake2b binding expects of `final' (README.md:11):
\* the string it returns is a digest.
FinalIsDigest == ret.kind # "garbage"
=============================================================================
