---------------------------- MODULE Blake2bHash ----------------------------
(***************************************************************************)
(* What one Blake2b object promises to a contract: between `initialize'    *)
(* and `final' the bytes `update' takes form one message, and `final'      *)
(* answers the sequential BLAKE2b digest of that message, however it was   *)
(* cut into pieces.  Where an mrb_int fills a size_t, update takes the     *)
(* string it is given and nothing else; where it does not, update may take *)
(* the bytes behind the string too, or read past the memory.  Nothing is   *)
(* promised once the digest has been taken, or of an object whose          *)
(* initialisation the library rejected.                                    *)
(*                                                                         *)
(* The compression function is opaque: a digest is the list of the inputs  *)
(* it was given (block, byte counter, last-block flag), so two digests are *)
(* equal exactly when the compression saw the same inputs.                 *)
(***************************************************************************)
EXTENDS Integers, Sequences, SequencesExt

CONSTANTS Byte,        \* the values of a byte
          Zero,        \* the byte that pads the last block
          BlockBytes,  \* BLAKE2B_BLOCKBYTES
          OutBytes,    \* BLAKE2B_OUTBYTES, the longest digest
          OutLens,     \* the digest lengths contracts ask for, bad ones too
          IntMod,      \* modulus of an mrb_int (2^32), above any string
          UpperHalf,   \* what a size_t holds above an mrb_int written to it
          MaxUpdate    \* bound: the longest string given to one update

VARIABLES phase,       \* what the contract may do with the object
          outlen,      \* the digest length it asked for
          given,       \* the strings given before the digest was taken
          message,     \* the bytes update took for them
          ret          \* what the last call of `final' gave back

vars == <<phase, outlen, given, message, ret>>

-----------------------------------------------------------------------------
(* The sequential mode of BLAKE2b, the reference for the streaming code.   *)

\* Zero full blocks still make one (padded) block to compress.
NumBlocks(n) == IF n = 0 THEN 1 ELSE ((n - 1) \div BlockBytes) + 1

\* Byte j of the block that starts after the first k bytes of msg.
BlockAfter(msg, k) ==
  [j \in 1 .. BlockBytes |-> IF k + j <= Len(msg) THEN msg[k + j] ELSE Zero]

Input(block, count, last) == [block |-> block, count |-> count, last |-> last]

InnerInput(msg, i) ==
  Input(BlockAfter(msg, (i - 1) * BlockBytes), i * BlockBytes, FALSE)

LastInput(msg, i) ==
  Input(BlockAfter(msg, (i - 1) * BlockBytes), Len(msg), TRUE)

HashOf(msg) ==
  [i \in 1 .. NumBlocks(Len(msg)) |->
     IF i = NumBlocks(Len(msg)) THEN LastInput(msg, i) ELSE InnerInput(msg, i)]

Answer(kind, n, hash) == [kind |-> kind, outlen |-> n, hash |-> hash]

DigestOf(n, msg) == Answer("digest", n, HashOf(msg))

NoAnswer == Answer("none", 0, <<>>)

ValidOutLen(n) == n > 0 /\ n <= OutBytes

\* mrb_get_args writes the length of m as an mrb_int into a size_t nobody
\* initialised: update takes m, and as many bytes behind it as the rest of
\* the size_t says, whatever the memory holds there.
Taken(m) ==
  {m \o behind : behind \in UNION {[1 .. k * IntMod -> Byte] : k \in UpperHalf}}

\* A length can be longer than the string.
LengthStrays == \E k \in UpperHalf : k > 0

-----------------------------------------------------------------------------

Init == /\ phase = "none"
        /\ outlen = 0
        /\ given = <<>> /\ message = <<>>
        /\ ret = NoAnswer

Open == \E n \in OutLens :
          /\ ValidOutLen(n)
          /\ phase' = "open"
          /\ outlen' = n
          /\ given' = <<>> /\ message' = <<>>
          /\ ret' = NoAnswer

\* A length the library rejects leaves an object nothing is known about.
OpenRejected == \E n \in OutLens :
                  /\ ~ ValidOutLen(n)
                  /\ phase' = "broken"
                  /\ outlen' = 0
                  /\ given' = <<>> /\ message' = <<>>
                  /\ ret' = NoAnswer

Feed == /\ phase = "open"
        /\ \E m \in BoundedSeq(Byte, MaxUpdate) : \E t \in Taken(m) :
             given' = given \o m /\ message' = message \o t
        /\ UNCHANGED <<phase, outlen, ret>>

Close == /\ phase = "open"
         /\ phase' = "closed"
         /\ ret' = DigestOf(outlen, message)
         /\ UNCHANGED <<outlen, given, message>>

\* An update whose length reaches past the memory.
Stray == /\ phase \in {"open", "closed"}
         /\ LengthStrays
         /\ phase' = "crashed"
         /\ UNCHANGED <<outlen, given, message, ret>>

\* Nothing is promised of a call outside the life of an open object, except
\* that what comes back is no digest, and that but for a stray length only an
\* object the library rejected can take the program down.
NoPromise == /\ phase # "open"
             /\ ret'.kind # "digest"
             /\ \/ phase' = phase
                \/ phase = "broken" /\ phase' = "crashed"
             /\ UNCHANGED <<outlen, given, message>>

Next == Open \/ OpenRejected \/ Feed \/ Close \/ Stray \/ NoPromise

Spec == Init /\ [][Next]_vars
=============================================================================
