--------------------------- MODULE ProtocolSchema ---------------------------
(***************************************************************************)
(* What protocol.fbs says of a script, an input and a header, the          *)
(* documents that its writers (external) make of it, and the answers that  *)
(* a contract can get.  None of it knows how a document lies in memory.    *)
(***************************************************************************)
EXTENDS FlatBuffer

CONSTANTS IntMod,       \* modulus of an mrb_int
          Scales,       \* the sizes of the scalars in a document
          Lens,         \* the lengths of the Bytes in a document
          MaxArgs,      \* bound: Bytes in a vector
          MaxOdd        \* bound: fields that are not like the rest of the root

ASSUME ParseAssumption == /\ IntMod \in Nat \ {0} /\ IntMod % 2 = 0
                          /\ Scales \subseteq Nat
                          /\ Lens \subseteq Nat \cup {NoSeq}
                          /\ MaxArgs \in Nat /\ MaxOdd \in Nat

-----------------------------------------------------------------------------
(* The tables of the schema, by the ids that protocol_reader.h gives.      *)

Roots == {"script", "header", "input"}

ScriptKinds == <<"vector", "hash">>
InputKinds == <<"hash", "hash", "scalar", "scalar", "vector">>
HeaderKinds == <<"scalar", "hash", "scalar", "scalar", "hash", "hash", "hash",
                 "bytes", "scalar", "bytes", "hash", "scalar", "scalar">>

Kinds(r) == CASE r = "script" -> ScriptKinds
              [] r = "input"  -> InputKinds
              [] OTHER        -> HeaderKinds

ScriptNames == <<"args", "code_hash">>
InputNames == <<"block_hash", "tx_hash", "index", "since", "args">>
HeaderNames == <<"version", "parent_hash", "timestamp", "number",
                 "transactions_root", "witnesses_root", "proposals_hash",
                 "difficulty", "nonce", "proof", "uncles_hash",
                 "uncles_count", "epoch">>

Names(r) == CASE r = "script" -> ScriptNames
              [] r = "input"  -> InputNames
              [] OTHER        -> HeaderNames

Ids(r) == 0 .. Len(Kinds(r)) - 1

-----------------------------------------------------------------------------
(* The documents.                                                          *)

Documents ==
  [r \in Roots |->
    {[present |-> p, scale |-> c, lens |-> l] :
       p \in {p \in SUBSET Ids(r) : \/ Cardinality(p) <= MaxOdd
                                    \/ Cardinality(Ids(r) \ p) <= MaxOdd},
       c \in Scales,
       l \in IF r = "header" THEN [1 .. 2 -> Lens]
             ELSE UNION {[1 .. m -> Lens] : m \in 0 .. MaxArgs}}]

\* Before a call: no document has a negative scale.
NoDocument == [present |-> {}, scale |-> -1, lens |-> <<>>]

-----------------------------------------------------------------------------
(* The answers.                                                            *)

\* Mutant: the unsigned number kept.
FixnumUnsigned(n) == n

\* mrb_fixnum_value of an unsigned number: an mrb_int is signed.
Fixnum(n) == ((n + IntMod \div 2) % IntMod) - IntMod \div 2

Answer(kind, hash) == [kind |-> kind, hash |-> hash]
NoAnswer == Answer("none", <<>>)
ArgumentError == Answer("ArgumentError", <<>>)
=============================================================================
