--------------------------- MODULE DocumentParser ---------------------------
(***************************************************************************)
(* What the parser of a document promises, in two steps: a call with some  *)
(* document, and the answer, which is the hash that the document stands    *)
(* for, or one ArgumentError for all of it.  Where the fields lie, in      *)
(* which order they are read and what was read before an error cannot be   *)
(* seen, and every call is answered.                                       *)
(***************************************************************************)
EXTENDS ProtocolSchema

VARIABLES root,         \* which of the three
          doc,          \* what was written, NoDocument before the call
          ret

vars == <<root, doc, ret>>

-----------------------------------------------------------------------------

\* What the document says, without its bytes.
Has(name) == \E id \in doc.present : Names(root)[id + 1] = name
Id(name) == CHOOSE id \in Ids(root) : Names(root)[id + 1] = name
Number(name) == IF Has(name) THEN Fixnum(ScalarValue(doc, Id(name))) ELSE 0

ArgsOf == IF Has("args") THEN [j \in 1 .. Len(doc.lens) |-> Contents(j)] ELSE <<>>

ScriptHash ==
  [key \in {"args"} \cup (IF Has("code_hash") THEN {"code_hash"} ELSE {})
     |-> IF key = "args" THEN ArgsOf ELSE HashValue(1)]

InputHash ==
  [key \in {"args", "since"}
           \cup (IF Has("block_hash") THEN {"block_hash"} ELSE {})
           \cup (IF Has("tx_hash") THEN {"cell", "index"} ELSE {})
     |-> CASE key = "args"       -> ArgsOf
           [] key = "block_hash" -> HashValue(0)
           [] key = "cell"       -> HashValue(1)
           [] OTHER              -> Number(key)]

BytesOf(name) == Contents(IF name = "difficulty" THEN 1 ELSE 2)

HeaderHash ==
  [name \in {HeaderNames[k] : k \in {k \in 1 .. Len(HeaderNames) :
                               HeaderKinds[k] = "scalar" \/ k - 1 \in doc.present}}
     |-> CASE HeaderKinds[Id(name) + 1] = "scalar" -> Number(name)
           [] HeaderKinds[Id(name) + 1] = "hash"   -> HashValue(Id(name))
           [] OTHER                                -> BytesOf(name)]

\* The Bytes tables that the root refers to.
BytesUsed == IF root = "header" THEN {j \in 1 .. 2 : Has(<<"difficulty", "proof">>[j])}
                                ELSE DOMAIN ArgsOf

AllHashLong == \A j \in BytesUsed : doc.lens[j] = HashLen

DocumentHash == CASE root = "script" -> ScriptHash
                  [] root = "input"  -> InputHash
                  [] OTHER           -> HeaderHash

Expected == IF AllHashLong THEN Answer("hash", DocumentHash) ELSE ArgumentError
-----------------------------------------------------------------------------

Init == /\ root = "script"
        /\ doc = NoDocument
        /\ ret = NoAnswer

Call == /\ doc = NoDocument
        /\ root' \in Roots
        /\ doc' \in Documents[root']
        /\ UNCHANGED ret

Reply == /\ doc # NoDocument
         /\ ret = NoAnswer
         /\ ret' = Expected
         /\ UNCHANGED <<root, doc>>

Next == Call \/ Reply

Spec == Init /\ [][Next]_vars /\ WF_vars(Reply)
=============================================================================
