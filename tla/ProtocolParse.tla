--------------------------- MODULE ProtocolParse ---------------------------
(***************************************************************************)
(* CKB.parse_script, CKB.parse_header and CKB.parse_input of ckb.c: a      *)
(* FlatBuffers string is read field by field into a Ruby hash, and an      *)
(* ArgumentError in the middle drops what was read.  Calls share nothing,  *)
(* so one is followed.                                                     *)
(*                                                                         *)
(* The three functions are a list of fields each, in the order in which    *)
(* the code reads them: the key of the hash, the id and the kind.          *)
(***************************************************************************)
EXTENDS ProtocolSchema

VARIABLES pc,           \* "start", "parse", "done"
          root,         \* which of the three
          doc,          \* history: what was written
          s,            \* the string
          step,         \* the field that is next
          i, margs,     \* the loop over args, and the array it fills
          v,            \* the hash under construction
          ret

vars == <<pc, root, doc, s, step, i, margs, v, ret>>

-----------------------------------------------------------------------------
(* The reading order.                                                      *)

Field(kind, name, id) == [kind |-> kind, name |-> name, id |-> id]

ParseScript == << Field("vector", "args", 0), Field("hash", "code_hash", 1) >>

ParseInput ==
  << Field("vector", "args", 4), Field("cell", "cell", 1),
     Field("hash", "block_hash", 0), Field("scalar", "since", 3) >>

ParseHeader ==
  [k \in 1 .. Len(HeaderKinds) |->
     Field(HeaderKinds[k], HeaderNames[k], k - 1)]

Program(r) == CASE r = "script" -> ParseScript
                [] r = "input"  -> ParseInput
                [] OTHER        -> ParseHeader

-----------------------------------------------------------------------------
(* The conversions.                                                        *)

Hash(p) == Cell(s, p)

NoString == -1

\* bytes_to_string: the 32 bytes, or an error.
BytesToString(b) ==
  LET seq == VectorField(s, b, 0)
  IN  IF VecLen(s, seq) = HashLen THEN Cell(s, seq) ELSE NoString

-----------------------------------------------------------------------------

Layouts == [trimmed : BOOLEAN, after : BOOLEAN, shared : BOOLEAN]

Init == /\ pc = "start"
        /\ root = "script"
        /\ doc = NoDocument
        /\ s = <<>>
        /\ step = 1 /\ i = 0 /\ margs = <<>> /\ v = <<>>
        /\ ret = NoAnswer

\* The call, up to the first field.
Call == /\ pc = "start"
        /\ pc' = "parse"
        /\ root' \in Roots
        /\ doc' \in Documents[root']
        /\ \E layout \in Layouts : s' = Written(Kinds(root'), doc', layout)
        /\ UNCHANGED <<step, i, margs, v, ret>>

Current == Program(root)[step]
Table == AsRoot(s)

Reading(kind) == /\ pc = "parse"
                 /\ step <= Len(Program(root))
                 /\ Current.kind = kind

\* Mutant: the error noted and the parse continued.
RaiseAndGoOn == /\ ret' = ArgumentError
                /\ step' = step + 1
                /\ UNCHANGED <<pc, root, doc, s, i, margs, v>>

Raise == /\ pc' = "done"
         /\ ret' = ArgumentError
         /\ UNCHANGED <<root, doc, s, step, i, margs, v>>

\* mrb_hash_set of the field, and on to the next.
Set(new) == /\ v' = Over(new, v)
            /\ step' = step + 1
            /\ UNCHANGED <<pc, root, doc, s, i, margs, ret>>

\* A field that is not there: no key.
Skip == /\ step' = step + 1
        /\ UNCHANGED <<pc, root, doc, s, i, margs, v, ret>>

Scalar == /\ Reading("scalar")
          /\ Set(Only(Current.name, Fixnum(ScalarField(s, Table, Current.id))))

\* (\E over one value where a LET would do: TLC evaluates it once.)
HashField ==
  /\ Reading("hash")
  /\ \E p \in {StructField(s, Table, Current.id)} :
       \/ p = 0 /\ Skip
       \/ p # 0 /\ Set(Only(Current.name, Hash(p)))

\* tx_hash of an input: `index' goes beside `cell', and only with it.
CellField ==
  /\ Reading("cell")
  /\ \E p \in {StructField(s, Table, Current.id)} :
       \/ p = 0 /\ Skip
       \/ p # 0 /\ Set(Over(Only("cell", Hash(p)),
                             Only("index", Fixnum(ScalarField(s, Table, 2)))))

BytesField ==
  /\ Reading("bytes")
  /\ \E b \in {TableField(s, Table, Current.id)} :
       \/ b = 0 /\ Skip
       \/ /\ b # 0
          /\ \E string \in {BytesToString(b)} :
               \/ string = NoString /\ Raise
               \/ string # NoString /\ Set(Only(Current.name, string))

Args == VectorField(s, Table, Current.id)

MoreArgs == i < VecLen(s, Args)

PushArg ==
  /\ Reading("vector")
  /\ MoreArgs
  /\ \E string \in {BytesToString(OffsetVecAt(s, Args, i))} :
       \/ string = NoString /\ Raise
       \/ /\ string # NoString
          /\ margs' = Append(margs, string)
          /\ i' = i + 1
          /\ UNCHANGED <<pc, root, doc, s, step, v, ret>>

ArgsDone == /\ Reading("vector")
            /\ ~ MoreArgs
            /\ Set(Only("args", margs))

Return == /\ pc = "parse"
          /\ step > Len(Program(root))
          /\ pc' = "done"
          /\ ret' = Answer("hash", v)
          /\ UNCHANGED <<root, doc, s, step, i, margs, v>>

Next == \/ Call \/ Scalar \/ HashField \/ CellField \/ BytesField
        \/ PushArg \/ ArgsDone \/ Return

\* A parser that was called runs on: it waits for nothing.
Spec == Init /\ [][Next]_vars /\ WF_vars(pc = "parse" /\ Next)

Parser == INSTANCE DocumentParser

-----------------------------------------------------------------------------
(* Properties.                                                             *)

Numbers == {"index", "since", "version", "timestamp", "number", "nonce",
            "uncles_count", "epoch"}

\* The type invariant: what a contract sees of a number is an mrb_int
\* (ckb.c:184 and the other scalars), and the loop stays in the vector.
TypeOK == /\ pc \in {"start", "parse", "done"}
          /\ root \in Roots
          /\ step \in 1 .. 14
          /\ i \in 0 .. MaxArgs
          /\ \A key \in DOMAIN v \cap Numbers :
               v[key] \in -(IntMod \div 2) .. IntMod \div 2 - 1
          /\ ret.kind \in {"none", "ArgumentError", "hash"}

\* The parse of a string is the document it was written from, whatever layout
\* the writer chose: every field that is there is in the hash, a scalar that
\* is not there is 0, any other absent field has no key, and an ArgumentError
\* is answered for Bytes that are not as long as a hash and only for them.
ParsedExact == pc = "done" => ret = Parser!Expected

\* Reading field by field implements a parser that has the whole document at
\* once: nothing of the order, of the layout or of what was read before an
\* error (ckb.c:92) can be seen, and every call is answered, with the hash or
\* the error, once.
ParserSpec == Parser!Spec
=============================================================================
