----------------------------- MODULE ItemReader -----------------------------
(***************************************************************************)
(* What CKB::Reader promises to a contract: each call on an item of the    *)
(* transaction is one indivisible step, and its answer depends on the item *)
(* alone.  A byte string is abstracted to where its bytes come from: len   *)
(* bytes, the first `copied' of them those of the item from position       *)
(* `from' on, the others never written.                                    *)
(***************************************************************************)
EXTENDS Integers

CONSTANTS Key,      \* what a reader can address
          MaxLen    \* bound: the longest item

VARIABLES mayFail,  \* may a call fail for want of a resource (host build)?
          item,     \* Key -> the item of the transaction
          call,     \* the last call that returned
          ret       \* and its answer

vars == <<mayFail, item, call, ret>>

Items == [status : {"absent", "missing"}, len : {0}]
           \cup [status : {"present"}, len : 0 .. MaxLen]

Reply(kind, len, from, copied) ==
  [kind |-> kind, len |-> len, from |-> from, copied |-> copied]

Nothing == Reply("nothing", 0, 0, 0)
Nil == Reply("nil", 0, 0, 0)
Number(n) == Reply("number", n, 0, 0)
Text(len, from, copied) == Reply("string", len, from, copied)
IndexError == Reply("IndexOutOfBound", 0, 0, 0)
ArgumentError == Reply("ArgumentError", 0, 0, 0)

Raised(r) == r.kind \in {"IndexOutOfBound", "ArgumentError"}

Call(op, key, offset, len) ==
  [op |-> op, key |-> key, offset |-> offset, len |-> len]

\* The reads a careful contract makes: some bytes, inside the item.
Sensible(c) == c.op = "read" => c.offset >= 0 /\ c.len > 0
InItem(c) == c.op = "read" => c.offset + c.len <= item[c.key].len

\* The answer to a sensible call on an item that is there.
Contents(c) ==
  CASE c.op = "length"  -> Number(item[c.key].len)
    [] c.op = "read"    -> Text(c.len, c.offset, c.len)
    [] c.op = "readall" -> Text(item[c.key].len, 0, item[c.key].len)

\* Nothing is promised of a read past the end, nor of readall on an item of
\* no bytes.
PromisedOfItem(c, r) ==
  Sensible(c) =>
    CASE item[c.key].status = "absent"  -> r = IndexError
      [] item[c.key].status = "missing" -> r = Nil
      [] OTHER -> (InItem(c) /\ (c.op = "readall" => item[c.key].len > 0))
                     => r = Contents(c)

\* A hash is c.len bytes or an error.
PromisedOfHash(c, r) ==
  r = IF item[c.key].status = "present" /\ item[c.key].len = c.len
        THEN Text(c.len, 0, c.len) ELSE ArgumentError

Promised(c, r) == IF c.op = "load_hash" THEN PromisedOfHash(c, r)
                                        ELSE PromisedOfItem(c, r)

NoCall == Call("none", CHOOSE k \in Key : TRUE, 0, 0)

Init == /\ mayFail \in BOOLEAN
        /\ item \in [Key -> Items]
        /\ call = NoCall
        /\ ret = Nothing

Answer == /\ call'.key \in Key
          /\ call'.op \in {"length", "read", "readall", "load_hash"}
          /\ \/ Promised(call', ret')
             \/ mayFail /\ Raised(ret')
          /\ UNCHANGED <<mayFail, item>>

Next == Answer

Spec == Init /\ [][Next]_vars
=============================================================================
