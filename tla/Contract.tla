------------------------------ MODULE Contract ------------------------------
(***************************************************************************)
(* A contract from main to its exit code: entry.c, argv_entry.c and         *)
(* argv_source_entry.c around a script that calls the module Secp256k1.     *)
(* A transaction passes when every contract of it exits with 0, so what     *)
(* matters is which ways lead there.                                        *)
(*                                                                          *)
(* The script (external) is arbitrary: it calls, raises, rescues and ends   *)
(* when it likes, after MaxMoves moves at most.  A guarded one is what a     *)
(* lock is: it rescues nothing and raises unless its last call verified.    *)
(***************************************************************************)
EXTENDS Curve, Sequences, SequencesExt

CONSTANTS Capacity, IntFillsSize,   \* as in Secp256k1
          Arg,                      \* arguments, each cut at its first NUL or not
          MaxArgs,                  \* bound: arguments besides the script
          MaxMoves,                 \* bound: calls and rescues of a script
          Killed                    \* how a program ends that abort() ends (external)

NoCode == -3   \* no program ends with it: before the exit code

ASSUME BoundAssumption == /\ MaxArgs \in Nat /\ MaxMoves \in Nat
                          /\ Capacity \in Nat /\ IntFillsSize \in BOOLEAN

ASSUME KilledAssumption == Killed \notin {0, -1, -2, 10, NoCode}

VARIABLES program, argv, script, guarded,   \* what is run
          stage,            \* "main", "argv", "script", "report" or "exited"
          i, margv,         \* the loop index and the array of main
          raised,           \* is there an exception that nobody rescued yet?
          exc,              \* mrb->exc, once the script is left
          moves,            \* calls and rescues so far
          code,             \* the exit code
          fate,             \* history: how the script came to its end
          pc, call, ret, point, sig, held, lost   \* those of Secp256k1

main == <<program, argv, script, guarded, stage, i, margv, raised, exc, moves,
          code, fate>>
gem == <<pc, call, ret, point, sig, held, lost>>
vars == <<main, gem>>

Secp == INSTANCE Secp256k1

-----------------------------------------------------------------------------

\* The programs that are given their script, and the one it is compiled into.
Loaders == {"argv_entry", "argv_source_entry"}
Programs == {"entry"} \cup Loaders

\* The script is text or bytecode, and may be broken.  Text that begins with
\* the identifier of bytecode, a constant ETIR, is "text_etir".
Scripts == {"text", "text_etir", "broken_text", "bytecode", "broken_bytecode"}

\* Index of the first argument that becomes an element of ARGV.
First == IF program = "entry" THEN 1 ELSE 2

\* Does the loader find what it loads?  mrb_load_irep and mrb_load_string
\* (external) raise for anything else.
Loads(p, s) ==
  CASE p = "entry"      -> TRUE
    [] p = "argv_entry" -> s = "bytecode"
    [] OTHER            -> s \in {"bytecode", "text"}

Init == /\ program \in Programs
        /\ argv \in BoundedSeq(Arg, MaxArgs)
        /\ script \in Scripts
        /\ guarded \in BOOLEAN
        /\ stage = "main"
        /\ i = 0 /\ margv = <<>>
        /\ raised = FALSE /\ exc = FALSE /\ moves = 0
        /\ code = NoCode
        /\ fate = "none"
        /\ Secp!Init

Exit(c) == stage' = "exited" /\ code' = c

Same == UNCHANGED <<program, argv, script, guarded>>

\* Mutant: the test without its return.
TooFewGoesOn ==
  /\ stage = "main"
  /\ program \in Loaders
  /\ Len(argv) < 2
  /\ stage' = "argv" /\ code' = -2
  /\ Same /\ UNCHANGED <<i, margv, raised, exc, moves, fate, gem>>

\* argc < 2 in the two programs that are given their script ...
TooFewArguments ==
  /\ stage = "main"
  /\ program \in Loaders
  /\ Len(argv) < 2
  /\ Exit(-2)
  /\ Same /\ UNCHANGED <<i, margv, raised, exc, moves, fate, gem>>

\* Mutant: every program reads its arguments from the first.
OpenAtOne ==
  /\ stage = "main"
  /\ program = "entry" \/ Len(argv) >= 2
  /\ stage' = "argv"
  /\ i' = 1
  /\ Same /\ UNCHANGED <<margv, raised, exc, moves, code, fate, gem>>

\* ... and mrb_open.
Open ==
  /\ stage = "main"
  /\ program = "entry" \/ Len(argv) >= 2
  /\ stage' = "argv"
  /\ i' = First
  /\ Same /\ UNCHANGED <<margv, raised, exc, moves, code, fate, gem>>

\* mrb_str_new_cstr: up to the first NUL.
Cut(a) == [a EXCEPT !.rest = FALSE]

\* One turn of the loop; argv[j] is argv[j + 1] of the sequence.
PushArgument ==
  /\ stage = "argv"
  /\ i < Len(argv)
  /\ margv' = Append(margv, Cut(argv[i + 1]))
  /\ i' = i + 1
  /\ Same /\ UNCHANGED <<stage, raised, exc, moves, code, fate, gem>>

\* ARGV is defined, and the script loaded: one that is not is an exception.
Load ==
  /\ stage = "argv"
  /\ i >= Len(argv)
  /\ IF Loads(program, script)
     THEN stage' = "script" /\ UNCHANGED <<exc, fate>>
     ELSE stage' = "report" /\ exc' = TRUE /\ fate' = "not loaded"
  /\ Same /\ UNCHANGED <<i, margv, raised, moves, code, gem>>

\* No memory outside of the script: mruby has nowhere to raise to.
OutOfMemory ==
  /\ stage \in {"main", "argv"}
  /\ program = "entry" \/ Len(argv) >= 2
  /\ Exit(Killed)
  /\ Same /\ UNCHANGED <<i, margv, raised, exc, moves, fate, gem>>

-----------------------------------------------------------------------------
(* The script.                                                             *)

Running == stage = "script" /\ pc = "idle"

CallGem ==
  /\ Running
  /\ ~ raised
  /\ moves < MaxMoves
  /\ moves' = moves + 1
  /\ Secp!Begin
  /\ Same /\ UNCHANGED <<stage, i, margv, raised, exc, code, fate>>

\* custom_abort makes the syscall exit; entry.c has none.
AbortCode == IF program = "entry" THEN Killed ELSE 10

\* A step inside of the gem, which an error leaves by an exception.
GemStep ==
  /\ stage = "script"
  /\ Secp!Step
  /\ IF pc' = "aborted" THEN Exit(AbortCode) ELSE UNCHANGED <<stage, code>>
  /\ raised' = (ret' = ArgumentError)
  /\ Same /\ UNCHANGED <<i, margv, exc, moves, fate>>

Verified == call.op = "verify" /\ ret = Bool(TRUE)

\* The script raises, or another gem does.
ScriptRaises ==
  /\ Running
  /\ ~ raised
  /\ raised' = TRUE
  /\ Same /\ UNCHANGED <<stage, i, margv, exc, moves, code, fate, gem>>

Rescue ==
  /\ Running
  /\ raised /\ ~ guarded
  /\ moves < MaxMoves
  /\ moves' = moves + 1
  /\ raised' = FALSE
  /\ Same /\ UNCHANGED <<stage, i, margv, exc, code, fate, gem>>

\* Nobody rescues: mruby leaves the script, and sets mrb->exc.
Propagate ==
  /\ Running
  /\ raised
  /\ stage' = "report"
  /\ exc' = TRUE
  /\ fate' = "raised"
  /\ Same /\ UNCHANGED <<i, margv, raised, moves, code, gem>>

ScriptEnds ==
  /\ Running
  /\ ~ raised
  /\ guarded => Verified
  /\ stage' = "report"
  /\ fate' = "ended"
  /\ Same /\ UNCHANGED <<i, margv, raised, exc, moves, code, gem>>

-----------------------------------------------------------------------------

\* Mutant: an exception is printed and nothing else.
ReportOnly ==
  /\ stage = "report"
  /\ Exit(0)
  /\ Same /\ UNCHANGED <<i, margv, raised, exc, moves, fate, gem>>

\* main after the script.  argv_source_entry prints the exception, and
\* mrb_string_value_cstr raises for a text with a NUL, again with nowhere to.
Report ==
  /\ stage = "report"
  /\ \/ ~ exc /\ Exit(0)
     \/ exc /\ Exit(-1)
     \/ exc /\ program = "argv_source_entry" /\ Exit(Killed)
  /\ Same /\ UNCHANGED <<i, margv, raised, exc, moves, fate, gem>>

Next == \/ TooFewArguments \/ Open \/ PushArgument \/ Load
        \/ CallGem \/ GemStep
        \/ ScriptRaises \/ Rescue \/ Propagate \/ ScriptEnds
        \/ Report \/ OutOfMemory

Spec == Init /\ [][Next]_vars

-----------------------------------------------------------------------------
(* Properties.                                                             *)

\* The type invariant; the gem is between calls unless the script runs.
TypeOK ==
  /\ stage \in {"main", "argv", "script", "report", "exited"}
  /\ code \in {NoCode, 0, -1, -2, 10, Killed}
  /\ code = NoCode <=> stage # "exited"
  /\ Len(margv) <= Len(argv)
  /\ moves \in 0 .. MaxMoves
  /\ pc \notin {"idle", "aborted"} => stage = "script"
  /\ Secp!TypeOK

\* A transaction passes by a script that was loaded and ran to its end, with
\* no exception left, and by no other way: no error of main, of the loader or
\* of a gem and no abort exits with 0.
ZeroMeansEnded ==
  stage = "exited" => /\ code = 0 <=> fate = "ended"
                      /\ code = 0 => ~ raised /\ ~ exc

\* The script finds its arguments in ARGV, in order and as far as a NUL.
ArgvExact ==
  stage = "script" =>
    margv = [j \in 1 .. Len(argv) - First |-> Cut(argv[j + First])]

\* A lock that passes has seen a signature that holds: nothing that a gem
\* refuses, no error and no lack of memory unlocks it.
OnlySigned == code = 0 /\ guarded => Holds(call.key, call.msg, call.sig)
=============================================================================
