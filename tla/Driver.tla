-------------------------------- MODULE Driver --------------------------------
(***************************************************************************)
(* The compiler as a process (main.cpp, CodeGen::emit_ir and               *)
(* emit_executable) and the interactive sessions that call it              *)
(* (toolchain/repl.cpp).  Every session writes the same source and the     *)
(* same binary, and every compilation the same file of LLVM code, all      *)
(* under /tmp.                                                              *)
(*                                                                          *)
(* What a file holds is the set of the entries whose text is in it: empty, *)
(* one entry, or a mixture that two writers left.  The front end is a      *)
(* verdict on an entry here; AgentC opens it up.                            *)
(***************************************************************************)
EXTENDS Naturals, FiniteSets

CONSTANTS
  Sessions,    \* interactive sessions (agentc --repl)
  Clients,     \* users who compile a file of their own and run the result
  Shadow,      \* stands for the files all sessions share
  MaxEntries   \* bound on the programs entered

ASSUME DriverAssumption ==
  /\ Sessions \cap Clients = {} /\ Shadow \notin Clients
  /\ MaxEntries \in Nat

VARIABLES
  at,       \* the place of each process in its loop
  entry,    \* the entry each process works on
  entered,  \* number of entries so far
  valid,    \* those the front end accepts
  src,      \* the source files
  ast,      \* the program in each running compiler
  ll,       \* /tmp/agentc_out.ll
  obj,      \* the code each running clang has read
  bin,      \* the binaries; {} while there is none
  intact,   \* no other process and no failure has come between since the entry
  ran       \* the executions: for which entry, of what, and `intact' then

vars == <<at, entry, entered, valid, src, ast, ll, obj, bin, intact, ran>>

Process == Sessions \cup Clients
File(p) == IF p \in Sessions THEN Shadow ELSE p
Files   == {File(p) : p \in Process}
Empty   == 0                    \* the program without declarations
Content == SUBSET (0..MaxEntries)

\* A file that was opened empty may have been filled meanwhile: what is written
\* then covers all of it or leaves the end standing.
Written(old, new) == IF old \subseteq new THEN {new} ELSE {new, old \cup new}

Go(p, from, to) == at[p] = from /\ at' = [at EXCEPT ![p] = to]

-----------------------------------------------------------------------------
\* Mutant of Enter: the process keeps the entry it worked on before.
EnterNothing(p) ==
  /\ entered < MaxEntries
  /\ entered' = entered + 1
  /\ valid' \in {valid, valid \cup {entered + 1}}
  /\ intact' = [q \in Process |-> q = p /\ \A r \in Process \ {p} : at[r] = "prompt"]
  /\ UNCHANGED entry

\* The next entry: intact only if no other process is at work, and whatever the
\* others are at is no longer.
Enter(p) ==
  /\ entered < MaxEntries
  /\ entered' = entered + 1
  /\ entry' = [entry EXCEPT ![p] = entered + 1]
  /\ valid' \in {valid, valid \cup {entered + 1}}
  /\ intact' = [q \in Process |-> q = p /\ \A r \in Process \ {p} : at[r] = "prompt"]

\* REPL::run: a line is read, and the shadow file opened, which empties it.
ReadLine(s) ==
  /\ s \in Sessions
  /\ Go(s, "prompt", "write")
  /\ Enter(s)
  /\ src' = [src EXCEPT ![File(s)] = {}]
  /\ UNCHANGED <<ast, ll, obj, bin, ran>>

WritePayload(s) ==
  /\ Go(s, "write", "front")
  /\ \E c \in Written(src[File(s)], {entry[s]}) : src' = [src EXCEPT ![File(s)] = c]
  /\ UNCHANGED <<entry, entered, valid, ast, ll, obj, bin, intact, ran>>

\* A user saves a file and calls the compiler on it, or on a name that does not
\* exist, which reads as an empty source.
Invoke(c) ==
  /\ c \in Clients
  /\ Go(c, "prompt", "front")
  /\ Enter(c)
  /\ \E text \in {{entered + 1}, {}} : src' = [src EXCEPT ![c] = text]
  /\ UNCHANGED <<ast, ll, obj, bin, ran>>

\* Mutant of FrontEnd: the errors are printed and the compilation goes on.
FrontEndLenient(p) ==
  /\ Go(p, "front", "open")
  /\ ast' = [ast EXCEPT ![p] = IF src[File(p)] = {} THEN {Empty} ELSE src[File(p)]]
  /\ UNCHANGED <<entry, entered, valid, src, ll, obj, bin, intact, ran>>

\* Stages 1 to 5 of main: the source is read once; with errors the compiler
\* exits with status 1 and the session reports them.  A mixture is whatever it
\* turns out to be.
FrontEnd(p) ==
  /\ \E accepted \in IF Cardinality(src[File(p)]) > 1 THEN BOOLEAN
                     ELSE {src[File(p)] \subseteq valid} :
       /\ Go(p, "front", IF accepted THEN "open" ELSE "prompt")
       /\ ast' = [ast EXCEPT ![p] = IF ~accepted THEN {}
                                    ELSE IF src[File(p)] = {} THEN {Empty}
                                    ELSE src[File(p)]]
  /\ UNCHANGED <<entry, entered, valid, src, ll, obj, bin, intact, ran>>

\* Mutant of OpenIr: the file is opened to append.
OpenIrAppend(p) ==
  /\ Go(p, "open", "print")
  /\ UNCHANGED <<entry, entered, valid, src, ast, ll, obj, bin, intact, ran>>

\* emit_ir: the file is opened, which empties it, and the module printed.
OpenIr(p) ==
  /\ Go(p, "open", "print")
  /\ ll' = {}
  /\ UNCHANGED <<entry, entered, valid, src, ast, obj, bin, intact, ran>>

\* Where it cannot be opened emit_ir answers false, which emit_executable does
\* not look at.
IrDenied(p) ==
  /\ Go(p, "open", "link")
  /\ intact' = [intact EXCEPT ![p] = FALSE]
  /\ UNCHANGED <<entry, entered, valid, src, ast, ll, obj, bin, ran>>

PrintIr(p) ==
  /\ Go(p, "print", "link")
  /\ ll' \in Written(ll, ast[p])
  /\ UNCHANGED <<entry, entered, valid, src, ast, obj, bin, intact, ran>>

\* emit_executable: clang reads what the file holds and compiles it; an empty file
\* has no main.
ReadIr(p) ==
  /\ Go(p, "link", "bind") /\ ll # {}
  /\ obj' = [obj EXCEPT ![p] = ll]
  /\ UNCHANGED <<entry, entered, valid, src, ast, ll, bin, intact, ran>>

\* Its linker makes the binary anew, while others may write it or wait to run it.
OpenBinary(p) ==
  /\ Go(p, "bind", "fill")
  /\ bin' = [bin EXCEPT ![File(p)] = {}]
  /\ UNCHANGED <<entry, entered, valid, src, ast, ll, obj, intact, ran>>

\* Another linker has made the same binary anew since, or filled it.
Overtaken(p) ==
  \/ bin[File(p)] # {}
  \/ \E q \in Process \ {p} : File(q) = File(p) /\ at[q] = "fill"

\* What it writes goes into that file, or into one that has lost its name.
Link(p) ==
  /\ Go(p, "fill", "run")
  /\ \/ \E b \in Written(bin[File(p)], obj[p]) : bin' = [bin EXCEPT ![File(p)] = b]
     \/ Overtaken(p) /\ UNCHANGED bin
  /\ UNCHANGED <<entry, entered, valid, src, ast, ll, obj, intact, ran>>

\* clang fails, or is not there: the old binary stays or is removed, and main
\* ignores the answer of emit_executable, prints the status ok and exits with 0.
LinkFails(p) ==
  /\ \E place \in {"link", "bind", "fill"} : Go(p, place, "run")
  /\ \E b \in {bin[File(p)], {}} : bin' = [bin EXCEPT ![File(p)] = b]
  /\ intact' = [intact EXCEPT ![p] = FALSE]
  /\ UNCHANGED <<entry, entered, valid, src, ast, ll, obj, ran>>

\* The status is 0: the session, or the user, runs the binary.
Execute(p) ==
  /\ Go(p, "run", "prompt")
  /\ ran' = IF bin[File(p)] = {} THEN ran
            ELSE ran \cup {[entry |-> entry[p], what |-> bin[File(p)], intact |-> intact[p]]}
  /\ UNCHANGED <<entry, entered, valid, src, ast, ll, obj, bin, intact>>

-----------------------------------------------------------------------------
Init ==
  /\ at = [p \in Process |-> "prompt"]
  /\ entry = [p \in Process |-> 0] /\ entered = 0 /\ valid = {}
  /\ src = [f \in Files |-> {}] /\ ast = [p \in Process |-> {}]
  /\ ll = {} /\ obj = [p \in Process |-> {}] /\ bin = [f \in Files |-> {}]
  /\ intact = [p \in Process |-> FALSE] /\ ran = {}

\* All entries are made and worked off.
Idle == /\ entered = MaxEntries /\ \A p \in Process : at[p] = "prompt"
        /\ UNCHANGED vars

Next ==
  \/ \E p \in Process :
       \/ ReadLine(p) \/ WritePayload(p) \/ Invoke(p) \/ FrontEnd(p)
       \/ OpenIr(p) \/ IrDenied(p) \/ PrintIr(p)
       \/ ReadIr(p) \/ OpenBinary(p) \/ Link(p) \/ LinkFails(p) \/ Execute(p)
  \/ Idle

Spec == Init /\ [][Next]_vars

-----------------------------------------------------------------------------
(* Properties.                                                              *)

\* The types of the variables.
DriverTypeOK ==
  /\ at \in [Process -> {"prompt", "write", "front", "open", "print", "link", "bind",
                        "fill", "run"}]
  /\ entry \in [Process -> 0..MaxEntries] /\ entered \in 0..MaxEntries
  /\ valid \subseteq 1..entered
  /\ src \in [Files -> Content] /\ ast \in [Process -> Content]
  /\ ll \in Content /\ obj \in [Process -> Content] /\ bin \in [Files -> Content]
  /\ intact \in [Process -> BOOLEAN]
  /\ ran \subseteq [entry : 1..MaxEntries, what : Content, intact : BOOLEAN]

\* A program the compiler rejected is never executed, by whatever session or
\* user, although they overwrite each other's sources, LLVM code and binaries
\* and go on with what a failed step left behind (a mixture of two texts is a
\* program of its own).
RejectedNeverRun ==
  \A r \in ran : Cardinality(r.what) = 1 => r.what \subseteq valid \cup {Empty}

\* What is executed for an entry is that entry, if no other process was at work
\* since it was entered and no step failed; the entry of a user may be a missing
\* file, which runs as the empty program.
IntactRunsOwn ==
  \A r \in ran : r.intact => r.what \in {{r.entry}, {Empty}}

\* No entry is executed twice, as the session says ("to avoid re-executing side
\* effects repeatedly", "just execute once").
ExecutedOnce ==
  \A r, q \in ran : r.what = q.what /\ r.what # {Empty} => r.entry = q.entry

==============================================================================
