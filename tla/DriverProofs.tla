----------------------------- MODULE DriverProofs -----------------------------
(***************************************************************************)
(* What compilers that share their files promise, for any number of        *)
(* sessions, of users and of entries.                                       *)
(***************************************************************************)
EXTENDS Driver, FiniteSetTheorems, TLAPS

\* The program a file or a compiler holds, where it is one program and no
\* mixture, was accepted.
Vetted(c) == \A x : c = {x} => x \in valid \cup {Empty}

AllVetted ==
  /\ Vetted(ll)
  /\ \A p \in Process : Vetted(ast[p]) /\ Vetted(obj[p])
  /\ \A f \in Files : Vetted(bin[f])
  /\ \A r \in ran : Vetted(r.what)

\* A process works on an entry that was made.
AtWork == \A p \in Process : at[p] # "prompt" => entry[p] \in 1..MaxEntries

\* What an undisturbed process finds at each place.
Own(p) == {{entry[p]}, {Empty}}
OwnAt(p) ==
  /\ at[p] = "write" => src[File(p)] = {}
  /\ at[p] = "front" => src[File(p)] \in {{entry[p]}, {}}
  /\ at[p] \in {"open", "print"} => ast[p] \in Own(p)
  /\ at[p] = "print" => ll = {}
  /\ at[p] = "link" => ll \in Own(p)
  /\ at[p] \in {"bind", "fill"} => obj[p] \in Own(p)
  /\ at[p] = "fill" => bin[File(p)] = {}
  /\ at[p] = "run" => bin[File(p)] \in Own(p)

Undisturbed ==
  \A p \in Process : intact[p] /\ at[p] # "prompt" =>
    /\ \A q \in Process \ {p} : at[q] = "prompt"
    /\ OwnAt(p)

DriverInv == DriverTypeOK /\ AtWork
OwnInv    == DriverInv /\ Undisturbed /\ IntactRunsOwn

-----------------------------------------------------------------------------
\* A content of one entry has one element, and one of more is no such content.
LEMMA OneProgram ==
  ASSUME NEW c \in Content
  PROVE  /\ Cardinality(c) = 1 => \E x : c = {x}
         /\ Cardinality(c) > 1 => \A x : c # {x}
<1>1. IsFiniteSet(0..MaxEntries)
  BY FS_Interval, DriverAssumption
<1>2. IsFiniteSet(c)
  BY <1>1, FS_Subset DEF Content
<1>3. Cardinality(c) = 1 => \E x : c = {x}
  BY <1>2, FS_Singleton
<1>4. \A x : Cardinality({x}) = 1
  BY FS_Singleton
<1>5. ASSUME NEW x, c = {x} PROVE ~(Cardinality(c) > 1)
  <2>1. Cardinality(c) = 1 BY <1>4, <1>5
  <2>. QED BY <2>1
<1>. QED BY <1>3, <1>5

\* Writing into a file gives contents again, and the file holds one accepted
\* program only if what was there or what is written does.
LEMMA WritingKeeps ==
  ASSUME NEW old, NEW new, NEW c \in Written(old, new)
  PROVE  /\ old \in Content /\ new \in Content => c \in Content
         /\ \A x : c = {x} => old = {x} \/ new = {x}
         /\ old = {} => c = new
BY DEF Written, Content

\* What is written over accepted programs is one, or a mixture.
LEMMA VettedMixture ==
  ASSUME NEW old, NEW new, Vetted(old), Vetted(new), NEW c \in Written(old, new)
  PROVE  Vetted(c)
BY WritingKeeps DEF Vetted

\* At first everything is empty and everybody waits.
LEMMA DriverInitial ==
  ASSUME Init
  PROVE  OwnInv /\ AllVetted
<1>1. DriverTypeOK
  BY DriverAssumption DEF Init, DriverTypeOK, Content
<1>2. AllVetted
  BY DEF Init, AllVetted, Vetted
<1>. QED BY <1>1, <1>2 DEF Init, OwnInv, DriverInv, AtWork, Undisturbed, IntactRunsOwn

\* A step keeps the types and gives every process at work an entry.
LEMMA DriverKept ==
  ASSUME DriverInv, [Next]_vars
  PROVE  DriverInv'
<1>. USE DriverAssumption DEF DriverInv, DriverTypeOK, AtWork, Process, Files, Go
<1>1. ASSUME NEW p \in Process, ReadLine(p) PROVE DriverInv'
  BY <1>1 DEF ReadLine, Enter, Content
<1>2. ASSUME NEW p \in Process, WritePayload(p) PROVE DriverInv'
  <2>1. src' \in [Files -> Content]
    <3>1. {entry[p]} \in Content BY DEF Content
    <3>. QED BY <1>2, <3>1, WritingKeeps DEF WritePayload
  <2>. QED BY <1>2, <2>1 DEF WritePayload
<1>3. ASSUME NEW p \in Process, Invoke(p) PROVE DriverInv'
  <2>1. src' \in [Files -> Content]
    <3>1. {entered + 1} \in Content /\ {} \in Content
      BY <1>3 DEF Invoke, Enter, Content
    <3>. QED BY <1>3, <3>1 DEF Invoke
  <2>. QED BY <1>3, <2>1 DEF Invoke, Enter
<1>4. ASSUME NEW p \in Process, FrontEnd(p) PROVE DriverInv'
  <2>1. File(p) \in Files OBVIOUS
  <2>2. {} \in Content /\ {Empty} \in Content BY DEF Content, Empty
  <2>. QED BY <1>4, <2>1, <2>2 DEF FrontEnd
<1>5. ASSUME NEW p \in Process, OpenIr(p) PROVE DriverInv'
  BY <1>5 DEF OpenIr, Content
<1>6. ASSUME NEW p \in Process, IrDenied(p) PROVE DriverInv'
  BY <1>6 DEF IrDenied
<1>7. ASSUME NEW p \in Process, PrintIr(p) PROVE DriverInv'
  <2>1. ll' \in Content
    BY <1>7, WritingKeeps DEF PrintIr
  <2>. QED BY <1>7, <2>1 DEF PrintIr
<1>8. ASSUME NEW p \in Process, ReadIr(p) \/ OpenBinary(p) \/ Link(p) PROVE DriverInv'
  <2>1. CASE ReadIr(p)
    BY <2>1 DEF ReadIr
  <2>2. CASE OpenBinary(p)
    BY <2>2 DEF OpenBinary, Content
  <2>3. CASE Link(p)
    <3>1. \A b \in Written(bin[File(p)], obj[p]) : b \in Content
      BY WritingKeeps
    <3>2. bin' \in [Files -> Content]
      BY <2>3, <3>1 DEF Link
    <3>. QED BY <2>3, <3>2 DEF Link
  <2>. QED BY <1>8, <2>1, <2>2, <2>3
<1>9. ASSUME NEW p \in Process, LinkFails(p) PROVE DriverInv'
  BY <1>9 DEF LinkFails, Content
<1>10. ASSUME NEW p \in Process, Execute(p) PROVE DriverInv'
  BY <1>10 DEF Execute
<1>11. CASE Idle \/ UNCHANGED vars
  BY <1>11 DEF Idle, vars
<1>. QED BY <1>1, <1>2, <1>3, <1>4, <1>5, <1>6, <1>7, <1>8, <1>9, <1>10, <1>11 DEF Next

\* A step leaves no rejected program in the LLVM code, a compiler or a binary, and
\* runs none.
LEMMA VettedKept ==
  ASSUME DriverInv, AllVetted, [Next]_vars
  PROVE  AllVetted'
<1>1. \A c : Vetted(c) /\ valid \subseteq valid' => Vetted(c)'
  BY DEF Vetted
<1>. USE DEF DriverInv, DriverTypeOK, AllVetted, Process, Files, Go
<1>2. ASSUME NEW p \in Process, ReadLine(p) \/ Invoke(p) PROVE AllVetted'
  BY <1>1, <1>2 DEF ReadLine, Invoke, Enter
<1>3. ASSUME NEW p \in Process, WritePayload(p) PROVE AllVetted'
  BY <1>1, <1>3 DEF WritePayload
<1>4. ASSUME NEW p \in Process, FrontEnd(p) PROVE AllVetted'
  <2>1. src[File(p)] \in Content OBVIOUS
  <2>2. Cardinality(src[File(p)]) > 1 => Vetted(src[File(p)])
    BY <2>1, OneProgram DEF Vetted
  <2>3. src[File(p)] \subseteq valid => Vetted(src[File(p)])
    BY DEF Vetted
  <2>4. Vetted({}) /\ Vetted({Empty})
    BY DEF Vetted
  <2>5. Vetted(ast'[p]) /\ \A q \in Process \ {p} : ast'[q] = ast[q]
    BY <1>4, <2>2, <2>3, <2>4 DEF FrontEnd
  <2>. QED BY <1>1, <1>4, <2>5 DEF FrontEnd
<1>5. ASSUME NEW p \in Process, OpenIr(p) PROVE AllVetted'
  <2>1. Vetted(ll') BY <1>5 DEF OpenIr, Vetted
  <2>. QED BY <1>1, <1>5, <2>1 DEF OpenIr
<1>6. ASSUME NEW p \in Process, IrDenied(p) PROVE AllVetted'
  BY <1>1, <1>6 DEF IrDenied
<1>7. ASSUME NEW p \in Process, PrintIr(p) PROVE AllVetted'
  <2>1. Vetted(ll) /\ Vetted(ast[p]) /\ ll' \in Written(ll, ast[p]) /\ valid' = valid
    BY <1>7 DEF PrintIr
  <2>2. Vetted(ll')
    BY ONLY <2>1, VettedMixture DEF Vetted
  <2>. QED BY <1>1, <1>7, <2>2 DEF PrintIr
<1>8. ASSUME NEW p \in Process, ReadIr(p) \/ OpenBinary(p) \/ Link(p) PROVE AllVetted'
  <2>1. CASE ReadIr(p)
    BY <1>1, <2>1 DEF ReadIr
  <2>2. CASE OpenBinary(p)
    <3>1. Vetted({}) BY DEF Vetted
    <3>. QED BY <1>1, <2>2, <3>1 DEF OpenBinary
  <2>3. CASE Link(p)
    <3>1. \A b \in Written(bin[File(p)], obj[p]) : Vetted(b)
      <4>1. Vetted(bin[File(p)]) /\ Vetted(obj[p])
        OBVIOUS
      <4>. QED BY ONLY <4>1, VettedMixture
    <3>. QED BY <1>1, <2>3, <3>1 DEF Link
  <2>. QED BY <1>8, <2>1, <2>2, <2>3
<1>9. ASSUME NEW p \in Process, LinkFails(p) PROVE AllVetted'
  <2>1. Vetted({}) BY DEF Vetted
  <2>2. /\ UNCHANGED <<valid, ast, ll, obj, ran>>
        /\ \E b \in {bin[File(p)], {}} : bin' = [bin EXCEPT ![File(p)] = b]
    BY <1>9 DEF LinkFails
  <2>. QED BY <1>1, <2>1, <2>2
<1>10. ASSUME NEW p \in Process, Execute(p) PROVE AllVetted'
  <2>1. File(p) \in Files OBVIOUS
  <2>. QED BY <1>1, <1>10, <2>1 DEF Execute
<1>11. CASE Idle \/ UNCHANGED vars
  BY <1>1, <1>11 DEF Idle, vars
<1>. QED BY <1>2, <1>3, <1>4, <1>5, <1>6, <1>7, <1>8, <1>9, <1>10, <1>11 DEF Next

\* While an undisturbed process works nobody else does: it is enough to look at
\* the process that makes the step.
LEMMA OnlyMine ==
  ASSUME OwnInv, NEW p \in Process, NEW to,
         Go(p, at[p], to), at[p] # "prompt",
         \A q \in Process : intact'[q] => intact[q],
         intact'[p] /\ OwnAt(p) /\ to # "prompt" => OwnAt(p)'
  PROVE  Undisturbed'
<1>. SUFFICES ASSUME NEW r \in Process, intact'[r], at'[r] # "prompt"
              PROVE  (\A q \in Process \ {r} : at'[q] = "prompt") /\ OwnAt(r)'
  BY DEF Undisturbed
<1>. USE DEF OwnInv, DriverInv, DriverTypeOK, Go
<1>1. r = p
  BY DEF Undisturbed
<1>2. at'[r] = to /\ \A q \in Process \ {r} : at'[q] = at[q]
  BY <1>1
<1>. QED BY <1>1, <1>2 DEF Undisturbed

\* An entry leaves its own process undisturbed, and that only if the others wait.
LEMMA EntryAlone ==
  ASSUME OwnInv, NEW p \in Process, NEW to, Go(p, "prompt", to), Enter(p), OwnAt(p)'
  PROVE  Undisturbed'
BY DEF OwnInv, DriverInv, DriverTypeOK, Go, Enter, Undisturbed

\* A step keeps what an undisturbed process finds, and lets it run only its own.
LEMMA OwnKept ==
  ASSUME OwnInv, [Next]_vars
  PROVE  Undisturbed' /\ IntactRunsOwn'
<1>. USE DEF OwnInv, DriverInv, DriverTypeOK, Files
<1>1. ASSUME NEW p \in Process, ReadLine(p) PROVE Undisturbed' /\ IntactRunsOwn'
  <2>1. OwnAt(p)' BY <1>1 DEF ReadLine, Go, OwnAt
  <2>. QED BY <1>1, <2>1, EntryAlone DEF ReadLine, IntactRunsOwn
<1>2. ASSUME NEW p \in Process, WritePayload(p) PROVE Undisturbed' /\ IntactRunsOwn'
  <2>1. OwnAt(p) => OwnAt(p)' BY <1>2, WritingKeeps DEF WritePayload, Go, OwnAt
  <2>. QED BY <1>2, <2>1, OnlyMine DEF WritePayload, Go, IntactRunsOwn
<1>3. ASSUME NEW p \in Process, Invoke(p) PROVE Undisturbed' /\ IntactRunsOwn'
  <2>1. File(p) = p BY <1>3, DriverAssumption DEF Invoke, File
  <2>2. p \in Files BY <2>1
  <2>3. src'[File(p)] \in {{entry'[p]}, {}} BY <1>3, <2>1, <2>2 DEF Invoke, Enter
  <2>4. OwnAt(p)' BY <1>3, <2>3 DEF Invoke, Go, OwnAt
  <2>. QED BY <1>3, <2>4, EntryAlone DEF Invoke, IntactRunsOwn
<1>4. ASSUME NEW p \in Process, FrontEnd(p) PROVE Undisturbed' /\ IntactRunsOwn'
  <2>1. PICK to : Go(p, "front", to) /\ to \in {"open", "prompt"}
                  /\ (to = "open" => ast'[p] = IF src[File(p)] = {} THEN {Empty} ELSE src[File(p)])
    BY <1>4 DEF FrontEnd
  <2>2. OwnAt(p) /\ to # "prompt" => OwnAt(p)'
    BY <1>4, <2>1 DEF FrontEnd, Go, OwnAt, Own
  <2>. QED BY <1>4, <2>1, <2>2, OnlyMine DEF FrontEnd, Go, IntactRunsOwn
<1>5. ASSUME NEW p \in Process, OpenIr(p) PROVE Undisturbed' /\ IntactRunsOwn'
  <2>1. OwnAt(p) => OwnAt(p)' BY <1>5 DEF OpenIr, Go, OwnAt, Own
  <2>. QED BY <1>5, <2>1, OnlyMine DEF OpenIr, Go, IntactRunsOwn
<1>6. ASSUME NEW p \in Process, IrDenied(p) PROVE Undisturbed' /\ IntactRunsOwn'
  BY <1>6, OnlyMine DEF IrDenied, Go, IntactRunsOwn
<1>7. ASSUME NEW p \in Process, PrintIr(p) PROVE Undisturbed' /\ IntactRunsOwn'
  <2>1. OwnAt(p) => OwnAt(p)' BY <1>7, WritingKeeps DEF PrintIr, Go, OwnAt, Own
  <2>. QED BY <1>7, <2>1, OnlyMine DEF PrintIr, Go, IntactRunsOwn
<1>8. ASSUME NEW p \in Process, ReadIr(p) \/ OpenBinary(p) \/ Link(p)
      PROVE  Undisturbed' /\ IntactRunsOwn'
  <2>1. CASE ReadIr(p)
    <3>1. OwnAt(p) => OwnAt(p)' BY <2>1 DEF ReadIr, Go, OwnAt, Own
    <3>. QED BY <2>1, <3>1, OnlyMine DEF ReadIr, Go, IntactRunsOwn
  <2>2. CASE OpenBinary(p)
    <3>1. bin'[File(p)] = {} BY <2>2 DEF OpenBinary
    <3>2. OwnAt(p) => OwnAt(p)' BY <2>2, <3>1 DEF OpenBinary, Go, OwnAt, Own
    <3>. QED BY <2>2, <3>2, OnlyMine DEF OpenBinary, Go, IntactRunsOwn
  <2>3. CASE Link(p)
    <3>1. intact[p] => bin[File(p)] = {} /\ ~Overtaken(p)
      BY <2>3 DEF Link, Go, Undisturbed, OwnAt, Overtaken
    <3>2. intact[p] => bin'[File(p)] = obj[p]
      <4>1. \A b \in Written({}, obj[p]) : b = obj[p]
        BY DEF Written
      <4>2. File(p) \in DOMAIN bin
        OBVIOUS
      <4>. QED BY <2>3, <3>1, <4>1, <4>2 DEF Link
    <3>3. intact[p] /\ OwnAt(p) => OwnAt(p)'
      BY <2>3, <3>2 DEF Link, Go, OwnAt, Own
    <3>. QED BY <2>3, <3>3, OnlyMine DEF Link, Go, IntactRunsOwn
  <2>. QED BY <1>8, <2>1, <2>2, <2>3
<1>9. ASSUME NEW p \in Process, LinkFails(p) PROVE Undisturbed' /\ IntactRunsOwn'
  BY <1>9, OnlyMine DEF LinkFails, Go, IntactRunsOwn
<1>10. ASSUME NEW p \in Process, Execute(p) PROVE Undisturbed' /\ IntactRunsOwn'
  <2>1. Undisturbed' BY <1>10, OnlyMine DEF Execute, Go
  <2>2. intact[p] => bin[File(p)] \in Own(p)
    BY <1>10 DEF Execute, Go, Undisturbed, OwnAt
  <2>. QED BY <1>10, <2>1, <2>2 DEF Execute, IntactRunsOwn, Own
<1>11. CASE Idle \/ UNCHANGED vars
  BY <1>11 DEF Idle, vars, Undisturbed, OwnAt, Own, IntactRunsOwn, File
<1>. QED BY <1>1, <1>2, <1>3, <1>4, <1>5, <1>6, <1>7, <1>8, <1>9, <1>10, <1>11 DEF Next

-----------------------------------------------------------------------------
\* For any number of sessions, users and entries the state of the processes and
\* of their files is well typed (DriverTypeOK).
THEOREM DriverTypeCorrect == Spec => []DriverTypeOK
<1>1. Init => DriverInv BY DriverInitial DEF OwnInv
<1>2. DriverInv /\ [Next]_vars => DriverInv' BY DriverKept
<1>3. DriverInv => DriverTypeOK BY DEF DriverInv
<1>. QED BY <1>1, <1>2, <1>3, PTL DEF Spec

\* A rejected program is never run, whatever processes share the files and
\* whichever of their steps fail (RejectedNeverRun; emit_executable of
\* codegen.cpp, REPL::run of repl.cpp).
THEOREM RejectedIsNotRun == Spec => []RejectedNeverRun
<1>1. Init => DriverInv /\ AllVetted BY DriverInitial DEF OwnInv
<1>2. DriverInv /\ AllVetted /\ [Next]_vars => (DriverInv /\ AllVetted)'
  BY DriverKept, VettedKept
<1>3. DriverInv /\ AllVetted => RejectedNeverRun
  <2>. SUFFICES ASSUME DriverInv, AllVetted, NEW r \in ran, Cardinality(r.what) = 1
                PROVE  r.what \subseteq valid \cup {Empty}
    BY DEF RejectedNeverRun
  <2>1. r.what \in Content BY DEF DriverInv, DriverTypeOK
  <2>. QED BY <2>1, OneProgram DEF AllVetted, Vetted
<1>. QED BY <1>1, <1>2, <1>3, PTL DEF Spec

\* A process that nobody and no failure came between runs what was entered
\* (IntactRunsOwn; the loop of REPL::run and stages 1 to 7 of main).
THEOREM IntactIsOwn == Spec => []IntactRunsOwn
<1>1. Init => OwnInv BY DriverInitial
<1>2. OwnInv /\ [Next]_vars => OwnInv' BY DriverKept, OwnKept DEF OwnInv
<1>3. OwnInv => IntactRunsOwn BY DEF OwnInv
<1>. QED BY <1>1, <1>2, <1>3, PTL DEF Spec

==============================================================================
