----------------------------- MODULE AgentCProofs -----------------------------
(***************************************************************************)
(* The compiler as a whole, for every program: each of its steps is a step *)
(* of the type checker or of the code generator (or of neither), so what   *)
(* was proved of the two alone holds of them together; and what is emitted *)
(* was accepted first.  From that:                                         *)
(*  - the sandbox: a capability that is not declared is not used by the    *)
(*    code emitted;                                                        *)
(*  - no path of that code reads a variable before it was written;         *)
(*  - the paths of that code are those of the source: while a function is  *)
(*    under construction, whatever would complete its open blocks to the   *)
(*    paths the source has from there on makes it the whole source.        *)
(*    And each function of the source is emitted, once and in order.       *)
(***************************************************************************)
EXTENDS AgentC, TypeCheckerProofs, CodeGenProofs

-----------------------------------------------------------------------------
(* The compiler runs the two passes.                                        *)

\* The checker does not change the program.
LEMMA StepKeepsProgram ==
  ASSUME Step
  PROVE  prog' = prog
BY DEF Step, BeginFn, FinishFn, CheckBinding, CheckAssign, CheckExpr, SkipLocalInfer,
       CheckIf, CheckElse, CheckEndIf, CheckForIn, CheckEndFor, CheckTail, At

\* Neither does the generator.
LEMMA GenStepKeepsProgram ==
  ASSUME GenStep
  PROVE  prog' = prog
BY DEF GenStep, SkipDecl, BeginBody, FinishBody, GenMain, GenBinding, GenAssign,
       GenExprStmt, GenNothing, GenIf, GenElse, GenEndIf, Gen

\* A step of the compiler is one of the checker, which leaves the generator as it
\* is, one of the generator, which leaves the checker as it is, or changes the
\* stage alone.
LEMMA CompilerStep ==
  ASSUME [ANext]_allVars
  PROVE  \/ Check /\ Step /\ UNCHANGED <<stage, gvars>>
         \/ Generate /\ GenStep /\ UNCHANGED <<stage, vars>>
         \/ (Judge \/ Emission \/ Abort \/ UNCHANGED stage) /\ UNCHANGED <<vars, gvars>>
<1>1. CASE Check
  <2>1. prog' = prog BY <1>1, StepKeepsProgram DEF Check
  <2>. QED BY <1>1, <2>1 DEF Check, genVars, gvars
<1>2. CASE Generate
  <2>1. prog' = prog BY <1>2, GenStepKeepsProgram DEF Generate
  <2>. QED BY <1>2, <2>1 DEF Generate, checkVars, vars
<1>3. CASE Judge \/ Emission \/ Abort
  BY <1>3 DEF Judge, Emission, Abort, checkVars, genVars, vars, gvars
<1>4. CASE Exited \/ UNCHANGED allVars
  BY <1>4 DEF Exited, allVars, checkVars, genVars, vars, gvars
<1>. QED BY <1>1, <1>2, <1>3, <1>4 DEF ANext, AStep

\* Every compilation is a run of the type checker, followed by stutters: what
\* Spec promises, the compiler keeps.
THEOREM CompilerChecks == ASpec => Spec
<1>1. AInit => Init BY DEF AInit
<1>2. [ANext]_allVars => [Next]_vars
  <2>1. ASSUME [ANext]_allVars PROVE Step \/ UNCHANGED vars
    BY <2>1, CompilerStep
  <2>. QED BY <2>1 DEF Next
<1>. QED BY <1>1, <1>2, PTL DEF ASpec, Spec

\* Every compilation is a run of the code generator, after stutters.
THEOREM CompilerGenerates == ASpec => GenSpec
<1>1. AInit => GenInit BY DEF AInit, Init, GenInit
<1>2. [ANext]_allVars => [GenNext]_gvars
  <2>1. ASSUME [ANext]_allVars PROVE GenStep \/ UNCHANGED gvars
    BY <2>1, CompilerStep
  <2>. QED BY <2>1 DEF GenNext
<1>. QED BY <1>1, <1>2, PTL DEF ASpec, GenSpec

-----------------------------------------------------------------------------
(* What is emitted was accepted.                                            *)

\* The code generator runs on accepted programs only, and what it reports is
\* looked at before anything is emitted.
StageInv == /\ stage \in {"generate", "emitted"} => Accepted
            /\ stage = "emitted" => Built

\* A stage is left only when what it reports is empty.
LEMMA StageKept == StageInv /\ [ANext]_allVars => StageInv'
<1>. SUFFICES ASSUME StageInv, [ANext]_allVars PROVE StageInv' OBVIOUS
<1>1. CASE Check /\ UNCHANGED <<stage, gvars>>
  BY <1>1 DEF StageInv, Check
<1>2. CASE Generate /\ UNCHANGED <<stage, vars>>
  BY <1>2 DEF StageInv, Generate, Accepted, Checked, vars
<1>3. CASE UNCHANGED <<vars, gvars>>
  <2>1. Accepted' <=> Accepted BY <1>3 DEF Accepted, Checked, vars
  <2>2. Built' <=> Built BY <1>3 DEF Built, Generated, gvars
  <2>3. CASE Judge BY <2>1, <2>3 DEF StageInv, Judge, Accepted
  <2>4. CASE Emission BY <2>1, <2>2, <2>4 DEF StageInv, Emission, Built
  <2>5. CASE Abort BY <2>5 DEF StageInv, Abort
  <2>6. CASE UNCHANGED stage BY <2>1, <2>2, <2>6 DEF StageInv
  <2>. QED BY <1>3, <2>3, <2>4, <2>5, <2>6, CompilerStep DEF Check, Generate
<1>. QED BY <1>1, <1>2, <1>3, CompilerStep

\* So it holds in every state.
LEMMA StageHolds == ASpec => []StageInv
<1>1. AInit => StageInv BY DEF AInit, StageInv
<1>. QED BY <1>1, StageKept, PTL DEF ASpec

-----------------------------------------------------------------------------
(* A call of no known function is reported.                                 *)

\* Item i of d is a call, where infer() looks, of a function that is neither of
\* the standard library nor declared.
CallsUnknown(d, i) ==
  LET e == d.body[i].expr
  IN  /\ Inferred(e) /\ e.atoms[1].kind = "call"
      /\ e.atoms[1].val \notin StdNames /\ Registered(e.atoms[1].val) = {}
\* No item that was walked is such a call, unless an error was reported.
UnknownReported ==
  \A c \in DOMAIN prog : \A i \in Walked(c) : errors = {} => ~CallsUnknown(prog[c], i)

\* Every step of the checker keeps that.
LEMMA UnknownKept ==
  TypeOK /\ ScopeInv /\ MoveInv /\ UnknownReported /\ [Next]_vars => UnknownReported'
<1>. SUFFICES ASSUME TypeOK, ScopeInv, MoveInv, UnknownReported, [Next]_vars
              PROVE  UnknownReported'
  OBVIOUS
<1>1. errors \subseteq errors' /\ prog' = prog BY StepWalks
<1>2. \A d, i : CallsUnknown(d, i)' <=> CallsUnknown(d, i)
  BY <1>1 DEF CallsUnknown, Registered
<1>. SUFFICES ASSUME NEW c \in DOMAIN prog, NEW i \in Walked(c)', errors' = {},
                     CallsUnknown(prog[c], i)
              PROVE  FALSE
  BY <1>1, <1>2 DEF UnknownReported
<1>3. errors = {} BY <1>1
<1>4. i \notin Walked(c) BY <1>3 DEF UnknownReported
<1>5. c = cur /\ i = pc /\ pc \in DOMAIN decl.body BY <1>4, StepWalks
<1>6. Inference BY <1>5, InferenceStep
<1>7. /\ item = decl.body[pc]
      /\ \A code \in InferErrors(item.expr) : [code |-> code, decl |-> cur, at |-> pc] \in errors'
  BY <1>6, InferenceReports, SMTT(30)
<1>8. "E209-Call" \in InferErrors(item.expr)
  BY <1>5, <1>7 DEF CallsUnknown, InferErrors, CallErrors, decl
<1>. QED BY <1>7, <1>8

\* So it holds in every state.
LEMMA UnknownHolds == Spec => []UnknownReported
<1>1. Init => UnknownReported BY NothingWalked DEF UnknownReported
<1>. QED BY <1>1, UnknownKept, StackHolds, PTL DEF Spec

-----------------------------------------------------------------------------
(* The sandbox.                                                             *)

\* What a call of an accepted program that is visible to inference may be.
LEMMA CallAllowed ==
  ASSUME TypeOK, Accepted, CapErrorsExact, UnknownReported,
         prog \in Programs, NEW c \in DOMAIN prog, NEW i, NEW f, Calls(prog[c], i, f), Module(f) # "none",
         prog[c].body[i].expr.wrap \notin HiddenOperands
  PROVE  CapFor(f)[1] \in prog[c].caps
<1>. DEFINE e == prog[c].body[i].expr
            rule == CapFor(f)
<1>1. i \in Walked(c)
  <2>1. c < cur
    <3>1. prog \in Seq(Decl) BY DEF TypeOK
    <3>2. Len(prog) \in Nat /\ DOMAIN prog = 1 .. Len(prog) BY <3>1, LenProperties
    <3>. QED BY <3>2 DEF Accepted, Checked
  <2>. QED BY <2>1 DEF Walked, Calls
<1>2. Inferred(e) /\ e.atoms[1].kind = "call" /\ e.atoms[1].val = f
  <2>1. e.wrap \in {"none", "ok"} BY DEF Calls, HiddenOperands
  <2>2. e \in Expr
    <3>1. prog[c].body \in Seq(Item) BY BodyTyped
    <3>2. prog[c].body[i] \in Item BY <3>1, ElementOfSeq, LenProperties DEF Calls
    <3>. QED BY <3>2 DEF Item
  <2>3. Len(e.atoms) = 1 /\ e.atoms \in Seq(Atom) BY <2>1, <2>2 DEF Expr
  <2>4. DOMAIN e.atoms = {1} BY <2>3, LenProperties
  <2>. QED BY <2>1, <2>4 DEF Calls, Inferred
<1>3. f \in StdNames
  <2>. SUFFICES ASSUME f \notin StdNames PROVE FALSE OBVIOUS
  <2>1. Registered(f) = {}
    BY DeclaredNamesAssumption DEF DeclaredNamesAssumption, Registered
  <2>2. CallsUnknown(prog[c], i) BY <1>2, <2>1 DEF CallsUnknown
  <2>. QED BY <1>1, <2>2 DEF UnknownReported, Accepted
<1>4. rule \in CapRules
  <2>1. Module(f) \in {"io", "net", "ctx"} BY DEF Module
  <2>. QED BY <2>1 DEF CapFor, CapRules
<1>5. ~Error(rule[2], c, i) BY DEF Accepted, Error
<1>6. ~LacksCap(prog[c], i, rule) BY <1>1, <1>4, <1>5 DEF CapErrorsExact
<1>. QED BY <1>2, <1>3, <1>6 DEF LacksCap

\* For every program: the code that is emitted calls a module of the standard
\* library only where the function declares its capability, operands of operators
\* excepted.  A call in the code comes from an expression of the declaration
\* (EmittedInv), the checker looked at it (CapErrorsExact, UnknownReported), and
\* nothing is emitted unless the checker reported nothing (StageInv).
THEOREM SandboxKept == ASpec => []CapabilitiesEmitted
<1>1. ASSUME TypeOK, CapErrorsExact, UnknownReported, GraphInv, CodeInv, StageInv
      PROVE  CapabilitiesEmitted
  <2>. SUFFICES ASSUME stage = "emitted", NEW f \in DOMAIN emitted,
                       NEW b \in DOMAIN emitted[f].blocks,
                       NEW k \in DOMAIN emitted[f].blocks[b].code,
                       emitted[f].blocks[b].code[k].op = "call",
                       Module(emitted[f].blocks[b].code[k].name) # "none",
                       prog[emitted[f].decl].body[emitted[f].blocks[b].code[k].slot.at].expr.wrap
                         \notin HiddenOperands
                PROVE  CapFor(emitted[f].blocks[b].code[k].name)[1] \in prog[emitted[f].decl].caps
    BY ZenonT(40) DEF CapabilitiesEmitted
  <2>. DEFINE d == emitted[f].decl
              S == Written(d)
              w == emitted[f].blocks[b].code[k]
  <2>1. Accepted BY <1>1, ZenonT(40) DEF StageInv
  <2>2. d \in DOMAIN prog /\ emitted[f].blocks \in Seq(BlockOf(S))
    BY <1>1, ZenonT(40) DEF CodeInv, EmittedInv
  <2>3. w \in S
    <3>. HIDE DEF S
    <3>1. emitted[f].blocks[b] \in BlockOf(S) BY <2>2, ElementOfSeq, LenProperties, ZenonT(40)
    <3>2. emitted[f].blocks[b].code \in Seq(S) BY <3>1, ZenonT(40) DEF BlockOf
    <3>. QED BY <3>2, ElementOfSeq, LenProperties, ZenonT(40)
  <2>4. Calls(prog[d], w.slot.at, w.name) BY <2>3 DEF Written
  <2>. QED BY <1>1, <2>1, <2>2, <2>4, CallAllowed, ZenonT(40) DEF GraphInv
<1>2. ASpec => [](TypeOK /\ CapErrorsExact /\ UnknownReported)
  BY CompilerChecks, TypeCorrect, CapabilityRule, UnknownHolds, PTL
<1>3. ASpec => [](GraphInv /\ CodeInv) BY CompilerGenerates, CodeHolds, PTL
<1>. QED BY <1>1, <1>2, <1>3, StageHolds, PTL

-----------------------------------------------------------------------------
(* The blocks reached from the entry block.                                 *)

\* The blocks of a function that branch to blocks of it alone.
Closed(blocks) ==
  /\ Len(blocks) \in Nat /\ DOMAIN blocks = 1 .. Len(blocks) /\ 1 \in DOMAIN blocks
  /\ \A b \in DOMAIN blocks : \A k \in DOMAIN blocks[b].succ : blocks[b].succ[k] \in DOMAIN blocks

\* The blocks the successors of those in S are, but for a.
Successors(blocks, S) == UNION {{blocks[i].succ[k] : k \in DOMAIN blocks[i].succ} : i \in S}
Onward(blocks, S, a) == S \cup (Successors(blocks, S) \ {a})

\* The blocks reached without a: the entry block, unless it is a, and with a block
\* its successors but for a.
LEMMA ReachClosed ==
  ASSUME NEW blocks, Closed(blocks), NEW a
  PROVE  /\ a # 1 => 1 \in ReachableAvoiding(blocks, a)
         /\ \A b \in DOMAIN blocks : \A k \in DOMAIN blocks[b].succ :
              b \in ReachableAvoiding(blocks, a) /\ blocks[b].succ[k] # a
                => blocks[b].succ[k] \in ReachableAvoiding(blocks, a)
<1>. DEFINE n == Len(blocks)
            D == SUBSET (1 .. n)
            phi == [S \in D |-> Onward(blocks, S, a)]
            base == {1} \ {a}
            Fold(h) == h = [k \in 0 .. n |-> IF k = 0 THEN base ELSE Onward(blocks, h[k - 1], a)]
<1>1. n \in Nat /\ DOMAIN blocks = 1 .. n /\ 1 \in 1 .. n BY DEF Closed
<1>2. \A S \in D : Onward(blocks, S, a) \in D /\ S \subseteq Onward(blocks, S, a)
  <2>. SUFFICES ASSUME NEW S \in D PROVE Onward(blocks, S, a) \in D
    BY DEF Onward
  <2>1. ASSUME NEW i \in S, NEW k \in DOMAIN blocks[i].succ PROVE blocks[i].succ[k] \in 1 .. n
    <3>1. i \in DOMAIN blocks BY <1>1
    <3>. QED BY <1>1, <3>1 DEF Closed
  <2>2. Successors(blocks, S) \subseteq 1 .. n BY <2>1 DEF Successors
  <2>. QED BY <2>2 DEF Onward
<1>3. phi \in [D -> D] /\ base \in D
  <2>1. base \in D BY <1>1
  <2>. QED BY <1>2, <2>1
<1>4. \A S \in D : phi[S] = Onward(blocks, S, a) OBVIOUS
<1>5. ReachableAvoiding(blocks, a) = (CHOOSE h : Fold(h))[n]
  BY DEF ReachableAvoiding, Onward, Successors
<1>. HIDE DEF phi, base, n, D
<1>6. \E h : Fold(h)
  <2>1. PICK h : Iterates(h, D, base, n, phi) BY <1>1, <1>3, IterationExists, Zenon
  <2>2. h \in [0 .. n -> D] /\ h[0] = base /\ \A k \in 1 .. n : h[k] = phi[h[k - 1]]
    BY <2>1 DEF Iterates
  <2>3. \A k \in 0 .. n : h[k] = IF k = 0 THEN base ELSE Onward(blocks, h[k - 1], a)
    <3>. TAKE k \in 0 .. n
    <3>1. k = 0 \/ (k \in 1 .. n /\ k # 0 /\ k - 1 \in 0 .. n) BY <1>1
    <3>2. CASE k = 0 BY <2>2, <3>2
    <3>3. CASE k \in 1 .. n /\ k # 0 /\ k - 1 \in 0 .. n
      <4>1. h[k - 1] \in D BY <2>2, <3>3
      <4>. QED BY <1>4, <2>2, <3>3, <4>1
    <3>. QED BY <3>1, <3>2, <3>3
  <2>4. h = [k \in 0 .. n |-> h[k]] BY <2>2
  <2>5. [k \in 0 .. n |-> h[k]]
          = [k \in 0 .. n |-> IF k = 0 THEN base ELSE Onward(blocks, h[k - 1], a)]
    BY <2>3
  <2>. QED BY <2>4, <2>5
<1>. DEFINE reach == CHOOSE h : Fold(h)
<1>7. reach = [k \in 0 .. n |-> IF k = 0 THEN base ELSE Onward(blocks, reach[k - 1], a)]
  BY <1>6
<1>. HIDE DEF reach
<1>8. reach[0] = base /\ \A k \in 1 .. n : reach[k] = Onward(blocks, reach[k - 1], a)
  <2>1. 0 \in 0 .. n /\ \A k \in 1 .. n : k \in 0 .. n /\ k # 0 BY <1>1
  <2>. QED BY <1>7, <2>1
<1>9. \A k \in 0 .. n : reach[k] \in D /\ base \subseteq reach[k]
  <2>. DEFINE P == {k \in 0 .. n : reach[k] \in D /\ base \subseteq reach[k]}
  <2>1. 0 \in P
    <3>1. 0 \in 0 .. n BY <1>1
    <3>. QED BY <1>3, <1>8, <3>1
  <2>2. ASSUME NEW k \in 0 .. (n - 1), k \in P PROVE k + 1 \in P
    <3>1. k + 1 \in 1 .. n /\ k + 1 \in 0 .. n /\ (k + 1) - 1 = k BY <1>1
    <3>2. reach[k + 1] = Onward(blocks, reach[k], a) BY <1>8, <3>1
    <3>. QED BY <1>2, <2>2, <3>1, <3>2
  <2>. HIDE DEF P
  <2>3. \A k \in 0 .. n : k \in P BY <1>1, <2>1, <2>2, UpTo
  <2>. QED BY <2>3 DEF P
<1>10. phi[reach[n]] = reach[n]
  <2>1. reach \in [0 .. n -> D]
    <3>1. reach = [k \in 0 .. n |-> reach[k]]
      <4>. DEFINE e(k) == IF k = 0 THEN base ELSE Onward(blocks, reach[k - 1], a)
      <4>1. reach = [k \in 0 .. n |-> e(k)] BY <1>7
      <4>. HIDE DEF e
      <4>. QED BY <4>1
    <3>. QED BY <1>9, <3>1
  <2>2. \A k \in 1 .. n : reach[k] = phi[reach[k - 1]]
    <3>. TAKE k \in 1 .. n
    <3>1. k - 1 \in 0 .. n BY <1>1
    <3>. QED BY <1>4, <1>8, <1>9, <3>1
  <2>3. \A S \in D : S \subseteq phi[S] BY <1>2, <1>4
  <2>4. D = SUBSET (1 .. n) BY DEF D
  <2>5. Iterates(reach, D, base, n, phi) BY <1>8, <2>1, <2>2 DEF Iterates
  <2>6. n \in Nat /\ phi \in [D -> D] BY <1>1, <1>3
  <2>. QED BY ONLY <2>3, <2>4, <2>5, <2>6, Saturates
<1>11. n \in 0 .. n BY <1>1
<1>12. Onward(blocks, reach[n], a) = reach[n] BY <1>4, <1>9, <1>10, <1>11
<1>13. ReachableAvoiding(blocks, a) = reach[n] BY <1>5 DEF reach
<1>14. a # 1 => 1 \in reach[n] BY <1>9, <1>11 DEF base
<1>15. \A b : \A k \in DOMAIN blocks[b].succ :
         b \in reach[n] /\ blocks[b].succ[k] # a => blocks[b].succ[k] \in Onward(blocks, reach[n], a)
  BY DEF Onward, Successors
<1>. QED BY <1>12, <1>13, <1>14, <1>15

-----------------------------------------------------------------------------
(* Paths as sequences of events.                                            *)

EventOps == {"alloca", "load", "store", "call", "bad", "then", "else", "ok", "err"} \cup Terms
Events == EventOps \X (Vars \cup FnNames \cup {NoName}) \X Nat \X Nat

\* Event e occurs, and no event s before it.
Exposed(p, e, s) == \E k \in DOMAIN p : p[k] = e /\ \A j \in 1 .. (k - 1) : p[j] # s
\* Event s does not occur.
Free(p, s) == \A k \in DOMAIN p : p[k] # s

\* The events are tuples of known things, and begin with their kind.
LEMMA EventsTyped ==
  /\ \A c \in Instrs : EventOf(c) \in Events /\ EventOf(c)[1] = c.op
  /\ \A op \in EventOps : Mark(op) \in Events /\ Mark(op)[1] = op
<1>1. ASSUME NEW c \in Instrs PROVE EventOf(c) \in Events /\ EventOf(c)[1] = c.op
  <2>1. /\ c.op \in EventOps /\ c.name \in Vars \cup FnNames \cup {NoName}
        /\ c.slot.decl \in Nat /\ c.slot.at \in Nat /\ 0 \in Nat
    BY DEF Instrs, Slot, EventOps
  <2>. QED BY <2>1 DEF EventOf, Event, Events
<1>2. ASSUME NEW op \in EventOps PROVE Mark(op) \in Events /\ Mark(op)[1] = op
  BY DEF Mark, Event, Events
<1>. QED BY <1>1, <1>2

\* What is exposed in a path of two parts is exposed in the first, or in the second
\* and the first does not cover it.
LEMMA ExposedConcat ==
  ASSUME NEW T, NEW p \in Seq(T), NEW q \in Seq(T), NEW e, NEW s
  PROVE  /\ Exposed(p \o q, e, s) => Exposed(p, e, s) \/ (Free(p, s) /\ Exposed(q, e, s))
         /\ Free(p \o q, s) => Free(p, s) /\ Free(q, s)
<1>. DEFINE m == Len(p)
            n == Len(q)
            u == p \o q
<1>1. /\ m \in Nat /\ n \in Nat /\ DOMAIN p = 1 .. m /\ DOMAIN q = 1 .. n /\ DOMAIN u = 1 .. m + n
      /\ \A k \in 1 .. m + n : u[k] = IF k <= m THEN p[k] ELSE q[k - m]
  <2>1. /\ u \in Seq(T) /\ Len(u) = m + n
        /\ \A k \in 1 .. m + n : u[k] = IF k <= m THEN p[k] ELSE q[k - m]
    BY ConcatProperties
  <2>. QED BY <2>1, LenProperties
<1>. HIDE DEF m, n, u
<1>2. \A k \in 1 .. m : k \in 1 .. m + n /\ u[k] = p[k] BY <1>1
<1>3. \A k \in 1 .. n : m + k \in 1 .. m + n /\ u[m + k] = q[k]
  <2>. TAKE k \in 1 .. n
  <2>1. m + k \in 1 .. m + n /\ ~(m + k <= m) /\ (m + k) - m = k BY <1>1
  <2>. QED BY <1>1, <2>1
<1>4. Free(u, s) => Free(p, s) /\ Free(q, s) BY <1>1, <1>2, <1>3 DEF Free
<1>5. ASSUME Exposed(u, e, s), ~Exposed(p, e, s) PROVE Free(p, s) /\ Exposed(q, e, s)
  <2>1. PICK k \in 1 .. m + n : u[k] = e /\ \A j \in 1 .. (k - 1) : u[j] # s
    BY <1>1, <1>5 DEF Exposed
  <2>2. k \notin 1 .. m
    <3>. SUFFICES ASSUME k \in 1 .. m PROVE FALSE OBVIOUS
    <3>1. \A j \in 1 .. (k - 1) : j \in 1 .. m BY <1>1
    <3>2. p[k] = e /\ \A j \in 1 .. (k - 1) : p[j] # s BY <1>2, <2>1, <3>1
    <3>. QED BY <1>1, <1>5, <3>2 DEF Exposed
  <2>3. k - m \in 1 .. n /\ m + (k - m) = k /\ \A j \in 1 .. m : j \in 1 .. (k - 1) BY <1>1, <2>1, <2>2
  <2>4. Free(p, s) BY <1>1, <1>2, <2>1, <2>3 DEF Free
  <2>5. q[k - m] = e BY <1>3, <2>1, <2>3
  <2>6. ASSUME NEW j \in 1 .. (k - m) - 1 PROVE q[j] # s
    <3>1. j \in 1 .. n /\ m + j \in 1 .. (k - 1) BY <1>1, <2>1, <2>3
    <3>. QED BY <1>3, <2>1, <3>1
  <2>. QED BY <1>1, <2>3, <2>4, <2>5, <2>6 DEF Exposed
<1>. QED BY <1>4, <1>5 DEF u

\* A path of one event, or none.
LEMMA ExposedOne ==
  /\ \A e, s : ~Exposed(<<>>, e, s)
  /\ \A x, e, s : Exposed(<<x>>, e, s) => x = e
  /\ \A x, s : Free(<<x>>, s) => x # s
BY DEF Exposed, Free

\* Instruction j of a block is event e, and none before it is event s.
Uncovered(block, j, e, s) ==
  /\ j \in DOMAIN block.code /\ EventOf(block.code[j]) = e
  /\ \A i \in 1 .. (j - 1) : block.code[i].op = "alloca" \/ EventOf(block.code[i]) # s

\* The events of a block are its instructions, in order.
LEMMA EventsFrom ==
  ASSUME NEW block, block.code \in Seq(Instrs)
  PROVE  /\ EventsOf(block) \in Seq(Events)
         /\ \A s : Free(EventsOf(block), s) =>
              \A j \in DOMAIN block.code : block.code[j].op = "alloca" \/ EventOf(block.code[j]) # s
         /\ \A e, s : Exposed(EventsOf(block), e, s) => \E j : Uncovered(block, j, e, s)
<1>. DEFINE code == block.code
            n == Len(code)
            some(k) == IF code[k].op = "alloca" THEN <<>> ELSE <<EventOf(code[k])>>
            T == Seq(Events)
            Fold(h) == h = [k \in 0 .. n |-> IF k = 0 THEN <<>> ELSE h[k - 1] \o some(k)]
            clear(k, s) == \A j \in 1 .. k : code[j].op = "alloca" \/ EventOf(code[j]) # s
<1>1. n \in Nat /\ DOMAIN code = 1 .. n /\ \A k \in 1 .. n : code[k] \in Instrs
  BY LenProperties, ElementOfSeq
<1>2. EventsOf(block) = (CHOOSE h : Fold(h))[n] BY DEF EventsOf
<1>3. \A k \in 1 .. n : /\ some(k) \in T
                        /\ \A s : Free(some(k), s) => code[k].op = "alloca" \/ EventOf(code[k]) # s
                        /\ \A e, s : Exposed(some(k), e, s) => EventOf(code[k]) = e
  <2>. TAKE k \in 1 .. n
  <2>1. EventOf(code[k]) \in Events BY <1>1, EventsTyped
  <2>. HIDE DEF code
  <2>. QED BY <2>1, ExposedOne
<1>. HIDE DEF some, n, code
<1>4. \E h : Fold(h)
  <2>. DEFINE add == [k \in 1 .. n |-> [p \in T |-> p \o some(k)]]
  <2>1. add \in [1 .. n -> [T -> T]]
    <3>1. \A k \in 1 .. n, p \in T : p \o some(k) \in T BY <1>3, ConcatProperties
    <3>. HIDE DEF T
    <3>. QED BY <3>1
  <2>2. PICK base \in T : base = <<>>
    <3>1. <<>> \in T OBVIOUS
    <3>. QED BY <3>1
  <2>3. \A k \in 1 .. n, p \in T : add[k][p] = p \o some(k) OBVIOUS
  <2>. HIDE DEF add, T
  <2>4. PICK h \in [0 .. n -> T] : h[0] = base /\ \A k \in 1 .. n : h[k] = add[k][h[k - 1]]
    <3>1. base \in T OBVIOUS
    <3>. QED BY ONLY <1>1, <2>1, <3>1, FoldExists
  <2>5. \A k \in 0 .. n : h[k] = IF k = 0 THEN <<>> ELSE h[k - 1] \o some(k)
    <3>. TAKE k \in 0 .. n
    <3>1. k = 0 \/ (k \in 1 .. n /\ k # 0 /\ k - 1 \in 0 .. n) BY <1>1
    <3>. QED BY <2>2, <2>3, <2>4, <3>1
  <2>6. h = [k \in 0 .. n |-> h[k]] BY <2>4
  <2>7. [k \in 0 .. n |-> h[k]] = [k \in 0 .. n |-> IF k = 0 THEN <<>> ELSE h[k - 1] \o some(k)]
    BY <2>5
  <2>. QED BY <2>6, <2>7
<1>. DEFINE upTo == CHOOSE h : Fold(h)
<1>5. upTo = [k \in 0 .. n |-> IF k = 0 THEN <<>> ELSE upTo[k - 1] \o some(k)]
  BY <1>4
<1>. HIDE DEF upTo
<1>. DEFINE good(k) == /\ upTo[k] \in T
                       /\ \A s : Free(upTo[k], s) => clear(k, s)
                       /\ \A e, s : Exposed(upTo[k], e, s) =>
                            \E j \in 1 .. k : EventOf(code[j]) = e /\ clear(j - 1, s)
            P == {k \in 0 .. n : good(k)}
<1>6. 0 \in P
  <2>1. 0 \in 0 .. n /\ 1 .. 0 = {} BY <1>1
  <2>2. upTo[0] = <<>> BY <1>5, <2>1
  <2>3. upTo[0] \in T BY <2>2
  <2>4. \A s : clear(0, s) BY <2>1
  <2>5. \A e, s : ~Exposed(upTo[0], e, s) BY <2>2, ExposedOne
  <2>6. good(0)
    <3>. HIDE DEF clear, T
    <3>. QED BY <2>3, <2>4, <2>5
  <2>. HIDE DEF good
  <2>. QED BY <2>1, <2>6
<1>7. ASSUME NEW k \in 0 .. (n - 1), k \in P PROVE k + 1 \in P
  <2>1. k + 1 \in 1 .. n /\ k + 1 \in 0 .. n /\ k + 1 # 0 /\ (k + 1) - 1 = k BY <1>1
  <2>2. upTo[k + 1] = upTo[k] \o some(k + 1) BY <1>5, <2>1
  <2>3. upTo[k] \in T /\ some(k + 1) \in T BY <1>3, <1>7, <2>1
  <2>4. upTo[k + 1] \in T BY <2>2, <2>3, ConcatProperties
  <2>5. ASSUME NEW s, Free(upTo[k], s) PROVE clear(k, s) BY <1>7, <2>5
  <2>6. ASSUME NEW s, Free(upTo[k + 1], s) PROVE clear(k + 1, s)
    <3>1. Free(upTo[k], s) /\ Free(some(k + 1), s) BY <2>2, <2>3, <2>6, ExposedConcat, ZenonT(40)
    <3>2. clear(k, s) BY <2>5, <3>1
    <3>3. code[k + 1].op = "alloca" \/ EventOf(code[k + 1]) # s BY <1>3, <2>1, <3>1
    <3>4. \A j \in 1 .. k + 1 : j \in 1 .. k \/ j = k + 1 BY <2>1
    <3>. QED BY <3>2, <3>3, <3>4
  <2>7. ASSUME NEW e, NEW s, Exposed(upTo[k + 1], e, s)
        PROVE  \E j \in 1 .. k + 1 : EventOf(code[j]) = e /\ clear(j - 1, s)
    <3>1. Exposed(upTo[k], e, s) \/ (Free(upTo[k], s) /\ Exposed(some(k + 1), e, s))
      BY <2>2, <2>3, <2>7, ExposedConcat
    <3>2. CASE Exposed(upTo[k], e, s)
      <4>1. PICK j \in 1 .. k : EventOf(code[j]) = e /\ clear(j - 1, s) BY <1>7, <3>2
      <4>2. j \in 1 .. k + 1 BY <2>1
      <4>. QED BY <4>1, <4>2
    <3>3. CASE Free(upTo[k], s) /\ Exposed(some(k + 1), e, s)
      <4>1. EventOf(code[k + 1]) = e /\ clear(k, s) BY <1>3, <2>1, <2>5, <3>3
      <4>2. k + 1 \in 1 .. k + 1 BY <2>1
      <4>. HIDE DEF clear
      <4>. QED BY <2>1, <4>1, <4>2
    <3>. QED BY <3>1, <3>2, <3>3
  <2>8. good(k + 1) BY <2>4, <2>6, <2>7
  <2>. HIDE DEF good
  <2>. QED BY <2>1, <2>8
<1>8. n \in 0 .. n BY <1>1
<1>9. good(n)
  <2>. HIDE DEF good
  <2>1. \A k \in 0 .. n : k \in P
    <3>. HIDE DEF P
    <3>. QED BY <1>1, <1>6, <1>7, UpTo
  <2>. QED BY <1>8, <2>1
<1>10. EventsOf(block) = upTo[n] BY <1>2 DEF upTo
<1>. QED BY <1>1, <1>9, <1>10 DEF Uncovered, code

-----------------------------------------------------------------------------
(* The paths through the blocks of a function.                              *)

\* What a branch adds to a path.
ArmOf(term, k) ==
  CASE term = "if"   -> <<Mark(IF k = 1 THEN "then" ELSE "else")>>
    [] term = "prop" -> <<Mark(IF k = 1 THEN "ok" ELSE "err")>>
    [] OTHER -> <<>>

\* The paths from block b, those from its successors being f.
PathsFrom(blocks, f, b) ==
  IF blocks[b].succ = <<>> THEN {Append(EventsOf(blocks[b]), Mark(blocks[b].term))}
  ELSE UNION {{EventsOf(blocks[b]) \o ArmOf(blocks[b].term, k) \o p :
                 p \in f[blocks[b].succ[k]]} : k \in DOMAIN blocks[b].succ}

\* A function whose blocks are known.
Coded(blocks) ==
  \A b \in DOMAIN blocks : blocks[b].code \in Seq(Instrs) /\ blocks[b].term \in Terms

\* No branch is a load.
LEMMA ArmTyped ==
  ASSUME NEW term, NEW k
  PROVE  /\ ArmOf(term, k) \in Seq(Events)
         /\ \A e, s : e[1] = "load" => ~Exposed(ArmOf(term, k), e, s)
<1>1. \A op \in {"then", "else", "ok", "err"} :
        /\ <<Mark(op)>> \in Seq(Events)
        /\ \A e, s : e[1] = "load" => ~Exposed(<<Mark(op)>>, e, s)
  <2>. TAKE op \in {"then", "else", "ok", "err"}
  <2>1. op \in EventOps /\ op # "load" BY DEF EventOps
  <2>2. Mark(op) \in Events /\ Mark(op)[1] = op BY <2>1, EventsTyped
  <2>. QED BY <2>1, <2>2, ExposedOne
<1>2. <<>> \in Seq(Events) /\ \A e, s : ~Exposed(<<>>, e, s) BY ExposedOne
<1>. QED BY <1>1, <1>2 DEF ArmOf

\* A path from b ends there, or goes on from one of its successors.
GoesOn(blocks, f, b, q) ==
  IF blocks[b].succ = <<>> THEN q = Append(EventsOf(blocks[b]), Mark(blocks[b].term))
  ELSE \E k \in DOMAIN blocks[b].succ : \E p \in f[blocks[b].succ[k]] :
         q = EventsOf(blocks[b]) \o ArmOf(blocks[b].term, k) \o p
\* That is what the paths from b are.
LEMMA PathsFromOne ==
  ASSUME NEW blocks, NEW f, NEW b, NEW q
  PROVE  q \in PathsFrom(blocks, f, b) <=> GoesOn(blocks, f, b, q)
<1>. DEFINE e == Append(EventsOf(blocks[b]), Mark(blocks[b].term))
            g(k, p) == EventsOf(blocks[b]) \o ArmOf(blocks[b].term, k) \o p
<1>1. PathsFrom(blocks, f, b) =
        IF blocks[b].succ = <<>> THEN {e}
        ELSE UNION {{g(k, p) : p \in f[blocks[b].succ[k]]} : k \in DOMAIN blocks[b].succ}
  BY DEF PathsFrom
<1>2. GoesOn(blocks, f, b, q) <=>
        IF blocks[b].succ = <<>> THEN q = e
        ELSE \E k \in DOMAIN blocks[b].succ : \E p \in f[blocks[b].succ[k]] : q = g(k, p)
  BY DEF GoesOn
<1>. HIDE DEF e, g
<1>. QED BY <1>1, <1>2

\* It is all the same where the paths from its successors are.
Agree(blocks, f, g, b) ==
  \A k \in DOMAIN blocks[b].succ : f[blocks[b].succ[k]] = g[blocks[b].succ[k]]
\* So two functions that agree there give b the same paths.
LEMMA SamePaths ==
  ASSUME NEW blocks, NEW f, NEW g, NEW b, Agree(blocks, f, g, b)
  PROVE  PathsFrom(blocks, f, b) = PathsFrom(blocks, g, b)
<1>1. \A q : GoesOn(blocks, f, b, q) <=> GoesOn(blocks, g, b, q)
  <2>. TAKE q
  <2>. DEFINE e == Append(EventsOf(blocks[b]), Mark(blocks[b].term))
              h(k, p) == EventsOf(blocks[b]) \o ArmOf(blocks[b].term, k) \o p
              some(i) == \E k \in DOMAIN blocks[b].succ : \E p \in i[blocks[b].succ[k]] : q = h(k, p)
  <2>1. /\ GoesOn(blocks, f, b, q) <=> IF blocks[b].succ = <<>> THEN q = e ELSE some(f)
        /\ GoesOn(blocks, g, b, q) <=> IF blocks[b].succ = <<>> THEN q = e ELSE some(g)
    BY DEF GoesOn
  <2>. HIDE DEF e, h
  <2>2. some(f) <=> some(g) BY DEF Agree
  <2>. HIDE DEF some
  <2>. QED BY <2>1, <2>2
<1>2. \A q : q \in PathsFrom(blocks, f, b) <=> q \in PathsFrom(blocks, g, b)
  BY <1>1, PathsFromOne, Zenon
<1>3. \A S, T : (\A q : q \in S <=> q \in T) => S = T OBVIOUS
<1>. QED BY <1>2, <1>3, Zenon

\* The paths of a function without cycles are what their recursive definition says.
LEMMA PathsExist ==
  ASSUME NEW blocks, Closed(blocks), Acyclic(blocks), Coded(blocks)
  PROVE  \E paths \in [DOMAIN blocks -> SUBSET Seq(Events)] :
           /\ CompiledPaths(blocks) = paths[1]
           /\ \A b \in DOMAIN blocks : paths[b] = PathsFrom(blocks, paths, b)
<1>. DEFINE n == Len(blocks)
            D == SUBSET Seq(Events)
            F == [1 .. n -> D]
            phi == [f \in F |-> [b \in 1 .. n |-> PathsFrom(blocks, f, b)]]
            Solves(f) == f = [b \in DOMAIN blocks |-> PathsFrom(blocks, f, b)]
<1>1. n \in Nat /\ DOMAIN blocks = 1 .. n BY DEF Closed
<1>2. PICK r \in [1 .. n -> Nat] :
        \A b \in 1 .. n : \A k \in DOMAIN blocks[b].succ : r[b] < r[blocks[b].succ[k]]
  BY <1>1 DEF Acyclic
<1>3. \A b \in 1 .. n : \A k \in DOMAIN blocks[b].succ : blocks[b].succ[k] \in 1 .. n
  BY <1>1 DEF Closed
<1>4. ASSUME NEW f \in F, NEW b \in 1 .. n PROVE PathsFrom(blocks, f, b) \in D
  <2>1. blocks[b].code \in Seq(Instrs) /\ blocks[b].term \in EventOps
    BY <1>1 DEF Coded, EventOps
  <2>2. EventsOf(blocks[b]) \in Seq(Events) /\ Mark(blocks[b].term) \in Events
    BY <2>1, EventsFrom, EventsTyped
  <2>3. Append(EventsOf(blocks[b]), Mark(blocks[b].term)) \in Seq(Events)
    BY <2>2, AppendProperties
  <2>4. ASSUME NEW k \in DOMAIN blocks[b].succ, NEW p \in f[blocks[b].succ[k]]
        PROVE  EventsOf(blocks[b]) \o ArmOf(blocks[b].term, k) \o p \in Seq(Events)
    <3>1. p \in Seq(Events) BY <1>3
    <3>2. ArmOf(blocks[b].term, k) \in Seq(Events) BY ArmTyped
    <3>. QED BY <2>2, <3>1, <3>2, ConcatProperties
  <2>5. \A q : GoesOn(blocks, f, b, q) => q \in Seq(Events) BY <2>3, <2>4 DEF GoesOn
  <2>6. \A q \in PathsFrom(blocks, f, b) : q \in Seq(Events) BY <2>5, PathsFromOne, Zenon
  <2>. QED BY <2>6
<1>5. phi \in [F -> F] BY <1>4
<1>6. ASSUME NEW f \in F, NEW g \in F, NEW b \in 1 .. n,
             \A c \in 1 .. n : r[b] < r[c] => f[c] = g[c]
      PROVE  phi[f][b] = phi[g][b]
  <2>1. Agree(blocks, f, g, b) BY <1>2, <1>3, <1>6 DEF Agree
  <2>2. PathsFrom(blocks, f, b) = PathsFrom(blocks, g, b) BY <2>1, SamePaths, Zenon
  <2>. QED BY <2>2
<1>7. \A f \in F : phi[f] = [b \in 1 .. n |-> PathsFrom(blocks, f, b)] OBVIOUS
<1>8. D # {} OBVIOUS
<1>9. \E f \in F : phi[f] = f
  <2>1. F = [1 .. n -> D] OBVIOUS
  <2>. HIDE DEF phi, F, D, n
  <2>2. LooksAhead(n, D, F, phi, r) BY <1>1, <1>5, <1>6, <1>8, <2>1 DEF LooksAhead
  <2>. QED BY ONLY <2>2, RecursionExists
<1>10. \E f : f \in F /\ Solves(f) BY <1>1, <1>7, <1>9

<1>11. ASSUME NEW f, NEW g, Solves(f), Solves(g) PROVE f = g
  <2>. DEFINE Wrong == {b \in 1 .. n : f[b] # g[b]}
  <2>1. /\ \A b \in 1 .. n : f[b] = PathsFrom(blocks, f, b) /\ g[b] = PathsFrom(blocks, g, b)
        /\ f = [b \in 1 .. n |-> f[b]] /\ g = [b \in 1 .. n |-> g[b]]
    <3>. DEFINE e(b) == PathsFrom(blocks, f, b)
                d(b) == PathsFrom(blocks, g, b)
    <3>1. f = [b \in 1 .. n |-> e(b)] /\ g = [b \in 1 .. n |-> d(b)] BY <1>1, <1>11
    <3>. HIDE DEF e, d
    <3>2. /\ \A b \in 1 .. n : f[b] = e(b) /\ g[b] = d(b)
          /\ f = [b \in 1 .. n |-> f[b]] /\ g = [b \in 1 .. n |-> g[b]]
      BY <3>1
    <3>. QED BY <3>2 DEF e, d
  <2>2. Wrong = {}
    <3>. SUFFICES ASSUME Wrong # {} PROVE FALSE OBVIOUS
    <3>1. PICK b \in Wrong : \A c \in Wrong : r[c] <= r[b]
      <4>1. Wrong \in SUBSET (1 .. n) OBVIOUS
      <4>. HIDE DEF Wrong
      <4>. QED BY <1>1, <4>1, GreatestRank
    <3>2. Agree(blocks, f, g, b)
      <4>. SUFFICES \A k \in DOMAIN blocks[b].succ : f[blocks[b].succ[k]] = g[blocks[b].succ[k]]
        BY DEF Agree
      <4>. TAKE k \in DOMAIN blocks[b].succ
      <4>1. blocks[b].succ[k] \in 1 .. n /\ r[b] < r[blocks[b].succ[k]] BY <1>2, <1>3
      <4>2. r[b] \in Nat /\ r[blocks[b].succ[k]] \in Nat BY <4>1
      <4>3. blocks[b].succ[k] \notin Wrong BY <3>1, <4>1, <4>2
      <4>. QED BY <4>1, <4>3
    <3>3. PathsFrom(blocks, f, b) = PathsFrom(blocks, g, b) BY <3>2, SamePaths, Zenon
    <3>. QED BY <2>1, <3>3
  <2>3. \A b \in 1 .. n : f[b] = g[b] BY <2>2
  <2>. QED BY <2>1, <2>3
<1>12. CompiledPaths(blocks) = (CHOOSE f : Solves(f))[1]
  BY DEF CompiledPaths, PathsFrom, ArmOf
<1>13. PICK paths \in F : Solves(paths) BY <1>10
<1>14. (CHOOSE f : Solves(f)) = paths
  <2>. HIDE DEF Solves
  <2>. QED BY <1>11, <1>13
<1>15. \A b \in DOMAIN blocks : paths[b] = PathsFrom(blocks, paths, b)
  <2>. DEFINE e(b) == PathsFrom(blocks, paths, b)
  <2>1. paths = [b \in DOMAIN blocks |-> e(b)] BY <1>13
  <2>. HIDE DEF e
  <2>2. \A b \in DOMAIN blocks : paths[b] = e(b) BY <2>1
  <2>. QED BY <2>2 DEF e
<1>. QED BY <1>1, <1>12, <1>13, <1>14, <1>15, ZenonT(40)

-----------------------------------------------------------------------------
(* Where an exposed event comes from.                                       *)

\* Block b has event s.
Stores(blocks, b, s) ==
  \E j \in DOMAIN blocks[b].code :
    blocks[b].code[j].op # "alloca" /\ EventOf(blocks[b].code[j]) = s
\* A block branches to block b.
Entered(blocks, b) == \E c \in DOMAIN blocks : \E k \in DOMAIN blocks[c].succ : blocks[c].succ[k] = b

\* Instruction j of block i is event e, on a way from block b to it that has no
\* event s: so the block is reached from b around every other that has event s, or
\* that no block branches to.
Exposure(blocks, b, e, s, i, j) ==
  /\ i \in DOMAIN blocks /\ Uncovered(blocks[i], j, e, s)
  /\ Stores(blocks, b, s) => i = b
  /\ i = b \/ Entered(blocks, i)
  /\ \A a \in DOMAIN blocks :
       /\ a # i /\ (Stores(blocks, a, s) \/ Orphan(blocks, a))
       /\ b \in ReachableAvoiding(blocks, a)
       => i \in ReachableAvoiding(blocks, a)

\* What is exposed in the block itself.
LEMMA ExposedHere ==
  ASSUME NEW blocks, Coded(blocks), NEW b \in DOMAIN blocks, NEW e, NEW s,
         Exposed(EventsOf(blocks[b]), e, s)
  PROVE  \E i, j : Exposure(blocks, b, e, s, i, j)
<1>1. blocks[b].code \in Seq(Instrs) BY DEF Coded
<1>2. PICK j : Uncovered(blocks[b], j, e, s) BY <1>1, EventsFrom
<1>3. Exposure(blocks, b, e, s, b, j) BY <1>2 DEF Exposure
<1>. QED BY <1>3

\* What is exposed from a successor of a block without event s.
LEMMA ExposedBehind ==
  ASSUME NEW blocks, Closed(blocks), Coded(blocks), NEW b \in DOMAIN blocks, NEW e, NEW s,
         Free(EventsOf(blocks[b]), s), NEW k \in DOMAIN blocks[b].succ,
         NEW i, NEW j, Exposure(blocks, blocks[b].succ[k], e, s, i, j)
  PROVE  Exposure(blocks, b, e, s, i, j)
<1>. DEFINE c == blocks[b].succ[k]
<1>1. ~Stores(blocks, b, s)
  <2>1. blocks[b].code \in Seq(Instrs) BY DEF Coded
  <2>. QED BY <2>1, EventsFrom DEF Stores
<1>2. Entered(blocks, c) /\ ~Orphan(blocks, c) BY DEF Entered, Orphan
<1>3. ASSUME NEW a \in DOMAIN blocks, a # i, Stores(blocks, a, s) \/ Orphan(blocks, a),
             b \in ReachableAvoiding(blocks, a)
      PROVE  i \in ReachableAvoiding(blocks, a)
  <2>1. a # c BY <1>2, <1>3 DEF Exposure
  <2>2. c \in ReachableAvoiding(blocks, a) BY <1>3, <2>1, ReachClosed
  <2>. QED BY <1>3, <2>2 DEF Exposure
<1>. HIDE DEF c
<1>4. i \in DOMAIN blocks /\ Uncovered(blocks[i], j, e, s) /\ (i = c \/ Entered(blocks, i))
  BY DEF Exposure, c
<1>. QED BY <1>1, <1>2, <1>3, <1>4 DEF Exposure

\* What is exposed in a path.
LEMMA ExposedFrom ==
  ASSUME NEW blocks, Closed(blocks), Acyclic(blocks), Coded(blocks),
         NEW paths \in [DOMAIN blocks -> SUBSET Seq(Events)],
         \A b \in DOMAIN blocks : paths[b] = PathsFrom(blocks, paths, b),
         NEW e, e[1] = "load", NEW s
  PROVE  \A b \in DOMAIN blocks : \A q \in paths[b] :
           Exposed(q, e, s) => \E i, j : Exposure(blocks, b, e, s, i, j)
<1>. DEFINE n == Len(blocks)
            some(b) == \E i, j : Exposure(blocks, b, e, s, i, j)
            Wrong == {b \in 1 .. n : \E q \in paths[b] : Exposed(q, e, s) /\ ~some(b)}
<1>1. n \in Nat /\ DOMAIN blocks = 1 .. n BY DEF Closed
<1>2. PICK r \in [1 .. n -> Nat] :
        \A b \in 1 .. n : \A k \in DOMAIN blocks[b].succ : r[b] < r[blocks[b].succ[k]]
  BY <1>1 DEF Acyclic
<1>3. Wrong = {}
  <2>. SUFFICES ASSUME Wrong # {} PROVE FALSE OBVIOUS
  <2>1. PICK b \in Wrong : \A c \in Wrong : r[c] <= r[b]
    <3>1. Wrong \in SUBSET (1 .. n) OBVIOUS
    <3>. HIDE DEF Wrong
    <3>. QED BY <1>1, <3>1, GreatestRank
  <2>2. PICK q \in paths[b] : Exposed(q, e, s) /\ ~some(b) BY <2>1
  <2>3. b \in DOMAIN blocks BY <1>1
  <2>. DEFINE ev == EventsOf(blocks[b])
  <2>4. ev \in Seq(Events) /\ Mark(blocks[b].term) \in Events
        /\ Mark(blocks[b].term)[1] # "load"
    <3>1. /\ blocks[b].code \in Seq(Instrs)
          /\ blocks[b].term \in EventOps /\ blocks[b].term # "load"
      BY <2>3 DEF Coded, EventOps, Terms
    <3>. QED BY <3>1, EventsFrom, EventsTyped
  <2>5. ~Exposed(ev, e, s)
    <3>1. Exposed(EventsOf(blocks[b]), e, s) => some(b) BY <2>3, ExposedHere
    <3>. QED BY <2>2, <3>1
  <2>6. GoesOn(blocks, paths, b, q)
    <3>1. q \in PathsFrom(blocks, paths, b) BY <2>2, <2>3
    <3>. QED BY <3>1, PathsFromOne
  <2>7. CASE q = Append(EventsOf(blocks[b]), Mark(blocks[b].term))
    <3>. DEFINE x == Mark(blocks[b].term)
    <3>1. x \in Events /\ x[1] # "load" BY <2>4
    <3>2. q = Append(ev, x) BY <2>7
    <3>. HIDE DEF ev, x
    <3>3. q = ev \o <<x>> /\ <<x>> \in Seq(Events) BY <2>4, <3>1, <3>2, AppendIsConcat
    <3>4. Exposed(<<x>>, e, s) BY <2>2, <2>4, <2>5, <3>3, ExposedConcat
    <3>. QED BY <3>1, <3>4, ExposedOne
  <2>8. CASE \E k \in DOMAIN blocks[b].succ : \E p \in paths[blocks[b].succ[k]] :
               q = EventsOf(blocks[b]) \o ArmOf(blocks[b].term, k) \o p
    <3>0. PICK k \in DOMAIN blocks[b].succ : \E p \in paths[blocks[b].succ[k]] :
            q = ev \o ArmOf(blocks[b].term, k) \o p
      BY <2>8
    <3>1. PICK p \in paths[blocks[b].succ[k]] : q = ev \o ArmOf(blocks[b].term, k) \o p
      BY <3>0
    <3>. DEFINE arm == ArmOf(blocks[b].term, k)
                c == blocks[b].succ[k]
    <3>2. arm \in Seq(Events) /\ ~Exposed(arm, e, s) BY ArmTyped
    <3>3. c \in 1 .. n /\ r[b] < r[c] BY <1>1, <1>2, <2>3 DEF Closed
    <3>4. p \in Seq(Events) BY <1>1, <3>3
    <3>. HIDE DEF ev, arm
    <3>5. q = (ev \o arm) \o p /\ ev \o arm \in Seq(Events)
      BY <2>4, <3>1, <3>2, ConcatProperties DEF arm
    <3>6. ~Exposed(ev \o arm, e, s) BY <2>4, <2>5, <3>2, ExposedConcat
    <3>7. Free(ev \o arm, s) /\ Exposed(p, e, s)
      BY <2>2, <3>4, <3>5, <3>6, ExposedConcat
    <3>8. Free(ev, s) BY <2>4, <3>2, <3>7, ExposedConcat
    <3>9. c \notin Wrong
      <4>1. r[b] \in Nat /\ r[c] \in Nat BY <3>3
      <4>2. ~(r[c] <= r[b]) BY <3>3, <4>1
      <4>. HIDE DEF Wrong, c
      <4>. QED BY <2>1, <4>2
    <3>10. some(c) BY <3>3, <3>7, <3>9
    <3>11. PICK i, j : Exposure(blocks, c, e, s, i, j) BY <3>10
    <3>12. Exposure(blocks, b, e, s, i, j) BY <2>3, <3>8, <3>11, ExposedBehind DEF ev
    <3>. QED BY <2>2, <3>12
  <2>. QED BY <2>6, <2>7, <2>8 DEF GoesOn
<1>. QED BY <1>1, <1>3

-----------------------------------------------------------------------------
(* A load is behind a store.                                                *)

\* The events of a load and of the store to the slot it loads.
LEMMA LoadOf ==
  ASSUME NEW w \in Instrs, EventOf(w)[1] = "load"
  PROVE  /\ w.op = "load" /\ EventOf(w)[4] = w.slot.at
         /\ [EventOf(w) EXCEPT ![1] = "store"] = EventOf(Instr("store", w.name, w.slot))
<1>1. w.op = "load" BY EventsTyped
<1>2. EventOf(w) = <<"load", w.name, w.slot.decl, w.slot.at>> BY <1>1 DEF EventOf, Event
<1>3. EventOf(Instr("store", w.name, w.slot)) = <<"store", w.name, w.slot.decl, w.slot.at>>
  BY DEF EventOf, Event, Instr
<1>. QED BY <1>1, <1>2, <1>3

\* What is emitted of declaration d, and was verified.
Issued(blocks, d, ret) ==
  /\ blocks \in Seq(BlockOf(Written(d))) /\ Closed(blocks) /\ Acyclic(blocks)
  /\ SlotsFilled(blocks, {}) /\ Verified(blocks, ret)

\* Its instructions are known.
LEMMA EmittedCoded ==
  ASSUME NEW blocks, NEW d, NEW ret, Issued(blocks, d, ret)
  PROVE  /\ Coded(blocks)
         /\ \A b \in DOMAIN blocks : \A k \in DOMAIN blocks[b].code :
              blocks[b].code[k] \in Written(d) /\ blocks[b].code[k] \in Instrs
<1>. DEFINE S == Written(d)
<1>1. S \subseteq Instrs BY DEF Written
<1>2. blocks \in Seq(BlockOf(S)) BY DEF Issued
<1>. HIDE DEF S
<1>3. \A b \in DOMAIN blocks : blocks[b] \in BlockOf(S) BY <1>2, ElementOfSeq, LenProperties
<1>4. \A b \in DOMAIN blocks : blocks[b].code \in Seq(S) /\ blocks[b].term \in Terms
  BY <1>3 DEF BlockOf
<1>5. \A b \in DOMAIN blocks : \A k \in DOMAIN blocks[b].code : blocks[b].code[k] \in S
  BY <1>4, ElementOfSeq, LenProperties
<1>6. Seq(S) \subseteq Seq(Instrs) BY <1>1, SeqMonotonic
<1>. QED BY <1>1, <1>4, <1>5, <1>6 DEF Coded, S

\* A load of a slot of a binding, from a way that does not store to it, is not
\* verified.
LEMMA NotExposed ==
  ASSUME NEW blocks, NEW d, NEW ret, Issued(blocks, d, ret),
         NEW e, e[1] = "load", e[4] > 0, NEW s, s = [e EXCEPT ![1] = "store"],
         NEW i, NEW j, Exposure(blocks, 1, e, s, i, j)
  PROVE  FALSE
<1>. DEFINE w == blocks[i].code[j]
<1>1. /\ i \in DOMAIN blocks /\ j \in DOMAIN blocks[i].code /\ EventOf(w) = e
      /\ \A k \in 1 .. (j - 1) : blocks[i].code[k].op = "alloca" \/ EventOf(blocks[i].code[k]) # s
  BY DEF Exposure, Uncovered
<1>2. w \in Written(d) /\ w \in Instrs BY <1>1, EmittedCoded
<1>3. w.op = "load" /\ w.slot.at > 0 /\ s = EventOf(Instr("store", w.name, w.slot))
  BY <1>1, <1>2, LoadOf
<1>4. Dominates(blocks, w.slot, i, j) BY <1>1, <1>3 DEF Issued, Verified
<1>5. PICK a \in DOMAIN blocks : \E m \in DOMAIN blocks[a].code :
        /\ blocks[a].code[m] = Instr("alloca", blocks[a].code[m].name, w.slot)
        /\ IF a = i THEN m < j ELSE i \notin ReachableAvoiding(blocks, a)
  BY <1>4 DEF Dominates
<1>6. PICK m \in DOMAIN blocks[a].code :
        /\ blocks[a].code[m] = Instr("alloca", blocks[a].code[m].name, w.slot)
        /\ IF a = i THEN m < j ELSE i \notin ReachableAvoiding(blocks, a)
  BY <1>5
<1>. DEFINE v == blocks[a].code[m]
<1>7. v.op = "alloca" /\ v.slot = w.slot /\ v \in Written(d)
  <2>1. v \in Written(d) BY EmittedCoded
  <2>2. v = Instr("alloca", v.name, w.slot) BY <1>6
  <2>. HIDE DEF v, w
  <2>3. v.op = "alloca" /\ v.slot = w.slot BY <2>2 DEF Instr
  <2>. QED BY <2>1, <2>3
<1>8. v.name = w.name
  <2>. HIDE DEF v, w
  <2>1. Named(v.name, w.slot) /\ Named(w.name, w.slot) BY <1>2, <1>3, <1>7, SMTT(30) DEF Written
  <2>. QED BY <1>3, <2>1 DEF Named
<1>9. Filled(blocks[a].code, m) \/ Orphan(blocks, a)
  BY <1>3, <1>7, SMTT(30) DEF Issued, SlotsFilled
<1>10. ASSUME Filled(blocks[a].code, m)
       PROVE  /\ m + 1 \in DOMAIN blocks[a].code /\ EventOf(blocks[a].code[m + 1]) = s
              /\ blocks[a].code[m + 1].op = "store"
  <2>1. m + 1 \in DOMAIN blocks[a].code BY <1>10 DEF Filled
  <2>2. blocks[a].code[m + 1].op # "bad" BY <2>1 DEF Issued, Verified
  <2>3. blocks[a].code[m + 1] = Instr("store", w.name, w.slot)
    BY <1>7, <1>8, <1>10, <2>2 DEF Filled
  <2>4. blocks[a].code[m + 1].op = "store" BY <2>3 DEF Instr
  <2>. QED BY <1>3, <2>1, <2>3, <2>4
<1>11. Stores(blocks, a, s) \/ Orphan(blocks, a) BY <1>9, <1>10 DEF Stores
<1>12. CASE a = i
  <2>1. ~Orphan(blocks, i) BY DEF Exposure, Entered, Orphan
  <2>2. Filled(blocks[i].code, m) BY <1>9, <1>12, <2>1
  <2>3. /\ m + 1 \in DOMAIN blocks[i].code /\ EventOf(blocks[i].code[m + 1]) = s
        /\ blocks[i].code[m + 1].op = "store"
    BY <1>10, <1>12, <2>2
  <2>4. m \in Nat /\ j \in Nat /\ m \in DOMAIN blocks[i].code
    <3>1. blocks[i].code \in Seq(Instrs) BY <1>1, EmittedCoded DEF Coded
    <3>2. DOMAIN blocks[i].code \subseteq Nat BY <3>1, LenProperties
    <3>. QED BY <1>1, <1>12, <3>2
  <2>5. m < j BY <1>6, <1>12, SMTT(30)
  <2>6. m + 1 # j BY <1>3, <2>3
  <2>7. m + 1 \in 1 .. (j - 1) BY <2>4, <2>5, <2>6
  <2>. QED BY <1>1, <2>3, <2>7
<1>13. CASE a # i
  <2>1. i \notin ReachableAvoiding(blocks, a) BY <1>6, <1>13
  <2>2. 1 \notin ReachableAvoiding(blocks, a) BY <1>11, <1>13, <2>1 DEF Exposure
  <2>3. a = 1 BY <2>2, ReachClosed DEF Issued
  <2>4. Stores(blocks, 1, s) BY <1>11, <2>3 DEF Orphan
  <2>. QED BY <1>13, <2>3, <2>4 DEF Exposure
<1>. QED BY <1>12, <1>13

\* For every program: no path of the code that is emitted loads a variable that was
\* not stored to on it before.
LEMMA LoadsCovered ==
  ASSUME NEW blocks, NEW d, NEW ret, Issued(blocks, d, ret),
         NEW p \in CompiledPaths(blocks), NEW k \in DOMAIN p, p[k][1] = "load", p[k][4] > 0
  PROVE  \E j \in 1 .. (k - 1) : p[j] = [p[k] EXCEPT ![1] = "store"]
<1>. SUFFICES ASSUME \A j \in 1 .. (k - 1) : p[j] # [p[k] EXCEPT ![1] = "store"] PROVE FALSE
  OBVIOUS
<1>. DEFINE e == p[k]
            s == [p[k] EXCEPT ![1] = "store"]
<1>1. Exposed(p, e, s) BY DEF Exposed
<1>2. Closed(blocks) /\ Acyclic(blocks) /\ Coded(blocks) /\ 1 \in DOMAIN blocks
  BY EmittedCoded DEF Issued, Closed
<1>3. PICK paths \in [DOMAIN blocks -> SUBSET Seq(Events)] :
        /\ CompiledPaths(blocks) = paths[1]
        /\ \A b \in DOMAIN blocks : paths[b] = PathsFrom(blocks, paths, b)
  BY <1>2, PathsExist
<1>4. e[1] = "load" /\ e[4] > 0 /\ s = [e EXCEPT ![1] = "store"] /\ p \in paths[1] BY <1>3
<1>. HIDE DEF e, s
<1>5. \E i, j : Exposure(blocks, 1, e, s, i, j) BY <1>1, <1>2, <1>3, <1>4, ExposedFrom
<1>. QED BY <1>4, <1>5, NotExposed

\* Nothing that is emitted reads a variable before it is written, though values_
\* knows no scopes, and a name bound in the branch of an if keeps its slot behind
\* it.  A read of a slot is verified: the block that allocates it is on every way to
\* the read.  The slot is stored to where it is allocated, or no way leads to that
\* block (StoreInv), so every way stores to it; and a function has no cycles
\* (GraphInv), so the ways are its paths.
THEOREM ReadsAreWritten == ASpec => []WrittenBeforeRead
<1>1. ASSUME GraphInv, CodeInv, StoreInv, StageInv, stage = "emitted", NEW f \in DOMAIN emitted
      PROVE  Issued(emitted[f].blocks, emitted[f].decl, LlvmOf(prog[emitted[f].decl].ret))
  <2>. DEFINE blocks == emitted[f].blocks
              S == Written(emitted[f].decl)
  <2>1. /\ blocks \in Seq(BlockOf(S))
        /\ Verified(blocks, LlvmOf(prog[emitted[f].decl].ret))
    BY <1>1 DEF CodeInv, EmittedInv, StageInv, Built
  <2>2. Acyclic(blocks) BY <1>1 DEF GraphInv, EmittedRanked
  <2>3. 1 \in DOMAIN blocks /\ SlotsFilled(blocks, {}) BY <1>1 DEF StoreInv
  <2>4. \A b \in DOMAIN blocks : \A k \in DOMAIN blocks[b].succ : blocks[b].succ[k] \in DOMAIN blocks
    BY <1>1 DEF GraphInv, EmittedClosed
  <2>5. Len(blocks) \in Nat /\ DOMAIN blocks = 1 .. Len(blocks) BY <2>1, ListOfSeq
  <2>. QED BY <2>1, <2>2, <2>3, <2>4, <2>5 DEF Issued, Closed
<1>2. ASSUME GraphInv, CodeInv, StoreInv, StageInv PROVE WrittenBeforeRead
  <2>. SUFFICES ASSUME stage = "emitted", NEW f \in DOMAIN emitted,
                       NEW p \in CompiledPaths(emitted[f].blocks), NEW k \in DOMAIN p,
                       p[k][1] = "load", p[k][4] > 0
                PROVE  \E j \in 1 .. (k - 1) : p[j] = [p[k] EXCEPT ![1] = "store"]
    BY DEF WrittenBeforeRead
  <2>1. Issued(emitted[f].blocks, emitted[f].decl, LlvmOf(prog[emitted[f].decl].ret))
    BY <1>1, <1>2
  <2>. QED BY <2>1, LoadsCovered
<1>3. ASpec => [](GraphInv /\ CodeInv /\ StoreInv) BY CompilerGenerates, StoreHolds, PTL
<1>. QED BY <1>2, <1>3, StageHolds, PTL

-----------------------------------------------------------------------------
(* How deep the blocks of a body nest, and the scopes of @iter bodies.      *)

\* What one more item does to the depth.
LEMMA NestingStep ==
  ASSUME NEW body, NEW n \in Nat
  PROVE  /\ Depth(body, n) \in Int
         /\ Depth(body, n + 1) = CASE body[n + 1].op \in {"if", "for"} -> Depth(body, n) + 1
                                   [] body[n + 1].op \in {"endif", "endfor"} -> Depth(body, n) - 1
                                   [] OTHER -> Depth(body, n)
<1>. DEFINE opened(k) == Count(body, k, {"if", "for"})
            closed(k) == Count(body, k, {"endif", "endfor"})
<1>1. /\ opened(n) \in Nat
      /\ opened(n + 1) = opened(n) + (IF body[n + 1].op \in {"if", "for"} THEN 1 ELSE 0)
  BY CountStep
<1>2. /\ closed(n) \in Nat
      /\ closed(n + 1) = closed(n) + (IF body[n + 1].op \in {"endif", "endfor"} THEN 1 ELSE 0)
  BY CountStep
<1>3. Depth(body, n) = opened(n) - closed(n)
      /\ Depth(body, n + 1) = opened(n + 1) - closed(n + 1)
  BY DEF Depth
<1>. HIDE DEF opened, closed
<1>. QED BY <1>1, <1>2, <1>3

\* The depth outside every block.
LEMMA NestingZero ==
  ASSUME NEW body
  PROVE  Depth(body, 0) = 0
<1>1. \A ops : Count(body, 0, ops) = 0
  <2>. TAKE ops
  <2>1. {i \in 1..0 : body[i].op \in ops} = {} OBVIOUS
  <2>. QED BY <2>1, FS_EmptySet DEF Count
<1>. QED BY <1>1 DEF Depth

\* Behind what is not closed, nothing is farther out.
LEMMA StaysIn ==
  ASSUME NEW body, NEW k \in Nat, NEW c \in Nat,
         \A i \in (k + 1) .. (c - 1) : ~Closes(body, k, i)
  PROVE  \A j \in k .. (c - 1) : Depth(body, j) >= Depth(body, k)
<1>. DEFINE D(j) == Depth(body, j)
            P == {m \in Nat : k + m <= c - 1 => D(k + m) >= D(k)}
<1>1. \A j \in Nat : D(j) \in Int BY NestingStep
<1>2. 0 \in P BY <1>1
<1>3. ASSUME NEW m \in Nat, m \in P PROVE m + 1 \in P
  <2>. SUFFICES ASSUME k + (m + 1) <= c - 1 PROVE D(k + (m + 1)) >= D(k) OBVIOUS
  <2>1. k + m \in Nat /\ (k + m) + 1 = k + (m + 1) /\ k + (m + 1) \in (k + 1) .. (c - 1) BY <1>3
  <2>2. D(k + m) >= D(k) BY <1>3
  <2>3. D(k + (m + 1)) =
          CASE body[k + (m + 1)].op \in {"if", "for"} -> D(k + m) + 1
            [] body[k + (m + 1)].op \in {"endif", "endfor"} -> D(k + m) - 1
            [] OTHER -> D(k + m)
    BY <2>1, NestingStep
  <2>4. ~Closes(body, k, k + (m + 1)) BY <2>1
  <2>5. ~(body[k + (m + 1)].op \in {"endif", "endfor"} /\ D(k + (m + 1)) + 1 = D(k))
    BY <2>4 DEF Closes
  <2>6. D(k) \in Int /\ D(k + m) \in Int BY <1>1, <2>1
  <2>. HIDE DEF D
  <2>. QED BY <2>2, <2>3, <2>5, <2>6
<1>4. ASSUME NEW m \in Nat PROVE m \in P
  <2>. HIDE DEF P
  <2>1. \A i \in 0 .. (m - 1) : i \in P => i + 1 \in P BY <1>3
  <2>2. \A i \in 0 .. m : i \in P BY <1>2, <2>1, UpTo
  <2>. QED BY <2>2
<1>5. ASSUME NEW j \in k .. (c - 1) PROVE D(j) >= D(k)
  <2>1. j - k \in Nat /\ k + (j - k) = j /\ k + (j - k) <= c - 1 BY <1>5
  <2>. HIDE DEF D
  <2>. QED BY <1>4, <2>1
<1>. QED BY <1>5

\* The item that ends what item k opens.
LEMMA CloseFound ==
  ASSUME prog \in Programs, NEW c \in DOMAIN prog, NEW k \in DOMAIN prog[c].body,
         prog[c].body[k].op \in {"if", "for", "else"}
  PROVE  LET j == CloseOf(prog[c].body, k)
         IN  /\ j \in (k + 1) .. Len(prog[c].body) /\ Closes(prog[c].body, k, j)
             /\ \A i \in (k + 1) .. (j - 1) : ~Closes(prog[c].body, k, i)
<1>. DEFINE body == prog[c].body
            n == Len(body)
            A == {j \in (k + 1) .. n : Closes(body, k, j)}
<1>1. prog \in Seq(Decl) BY ProgramsAssumption DEF ProgramsAssumption
<1>2. body \in Seq(Item) BY <1>1, BodyItems
<1>3. n \in Nat /\ k \in 1 .. n BY <1>2, LenProperties
<1>4. A # {} BY NestingAssumption DEF NestingAssumption
<1>5. A \in SUBSET (1 .. n) BY <1>3
<1>6. PICK j \in A : \A i \in A : j <= i
  <2>. HIDE DEF A
  <2>. QED BY <1>3, <1>4, <1>5, LeastPosition
<1>. HIDE DEF body, n
<1>7. \A i \in (k + 1) .. (j - 1) : ~Closes(body, k, i)
  <2>. SUFFICES ASSUME NEW i \in (k + 1) .. (j - 1), Closes(body, k, i) PROVE FALSE OBVIOUS
  <2>1. i \in (k + 1) .. n /\ ~(j <= i) BY <1>3
  <2>. QED BY <1>6, <2>1
<1>8. \E m \in (k + 1) .. n : Closes(body, k, m) /\ \A i \in (k + 1) .. (m - 1) : ~Closes(body, k, i)
  BY <1>6, <1>7
<1>. QED BY <1>8 DEF CloseOf, body, n

\* The item that closes is the first that does.
LEMMA CloseIs ==
  ASSUME NEW body, body \in Seq(Item), NEW k \in Nat, NEW j \in (k + 1) .. Len(body),
         Closes(body, k, j), \A i \in (k + 1) .. (j - 1) : ~Closes(body, k, i)
  PROVE  CloseOf(body, k) = j
<1>. DEFINE n == Len(body)
            ok(m) == Closes(body, k, m) /\ \A i \in (k + 1) .. (m - 1) : ~Closes(body, k, i)
<1>1. n \in Nat BY LenProperties
<1>. HIDE DEF n
<1>2. ASSUME NEW m \in (k + 1) .. n, ok(m) PROVE m = j
  <2>1. ~(m < j)
    <3>1. m < j => m \in (k + 1) .. (j - 1) BY <1>1 DEF n
    <3>. QED BY <1>2, <3>1
  <2>2. ~(j < m)
    <3>1. j < m => j \in (k + 1) .. (m - 1) BY <1>1 DEF n
    <3>. QED BY <1>2, <3>1
  <2>. QED BY <1>1, <2>1, <2>2 DEF n
<1>3. ok(j) /\ j \in (k + 1) .. n BY DEF n
<1>4. CloseOf(body, k) = CHOOSE m \in (k + 1) .. n : ok(m) BY DEF CloseOf, n
<1>. HIDE DEF ok
<1>. QED BY <1>2, <1>3, <1>4

\* The depth is the number of open blocks, that of @iter bodies the number of those
\* open.
LEMMA NestDepth ==
  ASSUME NEW body, NEW n, NEW st, Nests(body, n, st)
  PROVE  \A k \in 0 .. n : /\ Len(st[k]) = Depth(body, k)
                           /\ Occurrences(st[k], "for") = ForDepth(body, k)
<1>. DEFINE O(k) == Occurrences(st[k], "for")
            P == {k \in 0 .. n : Len(st[k]) = Depth(body, k) /\ O(k) = ForDepth(body, k)}
<1>1. n \in Nat /\ st[0] = <<>> /\ \A k \in 0 .. n : st[k] \in Seq(Blocks) BY DEF Nests
<1>2. 0 \in P
  <2>1. 0 \in 0 .. n BY <1>1
  <2>2. Len(st[0]) = 0 BY <1>1
  <2>3. O(0) = 0
    <3>1. {i \in DOMAIN st[0] : st[0][i] = "for"} = {} BY <1>1
    <3>. QED BY <3>1, FS_EmptySet DEF Occurrences
  <2>. QED BY <2>1, <2>2, <2>3, NestingZero, DepthZero
<1>3. ASSUME NEW k \in 0 .. (n - 1), k \in P PROVE k + 1 \in P
  <2>. DEFINE op == body[k + 1].op
              s == st[k]
              f == SubSeq(s, 1, Len(s) - 1)
  <2>1. k \in 0 .. n /\ k + 1 \in 1 .. n /\ k + 1 \in 0 .. n /\ (k + 1) - 1 = k /\ k \in Nat BY <1>1
  <2>2. Fits(s, op) /\ st[k + 1] = NestedBy(s, op) BY <2>1 DEF Nests
  <2>3. s \in Seq(Blocks) BY <1>1, <2>1
  <2>4. Len(s) = Depth(body, k) /\ O(k) = ForDepth(body, k) BY <1>3
  <2>. HIDE DEF op
  <2>5. Len(st[k + 1]) = Depth(body, k + 1)
    <3>1. Len(st[k + 1]) = CASE op \in {"if", "for"} -> Len(s) + 1
                             [] op \in {"endif", "endfor"} -> Len(s) - 1
                             [] OTHER -> Len(s)
      BY <2>2, <2>3, NestedTyped
    <3>2. Depth(body, k + 1) = CASE op \in {"if", "for"} -> Depth(body, k) + 1
                                 [] op \in {"endif", "endfor"} -> Depth(body, k) - 1
                                 [] OTHER -> Depth(body, k)
      BY <2>1, NestingStep DEF op
    <3>. QED BY <2>4, <3>1, <3>2
  <2>6. Occurrences(NestedBy(s, op), "for") = ForDepth(body, k + 1)
    <3>1. /\ ForDepth(body, k) \in Int
          /\ op = "for" => ForDepth(body, k + 1) = ForDepth(body, k) + 1
          /\ op = "endfor" => ForDepth(body, k + 1) = ForDepth(body, k) - 1
          /\ op \notin {"for", "endfor"} => ForDepth(body, k + 1) = ForDepth(body, k)
      BY <2>1, DepthStep DEF op
    <3>2. ASSUME NEW e \in Blocks, NEW t \in Seq(Blocks)
          PROVE  Occurrences(Append(t, e), "for") = Occurrences(t, "for") + (IF e = "for" THEN 1 ELSE 0)
      BY OccurrencesAppend
    <3>3. s # <<>> => /\ f \in Seq(Blocks) /\ Occurrences(f, "for") \in Nat
                      /\ O(k) = Occurrences(f, "for") + (IF s[Len(s)] = "for" THEN 1 ELSE 0)
      <4>. HIDE DEF s
      <4>1. s # <<>> => /\ f \in Seq(Blocks)
                        /\ Occurrences(s, "for") = Occurrences(f, "for") + (IF s[Len(s)] = "for" THEN 1 ELSE 0)
        BY <2>3, OccurrencesFront
      <4>2. f \in Seq(Blocks) => Occurrences(f, "for") \in Nat
        <5>. HIDE DEF f
        <5>. QED BY OccurrencesFinite
      <4>3. O(k) = Occurrences(s, "for") BY DEF s
      <4>. HIDE DEF f, O
      <4>. QED BY <4>1, <4>2, <4>3
    <3>. DEFINE o(t) == Occurrences(t, "for")
    <3>4. O(k) = o(s) OBVIOUS
    <3>. SUFFICES o(NestedBy(s, op)) = ForDepth(body, k + 1) OBVIOUS
    <3>. HIDE DEF o, f, s, O, P
    <3>5. CASE op = "if"
      <4>1. NestedBy(s, op) = Append(s, "then") /\ "then" \in Blocks BY <3>5 DEF NestedBy, Blocks
      <4>2. o(Append(s, "then")) = o(s) + 0 BY <2>3, <3>2, <4>1 DEF o
      <4>3. o(s) \in Int BY <2>4, <3>1, <3>4
      <4>4. o(Append(s, "then")) = o(s) BY <4>2, <4>3
      <4>5. op \notin {"for", "endfor"} BY <3>5
      <4>. QED BY <2>4, <3>1, <3>4, <4>1, <4>4, <4>5
    <3>6. CASE op = "for"
      <4>1. NestedBy(s, op) = Append(s, "for") /\ "for" \in Blocks BY <3>6 DEF NestedBy, Blocks
      <4>2. o(Append(s, "for")) = o(s) + 1 BY <2>3, <3>2, <4>1 DEF o
      <4>. QED BY <2>4, <3>1, <3>4, <3>6, <4>1, <4>2
    <3>7. CASE op = "else"
      <4>1. NestedBy(s, op) = Append(f, "else") /\ "else" \in Blocks BY <3>7 DEF NestedBy, Blocks, f
      <4>2. s # <<>> /\ s[Len(s)] = "then" BY <2>2, <3>7 DEF Fits
      <4>3. o(Append(f, "else")) = o(f) + 0 BY <3>2, <3>3, <4>1, <4>2 DEF o
      <4>. QED BY <2>4, <3>1, <3>3, <3>7, <4>1, <4>2, <4>3 DEF o
    <3>8. CASE op = "endfor"
      <4>1. NestedBy(s, op) = f BY <3>8 DEF NestedBy, f
      <4>2. s # <<>> /\ s[Len(s)] = "for" BY <2>2, <3>8 DEF Fits
      <4>. QED BY <2>4, <3>1, <3>3, <3>8, <4>1, <4>2 DEF o
    <3>9. CASE op = "endif"
      <4>1. NestedBy(s, op) = f BY <3>9 DEF NestedBy, f
      <4>2. s # <<>> /\ s[Len(s)] # "for" BY <2>2, <3>9 DEF Fits
      <4>. QED BY <2>4, <3>1, <3>3, <3>9, <4>1, <4>2 DEF o
    <3>10. CASE op \notin {"if", "for", "else", "endif", "endfor"}
      <4>1. NestedBy(s, op) = s BY <3>10 DEF NestedBy
      <4>. QED BY <2>4, <3>1, <3>4, <3>10, <4>1
    <3>. QED BY <3>5, <3>6, <3>7, <3>8, <3>9, <3>10
  <2>. QED BY <2>1, <2>2, <2>5, <2>6
<1>4. \A k \in 0 .. n : k \in P
  <2>. HIDE DEF P
  <2>. QED BY <1>1, <1>2, <1>3, UpTo
<1>. QED BY <1>4

\* Inside the body of an @iter the blocks open at its beginning stay open.
LEMMA LoopInside ==
  ASSUME NEW body, NEW n, NEW st, Nests(body, n, st), NEW k \in 1 .. n, body[k].op = "for",
         NEW c \in k .. n, \A j \in k .. c : Len(st[j]) >= Len(st[k])
  PROVE  \A j \in k .. c : \A i \in 1 .. Len(st[k]) : st[j][i] = st[k][i]
<1>. DEFINE l == Len(st[k])
            same(j) == \A i \in 1 .. l : st[j][i] = st[k][i]
            P == {m \in Nat : k + m <= c => same(k + m)}
<1>1. n \in Nat /\ \A j \in 0 .. n : st[j] \in Seq(Blocks) /\ Len(st[j]) \in Nat
  <2>1. n \in Nat /\ \A j \in 0 .. n : st[j] \in Seq(Blocks) BY DEF Nests
  <2>. QED BY <2>1, LenProperties
<1>2. l \in Nat /\ l >= 1 /\ st[k][l] = "for"
  <2>1. k \in 0 .. n /\ k - 1 \in 0 .. n BY <1>1
  <2>2. st[k] = Append(st[k - 1], "for") BY DEF Nests, NestedBy
  <2>3. st[k - 1] \in Seq(Blocks) /\ "for" \in Blocks BY <1>1, <2>1 DEF Blocks
  <2>4. l = Len(st[k - 1]) + 1 /\ st[k][Len(st[k - 1]) + 1] = "for"
    BY <2>2, <2>3, AppendProperties
  <2>. HIDE DEF l
  <2>. QED BY <1>1, <2>1, <2>4
<1>. HIDE DEF l
<1>3. 0 \in P OBVIOUS
<1>4. ASSUME NEW m \in Nat, m \in P PROVE m + 1 \in P
  <2>. DEFINE j == k + m
              op == body[j + 1].op
  <2>. SUFFICES ASSUME k + (m + 1) <= c PROVE same(k + (m + 1)) OBVIOUS
  <2>1. /\ j \in k .. c /\ j + 1 \in k .. c /\ j + 1 = k + (m + 1) /\ j \in 0 .. n
        /\ j + 1 \in 1 .. n /\ j + 1 \in 0 .. n /\ (j + 1) - 1 = j
    BY <1>1
  <2>2. same(j) BY <1>4, <2>1
  <2>. HIDE DEF j
  <2>3. Fits(st[j], op) /\ st[j + 1] = NestedBy(st[j], op) BY <2>1 DEF Nests
  <2>4. st[j] \in Seq(Blocks) /\ Len(st[j]) \in Nat /\ Len(st[j + 1]) \in Nat BY <1>1, <2>1
  <2>5. Len(st[j]) >= l /\ Len(st[j + 1]) >= l BY <2>1 DEF l
  <2>. HIDE DEF op
  <2>6. op = "else" => Len(st[j]) # l BY <1>2, <2>2, <2>3 DEF Fits
  <2>7. ASSUME NEW i \in 1 .. l PROVE st[j + 1][i] = st[k][i]
    <3>1. i \in 1 .. Len(st[j]) /\ i <= Len(st[j + 1]) /\ (op = "else" => i # Len(st[j]))
      BY <1>2, <2>4, <2>5, <2>6
    <3>2. st[j + 1][i] = st[j][i] BY <2>3, <2>4, <3>1, NestedTyped
    <3>. QED BY <2>2, <3>2
  <2>. QED BY <2>1, <2>7
<1>5. ASSUME NEW m \in Nat PROVE m \in P
  <2>. HIDE DEF P
  <2>1. \A i \in 0 .. (m - 1) : i \in P => i + 1 \in P BY <1>4
  <2>2. \A i \in 0 .. m : i \in P BY <1>3, <2>1, UpTo
  <2>. QED BY <2>2
<1>6. ASSUME NEW j \in k .. c PROVE same(j)
  <2>1. j - k \in Nat /\ k + (j - k) = j /\ k + (j - k) <= c BY <1>1
  <2>2. j - k \in P BY <1>5, <2>1
  <2>. QED BY <2>1, <2>2
<1>. QED BY <1>6 DEF l

\* A longer sequence has what its beginning has.
LEMMA OccurrencesLonger ==
  ASSUME NEW T, NEW s \in Seq(T), NEW t \in Seq(T), Len(t) >= Len(s),
         \A i \in 1 .. Len(s) : t[i] = s[i], NEW v
  PROVE  Occurrences(t, v) >= Occurrences(s, v)
<1>. DEFINE A == {i \in DOMAIN s : s[i] = v}
            B == {i \in DOMAIN t : t[i] = v}
<1>1. /\ DOMAIN s = 1 .. Len(s) /\ Len(s) \in Nat /\ DOMAIN t = 1 .. Len(t) /\ Len(t) \in Nat
  BY LenProperties
<1>2. A \in SUBSET B BY <1>1
<1>3. IsFiniteSet(B) /\ Occurrences(t, v) = Cardinality(B) /\ Occurrences(s, v) = Cardinality(A)
  BY OccurrencesFinite DEF Occurrences
<1>4. Occurrences(s, v) \in Nat /\ Occurrences(t, v) \in Nat BY OccurrencesFinite
<1>. HIDE DEF A, B
<1>. QED BY <1>2, <1>3, <1>4, FS_Subset

\* The body of an @iter ends where no other was begun and not ended.
LEMMA LoopNests ==
  ASSUME NEW body, NEW n, NEW st, Nests(body, n, st), NEW k \in 1 .. n, body[k].op = "for",
         NEW c \in (k + 1) .. n, Closes(body, k, c),
         \A i \in (k + 1) .. (c - 1) : ~Closes(body, k, i)
  PROVE  /\ \A j \in k .. (c - 1) : ForDepth(body, j) >= ForDepth(body, k)
         /\ ForDepth(body, c) = ForDepth(body, k) - 1
<1>1. n \in Nat /\ \A j \in 0 .. n : /\ st[j] \in Seq(Blocks) /\ Len(st[j]) \in Nat
                                     /\ Len(st[j]) = Depth(body, j)
                                     /\ Occurrences(st[j], "for") = ForDepth(body, j)
  <2>1. n \in Nat /\ \A j \in 0 .. n : st[j] \in Seq(Blocks) BY DEF Nests
  <2>. QED BY <2>1, NestDepth, LenProperties
<1>2. k \in Nat /\ c \in Nat /\ c - 1 \in k .. n /\ c - 1 \in k .. (c - 1) /\ c - 1 \in Nat /\ (c - 1) + 1 = c
  BY <1>1
<1>3. \A j \in k .. (c - 1) : Len(st[j]) >= Len(st[k])
  <2>1. \A j \in k .. (c - 1) : Depth(body, j) >= Depth(body, k) BY <1>2, StaysIn
  <2>2. \A j \in k .. (c - 1) : j \in 0 .. n BY <1>1
  <2>. QED BY <1>1, <2>1, <2>2
<1>4. \A j \in k .. (c - 1) : \A i \in 1 .. Len(st[k]) : st[j][i] = st[k][i]
  BY <1>2, <1>3, LoopInside
<1>5. ASSUME NEW j \in k .. (c - 1) PROVE ForDepth(body, j) >= ForDepth(body, k)
  <2>1. j \in 0 .. n /\ k \in 0 .. n BY <1>1
  <2>2. Occurrences(st[j], "for") >= Occurrences(st[k], "for")
    BY <1>1, <1>3, <1>4, <2>1, OccurrencesLonger
  <2>. QED BY <1>1, <2>1, <2>2
<1>6. Len(st[c - 1]) = Len(st[k])
  <2>1. Depth(body, c) + 1 = Depth(body, k) /\ body[c].op \in {"endif", "endfor"} BY DEF Closes
  <2>2. Depth(body, c) = Depth(body, c - 1) - 1 BY <1>2, <2>1, NestingStep
  <2>3. c - 1 \in 0 .. n /\ k \in 0 .. n BY <1>1
  <2>4. Depth(body, c - 1) \in Int /\ Depth(body, k) \in Int BY <1>2, NestingStep
  <2>. QED BY <1>1, <2>1, <2>2, <2>3, <2>4
<1>7. st[c - 1] = st[k]
  <2>1. c - 1 \in 0 .. n /\ k \in 0 .. n BY <1>1
  <2>2. \A i \in 1 .. Len(st[c - 1]) : st[c - 1][i] = st[k][i] BY <1>2, <1>4, <1>6
  <2>. QED BY <1>1, <1>6, <2>1, <2>2, SeqEqual
<1>8. body[c].op = "endfor"
  <2>1. st[k] = Append(st[k - 1], "for") BY DEF Nests, NestedBy
  <2>2. k - 1 \in 0 .. n /\ "for" \in Blocks BY <1>1 DEF Blocks
  <2>3. Len(st[k]) = Len(st[k - 1]) + 1 /\ st[k][Len(st[k - 1]) + 1] = "for"
    BY <1>1, <2>1, <2>2, AppendProperties
  <2>4. st[c - 1][Len(st[c - 1])] = "for" BY <1>7, <2>3
  <2>5. c \in 1 .. n BY <1>1
  <2>6. Fits(st[c - 1], body[c].op) BY <2>5 DEF Nests
  <2>. QED BY <2>4, <2>6 DEF Fits, Closes
<1>9. ForDepth(body, c) = ForDepth(body, c - 1) - 1 BY <1>2, <1>8, DepthStep
<1>10. ForDepth(body, c - 1) = ForDepth(body, k)
  <2>1. c - 1 \in 0 .. n /\ k \in 0 .. n BY <1>1
  <2>. QED BY <1>1, <1>7, <2>1
<1>. QED BY <1>5, <1>9, <1>10

\* What is defined inside an @iter body, its variable included, is out of scope
\* behind it, and nothing else is.
LEMMA LoopScoped ==
  ASSUME NEW d, NEW n, NEW st, Nests(d.body, n, st), NEW k \in 1 .. n, d.body[k].op = "for",
         NEW c \in (k + 1) .. n, Closes(d.body, k, c),
         \A i \in (k + 1) .. (c - 1) : ~Closes(d.body, k, i), NEW x
  PROVE  Definitions(d, x, c + 1) = Definitions(d, x, k)
<1>. DEFINE D(j) == ForDepth(d.body, j)
            holds(i, j) == \A m \in i .. (j - 1) : D(m) >= D(i)
<1>1. n \in Nat /\ k \in Nat /\ c \in Nat /\ k - 1 \in Nat
  <2>1. n \in Nat BY DEF Nests
  <2>. QED BY <2>1
<1>2. \A j \in Nat : D(j) \in Int BY DepthStep
<1>3. (\A j \in k .. (c - 1) : D(j) >= D(k)) /\ D(c) = D(k) - 1 BY LoopNests
<1>4. D(k) = D(k - 1) + 1
  <2>1. (k - 1) + 1 = k BY <1>1
  <2>. QED BY <1>1, <2>1, DepthStep
<1>5. \A j : Definitions(d, x, j) = {i \in 0 .. (j - 1) : Defines(d, i, x) /\ holds(i, j)}
  BY DEF Definitions
<1>6. d.body[c].op \notin {"let", "mut", "for"} BY DEF Closes
<1>7. ~Defines(d, c, x) BY <1>1, <1>6 DEF Defines
<1>8. ASSUME NEW i \in 0 .. c, Defines(d, i, x), holds(i, c + 1) PROVE i \in 0 .. (k - 1) /\ holds(i, k)
  <2>1. i # c BY <1>7, <1>8
  <2>2. c \in i .. (c + 1) - 1 BY <1>1
  <2>3. D(c) >= D(i) BY <1>8, <2>2
  <2>4. ~(i >= k)
    <3>1. i >= k => i \in k .. (c - 1) BY <1>1, <2>1
    <3>2. i >= k => D(i) >= D(k) BY <1>3, <3>1
    <3>3. D(i) \in Int /\ D(k) \in Int BY <1>1, <1>2
    <3>. HIDE DEF D
    <3>. QED BY <1>3, <2>3, <3>2, <3>3
  <2>5. i \in 0 .. (k - 1) BY <1>1, <2>4
  <2>6. \A m \in i .. (k - 1) : m \in i .. ((c + 1) - 1) BY <1>1
  <2>. QED BY <1>8, <2>5, <2>6
<1>9. ASSUME NEW i \in 0 .. (k - 1), Defines(d, i, x), holds(i, k) PROVE i \in 0 .. c /\ holds(i, c + 1)
  <2>1. i \in 0 .. c /\ i \in Nat /\ k - 1 \in i .. (k - 1) BY <1>1
  <2>2. D(k - 1) >= D(i) /\ D(i) \in Int /\ D(k - 1) \in Int BY <1>1, <1>2, <1>9, <2>1
  <2>3. ASSUME NEW m \in i .. ((c + 1) - 1) PROVE D(m) >= D(i)
    <3>1. m \in i .. (k - 1) \/ m \in k .. (c - 1) \/ m = c BY <1>1
    <3>2. D(m) \in Int /\ D(k) \in Int
      <4>1. m \in Nat BY <1>1
      <4>. QED BY <1>1, <1>2, <4>1
    <3>3. CASE m \in i .. (k - 1) BY <1>9, <3>3
    <3>4. CASE m \in k .. (c - 1)
      <4>1. D(m) >= D(k) BY <1>3, <3>4
      <4>. HIDE DEF D
      <4>. QED BY <1>4, <2>2, <3>2, <4>1
    <3>5. CASE m = c
      <4>. HIDE DEF D
      <4>. QED BY <1>3, <1>4, <2>2, <3>2, <3>5
    <3>. QED BY <3>1, <3>3, <3>4, <3>5
  <2>. QED BY <2>1, <2>3
<1>. HIDE DEF holds
<1>10. (c + 1) - 1 = c BY <1>1
<1>. QED BY <1>5, <1>8, <1>9, <1>10

-----------------------------------------------------------------------------
(* Paths in the source and in the code.                                     *)

\* What a place of a definition may be, that of none included.
Places == Nat \cup {MaxOf({})}
Trails == Seq(EventOps \X (Vars \cup FnNames \cup {NoName}) \X Nat \X Places)
\* The paths k behind s.
Behind(s, K) == {s \o k : k \in K}
\* The parts of paths, each going on or ending the function.
RunSet == [events : Trails, done : BOOLEAN]

\* One path behind another, as what it is of no account.
Joined(p, q) == p \o q

\* Joining paths.
LEMMA JoinedPaths ==
  /\ \A p, q \in Trails : Joined(p, q) \in Trails
  /\ \A p \in Trails : Joined(<<>>, p) = p /\ Joined(p, <<>>) = p
  /\ \A p, q, r \in Trails : Joined(Joined(p, q), r) = Joined(p, Joined(q, r))
<1>. DEFINE T == EventOps \X (Vars \cup FnNames \cup {NoName}) \X Nat \X Places
<1>. HIDE DEF T
<1>1. \A p, q \in Seq(T) : p \o q \in Seq(T) BY ConcatProperties
<1>2. \A p \in Seq(T) : <<>> \o p = p /\ p \o <<>> = p BY ConcatEmptySeq
<1>3. \A p, q, r \in Seq(T) : (p \o q) \o r = p \o (q \o r)
  <2>. TAKE p \in Seq(T), q \in Seq(T), r \in Seq(T)
  <2>. QED BY ConcatAssociative
<1>. QED BY <1>1, <1>2, <1>3, Zenon DEF Joined, Trails, T

\* What is behind a path.
LEMMA BehindHas ==
  ASSUME NEW s, NEW K
  PROVE  \A p : p \in Behind(s, K) <=> \E k \in K : p = Joined(s, k)
BY DEF Behind, Joined

\* What is run before a path.
LEMMA AfterHas ==
  ASSUME NEW R, NEW K
  PROVE  \A p : p \in After(R, K) <=>
           \E r \in R : IF r.done THEN p = r.events ELSE \E k \in K : p = Joined(r.events, k)
<1>. DEFINE g(r, k) == Joined(r.events, k)
            e(r) == r.events
            d(r) == r.done
<1>1. After(R, K) = {e(r) : r \in {q \in R : d(q)}} \cup {g(r, k) : r \in {q \in R : ~d(q)}, k \in K}
  BY DEF After, Joined
<1>. HIDE DEF g, e, d
<1>2. \A p : p \in After(R, K) <=> \E r \in R : IF d(r) THEN p = e(r) ELSE \E k \in K : p = g(r, k)
  BY <1>1
<1>. QED BY <1>2 DEF g, e, d

\* What is run first, then more.
LEMMA ThenHas ==
  ASSUME NEW R, NEW S
  PROVE  \A q : q \in Then(R, S) <=>
           \/ q \in R /\ q.done
           \/ \E r \in R : ~r.done /\ \E s \in S : q = Run(Joined(r.events, s.events), s.done)
<1>. DEFINE g(r, s) == Run(Joined(r.events, s.events), s.done)
            d(r) == r.done
<1>1. Then(R, S) = {q \in R : d(q)} \cup {g(r, s) : r \in {q \in R : ~d(q)}, s \in S}
  BY DEF Then, Joined
<1>. HIDE DEF g, d
<1>2. \A q : q \in Then(R, S) <=>
        \/ q \in R /\ d(q)
        \/ \E r \in R : ~d(r) /\ \E s \in S : q = g(r, s)
  BY <1>1
<1>. QED BY <1>2 DEF g, d

\* Paths behind paths.
LEMMA BehindPaths ==
  ASSUME NEW s \in Trails, NEW K \in SUBSET Trails
  PROVE  /\ Behind(s, K) \in SUBSET Trails /\ Behind(<<>>, K) = K
         /\ \A t \in Trails : Behind(Joined(t, s), K) = Behind(t, Behind(s, K))
<1>1. Behind(s, K) \in SUBSET Trails
  <2>1. \A p : p \in Behind(s, K) => p \in Trails BY JoinedPaths, BehindHas
  <2>. QED BY <2>1
<1>2. Behind(<<>>, K) = K
  <2>1. \A k \in K : Joined(<<>>, k) = k BY JoinedPaths
  <2>2. \A p : p \in Behind(<<>>, K) <=> p \in K BY <2>1, BehindHas
  <2>. QED BY <2>2
<1>3. ASSUME NEW t \in Trails PROVE Behind(Joined(t, s), K) = Behind(t, Behind(s, K))
  <2>1. \A k \in K : Joined(Joined(t, s), k) = Joined(t, Joined(s, k)) BY JoinedPaths
  <2>2. \A p : p \in Behind(Joined(t, s), K) <=> \E k \in K : p = Joined(t, Joined(s, k))
    BY <2>1, BehindHas
  <2>3. \A p : p \in Behind(t, Behind(s, K)) <=> \E k \in K : p = Joined(t, Joined(s, k))
    <3>1. \A p : p \in Behind(t, Behind(s, K)) <=> \E m \in Behind(s, K) : p = Joined(t, m)
      BY BehindHas
    <3>. QED BY <3>1, BehindHas
  <2>. QED BY <2>2, <2>3
<1>. QED BY <1>1, <1>2, <1>3

\* An event that is one of the code is one of the source.
LEMMA TrailsOfEvents == /\ Seq(Events) \subseteq Trails
                        /\ <<>> \in Trails
                        /\ \A op \in EventOps : <<Mark(op)>> \in Trails
<1>1. Events \subseteq EventOps \X (Vars \cup FnNames \cup {NoName}) \X Nat \X Places
  BY DEF Events, Places
<1>2. Seq(Events) \subseteq Trails BY <1>1, SeqMonotonic DEF Trails
<1>3. <<>> \in Seq(Events) /\ \A e \in Events : <<e>> \in Seq(Events) OBVIOUS
<1>. QED BY <1>2, <1>3, EventsTyped

\* What is run, then more, then the rest.
LEMMA AfterThen ==
  ASSUME NEW R \in SUBSET RunSet, NEW S \in SUBSET RunSet, NEW K \in SUBSET Trails
  PROVE  /\ Then(R, S) \in SUBSET RunSet /\ After(R, K) \in SUBSET Trails
         /\ After(Then(R, S), K) = After(R, After(S, K))
<1>1. \A p, q \in Trails : Joined(p, q) \in Trails BY JoinedPaths
<1>2. \A p, q, r \in Trails : Joined(Joined(p, q), r) = Joined(p, Joined(q, r)) BY JoinedPaths
<1>3. \A r \in RunSet : r.events \in Trails /\ r.done \in BOOLEAN BY DEF RunSet
<1>4. \A r \in R, s \in S : /\ Run(Joined(r.events, s.events), s.done) \in RunSet
                            /\ Run(Joined(r.events, s.events), s.done).events = Joined(r.events, s.events)
                            /\ Run(Joined(r.events, s.events), s.done).done = s.done
  <2>. TAKE r \in R, s \in S
  <2>1. Joined(r.events, s.events) \in Trails /\ s.done \in BOOLEAN BY <1>1, <1>3
  <2>. QED BY <2>1 DEF Run, RunSet
<1>5. Then(R, S) \in SUBSET RunSet
  <2>1. \A q : q \in Then(R, S) => q \in RunSet BY <1>4, ThenHas
  <2>. QED BY <2>1
<1>6. After(R, K) \in SUBSET Trails
  <2>1. \A p : p \in After(R, K) => p \in Trails BY <1>1, <1>3, AfterHas
  <2>. QED BY <2>1
<1>7. \A Q, L, p : p \in After(Q, L) <=>
        \E r \in Q : IF r.done THEN p = r.events ELSE \E k \in L : p = Joined(r.events, k)
  BY AfterHas
<1>8. \A p : p \in After(Then(R, S), K) => p \in After(R, After(S, K))
  <2>. SUFFICES ASSUME NEW p, p \in After(Then(R, S), K) PROVE p \in After(R, After(S, K)) OBVIOUS
  <2>1. PICK q \in Then(R, S) : IF q.done THEN p = q.events ELSE \E k \in K : p = Joined(q.events, k)
    BY <1>7
  <2>2. CASE q \in R /\ q.done BY <1>7, <2>1, <2>2
  <2>3. CASE \E r \in R, s \in S : ~r.done /\ q = Run(Joined(r.events, s.events), s.done)
    <3>1. PICK r \in R, s \in S : ~r.done /\ q = Run(Joined(r.events, s.events), s.done) BY <2>3
    <3>2. q.events = Joined(r.events, s.events) /\ q.done = s.done BY <1>4, <3>1
    <3>3. \E m \in After(S, K) : p = Joined(r.events, m)
      <4>1. CASE s.done
        <5>1. s.events \in After(S, K) BY <1>7, <4>1
        <5>. QED BY <2>1, <3>2, <4>1, <5>1
      <4>2. CASE ~s.done
        <5>1. PICK k \in K : p = Joined(Joined(r.events, s.events), k) BY <2>1, <3>2, <4>2
        <5>2. Joined(s.events, k) \in After(S, K) BY <1>7, <4>2
        <5>3. p = Joined(r.events, Joined(s.events, k)) BY <1>2, <1>3, <5>1
        <5>. QED BY <5>2, <5>3
      <4>. QED BY <4>1, <4>2
    <3>. QED BY <1>7, <3>1, <3>3
  <2>. QED BY <2>1, <2>2, <2>3, ThenHas
<1>9. \A p : p \in After(R, After(S, K)) => p \in After(Then(R, S), K)
  <2>. SUFFICES ASSUME NEW p, p \in After(R, After(S, K)) PROVE p \in After(Then(R, S), K) OBVIOUS
  <2>1. PICK r \in R : IF r.done THEN p = r.events ELSE \E m \in After(S, K) : p = Joined(r.events, m)
    BY <1>7
  <2>2. CASE r.done
    <3>1. r \in Then(R, S) BY <2>2, ThenHas
    <3>. QED BY <1>7, <2>1, <2>2, <3>1
  <2>3. CASE ~r.done
    <3>1. PICK m \in After(S, K) : p = Joined(r.events, m) BY <2>1, <2>3
    <3>2. PICK s \in S : IF s.done THEN m = s.events ELSE \E k \in K : m = Joined(s.events, k) BY <1>7
    <3>. DEFINE q == Run(Joined(r.events, s.events), s.done)
    <3>3. q \in Then(R, S) BY <2>3, ThenHas
    <3>4. q.events = Joined(r.events, s.events) /\ q.done = s.done BY <1>4
    <3>. HIDE DEF q
    <3>5. CASE s.done BY <1>7, <3>1, <3>2, <3>3, <3>4, <3>5
    <3>6. CASE ~s.done
      <4>1. PICK k \in K : m = Joined(s.events, k) BY <3>2, <3>6
      <4>2. p = Joined(q.events, k) BY <1>2, <1>3, <3>1, <3>4, <4>1
      <4>. QED BY <1>7, <3>3, <3>4, <3>6, <4>2
    <3>. QED BY <3>5, <3>6
  <2>. QED BY <2>2, <2>3
<1>10. \A A, B : (\A p : p \in A => p \in B) /\ (\A p : p \in B => p \in A) => A = B OBVIOUS
<1>11. After(Then(R, S), K) = After(R, After(S, K)) BY <1>8, <1>9, <1>10
<1>. QED BY <1>5, <1>6, <1>11

\* One run, that goes on or ends; and runs that all end.
LEMMA AfterOne ==
  /\ \A s \in Trails : /\ Run(s, FALSE) \in RunSet /\ Run(s, TRUE) \in RunSet
                       /\ \A K : /\ After({Run(s, FALSE)}, K) = Behind(s, K)
                                 /\ After({Run(s, TRUE)}, K) = {s}
  /\ \A R, S, K, L : (\A r \in R : r.done) => After(R, K) = After(Then(R, S), L)
<1>1. ASSUME NEW s \in Trails, NEW K
      PROVE  /\ Run(s, FALSE) \in RunSet /\ Run(s, TRUE) \in RunSet
             /\ After({Run(s, FALSE)}, K) = Behind(s, K) /\ After({Run(s, TRUE)}, K) = {s}
  <2>1. \A d \in BOOLEAN : Run(s, d) \in RunSet /\ Run(s, d).events = s /\ Run(s, d).done = d
    BY DEF Run, RunSet
  <2>2. After({Run(s, FALSE)}, K) = Behind(s, K)
    <3>. DEFINE r == Run(s, FALSE)
    <3>1. r.events = s /\ r.done = FALSE BY <2>1
    <3>. HIDE DEF r
    <3>2. \A p : p \in After({r}, K) <=> p \in Behind(s, K) BY <3>1, AfterHas, BehindHas
    <3>3. \A A, B : (\A p : p \in A <=> p \in B) => A = B OBVIOUS
    <3>4. After({r}, K) = Behind(s, K) BY <3>2, <3>3
    <3>. QED BY <3>4 DEF r
  <2>3. After({Run(s, TRUE)}, K) = {s}
    <3>. DEFINE r == Run(s, TRUE)
    <3>1. r.events = s /\ r.done = TRUE BY <2>1
    <3>. HIDE DEF r
    <3>2. \A p : p \in After({r}, K) <=> p \in {s} BY <3>1, AfterHas
    <3>3. \A A, B : (\A p : p \in A <=> p \in B) => A = B OBVIOUS
    <3>4. After({r}, K) = {s} BY <3>2, <3>3
    <3>. QED BY <3>4 DEF r
  <2>. QED BY <2>1, <2>2, <2>3
<1>2. ASSUME NEW R, NEW S, NEW K, NEW L, \A r \in R : r.done PROVE After(R, K) = After(Then(R, S), L)
  <2>1. \A A, B : (\A p : p \in A <=> p \in B) => A = B OBVIOUS
  <2>2. \A q : q \in Then(R, S) <=> q \in R BY <1>2, ThenHas
  <2>3. Then(R, S) = R BY <2>1, <2>2
  <2>4. \A p : p \in After(R, K) <=> p \in After(R, L) BY <1>2, AfterHas
  <2>. QED BY <2>1, <2>3, <2>4
<1>. QED BY <1>1, <1>2

-----------------------------------------------------------------------------
(* The events of code, instruction by instruction.                          *)

\* What an instruction adds to a path.
EventIn(w) == IF w.op = "alloca" THEN <<>> ELSE <<EventOf(w)>>

\* It is a path.
LEMMA EventInTyped ==
  ASSUME NEW w \in Instrs
  PROVE  EventIn(w) \in Trails
<1>1. EventOf(w) \in Events BY EventsTyped
<1>2. <<>> \in Seq(Events) /\ <<EventOf(w)>> \in Seq(Events) BY <1>1
<1>. QED BY <1>2, TrailsOfEvents DEF EventIn

\* The events of the first k instructions.
EventSteps(h, code) ==
  /\ \A k \in 0 .. Len(code) : h[k] \in Trails
  /\ h[0] = <<>>
  /\ \A k \in 1 .. Len(code) : h[k] = Joined(h[k - 1], EventIn(code[k]))

\* The events of a block are those of its instructions, one behind the other.
LEMMA EventsSteps ==
  ASSUME NEW block, block.code \in Seq(Instrs)
  PROVE  \E h : EventSteps(h, block.code) /\ EventsOf(block) = h[Len(block.code)]
<1>. DEFINE code == block.code
            n == Len(code)
            some(k) == EventIn(code[k])
            T == Trails
            Fold(h) == h = [k \in 0 .. n |-> IF k = 0 THEN <<>> ELSE Joined(h[k - 1], some(k))]
<1>1. n \in Nat /\ DOMAIN code = 1 .. n /\ \A k \in 1 .. n : code[k] \in Instrs
  BY LenProperties, ElementOfSeq
<1>2. EventsOf(block) = (CHOOSE h : Fold(h))[n] BY DEF EventsOf, EventIn, Joined
<1>3. \A k \in 1 .. n : some(k) \in T BY <1>1, EventInTyped
<1>. HIDE DEF some, n, code
<1>4. \E h : h \in [0 .. n -> T] /\ Fold(h)
  <2>. DEFINE add == [k \in 1 .. n |-> [p \in T |-> Joined(p, some(k))]]
  <2>1. add \in [1 .. n -> [T -> T]]
    <3>1. \A k \in 1 .. n, p \in T : Joined(p, some(k)) \in T BY <1>3, JoinedPaths
    <3>. HIDE DEF T
    <3>. QED BY <3>1
  <2>2. PICK base \in T : base = <<>> BY TrailsOfEvents
  <2>3. \A k \in 1 .. n, p \in T : add[k][p] = Joined(p, some(k)) OBVIOUS
  <2>. HIDE DEF add, T
  <2>4. PICK h \in [0 .. n -> T] : h[0] = base /\ \A k \in 1 .. n : h[k] = add[k][h[k - 1]]
    <3>1. base \in T OBVIOUS
    <3>. QED BY ONLY <1>1, <2>1, <3>1, FoldExists
  <2>5. \A k \in 0 .. n : h[k] = IF k = 0 THEN <<>> ELSE Joined(h[k - 1], some(k))
    <3>. TAKE k \in 0 .. n
    <3>1. k = 0 \/ (k \in 1 .. n /\ k # 0 /\ k - 1 \in 0 .. n) BY <1>1
    <3>. QED BY <2>2, <2>3, <2>4, <3>1
  <2>6. h = [k \in 0 .. n |-> h[k]] BY <2>4
  <2>7. [k \in 0 .. n |-> h[k]] = [k \in 0 .. n |-> IF k = 0 THEN <<>> ELSE Joined(h[k - 1], some(k))]
    BY <2>5
  <2>. QED BY <2>4, <2>6, <2>7
<1>. DEFINE upTo == CHOOSE h : Fold(h)
<1>5. upTo = [k \in 0 .. n |-> IF k = 0 THEN <<>> ELSE Joined(upTo[k - 1], some(k))]
  BY <1>4
<1>. HIDE DEF upTo
<1>6. upTo[0] = <<>> /\ \A k \in 1 .. n : upTo[k] = Joined(upTo[k - 1], some(k))
  <2>1. 0 \in 0 .. n /\ \A k \in 1 .. n : k \in 0 .. n /\ k # 0 BY <1>1
  <2>. QED BY <1>5, <2>1
<1>7. \A k \in 0 .. n : upTo[k] \in T
  <2>. DEFINE P == {k \in 0 .. n : upTo[k] \in T}
  <2>1. 0 \in P
    <3>1. 0 \in 0 .. n BY <1>1
    <3>. QED BY <1>6, <3>1, TrailsOfEvents
  <2>2. ASSUME NEW k \in 0 .. (n - 1), k \in P PROVE k + 1 \in P
    <3>1. k + 1 \in 1 .. n /\ k + 1 \in 0 .. n /\ (k + 1) - 1 = k BY <1>1
    <3>2. upTo[k + 1] = Joined(upTo[k], some(k + 1)) BY <1>6, <3>1
    <3>. QED BY <1>3, <2>2, <3>1, <3>2, JoinedPaths
  <2>. HIDE DEF P
  <2>3. \A k \in 0 .. n : k \in P BY <1>1, <2>1, <2>2, UpTo
  <2>. QED BY <2>3 DEF P
<1>8. EventSteps(upTo, code) BY <1>6, <1>7 DEF EventSteps, some, n
<1>9. EventsOf(block) = upTo[n] BY <1>2 DEF upTo
<1>. QED BY <1>8, <1>9 DEF n, code

\* The events of code in two parts.
LEMMA EventsJoined ==
  ASSUME NEW b, NEW p, NEW q, p.code \in Seq(Instrs), q.code \in Seq(Instrs),
         b.code = Joined(p.code, q.code)
  PROVE  /\ EventsOf(b) = Joined(EventsOf(p), EventsOf(q))
         /\ EventsOf(p) \in Trails /\ EventsOf(q) \in Trails
<1>. DEFINE m == Len(p.code)
            n == Len(q.code)
<1>1. /\ m \in Nat /\ n \in Nat /\ b.code \in Seq(Instrs) /\ Len(b.code) = m + n
      /\ \A k \in 1 .. m + n : b.code[k] = IF k <= m THEN p.code[k] ELSE q.code[k - m]
  <2>. DEFINE u == p.code
              v == q.code
  <2>1. u \in Seq(Instrs) /\ v \in Seq(Instrs) /\ b.code = u \o v BY DEF Joined
  <2>. HIDE DEF u, v
  <2>2. /\ Len(u) \in Nat /\ Len(v) \in Nat /\ b.code \in Seq(Instrs) /\ Len(b.code) = Len(u) + Len(v)
        /\ \A k \in 1 .. Len(u) + Len(v) : b.code[k] = IF k <= Len(u) THEN u[k] ELSE v[k - Len(u)]
    BY <2>1, ConcatProperties, LenProperties
  <2>. QED BY <2>2 DEF u, v
<1>2. PICK f : EventSteps(f, p.code) /\ EventsOf(p) = f[m] BY EventsSteps
<1>3. PICK g : EventSteps(g, q.code) /\ EventsOf(q) = g[n] BY EventsSteps
<1>4. PICK h : EventSteps(h, b.code) /\ EventsOf(b) = h[m + n] BY <1>1, EventsSteps
<1>5. /\ \A k \in 0 .. m : f[k] \in Trails
      /\ f[0] = <<>> /\ \A k \in 1 .. m : f[k] = Joined(f[k - 1], EventIn(p.code[k]))
  BY <1>2 DEF EventSteps
<1>6. /\ \A k \in 0 .. n : g[k] \in Trails
      /\ g[0] = <<>> /\ \A k \in 1 .. n : g[k] = Joined(g[k - 1], EventIn(q.code[k]))
  BY <1>3 DEF EventSteps
<1>7. h[0] = <<>> /\ \A k \in 1 .. m + n : h[k] = Joined(h[k - 1], EventIn(b.code[k]))
  BY <1>1, <1>4 DEF EventSteps
<1>8. \A k \in 1 .. n : EventIn(q.code[k]) \in Trails
  <2>1. \A k \in 1 .. n : q.code[k] \in Instrs BY ElementOfSeq
  <2>. QED BY <2>1, EventInTyped
<1>. HIDE DEF m, n
<1>9. \A k \in 0 .. m : h[k] = f[k]
  <2>. DEFINE P == {k \in 0 .. m : h[k] = f[k]}
  <2>1. 0 \in P BY <1>1, <1>5, <1>7
  <2>2. ASSUME NEW k \in 0 .. (m - 1), k \in P PROVE k + 1 \in P
    <3>1. k + 1 \in 1 .. m /\ k + 1 \in 1 .. m + n /\ k + 1 \in 0 .. m /\ (k + 1) - 1 = k /\ k + 1 <= m
      BY <1>1
    <3>2. b.code[k + 1] = p.code[k + 1] BY <1>1, <3>1
    <3>. QED BY <1>5, <1>7, <2>2, <3>1, <3>2
  <2>. HIDE DEF P
  <2>3. \A k \in 0 .. m : k \in P BY <1>1, <2>1, <2>2, UpTo
  <2>. QED BY <2>3 DEF P
<1>10. \A k \in 0 .. n : h[m + k] = Joined(f[m], g[k])
  <2>. DEFINE P == {k \in 0 .. n : h[m + k] = Joined(f[m], g[k])}
  <2>0. m \in 0 .. m /\ 0 \in 0 .. n /\ m + 0 = m BY <1>1
  <2>1. 0 \in P
    <3>1. Joined(f[m], <<>>) = f[m] BY <1>5, <2>0, JoinedPaths
    <3>. QED BY <1>6, <1>9, <2>0, <3>1
  <2>2. ASSUME NEW k \in 0 .. (n - 1), k \in P PROVE k + 1 \in P
    <3>1. /\ k + 1 \in 1 .. n /\ m + (k + 1) \in 1 .. m + n /\ k + 1 \in 0 .. n /\ (k + 1) - 1 = k
          /\ (m + (k + 1)) - 1 = m + k /\ ~(m + (k + 1) <= m) /\ (m + (k + 1)) - m = k + 1
      BY <1>1
    <3>2. b.code[m + (k + 1)] = q.code[k + 1] BY <1>1, <3>1
    <3>3. h[m + (k + 1)] = Joined(h[m + k], EventIn(q.code[k + 1])) BY <1>7, <3>1, <3>2
    <3>4. h[m + k] = Joined(f[m], g[k]) BY <2>2
    <3>5. f[m] \in Trails /\ g[k] \in Trails /\ EventIn(q.code[k + 1]) \in Trails
      BY <1>5, <1>6, <1>8, <2>0, <2>2, <3>1
    <3>8. Joined(Joined(f[m], g[k]), EventIn(q.code[k + 1]))
            = Joined(f[m], Joined(g[k], EventIn(q.code[k + 1])))
      BY ONLY <3>5, JoinedPaths, Zenon
    <3>6. h[m + (k + 1)] = Joined(f[m], Joined(g[k], EventIn(q.code[k + 1])))
      BY <3>3, <3>4, <3>8
    <3>7. g[k + 1] = Joined(g[k], EventIn(q.code[k + 1])) BY <1>6, <3>1
    <3>. QED BY <3>1, <3>6, <3>7
  <2>. HIDE DEF P
  <2>3. \A k \in 0 .. n : k \in P BY <1>1, <2>1, <2>2, UpTo
  <2>. QED BY <2>3 DEF P
<1>11. m \in 0 .. m /\ n \in 0 .. n BY <1>1
<1>. QED BY <1>2, <1>3, <1>4, <1>5, <1>6, <1>10, <1>11 DEF m, n

\* The events of no code, of one instruction more, of the same code, and of
\* allocations.
LEMMA EventsAre ==
  /\ \A b : b.code = <<>> => EventsOf(b) = <<>>
  /\ \A b, p : b.code = p.code => EventsOf(b) = EventsOf(p)
  /\ \A b : b.code \in Seq(Instrs) => EventsOf(b) \in Trails
  /\ \A b, p : \A w \in Instrs :
       p.code \in Seq(Instrs) /\ b.code = Append(p.code, w)
         => EventsOf(b) = Joined(EventsOf(p), EventIn(w))
  /\ \A b : b.code \in Seq(Instrs) /\ (\A k \in DOMAIN b.code : b.code[k].op = "alloca")
              => EventsOf(b) = <<>>
<1>1. ASSUME NEW b, b.code \in Seq(Instrs), \A k \in DOMAIN b.code : b.code[k].op = "alloca"
      PROVE  EventsOf(b) = <<>>
  <2>. DEFINE n == Len(b.code)
  <2>1. n \in Nat /\ DOMAIN b.code = 1 .. n BY <1>1, LenProperties
  <2>2. PICK h : EventSteps(h, b.code) /\ EventsOf(b) = h[n] BY <1>1, EventsSteps
  <2>3. h[0] = <<>> /\ \A k \in 1 .. n : h[k] = Joined(h[k - 1], EventIn(b.code[k]))
    BY <2>2 DEF EventSteps
  <2>4. \A k \in 1 .. n : EventIn(b.code[k]) = <<>> BY <1>1, <2>1 DEF EventIn
  <2>5. Joined(<<>>, <<>>) = <<>> BY TrailsOfEvents, JoinedPaths
  <2>. DEFINE P == {k \in 0 .. n : h[k] = <<>>}
  <2>. HIDE DEF n
  <2>6. 0 \in P BY <2>1, <2>3
  <2>7. ASSUME NEW k \in 0 .. (n - 1), k \in P PROVE k + 1 \in P
    <3>1. k + 1 \in 1 .. n /\ k + 1 \in 0 .. n /\ (k + 1) - 1 = k BY <2>1
    <3>. QED BY <2>3, <2>4, <2>5, <2>7, <3>1
  <2>. HIDE DEF P
  <2>8. \A k \in 0 .. n : k \in P BY <2>1, <2>6, <2>7, UpTo
  <2>9. n \in 0 .. n BY <2>1
  <2>10. h[n] = <<>> BY <2>8, <2>9 DEF P
  <2>. QED BY <2>2, <2>10 DEF n
<1>2. \A b : b.code = <<>> => EventsOf(b) = <<>>
  <2>. SUFFICES ASSUME NEW b, b.code = <<>> PROVE EventsOf(b) = <<>> OBVIOUS
  <2>1. b.code \in Seq(Instrs) /\ DOMAIN b.code = {} OBVIOUS
  <2>. QED BY <1>1, <2>1
<1>3. ASSUME NEW b, NEW p, b.code = p.code PROVE EventsOf(b) = EventsOf(p)
  <2>. DEFINE all(c) == LET upTo[k \in 0 .. Len(c)] ==
                              IF k = 0 THEN <<>>
                              ELSE upTo[k - 1] \o (IF c[k].op = "alloca" THEN <<>> ELSE <<EventOf(c[k])>>)
                        IN  upTo[Len(c)]
  <2>1. EventsOf(b) = all(b.code) /\ EventsOf(p) = all(p.code) BY DEF EventsOf
  <2>. HIDE DEF all
  <2>. QED BY <1>3, <2>1
<1>4. ASSUME NEW b, b.code \in Seq(Instrs) PROVE EventsOf(b) \in Trails
  <2>1. EventsOf(b) \in Seq(Events) BY <1>4, EventsFrom
  <2>. QED BY <2>1, TrailsOfEvents
<1>5. ASSUME NEW b, NEW p, NEW w \in Instrs, p.code \in Seq(Instrs), b.code = Append(p.code, w)
      PROVE  EventsOf(b) = Joined(EventsOf(p), EventIn(w))
  <2>. DEFINE q == [code |-> <<w>>]
  <2>1. q.code \in Seq(Instrs) /\ b.code = Joined(p.code, q.code)
    <3>1. \A u \in Seq(Instrs) : Append(u, w) = u \o <<w>> BY AppendIsConcat
    <3>. QED BY <1>5, <3>1 DEF Joined
  <2>2. EventsOf(b) = Joined(EventsOf(p), EventsOf(q))
    <3>. HIDE DEF q
    <3>. QED BY <1>5, <2>1, EventsJoined
  <2>3. PICK h : EventSteps(h, q.code) /\ EventsOf(q) = h[Len(q.code)] BY <2>1, EventsSteps
  <2>4. q.code = <<w>> /\ Len(q.code) = 1 /\ q.code[1] = w OBVIOUS
  <2>. HIDE DEF q
  <2>5. h[0] = <<>> /\ \A k \in 1 .. 1 : h[k] = Joined(h[k - 1], EventIn(q.code[k]))
    BY <2>3, <2>4 DEF EventSteps
  <2>6. 1 \in 1 .. 1 /\ 1 - 1 = 0 OBVIOUS
  <2>7. h[1] = Joined(<<>>, EventIn(w)) BY <2>4, <2>5, <2>6
  <2>8. h[1] = EventIn(w)
    <3>1. EventIn(w) \in Trails BY EventInTyped
    <3>2. Joined(<<>>, EventIn(w)) = EventIn(w) BY ONLY <3>1, JoinedPaths, Zenon
    <3>. QED BY <2>7, <3>2
  <2>. QED BY <2>2, <2>3, <2>4, <2>8
<1>. QED BY <1>1, <1>2, <1>3, <1>4, <1>5

-----------------------------------------------------------------------------
(* The paths of the source are what their recursive definition says.        *)

\* A variable is read at a place.
LEMMA PlaceOf ==
  ASSUME NEW d, NEW x, NEW j \in Nat
  PROVE  /\ Resolve(d, x, j) \in Places
         /\ Definitions(d, x, j) # {} =>
              Resolve(d, x, j) \in Nat /\ Resolve(d, x, j) \in Definitions(d, x, j)
<1>. DEFINE S == Definitions(d, x, j)
<1>1. S \subseteq 0 .. (j - 1) BY DEF Definitions
<1>. HIDE DEF S
<1>2. CASE S = {} BY <1>2 DEF Places, Resolve, S
<1>3. CASE S # {}
  <2>1. S \in SUBSET Nat /\ \A i \in S : i <= j BY <1>1
  <2>2. IsFiniteSet(S)
    <3>1. IsFiniteSet(0 .. (j - 1)) BY FS_Interval
    <3>. QED BY <1>1, <3>1, FS_Subset
  <2>3. \E m \in S : \A i \in S : i <= m BY <1>3, <2>1, <2>2, MaxExists
  <2>4. MaxOf(S) \in S BY <2>3 DEF MaxOf
  <2>. QED BY <2>1, <2>4 DEF Places, Resolve, S
<1>. QED BY <1>2, <1>3

\* What an argument adds to a path.
ReadIn(c, i, arg) == IF arg.kind = "ident" THEN Reads(c, i, arg.val) ELSE <<>>
\* The reads of the first k arguments.
ReadSteps(h, c, i, args) ==
  /\ \A k \in 0 .. Len(args) : h[k] \in Trails
  /\ h[0] = <<>>
  /\ \A k \in 1 .. Len(args) : h[k] = Joined(h[k - 1], ReadIn(c, i, args[k]))

\* A trail of one event.
LEMMA OneTrail ==
  ASSUME NEW op \in EventOps, NEW x \in Vars \cup FnNames \cup {NoName}, NEW c \in Nat, NEW i \in Places
  PROVE  <<Event(op, x, c, i)>> \in Trails
<1>. DEFINE T == EventOps \X (Vars \cup FnNames \cup {NoName}) \X Nat \X Places
<1>1. Event(op, x, c, i) \in T BY DEF Event
<1>. HIDE DEF T
<1>2. <<Event(op, x, c, i)>> \in Seq(T) BY <1>1
<1>. QED BY <1>2 DEF Trails, T

\* What is read is a path.
LEMMA ReadsTyped ==
  ASSUME NEW c \in Nat, NEW i \in Nat
  PROVE  /\ \A x \in Vars : Reads(c, i, x) \in Trails
         /\ \A arg \in Leaf : ReadIn(c, i, arg) \in Trails
<1>1. ASSUME NEW x \in Vars PROVE Reads(c, i, x) \in Trails
  <2>1. Resolve(prog[c], x, i) \in Places BY PlaceOf
  <2>2. "load" \in EventOps BY DEF EventOps
  <2>. QED BY <2>1, <2>2, OneTrail DEF Reads
<1>2. ASSUME NEW arg \in Leaf PROVE ReadIn(c, i, arg) \in Trails
  <2>1. arg.kind = "ident" => arg.val \in Vars BY DEF Leaf
  <2>. QED BY <1>1, <2>1, TrailsOfEvents DEF ReadIn
<1>. QED BY <1>1, <1>2

\* What an atom reads and calls.
IsBase(base, c, i, a) ==
  /\ base \in Trails
  /\ a.kind = "lit" => base = <<>>
  /\ a.kind = "ident" => base = Reads(c, i, a.val)
  /\ a.kind = "call" =>
       \E h : ReadSteps(h, c, i, a.args)
              /\ base = Joined(h[Len(a.args)], <<Event("call", a.val, 0, 0)>>)
\* An atom runs that, and may propagate.
LEMMA AtomBase ==
  ASSUME NEW c \in Nat, NEW i \in Nat, NEW a \in Atom
  PROVE  \E base : /\ IsBase(base, c, i, a)
                   /\ AtomRuns(c, i, a) = IF a.prop THEN Then({Run(base, FALSE)}, Propagation)
                                          ELSE {Run(base, FALSE)}
<1>. DEFINE n == Len(a.args)
            some(k) == ReadIn(c, i, a.args[k])
            Fold(h) == h = [k \in 0 .. n |-> IF k = 0 THEN <<>> ELSE Joined(h[k - 1], some(k))]
            call == Event("call", a.val, 0, 0)
            reads == CHOOSE h : Fold(h)
            base == CASE a.kind = "lit"   -> <<>>
                      [] a.kind = "ident" -> Reads(c, i, a.val)
                      [] OTHER            -> Append(reads[n], call)
<1>1. AtomRuns(c, i, a) = IF a.prop THEN Then({Run(base, FALSE)}, Propagation) ELSE {Run(base, FALSE)}
  BY DEF AtomRuns, ReadIn, Joined
<1>2. /\ a.kind \in {"lit", "ident", "call"}
      /\ a.kind = "ident" => a.val \in Vars
      /\ a.kind = "call" => a.val \in FnNames /\ a.args \in Seq(Leaf)
  BY DEF Atom
<1>3. IsBase(base, c, i, a)
  <2>1. CASE a.kind = "lit"
    <3>1. base = <<>> BY <2>1
    <3>. HIDE DEF base
    <3>. QED BY <2>1, <3>1, TrailsOfEvents DEF IsBase
  <2>2. CASE a.kind = "ident"
    <3>1. base = Reads(c, i, a.val) BY <2>2
    <3>2. Reads(c, i, a.val) \in Trails BY <1>2, <2>2, ReadsTyped
    <3>. HIDE DEF base
    <3>. QED BY <2>2, <3>1, <3>2 DEF IsBase
  <2>3. CASE a.kind = "call"
    <3>1. n \in Nat /\ \A k \in 1 .. n : a.args[k] \in Leaf BY <1>2, <2>3, LenProperties, ElementOfSeq
    <3>2. \A k \in 1 .. n : some(k) \in Trails BY <3>1, ReadsTyped
    <3>3. base = Append(reads[n], call) BY <2>3
    <3>. HIDE DEF base, n, some
    <3>4. \E h : h \in [0 .. n -> Trails] /\ Fold(h)
      <4>. DEFINE add == [k \in 1 .. n |-> [p \in Trails |-> Joined(p, some(k))]]
                  T == Trails
      <4>1. add \in [1 .. n -> [T -> T]]
        <5>1. \A k \in 1 .. n, p \in T : Joined(p, some(k)) \in T BY <3>2, JoinedPaths
        <5>. HIDE DEF T
        <5>. QED BY <5>1 DEF T
      <4>2. PICK none \in T : none = <<>> BY TrailsOfEvents
      <4>3. \A k \in 1 .. n, p \in T : add[k][p] = Joined(p, some(k)) OBVIOUS
      <4>. HIDE DEF add, T
      <4>4. PICK h \in [0 .. n -> T] : h[0] = none /\ \A k \in 1 .. n : h[k] = add[k][h[k - 1]]
        <5>1. none \in T OBVIOUS
        <5>. QED BY ONLY <3>1, <4>1, <5>1, FoldExists
      <4>5. \A k \in 0 .. n : h[k] = IF k = 0 THEN <<>> ELSE Joined(h[k - 1], some(k))
        <5>. TAKE k \in 0 .. n
        <5>1. k = 0 \/ (k \in 1 .. n /\ k # 0 /\ k - 1 \in 0 .. n) BY <3>1
        <5>. QED BY <4>2, <4>3, <4>4, <5>1
      <4>6. h = [k \in 0 .. n |-> h[k]] BY <4>4
      <4>7. [k \in 0 .. n |-> h[k]] = [k \in 0 .. n |-> IF k = 0 THEN <<>> ELSE Joined(h[k - 1], some(k))]
        BY <4>5
      <4>. QED BY <4>4, <4>6, <4>7 DEF T
    <3>5. reads = [k \in 0 .. n |-> IF k = 0 THEN <<>> ELSE Joined(reads[k - 1], some(k))] BY <3>4
    <3>. HIDE DEF reads
    <3>6. reads[0] = <<>> /\ \A k \in 1 .. n : reads[k] = Joined(reads[k - 1], some(k))
      <4>1. 0 \in 0 .. n /\ \A k \in 1 .. n : k \in 0 .. n /\ k # 0 BY <3>1
      <4>. QED BY <3>5, <4>1
    <3>7. \A k \in 0 .. n : reads[k] \in Trails
      <4>. DEFINE P == {k \in 0 .. n : reads[k] \in Trails}
      <4>1. 0 \in P
        <5>1. 0 \in 0 .. n BY <3>1
        <5>. QED BY <3>6, <5>1, TrailsOfEvents
      <4>2. ASSUME NEW k \in 0 .. (n - 1), k \in P PROVE k + 1 \in P
        <5>1. k + 1 \in 1 .. n /\ k + 1 \in 0 .. n /\ (k + 1) - 1 = k BY <3>1
        <5>2. reads[k + 1] = Joined(reads[k], some(k + 1)) BY <3>6, <5>1
        <5>. QED BY <3>2, <4>2, <5>1, <5>2, JoinedPaths
      <4>. HIDE DEF P
      <4>3. \A k \in 0 .. n : k \in P BY <3>1, <4>1, <4>2, UpTo
      <4>. QED BY <4>3 DEF P
    <3>8. ReadSteps(reads, c, i, a.args) BY <3>6, <3>7 DEF ReadSteps, n, some
    <3>9. n \in 0 .. n BY <3>1
    <3>10. <<call>> \in Trails
      <4>1. "call" \in EventOps /\ 0 \in Nat /\ 0 \in Places BY DEF EventOps, Places
      <4>. QED BY <1>2, <2>3, <4>1, OneTrail
    <3>11. base = Joined(reads[n], <<call>>)
      <4>. DEFINE T == EventOps \X (Vars \cup FnNames \cup {NoName}) \X Nat \X Places
      <4>1. call \in T
        <5>1. "call" \in EventOps /\ 0 \in Nat /\ 0 \in Places BY DEF EventOps, Places
        <5>. QED BY <1>2, <2>3, <5>1 DEF Event
      <4>2. reads[n] \in Seq(T) BY <3>7, <3>9 DEF Trails
      <4>. HIDE DEF T, call
      <4>3. Append(reads[n], call) = reads[n] \o <<call>> BY <4>1, <4>2, AppendIsConcat
      <4>. QED BY <3>3, <4>3 DEF Joined
    <3>. HIDE DEF call
    <3>12. base \in Trails BY <3>7, <3>9, <3>10, <3>11, JoinedPaths
    <3>13. \E h : ReadSteps(h, c, i, a.args) /\ base = Joined(h[Len(a.args)], <<call>>)
      BY <3>8, <3>11 DEF n
    <3>. QED BY <2>3, <3>12, <3>13 DEF IsBase, call
  <2>. QED BY <1>2, <2>1, <2>2, <2>3
<1>. HIDE DEF base
<1>. QED BY <1>1, <1>3

\* The marks a run may leave.
LEMMA MarkTrails ==
  /\ \A op \in {"then", "else", "ok", "err", "ret_ok", "ret_err", "ret_end"} : <<Mark(op)>> \in Trails
  /\ Joined(<<Mark("err")>>, <<Mark("ret_err")>>) = <<Mark("err"), Mark("ret_err")>>
  /\ Propagation \in SUBSET RunSet
<1>1. \A op \in {"then", "else", "ok", "err", "ret_ok", "ret_err", "ret_end"} : <<Mark(op)>> \in Trails
  <2>1. \A op \in {"then", "else", "ok", "err", "ret_ok", "ret_err", "ret_end"} : op \in EventOps
    BY DEF EventOps, Terms
  <2>. QED BY <2>1, TrailsOfEvents
<1>2. Joined(<<Mark("err")>>, <<Mark("ret_err")>>) = <<Mark("err"), Mark("ret_err")>>
  <2>1. ASSUME NEW x, NEW y PROVE <<x>> \o <<y>> = <<x, y>>
    <3>. DEFINE T == {x, y}
    <3>1. <<x>> \in Seq(T) /\ y \in T OBVIOUS
    <3>2. Append(<<x>>, y) = <<x>> \o <<y>>
      <4>. HIDE DEF T
      <4>. QED BY <3>1, AppendIsConcat
    <3>3. Append(<<x>>, y) = <<x, y>>
      <4>1. <<x, y>> \in Seq(T) /\ Len(<<x, y>>) = 2 /\ <<x, y>>[1] = x /\ <<x, y>>[2] = y OBVIOUS
      <4>2. Len(<<x>>) = 1 /\ <<x>>[1] = x OBVIOUS
      <4>. HIDE DEF T
      <4>3. /\ Append(<<x>>, y) \in Seq(T) /\ Len(Append(<<x>>, y)) = 2
            /\ Append(<<x>>, y)[1] = x /\ Append(<<x>>, y)[2] = y
        BY <3>1, <4>2, AppendProperties
      <4>4. \A k \in 1 .. 2 : k = 1 \/ k = 2 OBVIOUS
      <4>. QED BY <4>1, <4>3, <4>4, SeqEqual
    <3>. QED BY <3>2, <3>3
  <2>2. ASSUME NEW x, NEW y PROVE Joined(<<x>>, <<y>>) = <<x, y>> BY <2>1 DEF Joined
  <2>. QED BY <2>2
<1>3. Propagation \in SUBSET RunSet
  <2>1. <<Mark("ok")>> \in Trails /\ <<Mark("err"), Mark("ret_err")>> \in Trails
    <3>1. <<Mark("err")>> \in Trails /\ <<Mark("ret_err")>> \in Trails /\ <<Mark("ok")>> \in Trails
      BY <1>1
    <3>2. Joined(<<Mark("err")>>, <<Mark("ret_err")>>) \in Trails BY ONLY <3>1, JoinedPaths, Zenon
    <3>. QED BY <1>2, <3>1, <3>2
  <2>2. Run(<<Mark("ok")>>, FALSE) \in RunSet /\ Run(<<Mark("err"), Mark("ret_err")>>, TRUE) \in RunSet
    BY <2>1, AfterOne
  <2>. QED BY <2>2 DEF Propagation
<1>. QED BY <1>1, <1>2, <1>3

\* An atom runs along paths.
LEMMA AtomRunsTyped ==
  ASSUME NEW c \in Nat, NEW i \in Nat, NEW a \in Atom
  PROVE  AtomRuns(c, i, a) \in SUBSET RunSet
<1>1. PICK base : /\ IsBase(base, c, i, a)
                  /\ AtomRuns(c, i, a) = IF a.prop THEN Then({Run(base, FALSE)}, Propagation)
                                         ELSE {Run(base, FALSE)}
  BY AtomBase, ZenonT(40)
<1>2. base \in Trails BY <1>1 DEF IsBase
<1>3. {Run(base, FALSE)} \in SUBSET RunSet BY <1>2, AfterOne
<1>4. Then({Run(base, FALSE)}, Propagation) \in SUBSET RunSet
  <2>1. {} \in SUBSET Trails OBVIOUS
  <2>. QED BY <1>3, <2>1, MarkTrails, AfterThen
<1>. QED BY <1>1, <1>3, <1>4

\* To run nothing first changes nothing.
Nothing == {Run(<<>>, FALSE)}
LEMMA ThenAlone ==
  ASSUME NEW R \in SUBSET RunSet
  PROVE  Then(Nothing, R) = R
<1>1. /\ Run(<<>>, FALSE).events = <<>> /\ Run(<<>>, FALSE).done = FALSE
      /\ \A s \in RunSet : Run(s.events, s.done) = s /\ s.events \in Trails
  BY DEF Run, RunSet
<1>2. \A s \in R : Run(Joined(<<>>, s.events), s.done) = s BY <1>1, JoinedPaths
<1>3. \A q : q \in Then(Nothing, R) <=>
        \/ q \in Nothing /\ q.done
        \/ \E r \in Nothing : ~r.done /\ \E s \in R : q = Run(Joined(r.events, s.events), s.done)
  BY ThenHas
<1>4. \A r : r \in Nothing <=> r = Run(<<>>, FALSE) BY DEF Nothing
<1>5. ASSUME NEW q PROVE q \in Then(Nothing, R) <=> q \in R
  <2>. DEFINE r == Run(<<>>, FALSE)
              g(s) == Run(Joined(<<>>, s.events), s.done)
  <2>1. r.events = <<>> /\ r.done = FALSE BY <1>1
  <2>2. q \in Then(Nothing, R) <=>
          \/ q = r /\ q.done
          \/ ~r.done /\ \E s \in R : q = Run(Joined(r.events, s.events), s.done)
    BY <1>3, <1>4
  <2>3. \A s \in R : Run(Joined(r.events, s.events), s.done) = s BY <1>2, <2>1
  <2>. HIDE DEF r
  <2>. QED BY <2>1, <2>2, <2>3
<1>. QED BY <1>5

\* One operand, and two.
LEMMA OperandsAre ==
  ASSUME NEW c \in Nat, NEW i \in Nat, NEW atoms \in Seq(Atom)
  PROVE  /\ Len(atoms) = 1 => OperandRuns(c, i, atoms) = AtomRuns(c, i, atoms[1])
         /\ Len(atoms) = 2 => OperandRuns(c, i, atoms)
                                = Then(AtomRuns(c, i, atoms[1]), AtomRuns(c, i, atoms[2]))
<1>. DEFINE n == Len(atoms)
            A(k) == AtomRuns(c, i, atoms[k])
            T == SUBSET RunSet
            Fold(h) == h = [k \in 0 .. n |-> IF k = 0 THEN Nothing ELSE Then(h[k - 1], A(k))]
            runs == CHOOSE h : Fold(h)
<1>1. n \in Nat /\ \A k \in 1 .. n : atoms[k] \in Atom BY LenProperties, ElementOfSeq
<1>2. \A k \in 1 .. n : A(k) \in T BY <1>1, AtomRunsTyped
<1>3. OperandRuns(c, i, atoms) = runs[n] BY DEF OperandRuns, Nothing
<1>4. Nothing \in T BY TrailsOfEvents, AfterOne DEF Nothing
<1>5. \A R, S \in T : Then(R, S) \in T
  <2>1. {} \in SUBSET Trails OBVIOUS
  <2>. QED BY <2>1, AfterThen
<1>. HIDE DEF n, A, T
<1>6. \E h : Fold(h)
  <2>. DEFINE add == [k \in 1 .. n |-> [R \in T |-> Then(R, A(k))]]
  <2>1. add \in [1 .. n -> [T -> T]] BY <1>2, <1>5
  <2>2. \A k \in 1 .. n, R \in T : add[k][R] = Then(R, A(k)) OBVIOUS
  <2>. HIDE DEF add
  <2>3. PICK none \in T : none = Nothing BY <1>4
  <2>4. PICK h \in [0 .. n -> T] : h[0] = none /\ \A k \in 1 .. n : h[k] = add[k][h[k - 1]]
    <3>1. none \in T /\ n \in Nat BY <1>1
    <3>. QED BY ONLY <2>1, <3>1, FoldExists
  <2>5. \A k \in 0 .. n : h[k] = IF k = 0 THEN Nothing ELSE Then(h[k - 1], A(k))
    <3>. TAKE k \in 0 .. n
    <3>1. k = 0 \/ (k \in 1 .. n /\ k # 0 /\ k - 1 \in 0 .. n) BY <1>1
    <3>. QED BY <2>2, <2>3, <2>4, <3>1
  <2>6. h = [k \in 0 .. n |-> h[k]] BY <2>4
  <2>7. [k \in 0 .. n |-> h[k]] = [k \in 0 .. n |-> IF k = 0 THEN Nothing ELSE Then(h[k - 1], A(k))]
    BY <2>5
  <2>. QED BY <2>6, <2>7
<1>7. runs = [k \in 0 .. n |-> IF k = 0 THEN Nothing ELSE Then(runs[k - 1], A(k))] BY <1>6
<1>. HIDE DEF runs
<1>8. ASSUME n \in {1, 2} PROVE runs[1] = A(1)
  <2>1. 0 \in 0 .. n /\ 1 \in 0 .. n /\ 1 \in 1 .. n /\ 1 # 0 /\ 1 - 1 = 0 BY <1>8
  <2>2. runs[0] = Nothing /\ runs[1] = Then(runs[0], A(1)) BY <1>7, <2>1
  <2>. QED BY <1>2, <2>1, <2>2, ThenAlone DEF T
<1>9. ASSUME n = 2 PROVE runs[2] = Then(A(1), A(2))
  <2>1. 2 \in 0 .. n /\ 2 # 0 /\ 2 - 1 = 1 BY <1>9
  <2>. QED BY <1>7, <1>8, <1>9, <2>1
<1>10. n = Len(atoms) /\ \A k : A(k) = AtomRuns(c, i, atoms[k]) BY DEF n, A
<1>. QED BY <1>3, <1>8, <1>9, <1>10

\* What an expression runs in the source, as far as there is code for it.
SourceRuns(c, i, e) == ExprRuns(c, i, e, Unmapped)

\* The runs of an expression, by what it is.
LEMMA RunsAre ==
  ASSUME NEW c \in Nat, NEW i \in Nat, NEW e \in Expr
  PROVE  /\ e.wrap = "none" => SourceRuns(c, i, e) = AtomRuns(c, i, e.atoms[1])
         /\ e.wrap \in {"arith", "compare"} =>
              SourceRuns(c, i, e) = Then(AtomRuns(c, i, e.atoms[1]), AtomRuns(c, i, e.atoms[2]))
         /\ e.wrap = "ok" =>
              SourceRuns(c, i, e) = Then(AtomRuns(c, i, e.atoms[1]), {Run(<<Mark("ret_ok")>>, TRUE)})
         /\ e.wrap = "err" => SourceRuns(c, i, e) = {Run(<<Mark("ret_err")>>, TRUE)}
         /\ e.wrap \notin {"none", "arith", "compare", "ok", "err"} =>
              SourceRuns(c, i, e) = {Run(<<>>, FALSE)}
<1>. DEFINE os == IF e.wrap \in Unmapped THEN Nothing ELSE OperandRuns(c, i, e.atoms)
            ok == {Run(<<Mark("ret_ok")>>, TRUE)}
            err == {Run(<<Mark("ret_err")>>, TRUE)}
<1>1. SourceRuns(c, i, e) = CASE e.wrap = "ok"  -> Then(os, ok)
                              [] e.wrap = "err" -> Then(os, err)
                              [] OTHER          -> os
  BY DEF SourceRuns, ExprRuns, Nothing
<1>2. /\ e.wrap \in {"none", "ok", "err"} => Len(e.atoms) = 1
      /\ e.wrap \in {"arith", "compare"} => Len(e.atoms) = 2
      /\ e.wrap \in Wraps /\ e.atoms \in Seq(Atom)
  BY SMTT(30) DEF Expr
<1>3. e.wrap \in {"none", "ok"} => os = AtomRuns(c, i, e.atoms[1])
  BY <1>2, OperandsAre DEF Unmapped, UnmappedStmts, UnmappedExprs
<1>4. e.wrap \in {"arith", "compare"} =>
        os = Then(AtomRuns(c, i, e.atoms[1]), AtomRuns(c, i, e.atoms[2]))
  BY <1>2, OperandsAre DEF Unmapped, UnmappedStmts, UnmappedExprs
<1>5. e.wrap \notin {"none", "arith", "compare", "ok"} => os = Nothing
  BY <1>2 DEF Wraps, Unmapped, UnmappedExprs
<1>6. Then(Nothing, err) = err
  <2>1. err \in SUBSET RunSet BY MarkTrails, AfterOne
  <2>. QED BY <2>1, ThenAlone
<1>. HIDE DEF os, ok, err
<1>7. /\ e.wrap = "ok" => SourceRuns(c, i, e) = Then(os, ok)
      /\ e.wrap = "err" => SourceRuns(c, i, e) = Then(os, err)
      /\ e.wrap \notin {"ok", "err"} => SourceRuns(c, i, e) = os
  BY <1>1
<1>. QED BY <1>3, <1>4, <1>5, <1>6, <1>7, ZenonT(40) DEF ok, err, Nothing

\* An expression runs along paths.
LEMMA RunsTyped ==
  ASSUME NEW c \in Nat, NEW i \in Nat
  PROVE  /\ \A a \in Atom : AtomRuns(c, i, a) \in SUBSET RunSet
         /\ \A e \in Expr : SourceRuns(c, i, e) \in SUBSET RunSet
<1>1. \A a \in Atom : AtomRuns(c, i, a) \in SUBSET RunSet BY AtomRunsTyped
<1>2. ASSUME NEW e \in Expr PROVE SourceRuns(c, i, e) \in SUBSET RunSet
  <2>0. \A R, S \in SUBSET RunSet : Then(R, S) \in SUBSET RunSet
    <3>1. {} \in SUBSET Trails OBVIOUS
    <3>. QED BY <3>1, AfterThen
  <2>1. \A k \in DOMAIN e.atoms : e.atoms[k] \in Atom
    <3>1. e.atoms \in Seq(Atom) BY DEF Expr
    <3>. QED BY <3>1, ElementOfSeq, LenProperties
  <2>2. CASE e.wrap = "none"
    <3>1. e.atoms[1] \in Atom BY <2>1, <2>2, ExprAtoms
    <3>2. SourceRuns(c, i, e) = AtomRuns(c, i, e.atoms[1]) BY <2>2, RunsAre
    <3>. QED BY <1>1, <3>1, <3>2
  <2>3. CASE e.wrap \in {"arith", "compare"}
    <3>1. e.atoms[1] \in Atom /\ e.atoms[2] \in Atom BY <2>1, <2>3, ExprAtoms
    <3>2. SourceRuns(c, i, e) = Then(AtomRuns(c, i, e.atoms[1]), AtomRuns(c, i, e.atoms[2]))
      BY <2>3, RunsAre
    <3>. QED BY <1>1, <2>0, <3>1, <3>2
  <2>4. CASE e.wrap = "ok"
    <3>1. e.atoms[1] \in Atom BY <2>1, <2>4, ExprAtoms
    <3>2. SourceRuns(c, i, e) = Then(AtomRuns(c, i, e.atoms[1]), {Run(<<Mark("ret_ok")>>, TRUE)})
      BY <2>4, RunsAre
    <3>3. {Run(<<Mark("ret_ok")>>, TRUE)} \in SUBSET RunSet BY MarkTrails, AfterOne
    <3>. QED BY <1>1, <2>0, <3>1, <3>2, <3>3
  <2>5. CASE e.wrap \notin {"none", "arith", "compare", "ok"}
    <3>1. SourceRuns(c, i, e) \in {{Run(<<Mark("ret_err")>>, TRUE)}, {Run(<<>>, FALSE)}}
      BY <2>5, RunsAre
    <3>2. <<Mark("ret_err")>> \in Trails /\ <<>> \in Trails BY MarkTrails, TrailsOfEvents
    <3>3. Run(<<Mark("ret_err")>>, TRUE) \in RunSet /\ Run(<<>>, FALSE) \in RunSet BY <3>2, AfterOne
    <3>. QED BY <3>1, <3>3
  <2>. QED BY <2>2, <2>3, <2>4, <2>5
<1>. QED BY <1>1, <1>2

-----------------------------------------------------------------------------
(* The paths of a body.                                                     *)

\* What item i of declaration c stores.
StoreRun(c, i, at) == {Run(<<Event("store", prog[c].body[i].name, c, at)>>, FALSE)}

\* The paths from item i on, by what the item is.
LEMMA PathsAre ==
  ASSUME NEW c, NEW i, NEW f
  PROVE  LET body == prog[c].body
             op == body[i].op
             e == SourceRuns(c, i, body[i].expr)
         IN  /\ i = Len(body) + 1 => PathsAt(c, Unmapped, i, f) = {<<Mark("ret_end")>>}
             /\ i # Len(body) + 1 =>
                  /\ op \in {"let", "mut"} =>
                       PathsAt(c, Unmapped, i, f) = After(Then(e, StoreRun(c, i, i)), f[i + 1])
                  /\ op = "assign" =>
                       PathsAt(c, Unmapped, i, f)
                         = After(Then(e, StoreRun(c, i, Resolve(prog[c], body[i].name, i))), f[i + 1])
                  /\ op = "expr" => PathsAt(c, Unmapped, i, f) = After(e, f[i + 1])
                  /\ op = "if" =>
                       PathsAt(c, Unmapped, i, f)
                         = After(e, Behind(<<Mark("then")>>, f[i + 1])
                                      \cup Behind(<<Mark("else")>>, f[OrElseOf(body, i) + 1]))
                  /\ op \in {"else", "for"} => PathsAt(c, Unmapped, i, f) = f[CloseOf(body, i) + 1]
                  /\ op \in {"walrus", "match", "tail", "endif", "endfor"} =>
                       PathsAt(c, Unmapped, i, f) = f[i + 1]
BY DEF PathsAt, Unmapped, UnmappedStmts, UnmappedExprs, SourceRuns, StoreRun, Behind

\* Where the first branch of an if ends.
LEMMA OrElseFound ==
  ASSUME prog \in Programs, NEW c \in DOMAIN prog, NEW i \in DOMAIN prog[c].body,
         prog[c].body[i].op = "if"
  PROVE  LET body == prog[c].body
             close == CloseOf(body, i)
             o == OrElseOf(body, i)
         IN  /\ o \in (i + 1) .. close
             /\ \/ o = close /\ \A k \in i .. close : ~(body[k].op = "else" /\ CloseOf(body, k) = close)
                \/ /\ body[o].op = "else" /\ CloseOf(body, o) = close
                   /\ \A k \in i .. close : body[k].op = "else" /\ CloseOf(body, k) = close => o <= k
<1>. DEFINE body == prog[c].body
            close == CloseOf(body, i)
            marks == {k \in i .. close : body[k].op = "else" /\ CloseOf(body, k) = close}
            least == CHOOSE k \in marks : \A j \in marks : k <= j
<1>1. OrElseOf(body, i) = IF marks = {} THEN close ELSE least BY DEF OrElseOf
<1>2. i \in Nat /\ close \in (i + 1) .. Len(body) /\ i >= 1 /\ close \in Nat
  <2>1. prog \in Seq(Decl) BY ProgramsAssumption DEF ProgramsAssumption
  <2>2. body \in Seq(Item) BY <2>1, BodyItems
  <2>3. i \in 1 .. Len(body) /\ Len(body) \in Nat BY <2>2, LenProperties
  <2>4. close \in (i + 1) .. Len(body) BY CloseFound
  <2>. HIDE DEF close
  <2>. QED BY <2>3, <2>4
<1>3. ASSUME marks # {}
      PROVE  least \in marks /\ \A j \in marks : least <= j
  <2>1. marks \in SUBSET (1 .. close) BY <1>2
  <2>. HIDE DEF marks, close
  <2>. QED BY <1>2, <1>3, <2>1, LeastPosition
<1>. HIDE DEF least, close
<1>4. body[i].op # "else" OBVIOUS
<1>5. CASE marks = {}
  <2>1. OrElseOf(body, i) = close BY <1>1, <1>5
  <2>2. \A k \in i .. close : ~(body[k].op = "else" /\ CloseOf(body, k) = close) BY <1>5
  <2>. QED BY <1>2, <2>1, <2>2 DEF close
<1>6. CASE marks # {}
  <2>1. OrElseOf(body, i) = least BY <1>1, <1>6
  <2>2. /\ least \in i .. close /\ body[least].op = "else" /\ CloseOf(body, least) = close
        /\ \A j \in marks : least <= j
    BY <1>3, <1>6
  <2>3. least \in (i + 1) .. close BY <1>2, <1>4, <2>2
  <2>4. \A k \in i .. close : body[k].op = "else" /\ CloseOf(body, k) = close => least <= k BY <2>2
  <2>. QED BY <2>1, <2>2, <2>3, <2>4 DEF close
<1>. QED BY <1>5, <1>6

\* The items behind item i are all that its paths depend on, and they are paths.
LEMMA PathsOnward ==
  ASSUME prog \in Programs, NEW c \in DOMAIN prog, NEW i \in 1 .. Len(prog[c].body) + 1, NEW f
  PROVE  /\ (\A j \in (i + 1) .. Len(prog[c].body) + 1 : f[j] \in SUBSET Trails)
              => PathsAt(c, Unmapped, i, f) \in SUBSET Trails
         /\ \A g : (\A j \in (i + 1) .. Len(prog[c].body) + 1 : f[j] = g[j])
              => PathsAt(c, Unmapped, i, f) = PathsAt(c, Unmapped, i, g)
<1>. DEFINE body == prog[c].body
            n == Len(body)
            it == body[i]
            e == SourceRuns(c, i, it.expr)
            at == Resolve(prog[c], it.name, i)
            next == i + 1
            close == CloseOf(body, i) + 1
            orelse == OrElseOf(body, i) + 1
            Later == next .. n + 1
            P(h) == PathsAt(c, Unmapped, i, h)
<1>0. prog \in Seq(Decl) BY ProgramsAssumption DEF ProgramsAssumption
<1>1. body \in Seq(Item) /\ n \in Nat /\ DOMAIN body = 1 .. n /\ c \in Nat /\ i \in Nat
  <2>1. c \in Nat BY <1>0, LenProperties
  <2>2. body \in Seq(Item) BY <1>0, BodyItems
  <2>3. n \in Nat /\ DOMAIN body = 1 .. n BY <2>2, LenProperties
  <2>. QED BY <2>1, <2>2, <2>3
<1>2. CASE i = n + 1
  <2>1. \A h : P(h) = {<<Mark("ret_end")>>} BY <1>2, PathsAre
  <2>2. <<Mark("ret_end")>> \in Trails BY MarkTrails
  <2>. QED BY <2>1, <2>2
<1>3. CASE i # n + 1
  <2>1. i \in 1 .. n /\ next \in Later BY <1>1, <1>3
  <2>2. /\ it \in Item /\ it.op \in Ops /\ it.expr \in Expr
        /\ it.op \in {"let", "mut", "assign"} => it.name \in Vars
    <3>1. it \in Item BY <1>1, <2>1, ElementOfSeq
    <3>. HIDE DEF it
    <3>. QED BY <3>1 DEF Item
  <2>3. e \in SUBSET RunSet BY <1>1, <2>2, RunsTyped
  <2>4. it.op \in {"else", "for", "if"} => close \in Later
    <3>1. it.op \in {"else", "for", "if"} => CloseOf(body, i) \in next .. n BY <1>1, <2>1, CloseFound
    <3>. QED BY <1>1, <3>1
  <2>5. it.op = "if" => orelse \in Later
    <3>1. it.op = "if" => OrElseOf(body, i) \in next .. CloseOf(body, i) BY <1>1, <2>1, OrElseFound
    <3>2. it.op = "if" => CloseOf(body, i) \in next .. n BY <1>1, <2>1, CloseFound
    <3>. DEFINE cl == CloseOf(body, i)
                o == OrElseOf(body, i)
    <3>. HIDE DEF cl, o, it
    <3>. QED BY <1>1, <3>1, <3>2 DEF cl, o
  <2>6. \A h : /\ it.op \in {"let", "mut"} => P(h) = After(Then(e, StoreRun(c, i, i)), h[next])
               /\ it.op = "assign" => P(h) = After(Then(e, StoreRun(c, i, at)), h[next])
               /\ it.op = "expr" => P(h) = After(e, h[next])
               /\ it.op = "if" => P(h) = After(e, Behind(<<Mark("then")>>, h[next])
                                                   \cup Behind(<<Mark("else")>>, h[orelse]))
               /\ it.op \in {"else", "for"} => P(h) = h[close]
               /\ it.op \in {"walrus", "match", "tail", "endif", "endfor"} => P(h) = h[next]
    BY <1>3, PathsAre, ZenonT(40)
  <2>7. it.op \in {"let", "mut"} => StoreRun(c, i, i) \in SUBSET RunSet
    <3>1. "store" \in EventOps /\ i \in Places BY <1>1 DEF EventOps, Places
    <3>2. it.op \in {"let", "mut"} => <<Event("store", it.name, c, i)>> \in Trails
      BY <1>1, <2>2, <3>1, OneTrail
    <3>. QED BY <3>2, AfterOne DEF StoreRun
  <2>8. it.op = "assign" => StoreRun(c, i, at) \in SUBSET RunSet
    <3>1. "store" \in EventOps /\ at \in Places BY <1>1, PlaceOf DEF EventOps
    <3>2. it.op = "assign" => <<Event("store", it.name, c, at)>> \in Trails
      BY <1>1, <2>2, <3>1, OneTrail
    <3>. QED BY <3>2, AfterOne DEF StoreRun
  <2>. HIDE DEF e, at, next, close, orelse, P, Later, it
  <2>9. ASSUME \A j \in Later : f[j] \in SUBSET Trails PROVE P(f) \in SUBSET Trails
    <3>1. f[next] \in SUBSET Trails BY <2>1, <2>9
    <3>2. CASE it.op \in {"let", "mut"}
      <4>1. Then(e, StoreRun(c, i, i)) \in SUBSET RunSet BY <2>3, <2>7, <3>1, <3>2, AfterThen
      <4>2. After(Then(e, StoreRun(c, i, i)), f[next]) \in SUBSET Trails BY <3>1, <4>1, AfterThen
      <4>. QED BY <2>6, <3>2, <4>2
    <3>3. CASE it.op = "assign"
      <4>1. Then(e, StoreRun(c, i, at)) \in SUBSET RunSet BY <2>3, <2>8, <3>1, <3>3, AfterThen
      <4>2. After(Then(e, StoreRun(c, i, at)), f[next]) \in SUBSET Trails BY <3>1, <4>1, AfterThen
      <4>. QED BY <2>6, <3>3, <4>2
    <3>4. CASE it.op = "expr"
      <4>1. After(e, f[next]) \in SUBSET Trails BY <2>3, <3>1, AfterThen
      <4>. QED BY <2>6, <3>4, <4>1
    <3>5. CASE it.op = "if"
      <4>1. f[orelse] \in SUBSET Trails BY <2>5, <2>9, <3>5
      <4>2. <<Mark("then")>> \in Trails /\ <<Mark("else")>> \in Trails BY MarkTrails
      <4>3. Behind(<<Mark("then")>>, f[next]) \in SUBSET Trails BY <3>1, <4>2, BehindPaths
      <4>4. Behind(<<Mark("else")>>, f[orelse]) \in SUBSET Trails BY <4>1, <4>2, BehindPaths
      <4>. DEFINE K == Behind(<<Mark("then")>>, f[next]) \cup Behind(<<Mark("else")>>, f[orelse])
      <4>5. K \in SUBSET Trails BY <4>3, <4>4
      <4>6. P(f) = After(e, K) BY <2>6, <3>5
      <4>. HIDE DEF K
      <4>. QED BY <2>3, <4>5, <4>6, AfterThen
    <3>6. CASE it.op \in {"else", "for"} BY <2>4, <2>6, <2>9, <3>6
    <3>7. CASE it.op \in {"walrus", "match", "tail", "endif", "endfor"} BY <2>6, <3>1, <3>7
    <3>. QED BY <2>2, <3>2, <3>3, <3>4, <3>5, <3>6, <3>7 DEF Ops
  <2>10. ASSUME NEW g, \A j \in Later : f[j] = g[j] PROVE P(f) = P(g)
    <3>1. f[next] = g[next] BY <2>1, <2>10
    <3>2. it.op \in {"else", "for"} => f[close] = g[close] BY <2>4, <2>10
    <3>3. it.op = "if" => f[orelse] = g[orelse] BY <2>5, <2>10
    <3>. QED BY <2>2, <2>6, <3>1, <3>2, <3>3 DEF Ops
  <2>. QED BY <2>9, <2>10 DEF P, Later, next
<1>. QED BY <1>2, <1>3

\* The recursive definition has a solution.
LEMMA SourceExists ==
  ASSUME prog \in Programs, NEW c \in DOMAIN prog
  PROVE  LET n == Len(prog[c].body) + 1
         IN  \E F \in [1 .. n -> SUBSET Trails] :
               /\ SourcePaths(c, Unmapped) = F[1]
               /\ \A i \in 1 .. n : F[i] = PathsAt(c, Unmapped, i, F)
<1>. DEFINE n == Len(prog[c].body) + 1
            D == SUBSET Trails
            W == [1 .. n -> D]
            e(f, i) == PathsAt(c, Unmapped, i, f)
            phi == [f \in W |-> [i \in 1 .. n |-> e(f, i)]]
            r == [i \in 1 .. n |-> i]
            from == CHOOSE f : f = [i \in 1 .. n |-> e(f, i)]
<1>1. n \in Nat /\ 1 \in 1 .. n
  <2>1. prog \in Seq(Decl) BY ProgramsAssumption DEF ProgramsAssumption
  <2>2. prog[c].body \in Seq(Item) BY <2>1, BodyItems
  <2>. QED BY <2>2, LenProperties
<1>2. \A i \in 1 .. n : \A f : (\A j \in (i + 1) .. n : f[j] \in D) => e(f, i) \in D
  BY PathsOnward
<1>3. \A i \in 1 .. n : \A f, g : (\A j \in (i + 1) .. n : f[j] = g[j]) => e(f, i) = e(g, i)
  BY PathsOnward
<1>4. SourcePaths(c, Unmapped) = from[1] BY DEF SourcePaths
<1>. HIDE DEF e, n, D
<1>5. phi \in [W -> W]
  <2>. SUFFICES ASSUME NEW f \in W, NEW i \in 1 .. n PROVE e(f, i) \in D OBVIOUS
  <2>1. \A j \in (i + 1) .. n : f[j] \in D BY <1>1
  <2>. QED BY <1>2, <2>1
<1>6. \A f, g \in W : \A i \in 1 .. n :
        (\A j \in 1 .. n : r[i] < r[j] => f[j] = g[j]) => phi[f][i] = phi[g][i]
  <2>. SUFFICES ASSUME NEW f \in W, NEW g \in W, NEW i \in 1 .. n,
                       \A j \in 1 .. n : r[i] < r[j] => f[j] = g[j]
                PROVE  phi[f][i] = phi[g][i]
    OBVIOUS
  <2>1. \A j \in (i + 1) .. n : j \in 1 .. n /\ r[i] < r[j] BY <1>1
  <2>2. e(f, i) = e(g, i) BY <1>3, <2>1
  <2>. QED BY <2>2
<1>7. \E f \in W : phi[f] = f
  <2>1. W = [1 .. n -> D] /\ r \in [1 .. n -> Nat] /\ D # {} BY DEF D
  <2>. HIDE DEF phi, W, r
  <2>2. LooksAhead(n, D, W, phi, r) BY <1>1, <1>5, <1>6, <2>1 DEF LooksAhead
  <2>. QED BY ONLY <2>2, RecursionExists
<1>8. \E f : f = [i \in 1 .. n |-> e(f, i)] BY <1>7
<1>9. from = [i \in 1 .. n |-> e(from, i)] BY <1>8
<1>. HIDE DEF from
<1>10. \A i \in 1 .. n : from[i] = e(from, i)
  <2>. DEFINE g(i) == e(from, i)
  <2>1. from = [i \in 1 .. n |-> g(i)] BY <1>9
  <2>. HIDE DEF g
  <2>2. \A i \in 1 .. n : from[i] = g(i) BY <2>1
  <2>. QED BY <2>2 DEF g
<1>11. \A i \in 1 .. n : from[i] \in D
  <2>. DEFINE Wrong == {i \in 1 .. n : from[i] \notin D}
  <2>. SUFFICES ASSUME Wrong # {} PROVE FALSE OBVIOUS
  <2>1. PICK i \in Wrong : \A j \in Wrong : r[j] <= r[i]
    <3>1. Wrong \in SUBSET (1 .. n) /\ r \in [1 .. n -> Nat] OBVIOUS
    <3>. HIDE DEF Wrong, r
    <3>. QED BY <1>1, <3>1, GreatestRank
  <2>2. \A j \in (i + 1) .. n : j \in 1 .. n /\ ~(r[j] <= r[i]) BY <1>1
  <2>3. \A j \in (i + 1) .. n : from[j] \in D BY <2>1, <2>2
  <2>. QED BY <1>2, <1>10, <2>1, <2>3
<1>12. from \in [1 .. n -> D]
  <2>. DEFINE g(i) == e(from, i)
  <2>1. from = [i \in 1 .. n |-> g(i)] BY <1>9
  <2>. HIDE DEF g
  <2>. QED BY <1>11, <2>1
<1>. QED BY <1>4, <1>10, <1>12 DEF n, D, e

-----------------------------------------------------------------------------
(* What instructions add to the paths of a function under construction.     *)

\* An instruction that no verified function has: ill-typed, or on the slot of
\* another function.
Spoils(w) == w.op = "bad" \/ (w.op \in {"load", "store"} /\ w.slot.decl # gcur)
\* The function has such an instruction, or an unknown name was reported.
Spoilt(g) ==
  \/ g.unknown # {}
  \/ \E b \in DOMAIN g.blocks : \E k \in DOMAIN g.blocks[b].code : Spoils(g.blocks[b].code[k])
\* The events of the current block.
Said(g) == EventsOf(g.blocks[g.cur])

\* From g to h the current block gets events s, unless the function is spoilt.
Says(g, h, s) ==
  /\ h.cur = g.cur /\ DOMAIN h.blocks = DOMAIN g.blocks
  /\ \A b \in DOMAIN g.blocks : b # g.cur => h.blocks[b] = g.blocks[b]
  /\ Spoilt(g) => Spoilt(h)
  /\ ~Spoilt(h) => Said(h) = Joined(Said(g), s)

\* The current block is one of known instructions, and its events are a path.
LEMMA SaidTyped ==
  ASSUME NEW S \in SUBSET Instrs, NEW g, Building(g, S)
  PROVE  /\ g.blocks[g.cur].code \in Seq(S) /\ g.blocks[g.cur].code \in Seq(Instrs)
         /\ Said(g) \in Trails
<1>1. <<>> \in Seq(S) OBVIOUS
<1>2. g.blocks[g.cur].code \in Seq(S) BY <1>1, CodeReplaced
<1>3. g.blocks[g.cur].code \in Seq(Instrs) BY <1>2, SeqMonotonic
<1>. QED BY <1>2, <1>3, EventsAre DEF Said

\* What is said after something else.
LEMMA SaysAgain ==
  ASSUME NEW S \in SUBSET Instrs, NEW g, Building(g, S), NEW h, NEW i,
         NEW s \in Trails, NEW t \in Trails, Says(g, h, s), Says(h, i, t)
  PROVE  Says(g, i, Joined(s, t))
<1>1. Said(g) \in Trails BY SaidTyped
<1>2. Joined(Joined(Said(g), s), t) = Joined(Said(g), Joined(s, t))
  BY ONLY <1>1, s \in Trails, t \in Trails, JoinedPaths, Zenon
<1>. QED BY <1>2 DEF Says

\* The same where nothing is said first, or then.
LEMMA SaysNothing ==
  ASSUME NEW S \in SUBSET Instrs, NEW g, Building(g, S), NEW h, NEW i, NEW s \in Trails
  PROVE  /\ Says(g, h, <<>>) /\ Says(h, i, s) => Says(g, i, s)
         /\ Says(g, h, s) /\ Says(h, i, <<>>) => Says(g, i, s)
<1>1. <<>> \in Trails BY TrailsOfEvents
<1>2. Joined(<<>>, s) = s /\ Joined(s, <<>>) = s BY JoinedPaths
<1>3. Says(g, h, <<>>) /\ Says(h, i, s) => Says(g, i, Joined(<<>>, s)) BY <1>1, SaysAgain
<1>4. Says(g, h, s) /\ Says(h, i, <<>>) => Says(g, i, Joined(s, <<>>)) BY <1>1, SaysAgain
<1>. QED BY <1>2, <1>3, <1>4

\* Code is added to the current block.
LEMMA SaysCode ==
  ASSUME NEW S \in SUBSET Instrs, NEW g, Building(g, S), NEW c \in Seq(S), NEW h,
         h.cur = g.cur, g.unknown \subseteq h.unknown,
         h.blocks = [g.blocks EXCEPT ![g.cur] =
                       [g.blocks[g.cur] EXCEPT !.code = g.blocks[g.cur].code \o c]]
  PROVE  /\ Says(g, h, EventsOf([code |-> c]))
         /\ \A k \in DOMAIN c : Spoils(c[k]) => Spoilt(h)
<1>. DEFINE s == g.blocks[g.cur].code
            u == s \o c
            b == [g.blocks[g.cur] EXCEPT !.code = u]
            q == [code |-> c]
<1>1. g.cur \in DOMAIN g.blocks /\ s \in Seq(S) /\ s \in Seq(Instrs)
  BY SaidTyped DEF Building
<1>2. b.code = u
  <2>1. g.blocks[g.cur] \in BlockOf(S) BY CodeReplaced
  <2>. QED BY <2>1 DEF BlockOf
<1>3. q.code = c /\ c \in Seq(Instrs) BY SeqMonotonic
<1>4. h.blocks = [g.blocks EXCEPT ![g.cur] = b] OBVIOUS
<1>. HIDE DEF b, q
<1>5. DOMAIN h.blocks = DOMAIN g.blocks /\ h.blocks[g.cur] = b
      /\ \A j \in DOMAIN g.blocks : j # g.cur => h.blocks[j] = g.blocks[j]
  BY <1>1, <1>4
<1>6. /\ \A k \in DOMAIN s : k \in DOMAIN u /\ u[k] = s[k]
      /\ \A k \in DOMAIN c : \E j \in DOMAIN u : u[j] = c[k]
  <2>. DEFINE m == Len(s)
              n == Len(c)
  <2>. HIDE DEF s
  <2>1. /\ m \in Nat /\ n \in Nat /\ DOMAIN s = 1 .. m /\ DOMAIN c = 1 .. n /\ DOMAIN u = 1 .. m + n
        /\ \A k \in 1 .. m + n : u[k] = IF k <= m THEN s[k] ELSE c[k - m]
    <3>1. /\ u \in Seq(S) /\ Len(u) = m + n
          /\ \A k \in 1 .. m + n : u[k] = IF k <= m THEN s[k] ELSE c[k - m]
      BY <1>1, ConcatProperties
    <3>. HIDE DEF u
    <3>. QED BY <1>1, <3>1, LenProperties
  <2>. HIDE DEF u, m, n
  <2>2. \A k \in 1 .. m : k \in 1 .. m + n /\ u[k] = s[k] BY <2>1
  <2>3. ASSUME NEW k \in 1 .. n PROVE m + k \in 1 .. m + n /\ u[m + k] = c[k]
    <3>1. m + k \in 1 .. m + n /\ ~(m + k <= m) /\ (m + k) - m = k BY <2>1
    <3>. QED BY <2>1, <3>1
  <2>. QED BY <2>1, <2>2, <2>3 DEF u
<1>. DEFINE p == g.blocks[g.cur]
<1>7. EventsOf(b) = Joined(EventsOf(p), EventsOf(q))
  <2>1. p.code \in Seq(Instrs) BY <1>1
  <2>2. b.code = Joined(p.code, q.code) BY <1>2, <1>3, SMTT(30) DEF Joined
  <2>. HIDE DEF p
  <2>. QED BY <1>3, <2>1, <2>2, EventsJoined
<1>. HIDE DEF u, s
<1>8. Spoilt(g) => Spoilt(h)
  <2>. SUFFICES ASSUME NEW j \in DOMAIN g.blocks, NEW k \in DOMAIN g.blocks[j].code,
                       Spoils(g.blocks[j].code[k])
                PROVE  Spoilt(h)
    BY DEF Spoilt
  <2>1. k \in DOMAIN h.blocks[j].code /\ h.blocks[j].code[k] = g.blocks[j].code[k]
    BY <1>2, <1>5, <1>6 DEF s
  <2>. QED BY <1>5, <2>1 DEF Spoilt
<1>9. ASSUME NEW k \in DOMAIN c, Spoils(c[k]) PROVE Spoilt(h)
  <2>1. PICK j \in DOMAIN u : u[j] = c[k] BY <1>6
  <2>2. Spoils(h.blocks[g.cur].code[j]) /\ j \in DOMAIN h.blocks[g.cur].code
    BY <1>2, <1>5, <1>9, <2>1
  <2>. QED BY <1>1, <1>5, <2>2 DEF Spoilt
<1>. QED BY <1>5, <1>7, <1>8, <1>9 DEF Says, Said, q

\* An instruction is added, or the mark of ill-typed code; or only the value
\* changes.
LEMMA SaysEmit ==
  ASSUME NEW S \in SUBSET Instrs, NEW g, Building(g, S)
  PROVE  /\ \A op, name, slot : Instr(op, name, slot) \in S =>
              /\ Says(g, Emit(g, op, name, slot), EventIn(Instr(op, name, slot)))
              /\ Spoils(Instr(op, name, slot)) => Spoilt(Emit(g, op, name, slot))
         /\ Instr("bad", NoName, NoSlot) \in S => \A wrong : Says(g, BadIf(g, wrong), <<>>)
         /\ \A ty : Says(g, Value(g, ty), <<>>) /\ Spoilt(Value(g, ty)) = Spoilt(g)
<1>0. Said(g) \in Trails /\ g.blocks[g.cur].code \in Seq(S) BY SaidTyped
<1>1. ASSUME NEW op, NEW name, NEW slot, Instr(op, name, slot) \in S
      PROVE  /\ Says(g, Emit(g, op, name, slot), EventIn(Instr(op, name, slot)))
             /\ Spoils(Instr(op, name, slot)) => Spoilt(Emit(g, op, name, slot))
  <2>. DEFINE w == Instr(op, name, slot)
              c == <<w>>
              s == g.blocks[g.cur].code
              h == Emit(g, op, name, slot)
              none == [code |-> <<>>]
              q == [code |-> c]
  <2>1. Append(s, w) = s \o c
    <3>. HIDE DEF s, w
    <3>. QED BY <1>0, <1>1, AppendIsConcat DEF s, w
  <2>2. /\ h.cur = g.cur /\ h.unknown = g.unknown
        /\ h.blocks = [g.blocks EXCEPT ![g.cur] = [g.blocks[g.cur] EXCEPT !.code = Append(s, w)]]
    <3>. HIDE DEF w
    <3>. QED BY DEF Emit, Building, FnOf, w
  <2>3. h.blocks = [g.blocks EXCEPT ![g.cur] = [g.blocks[g.cur] EXCEPT !.code = s \o c]]
    BY <2>1, <2>2
  <2>4. c \in Seq(S) /\ 1 \in DOMAIN c /\ c[1] = w BY <1>1
  <2>5. EventsOf(q) = EventIn(w)
    <3>1. w \in Instrs BY <1>1
    <3>2. none.code = <<>> /\ <<>> \in Seq(Instrs) /\ Append(<<>>, w) = <<w>> /\ q.code = c OBVIOUS
    <3>. HIDE DEF none, q, w
    <3>3. none.code \in Seq(Instrs) /\ q.code = Append(none.code, w) BY <3>2
    <3>4. EventsOf(q) = Joined(EventsOf(none), EventIn(w)) BY <3>1, <3>3, EventsAre
    <3>5. EventsOf(none) = <<>> BY <3>2, EventsAre
    <3>6. EventIn(w) \in Trails BY <3>1, EventInTyped
    <3>7. Joined(<<>>, EventIn(w)) = EventIn(w) BY ONLY <3>6, JoinedPaths, Zenon
    <3>. QED BY <3>4, <3>5, <3>7
  <2>. HIDE DEF c, h
  <2>6. Says(g, h, EventsOf([code |-> c])) /\ \A k \in DOMAIN c : Spoils(c[k]) => Spoilt(h)
    <3>1. h.cur = g.cur /\ g.unknown \subseteq h.unknown BY <2>2
    <3>. QED BY <2>3, <2>4, <3>1, SaysCode
  <2>. QED BY <2>4, <2>5, <2>6 DEF h
<1>2. ASSUME NEW h, h.blocks = g.blocks, h.cur = g.cur, h.unknown = g.unknown
      PROVE  Says(g, h, <<>>) /\ Spoilt(h) = Spoilt(g)
  <2>1. Joined(Said(g), <<>>) = Said(g) BY <1>0, JoinedPaths
  <2>2. Spoilt(h) = Spoilt(g) BY <1>2 DEF Spoilt
  <2>. QED BY <1>2, <2>1, <2>2 DEF Says, Said
<1>3. ASSUME NEW ty PROVE Says(g, Value(g, ty), <<>>) /\ Spoilt(Value(g, ty)) = Spoilt(g)
  <2>1. Value(g, ty).blocks = g.blocks /\ Value(g, ty).cur = g.cur
        /\ Value(g, ty).unknown = g.unknown
    BY DEF Value, Building, FnOf
  <2>. QED BY <1>2, <2>1
<1>4. ASSUME Instr("bad", NoName, NoSlot) \in S, NEW wrong PROVE Says(g, BadIf(g, wrong), <<>>)
  <2>1. Spoils(Instr("bad", NoName, NoSlot)) BY DEF Spoils, Instr
  <2>2. Spoilt(Bad(g)) /\ Says(g, Bad(g), EventIn(Instr("bad", NoName, NoSlot)))
    BY <1>1, <1>4, <2>1 DEF Bad
  <2>3. Says(g, Bad(g), <<>>) BY <2>2 DEF Says
  <2>4. Says(g, g, <<>>) BY <1>2
  <2>. QED BY <2>3, <2>4 DEF BadIf
<1>. QED BY <1>1, <1>3, <1>4

-----------------------------------------------------------------------------
(* What an atom of an expression says.                                      *)

\* values_ has for each name the definition in scope, or none of this function.
ValuesMatch ==
  \A x \in Vars :
    IF Definitions(gdecl, x, gpc) = {} THEN values[x].decl # gcur
    ELSE values[x].decl = gcur /\ values[x].at = Resolve(gdecl, x, gpc)

\* What is said of a spoilt function is of no account; nor is an unknown name.
LEMMA SaysSpoilt ==
  /\ \A g, h, s, t : Says(g, h, s) /\ Spoilt(h) => Says(g, h, t)
  /\ \A S \in SUBSET Instrs : \A g, n, s : Building(g, S) => Says(g, Unknown(g, n), s) /\ Spoilt(Unknown(g, n))
<1>1. \A g, h, s, t : Says(g, h, s) /\ Spoilt(h) => Says(g, h, t) BY DEF Says
<1>2. ASSUME NEW S \in SUBSET Instrs, NEW g, NEW n, NEW s, Building(g, S)
      PROVE  Says(g, Unknown(g, n), s) /\ Spoilt(Unknown(g, n))
  <2>1. /\ Unknown(g, n).blocks = g.blocks /\ Unknown(g, n).cur = g.cur
        /\ n \in Unknown(g, n).unknown
    BY <1>2 DEF Unknown, Poison, Value, Building, FnOf
  <2>2. Spoilt(Unknown(g, n)) BY <2>1 DEF Spoilt
  <2>. QED BY <2>1, <2>2 DEF Says
<1>. QED BY <1>1, <1>2

\* A variable is read.
LEMMA SaysIdent ==
  ASSUME NEW S \in SUBSET Instrs, Readable(S), ValuesMatch, gcur \in Nat, gpc \in Nat,
         NEW g, Building(g, S)
  PROVE  /\ \A x \in Vars : Says(g, GenIdent(g, x), Reads(gcur, gpc, x))
         /\ \A leaf \in Leaf : Says(g, GenLeaf(g, leaf), ReadIn(gcur, gpc, leaf))
<1>1. ASSUME NEW x \in Vars PROVE Says(g, GenIdent(g, x), Reads(gcur, gpc, x))
  <2>1. CASE values[x] = NoSlot
    <3>1. GenIdent(g, x) = Unknown(g, x) BY <2>1 DEF GenIdent
    <3>. QED BY <3>1, SaysSpoilt
  <2>2. CASE values[x] # NoSlot
    <3>. DEFINE w == Instr("load", x, values[x])
                e == Emit(g, "load", x, values[x])
                v == Value(e, values[x].type)
    <3>1. w \in S BY <2>2 DEF Readable
    <3>2. GenIdent(g, x) = v BY <2>2 DEF GenIdent
    <3>3. Says(g, e, EventIn(w)) /\ (Spoils(w) => Spoilt(e)) BY <3>1, SaysEmit
    <3>4. Building(e, S) BY <3>1, EmitTyped
    <3>. HIDE DEF e
    <3>5. Says(g, e, Reads(gcur, gpc, x))
      <4>1. CASE Definitions(gdecl, x, gpc) = {}
        <5>1. values[x].decl # gcur BY <4>1 DEF ValuesMatch
        <5>2. Spoils(w) BY <5>1 DEF Spoils, Instr
        <5>. QED BY <3>3, <5>2, SaysSpoilt
      <4>2. CASE Definitions(gdecl, x, gpc) # {}
        <5>1. values[x].decl = gcur /\ values[x].at = Resolve(gdecl, x, gpc)
          BY <4>2 DEF ValuesMatch
        <5>2. EventIn(w) = <<Event("load", x, gcur, Resolve(gdecl, x, gpc))>>
          BY <5>1 DEF EventIn, EventOf, Instr
        <5>3. EventIn(w) = Reads(gcur, gpc, x) BY <5>2 DEF Reads, gdecl
        <5>. QED BY <3>3, <5>3
      <4>. QED BY <4>1, <4>2
    <3>6. Says(e, v, <<>>) BY <3>4, SaysEmit
    <3>7. Reads(gcur, gpc, x) \in Trails BY ReadsTyped
    <3>. HIDE DEF v
    <3>8. Says(g, v, Reads(gcur, gpc, x)) BY <3>5, <3>6, <3>7, SaysNothing
    <3>. QED BY <3>2, <3>8
  <2>. QED BY <2>1, <2>2
<1>2. ASSUME NEW leaf \in Leaf PROVE Says(g, GenLeaf(g, leaf), ReadIn(gcur, gpc, leaf))
  <2>1. CASE leaf.kind = "lit"
    <3>1. GenLeaf(g, leaf) = Value(g, LlvmOf(leaf.val)) BY <2>1 DEF GenLeaf, GenLiteral
    <3>2. ReadIn(gcur, gpc, leaf) = <<>> BY <2>1 DEF ReadIn
    <3>. QED BY <3>1, <3>2, SaysEmit
  <2>2. CASE leaf.kind # "lit"
    <3>1. leaf.kind = "ident" /\ leaf.val \in Vars BY <2>2 DEF Leaf
    <3>. QED BY <1>1, <3>1 DEF GenLeaf, ReadIn
  <2>. QED BY <2>1, <2>2
<1>. QED BY <1>1, <1>2

\* An argument is generated into a function of its own.
LEMMA PassedSays ==
  ASSUME NEW S \in SUBSET Instrs, Readable(S), ValuesMatch, gcur \in Nat, gpc \in Nat,
         NEW f, NEW arg \in Leaf, NEW k
  PROVE  LET p == Passed(f, arg, k)
         IN  /\ p.blocks[1].code \in Seq(S)
             /\ \/ p.unknown # {}
                \/ \E j \in DOMAIN p.blocks[1].code : Spoils(p.blocks[1].code[j])
                \/ EventsOf(p.blocks[1]) = ReadIn(gcur, gpc, arg)
<1>. DEFINE v == GenLeaf(NewFunction, arg)
            p == Passed(f, arg, k)
            r == ReadIn(gcur, gpc, arg)
<1>1. Building(NewFunction, S) /\ NewFunction.cur = 1 BY NewTyped
<1>2. Says(NewFunction, v, r) BY <1>1, SaysIdent
<1>3. Building(v, S) BY <1>1, LeafTyped DEF Valued
<1>4. r \in Trails BY ReadsTyped
<1>5. Instr("bad", NoName, NoSlot) \in S BY DEF Readable
<1>6. \E wrong : p = BadIf(v, wrong) BY DEF Passed, Pass
<1>. HIDE DEF v, p, r
<1>7. PICK wrong : p = BadIf(v, wrong) BY <1>6
<1>8. Says(v, p, <<>>) /\ Building(p, S) BY <1>3, <1>5, <1>7, SaysEmit, BadTyped
<1>9. Says(NewFunction, p, r) BY <1>1, <1>2, <1>4, <1>8, SaysNothing
<1>10. DOMAIN NewFunction.blocks = {1} /\ NewFunction.blocks[1].code = <<>>
       /\ NewFunction.unknown = {}
  BY DEF NewFunction, NewBlock
<1>11. p.cur = 1 /\ DOMAIN p.blocks = {1} BY <1>1, <1>9, <1>10 DEF Says
<1>12. p.blocks[1].code \in Seq(S) BY <1>8, <1>11, SaidTyped
<1>13. ASSUME ~Spoilt(p) PROVE EventsOf(p.blocks[1]) = r
  <2>1. Said(NewFunction) = <<>> BY <1>1, <1>10, EventsAre DEF Said
  <2>2. Said(p) = Joined(<<>>, r) BY <1>9, <1>13, <2>1 DEF Says
  <2>3. Joined(<<>>, r) = r BY ONLY <1>4, JoinedPaths, Zenon
  <2>. QED BY <1>11, <2>2, <2>3 DEF Said
<1>14. Spoilt(p) => \/ p.unknown # {}
                    \/ \E j \in DOMAIN p.blocks[1].code : Spoils(p.blocks[1].code[j])
  BY <1>11 DEF Spoilt
<1>. QED BY <1>12, <1>13, <1>14 DEF p, r

\* The code of the first k arguments.
CodeSteps(upTo, f, args, S) ==
  /\ \A k \in 0 .. Len(args) : upTo[k] \in Seq(S)
  /\ upTo[0] = <<>>
  /\ \A k \in 1 .. Len(args) : upTo[k] = Joined(upTo[k - 1], Passed(f, args[k], k).blocks[1].code)

\* The code of the arguments is that of each, one behind the other.
LEMMA ArgumentSteps ==
  ASSUME NEW S, NEW f, NEW args \in Seq(Leaf),
         \A k \in DOMAIN args : Passed(f, args[k], k).blocks[1].code \in Seq(S)
  PROVE  \E h : CodeSteps(h, f, args, S) /\ ArgumentCode(f, args) = h[Len(args)]
<1>. DEFINE n == Len(args)
            T == Seq(S)
            some(k) == Passed(f, args[k], k).blocks[1].code
            Fold(h) == h = [k \in 0 .. n |-> IF k = 0 THEN <<>> ELSE Joined(h[k - 1], some(k))]
<1>0. \A p, q \in T : Joined(p, q) \in T
  <2>. SUFFICES ASSUME NEW p \in T, NEW q \in T PROVE Joined(p, q) \in T OBVIOUS
  <2>1. p \o q \in T BY ConcatProperties
  <2>. QED BY <2>1 DEF Joined
<1>1. n \in Nat /\ DOMAIN args = 1 .. n BY LenProperties
<1>2. ArgumentCode(f, args) = (CHOOSE h : Fold(h))[n] BY DEF ArgumentCode, Joined
<1>3. \A k \in 1 .. n : some(k) \in T BY <1>1
<1>9. <<>> \in T OBVIOUS
<1>. HIDE DEF some, n, T
<1>4. \E h : h \in [0 .. n -> T] /\ Fold(h)
  <2>. DEFINE add == [k \in 1 .. n |-> [p \in T |-> Joined(p, some(k))]]
  <2>1. add \in [1 .. n -> [T -> T]] BY <1>0, <1>3
  <2>2. PICK base \in T : base = <<>> BY <1>9
  <2>3. \A k \in 1 .. n, p \in T : add[k][p] = Joined(p, some(k)) OBVIOUS
  <2>. HIDE DEF add
  <2>4. PICK h \in [0 .. n -> T] : h[0] = base /\ \A k \in 1 .. n : h[k] = add[k][h[k - 1]]
    <3>1. base \in T OBVIOUS
    <3>2. add \in [1 .. n -> [T -> T]] /\ n \in Nat BY <1>1, <2>1
    <3>. QED BY ONLY <3>1, <3>2, FoldExists
  <2>5. \A k \in 0 .. n : h[k] = IF k = 0 THEN <<>> ELSE Joined(h[k - 1], some(k))
    <3>. TAKE k \in 0 .. n
    <3>1. k = 0 \/ (k \in 1 .. n /\ k # 0 /\ k - 1 \in 0 .. n) BY <1>1
    <3>. QED BY <2>2, <2>3, <2>4, <3>1
  <2>6. h = [k \in 0 .. n |-> h[k]] BY <2>4
  <2>7. [k \in 0 .. n |-> h[k]] = [k \in 0 .. n |-> IF k = 0 THEN <<>> ELSE Joined(h[k - 1], some(k))]
    BY <2>5
  <2>. QED BY <2>4, <2>6, <2>7
<1>. DEFINE upTo == CHOOSE h : Fold(h)
<1>5. upTo = [k \in 0 .. n |-> IF k = 0 THEN <<>> ELSE Joined(upTo[k - 1], some(k))]
  BY <1>4
<1>. HIDE DEF upTo
<1>6. upTo[0] = <<>> /\ \A k \in 1 .. n : upTo[k] = Joined(upTo[k - 1], some(k))
  <2>1. 0 \in 0 .. n /\ \A k \in 1 .. n : k \in 0 .. n /\ k # 0 BY <1>1
  <2>. QED BY <1>5, <2>1
<1>7. \A k \in 0 .. n : upTo[k] \in T
  <2>. DEFINE P == {k \in 0 .. n : upTo[k] \in T}
  <2>1. 0 \in P
    <3>1. 0 \in 0 .. n BY <1>1
    <3>. QED BY <1>6, <1>9, <3>1
  <2>2. ASSUME NEW k \in 0 .. (n - 1), k \in P PROVE k + 1 \in P
    <3>1. k + 1 \in 1 .. n /\ k + 1 \in 0 .. n /\ (k + 1) - 1 = k BY <1>1
    <3>2. upTo[k + 1] = Joined(upTo[k], some(k + 1)) BY <1>6, <3>1
    <3>. QED BY <1>0, <1>3, <2>2, <3>1, <3>2
  <2>. HIDE DEF P
  <2>3. \A k \in 0 .. n : k \in P BY <1>1, <2>1, <2>2, UpTo
  <2>. QED BY <2>3 DEF P
<1>8. CodeSteps(upTo, f, args, S) BY <1>6, <1>7 DEF CodeSteps, some, n, T
<1>. QED BY <1>2, <1>8 DEF n, upTo

\* The code of the arguments reads what they are, or is spoilt.
LEMMA ArgumentsRead ==
  ASSUME NEW S \in SUBSET Instrs, Readable(S), ValuesMatch, gcur \in Nat, gpc \in Nat,
         NEW f, NEW args \in Seq(Leaf), NEW h, ReadSteps(h, gcur, gpc, args)
  PROVE  \/ \E k \in DOMAIN args : Passed(f, args[k], k).unknown # {}
         \/ \E j \in DOMAIN ArgumentCode(f, args) : Spoils(ArgumentCode(f, args)[j])
         \/ EventsOf([code |-> ArgumentCode(f, args)]) = h[Len(args)]
<1>. DEFINE n == Len(args)
            p(k) == Passed(f, args[k], k)
            code(k) == p(k).blocks[1].code
            block(c) == [code |-> c]
            tainted(c) == \E j \in DOMAIN c : Spoils(c[j])
<1>1. n \in Nat /\ DOMAIN args = 1 .. n /\ \A k \in 1 .. n : args[k] \in Leaf
  BY LenProperties, ElementOfSeq
<1>2. \A k \in 1 .. n : /\ code(k) \in Seq(S)
                        /\ p(k).unknown # {} \/ tainted(code(k))
                             \/ EventsOf(p(k).blocks[1]) = ReadIn(gcur, gpc, args[k])
  BY <1>1, PassedSays
<1>3. PICK upTo : CodeSteps(upTo, f, args, S) /\ ArgumentCode(f, args) = upTo[n]
  BY <1>1, <1>2, ArgumentSteps
<1>4. /\ \A k \in 0 .. n : upTo[k] \in Seq(S)
      /\ upTo[0] = <<>> /\ \A k \in 1 .. n : upTo[k] = Joined(upTo[k - 1], code(k))
  BY <1>3 DEF CodeSteps
<1>5. /\ h[0] = <<>> /\ \A k \in 1 .. n : h[k] = Joined(h[k - 1], ReadIn(gcur, gpc, args[k]))
  BY DEF ReadSteps
<1>6. \A k \in 1 .. n : EventsOf(block(code(k))) = EventsOf(p(k).blocks[1])
  <2>. TAKE k \in 1 .. n
  <2>1. block(code(k)).code = code(k) OBVIOUS
  <2>. HIDE DEF block, p
  <2>. QED BY <2>1, EventsAre
<1>7. \A c : block(c).code = c OBVIOUS
<1>8. \A c, d \in Seq(S) : /\ tainted(c) \/ tainted(d) => tainted(Joined(c, d))
                           /\ EventsOf(block(Joined(c, d))) = Joined(EventsOf(block(c)), EventsOf(block(d)))
  <2>. TAKE c \in Seq(S), d \in Seq(S)
  <2>1. c \in Seq(Instrs) /\ d \in Seq(Instrs) BY SeqMonotonic
  <2>2. EventsOf(block(Joined(c, d))) = Joined(EventsOf(block(c)), EventsOf(block(d)))
    <3>. HIDE DEF block
    <3>. QED BY <1>7, <2>1, EventsJoined
  <2>3. /\ \A j \in DOMAIN c : j \in DOMAIN (c \o d) /\ (c \o d)[j] = c[j]
        /\ \A j \in DOMAIN d : Len(c) + j \in DOMAIN (c \o d) /\ (c \o d)[Len(c) + j] = d[j]
    <3>. DEFINE u == c \o d
                m == Len(c)
                l == Len(d)
    <3>1. /\ u \in Seq(S) /\ Len(u) = m + l
          /\ \A k \in 1 .. m + l : u[k] = IF k <= m THEN c[k] ELSE d[k - m]
      BY ConcatProperties
    <3>. HIDE DEF u
    <3>2. DOMAIN u = 1 .. m + l /\ DOMAIN c = 1 .. m /\ DOMAIN d = 1 .. l /\ m \in Nat /\ l \in Nat
      BY <3>1, LenProperties
    <3>. HIDE DEF m, l
    <3>3. \A j \in 1 .. m : j \in 1 .. m + l /\ u[j] = c[j] BY <3>1, <3>2
    <3>4. ASSUME NEW j \in 1 .. l PROVE m + j \in 1 .. m + l /\ u[m + j] = d[j]
      <4>1. m + j \in 1 .. m + l /\ ~(m + j <= m) /\ (m + j) - m = j BY <3>2
      <4>. QED BY <3>1, <4>1
    <3>. QED BY <3>2, <3>3, <3>4 DEF u, m
  <2>4. tainted(c) \/ tainted(d) => tainted(c \o d) BY <2>3
  <2>. QED BY <2>2, <2>4 DEF Joined
<1>. HIDE DEF tainted, block, p, code
<1>. DEFINE good(k) == \/ \E j \in 1 .. n : p(j).unknown # {}
                       \/ tainted(upTo[k])
                       \/ EventsOf(block(upTo[k])) = h[k]
            P == {k \in 0 .. n : good(k)}
<1>9. 0 \in P
  <2>1. 0 \in 0 .. n BY <1>1
  <2>2. EventsOf(block(upTo[0])) = <<>> BY <1>4, <1>7, EventsAre
  <2>. QED BY <1>5, <2>1, <2>2
<1>10. ASSUME NEW k \in 0 .. (n - 1), k \in P PROVE k + 1 \in P
  <2>1. k + 1 \in 1 .. n /\ k + 1 \in 0 .. n /\ (k + 1) - 1 = k /\ k \in 0 .. n BY <1>1
  <2>2. upTo[k + 1] = Joined(upTo[k], code(k + 1)) /\ upTo[k] \in Seq(S) BY <1>4, <2>1
  <2>3. code(k + 1) \in Seq(S) BY <1>2, <2>1
  <2>4. h[k + 1] = Joined(h[k], ReadIn(gcur, gpc, args[k + 1])) BY <1>5, <2>1
  <2>5. good(k) BY <1>10
  <2>6. p(k + 1).unknown # {} \/ tainted(code(k + 1))
          \/ EventsOf(block(code(k + 1))) = ReadIn(gcur, gpc, args[k + 1])
    BY <1>2, <1>6, <2>1
  <2>7. good(k + 1) BY <1>8, <2>1, <2>2, <2>3, <2>4, <2>5, <2>6
  <2>. QED BY <2>1, <2>7
<1>11. \A k \in 0 .. n : k \in P
  <2>. HIDE DEF P, n
  <2>. QED BY <1>1, <1>9, <1>10, UpTo
<1>12. good(n) BY <1>1, <1>11
<1>. QED BY <1>1, <1>3, <1>12 DEF tainted, block, p

-----------------------------------------------------------------------------
(* A call, and an atom.                                                     *)

\* The event of a call.
LEMMA CallEvent ==
  ASSUME NEW f \in FnNames
  PROVE  /\ EventIn(Instr("call", f, Here)) = <<Event("call", f, 0, 0)>>
         /\ <<Event("call", f, 0, 0)>> \in Trails
<1>1. EventIn(Instr("call", f, Here)) = <<Event("call", f, 0, 0)>>
  BY DEF EventIn, EventOf, Instr
<1>2. "call" \in EventOps /\ 0 \in Nat /\ 0 \in Places BY DEF EventOps, Places
<1>. QED BY <1>1, <1>2, OneTrail

\* A call reads its arguments, then it is made.
LEMMA SaysCall ==
  ASSUME NEW S \in SUBSET Instrs, Readable(S), ValuesMatch, gcur \in Nat, gpc \in Nat,
         NEW g, Sound(g, S), NEW f \in FnNames, NEW args \in Seq(Leaf), Instr("call", f, Here) \in S,
         NEW h, ReadSteps(h, gcur, gpc, args)
  PROVE  Says(g, GenCall(g, f, args), Joined(h[Len(args)], <<Event("call", f, 0, 0)>>))
<1>0. Instr("bad", NoName, NoSlot) \in S BY DEF Readable
<1>1. Building(g, S) BY DEF Sound
<1>2. CASE ~HasFunction(f) BY <1>1, <1>2, SaysSpoilt DEF GenCall
<1>3. CASE HasFunction(f)
  <2>. DEFINE a == ArgumentCode(f, args)
              s == g.blocks[g.cur].code
              c == s \o a
              u == g.unknown \cup UNION {Passed(f, args[k], k).unknown : k \in DOMAIN args}
              done == [g EXCEPT !.blocks[g.cur].code = @ \o a,
                                !.unknown = @ \cup UNION {Passed(f, args[k], k).unknown : k \in DOMAIN args}]
              wrong == Len(args) # Len(Signature(f).params)
              called == BadIf(done, wrong)
              e == Emit(called, "call", f, Here)
              v == Value(e, Signature(f).ret)
              r == h[Len(args)]
  <2>1. GenCall(g, f, args) = v BY <1>3 DEF GenCall
  <2>2. a \in Seq(S) /\ \A k \in DOMAIN args : Passed(f, args[k], k).unknown \subseteq Vars \cup FnNames
    BY ArgumentsTyped
  <2>3. /\ done.blocks = [g.blocks EXCEPT ![g.cur] = [g.blocks[g.cur] EXCEPT !.code = s \o a]]
        /\ done.cur = g.cur /\ done.unknown = u
    <3>. HIDE DEF a
    <3>. QED BY <1>1 DEF Building, FnOf
  <2>4. s \in Seq(S) BY <1>1, SaidTyped
  <2>5. c \in Seq(S)
    <3>. HIDE DEF a, s
    <3>. QED BY <2>2, <2>4, ConcatProperties
  <2>6. Building(done, S)
    <3>. DEFINE coded == [g EXCEPT !.blocks[g.cur].code = c]
    <3>. HIDE DEF a
    <3>1. Building(coded, S) BY <1>1, <2>5, CodeReplaced
    <3>2. done = [coded EXCEPT !.unknown = u] BY <1>1 DEF Building, FnOf
    <3>3. u \subseteq Vars \cup FnNames
      <4>1. g.unknown \subseteq Vars \cup FnNames BY <1>1 DEF Building, FnOf
      <4>. QED BY <2>2, <4>1
    <3>. HIDE DEF coded, u, done
    <3>. QED BY <3>1, <3>2, <3>3 DEF Building, FnOf
  <2>7. \/ u # {}
        \/ \E j \in DOMAIN a : Spoils(a[j])
        \/ EventsOf([code |-> a]) = r
    <3>1. \/ \E k \in DOMAIN args : Passed(f, args[k], k).unknown # {}
          \/ \E j \in DOMAIN a : Spoils(a[j])
          \/ EventsOf([code |-> a]) = r
      BY ArgumentsRead
    <3>. DEFINE p(k) == Passed(f, args[k], k).unknown
    <3>2. u = g.unknown \cup UNION {p(k) : k \in DOMAIN args} OBVIOUS
    <3>. HIDE DEF p, u
    <3>3. ASSUME NEW k \in DOMAIN args, p(k) # {} PROVE u # {}
      <4>1. PICK n : n \in p(k) BY <3>3
      <4>2. n \in UNION {p(j) : j \in DOMAIN args} BY <4>1
      <4>. QED BY <3>2, <4>2
    <3>4. ASSUME NEW k \in DOMAIN args, Passed(f, args[k], k).unknown # {} PROVE u # {}
      BY <3>3, <3>4 DEF p
    <3>. HIDE DEF a
    <3>. QED BY <3>1, <3>4
  <2>8. Says(g, done, EventsOf([code |-> a])) /\ \A k \in DOMAIN a : Spoils(a[k]) => Spoilt(done)
    <3>1. g.unknown \subseteq done.unknown BY <2>3
    <3>. HIDE DEF a, done
    <3>. QED BY <1>1, <2>2, <2>3, <3>1, SaysCode DEF s
  <2>9. u # {} => Spoilt(done)
    <3>. HIDE DEF done, u
    <3>. QED BY <2>3 DEF Spoilt
  <2>. HIDE DEF a, u
  <2>10. Says(g, done, r)
    <3>. HIDE DEF done, r
    <3>. QED BY <2>7, <2>8, <2>9, SaysSpoilt
  <2>11. r \in Trails
    <3>1. Len(args) \in Nat BY LenProperties
    <3>2. Len(args) \in 0 .. Len(args) BY <3>1
    <3>. QED BY <3>2 DEF ReadSteps
  <2>. HIDE DEF done, wrong, r
  <2>12. Says(done, called, <<>>) /\ Building(called, S) BY <1>0, <2>6, SaysEmit, BadTyped
  <2>. HIDE DEF called
  <2>13. Says(g, called, r) BY <1>1, <2>10, <2>11, <2>12, SaysNothing
  <2>14. Says(called, e, <<Event("call", f, 0, 0)>>) /\ Building(e, S)
    BY <2>12, SaysEmit, EmitTyped, CallEvent
  <2>. HIDE DEF e
  <2>15. Says(e, v, <<>>) BY <2>14, SaysEmit
  <2>. HIDE DEF v
  <2>16. <<Event("call", f, 0, 0)>> \in Trails BY CallEvent
  <2>17. Says(called, v, <<Event("call", f, 0, 0)>>) BY <2>12, <2>14, <2>15, <2>16, SaysNothing
  <2>18. Says(g, v, Joined(r, <<Event("call", f, 0, 0)>>))
    BY <1>1, <2>11, <2>13, <2>16, <2>17, SaysAgain
  <2>. QED BY <2>1, <2>18 DEF r
<1>. QED BY <1>2, <1>3

\* An atom but for its propagation.
Unpropagated(g, a) ==
  CASE a.kind = "lit"   -> GenLiteral(g, a.val)
    [] a.kind = "ident" -> GenIdent(g, a.val)
    [] OTHER            -> GenCall(g, a.val, a.args)
\* It says what the atom reads and calls.
LEMMA SaysAtom ==
  ASSUME NEW S \in SUBSET Instrs, Readable(S), ValuesMatch, gcur \in Nat, gpc \in Nat,
         NEW g, Sound(g, S), NEW a \in Atom, a.kind = "call" => Instr("call", a.val, Here) \in S,
         NEW base, IsBase(base, gcur, gpc, a)
  PROVE  Says(g, Unpropagated(g, a), base) /\ Sound(Unpropagated(g, a), S)
<1>1. \/ a.kind = "lit"
      \/ a.kind = "ident" /\ a.val \in Vars
      \/ a.kind = "call" /\ a.val \in FnNames /\ a.args \in Seq(Leaf)
  BY DEF Atom
<1>2. Building(g, S) BY DEF Sound
<1>3. CASE a.kind = "lit"
  <2>1. base = <<>> BY <1>3 DEF IsBase
  <2>2. Unpropagated(g, a) = Value(g, LlvmOf(a.val)) BY <1>3 DEF Unpropagated, GenLiteral
  <2>3. Sound(Unpropagated(g, a), S)
    BY <1>3, LeafContinues, LeafTyped DEF Sound, Valued, Unpropagated
  <2>. QED BY <1>2, <2>1, <2>2, <2>3, SaysEmit
<1>4. CASE a.kind = "ident" /\ a.val \in Vars
  <2>1. base = Reads(gcur, gpc, a.val) BY <1>4 DEF IsBase
  <2>2. Unpropagated(g, a) = GenIdent(g, a.val) BY <1>4 DEF Unpropagated
  <2>3. Sound(Unpropagated(g, a), S)
    BY <1>4, LeafContinues, LeafTyped DEF Sound, Valued, Unpropagated
  <2>. QED BY <1>2, <1>4, <2>1, <2>2, <2>3, SaysIdent
<1>5. CASE a.kind = "call" /\ a.val \in FnNames /\ a.args \in Seq(Leaf)
  <2>1. PICK h : ReadSteps(h, gcur, gpc, a.args)
                 /\ base = Joined(h[Len(a.args)], <<Event("call", a.val, 0, 0)>>)
    BY <1>5 DEF IsBase
  <2>2. Unpropagated(g, a) = GenCall(g, a.val, a.args) BY <1>5 DEF Unpropagated
  <2>3. Sound(GenCall(g, a.val, a.args), S) BY <1>5, CallContinues
  <2>. QED BY <1>5, <2>1, <2>2, <2>3, SaysCall
<1>. QED BY <1>1, <1>3, <1>4, <1>5

-----------------------------------------------------------------------------
(* What is generated leads to what is run.                                  *)

\* P gives each block that has ended its paths.
Solves(blocks, P) ==
  /\ P \in [Nat -> SUBSET Trails]
  /\ \A b \in DOMAIN blocks : blocks[b].term # "none" => P[b] = PathsFrom(blocks, P, b)

\* From g to h blocks are added and the current one is filled: whatever paths K
\* go on from the end of h, those from the end of g are runs R, then K.
Leads(g, h, R) ==
  /\ DOMAIN g.blocks \subseteq DOMAIN h.blocks
  /\ h.cur = g.cur \/ h.cur \notin DOMAIN g.blocks
  /\ \A b \in DOMAIN g.blocks : b # g.cur => h.blocks[b] = g.blocks[b]
  /\ Spoilt(g) => Spoilt(h)
  /\ ~Spoilt(h) =>
       \A P : \A K \in SUBSET Trails :
         Solves(h.blocks, P) /\ P[h.cur] = Behind(Said(h), K)
           => P[g.cur] = Behind(Said(g), After(R, K))

\* Code leads to its events.
LEMMA SaysLeads ==
  ASSUME NEW S \in SUBSET Instrs, NEW g, Building(g, S), NEW h, NEW s \in Trails, Says(g, h, s)
  PROVE  Leads(g, h, {Run(s, FALSE)})
<1>1. Said(g) \in Trails BY SaidTyped
<1>2. ASSUME ~Spoilt(h), NEW P, NEW K \in SUBSET Trails, P[h.cur] = Behind(Said(h), K)
      PROVE  P[g.cur] = Behind(Said(g), After({Run(s, FALSE)}, K))
  <2>1. Said(h) = Joined(Said(g), s) /\ h.cur = g.cur BY <1>2 DEF Says
  <2>2. After({Run(s, FALSE)}, K) = Behind(s, K) BY AfterOne
  <2>3. Behind(Joined(Said(g), s), K) = Behind(Said(g), Behind(s, K)) BY <1>1, BehindPaths
  <2>. QED BY <1>2, <2>1, <2>2, <2>3
<1>. QED BY <1>2 DEF Leads, Says

\* The paths of a block depend on that block alone, and those of its successors.
LEMMA SolvesBefore ==
  ASSUME NEW g, NEW h, Live(g), DOMAIN g.blocks \subseteq DOMAIN h.blocks,
         \A b \in DOMAIN g.blocks : b # g.cur => h.blocks[b] = g.blocks[b],
         NEW P, Solves(h.blocks, P)
  PROVE  Solves(g.blocks, P)
<1>. SUFFICES ASSUME NEW b \in DOMAIN g.blocks, g.blocks[b].term # "none"
              PROVE  P[b] = PathsFrom(g.blocks, P, b)
  BY DEF Solves
<1>1. b # g.cur BY DEF Live, Open
<1>2. h.blocks[b] = g.blocks[b] /\ b \in DOMAIN h.blocks BY <1>1
<1>3. P[b] = PathsFrom(h.blocks, P, b) BY <1>2 DEF Solves
<1>4. PathsFrom(h.blocks, P, b) = PathsFrom(g.blocks, P, b)
  <2>. DEFINE E(x) == EventsOf(x)
              all(x) == IF x.succ = <<>> THEN {Append(E(x), Mark(x.term))}
                        ELSE UNION {{E(x) \o ArmOf(x.term, k) \o p : p \in P[x.succ[k]]} :
                                      k \in DOMAIN x.succ}
  <2>1. PathsFrom(h.blocks, P, b) = all(h.blocks[b]) /\ PathsFrom(g.blocks, P, b) = all(g.blocks[b])
    BY DEF PathsFrom
  <2>. HIDE DEF all
  <2>. QED BY <1>2, <2>1
<1>. QED BY <1>3, <1>4

\* One thing after another.
LEMMA LeadsOn ==
  ASSUME NEW g, NEW h, NEW i, NEW R \in SUBSET RunSet, NEW Q \in SUBSET RunSet,
         Leads(g, h, R), Leads(h, i, Q), Live(h), g.cur \in DOMAIN g.blocks
  PROVE  Leads(g, i, Then(R, Q))
<1>1. /\ DOMAIN g.blocks \subseteq DOMAIN h.blocks /\ DOMAIN h.blocks \subseteq DOMAIN i.blocks
      /\ h.cur = g.cur \/ h.cur \notin DOMAIN g.blocks
      /\ i.cur = h.cur \/ i.cur \notin DOMAIN h.blocks
      /\ \A b \in DOMAIN g.blocks : b # g.cur => h.blocks[b] = g.blocks[b]
      /\ \A b \in DOMAIN h.blocks : b # h.cur => i.blocks[b] = h.blocks[b]
      /\ Spoilt(g) => Spoilt(h)
      /\ Spoilt(h) => Spoilt(i)
  BY DEF Leads
<1>2. \A b \in DOMAIN g.blocks : b # g.cur => i.blocks[b] = g.blocks[b] BY <1>1
<1>3. i.cur = g.cur \/ i.cur \notin DOMAIN g.blocks BY <1>1
<1>4. ASSUME ~Spoilt(i), NEW P, NEW K \in SUBSET Trails, Solves(i.blocks, P),
             P[i.cur] = Behind(Said(i), K)
      PROVE  P[g.cur] = Behind(Said(g), After(Then(R, Q), K))
  <2>1. P[h.cur] = Behind(Said(h), After(Q, K)) BY <1>4 DEF Leads
  <2>2. Solves(h.blocks, P) BY <1>1, <1>4, SolvesBefore
  <2>3. After(Q, K) \in SUBSET Trails BY AfterThen
  <2>4. P[g.cur] = Behind(Said(g), After(R, After(Q, K))) BY <1>1, <1>4, <2>1, <2>2, <2>3 DEF Leads
  <2>5. After(Then(R, Q), K) = After(R, After(Q, K)) BY AfterThen
  <2>. QED BY <2>4, <2>5
<1>. QED BY <1>1, <1>2, <1>3, <1>4 DEF Leads

\* The paths from a block that ended, by its successors.
Shaped(blocks, P, b) ==
  LET E == EventsOf(blocks[b])
      t == blocks[b].term
  IN  /\ blocks[b].succ = <<>> => PathsFrom(blocks, P, b) = Behind(E, {<<Mark(t)>>})
      /\ t = "br" => \A a \in Nat : blocks[b].succ = <<a>> => PathsFrom(blocks, P, b) = Behind(E, P[a])
      /\ t \in {"if", "prop"} => \A a, c \in Nat : blocks[b].succ = <<a, c>> =>
           PathsFrom(blocks, P, b)
             = Behind(E, Behind(ArmOf(t, 1), P[a]) \cup Behind(ArmOf(t, 2), P[c]))

\* That is what they are.
LEMMA PathsShape ==
  ASSUME NEW blocks, NEW P \in [Nat -> SUBSET Trails], NEW b, EventsOf(blocks[b]) \in Trails,
         blocks[b].term \in Terms
  PROVE  Shaped(blocks, P, b)
<1>. DEFINE E == EventsOf(blocks[b])
            t == blocks[b].term
            s == blocks[b].succ
<1>1. /\ s = <<>> => PathsFrom(blocks, P, b) = {Append(E, Mark(t))}
      /\ s # <<>> => \A q : q \in PathsFrom(blocks, P, b) <=>
           \E k \in DOMAIN s : \E p \in P[s[k]] : q = E \o ArmOf(t, k) \o p
  <2>1. s = <<>> => PathsFrom(blocks, P, b) = {Append(E, Mark(t))} BY DEF PathsFrom
  <2>2. ASSUME s # <<>>, NEW q
        PROVE  q \in PathsFrom(blocks, P, b) <=>
                 \E k \in DOMAIN s : \E p \in P[s[k]] : q = E \o ArmOf(t, k) \o p
    <3>1. q \in PathsFrom(blocks, P, b) <=> GoesOn(blocks, P, b, q) BY PathsFromOne
    <3>. QED BY <2>2, <3>1, Zenon DEF GoesOn
  <2>. QED BY <2>1, <2>2
<1>2. E \in Trails OBVIOUS
<1>3. ArmOf(t, 1) \in Trails /\ ArmOf(t, 2) \in Trails /\ (t = "br" => ArmOf(t, 1) = <<>>)
  BY MarkTrails, TrailsOfEvents DEF ArmOf
<1>4. t \in EventOps BY DEF EventOps
<1>. HIDE DEF E, t, s
<1>5. ASSUME s = <<>> PROVE PathsFrom(blocks, P, b) = Behind(E, {<<Mark(t)>>})
  <2>1. Append(E, Mark(t)) = Joined(E, <<Mark(t)>>)
    BY <1>2, <1>4, TrailsOfEvents, AppendIsConcat DEF Joined, Trails
  <2>2. \A q : q \in Behind(E, {<<Mark(t)>>}) <=> q = Joined(E, <<Mark(t)>>) BY BehindHas
  <2>3. Behind(E, {<<Mark(t)>>}) = {Joined(E, <<Mark(t)>>)} BY <2>2
  <2>. QED BY <1>1, <1>5, <2>1, <2>3
<1>6. ASSUME NEW k \in {1, 2}, NEW a \in Nat, NEW p \in P[a]
      PROVE  E \o ArmOf(t, k) \o p = Joined(E, Joined(ArmOf(t, k), p))
  <2>1. p \in Trails OBVIOUS
  <2>2. ArmOf(t, k) \in Trails BY <1>3
  <2>3. E \o ArmOf(t, k) \o p = Joined(Joined(E, ArmOf(t, k)), p) BY DEF Joined
  <2>. QED BY ONLY <1>2, <2>1, <2>2, <2>3, JoinedPaths, Zenon
<1>7. ASSUME t = "br", NEW a \in Nat, s = <<a>> PROVE PathsFrom(blocks, P, b) = Behind(E, P[a])
  <2>1. DOMAIN s = {1} /\ s[1] = a /\ s # <<>> BY <1>7
  <2>2. ASSUME NEW p \in P[a] PROVE E \o ArmOf(t, 1) \o p = Joined(E, p)
    <3>1. p \in Trails OBVIOUS
    <3>2. E \o ArmOf(t, 1) \o p = Joined(E, Joined(ArmOf(t, 1), p)) BY <1>6
    <3>. QED BY <1>3, <1>7, <3>1, <3>2, JoinedPaths
  <2>3. \A q : q \in PathsFrom(blocks, P, b) <=> \E p \in P[a] : q = E \o ArmOf(t, 1) \o p
    BY <1>1, <2>1
  <2>4. \A q : q \in PathsFrom(blocks, P, b) <=> q \in Behind(E, P[a])
    <3>1. \A q : q \in Behind(E, P[a]) <=> \E p \in P[a] : q = Joined(E, p) BY BehindHas
    <3>. DEFINE L(p) == E \o ArmOf(t, 1) \o p
    <3>2. \A p \in P[a] : L(p) = Joined(E, p) BY <2>2
    <3>3. \A q : q \in PathsFrom(blocks, P, b) <=> \E p \in P[a] : q = L(p) BY <2>3
    <3>. HIDE DEF L
    <3>. QED BY <3>1, <3>2, <3>3
  <2>. QED BY <2>4
<1>8. ASSUME NEW a \in Nat, NEW c \in Nat, s = <<a, c>>
      PROVE  PathsFrom(blocks, P, b)
               = Behind(E, Behind(ArmOf(t, 1), P[a]) \cup Behind(ArmOf(t, 2), P[c]))
  <2>. DEFINE B == Behind(ArmOf(t, 1), P[a])
              C == Behind(ArmOf(t, 2), P[c])
  <2>1. DOMAIN s = {1, 2} /\ s[1] = a /\ s[2] = c /\ s # <<>> BY <1>8
  <2>2. \A q : q \in PathsFrom(blocks, P, b) <=>
          \/ \E p \in P[a] : q = Joined(E, Joined(ArmOf(t, 1), p))
          \/ \E p \in P[c] : q = Joined(E, Joined(ArmOf(t, 2), p))
    <3>1. \A q : q \in PathsFrom(blocks, P, b) <=>
            \/ \E p \in P[a] : q = E \o ArmOf(t, 1) \o p
            \/ \E p \in P[c] : q = E \o ArmOf(t, 2) \o p
      BY <1>1, <2>1
    <3>2. /\ \A p \in P[a] : E \o ArmOf(t, 1) \o p = Joined(E, Joined(ArmOf(t, 1), p))
          /\ \A p \in P[c] : E \o ArmOf(t, 2) \o p = Joined(E, Joined(ArmOf(t, 2), p))
      BY <1>6
    <3>. DEFINE L(p) == E \o ArmOf(t, 1) \o p
                M(p) == E \o ArmOf(t, 2) \o p
    <3>3. /\ \A q : q \in PathsFrom(blocks, P, b) <=> \/ \E p \in P[a] : q = L(p)
                                                     \/ \E p \in P[c] : q = M(p)
          /\ \A p \in P[a] : L(p) = Joined(E, Joined(ArmOf(t, 1), p))
          /\ \A p \in P[c] : M(p) = Joined(E, Joined(ArmOf(t, 2), p))
      BY <3>1, <3>2
    <3>. HIDE DEF L, M
    <3>. QED BY <3>3
  <2>3. \A p : p \in B \cup C <=> \/ \E k \in P[a] : p = Joined(ArmOf(t, 1), k)
                                  \/ \E k \in P[c] : p = Joined(ArmOf(t, 2), k)
    BY BehindHas
  <2>. HIDE DEF B, C
  <2>4. \A q : q \in Behind(E, B \cup C) <=> \E p \in B \cup C : q = Joined(E, p) BY BehindHas
  <2>5. \A q : q \in PathsFrom(blocks, P, b) <=> q \in Behind(E, B \cup C)
    BY <2>2, <2>3, <2>4
  <2>6. PathsFrom(blocks, P, b) = Behind(E, B \cup C) BY <2>5
  <2>. QED BY <2>6 DEF B, C
<1>. QED BY <1>5, <1>7, <1>8 DEF Shaped, E, t, s

\* From g to h the current block ended, and the blocks new follow, the k-th being
\* current.
EndsAs(g, h, term, succ, new, k) ==
  LET n == Len(g.blocks)
  IN  /\ n \in Nat /\ g.cur \in DOMAIN h.blocks
      /\ DOMAIN g.blocks \subseteq DOMAIN h.blocks /\ h.cur \notin DOMAIN g.blocks
      /\ h.cur = n + k /\ h.unknown = g.unknown
      /\ \A b \in DOMAIN g.blocks : b # g.cur => h.blocks[b] = g.blocks[b]
      /\ \A i \in DOMAIN new : n + i \in DOMAIN h.blocks /\ h.blocks[n + i] = new[i]
      /\ h.blocks[g.cur].term = term /\ h.blocks[g.cur].succ = succ
      /\ EventsOf(h.blocks[g.cur]) = Said(g) /\ Said(h) = <<>>
      /\ Spoilt(h) <=> Spoilt(g)

\* Its events stay.
LEMMA EndSays ==
  ASSUME NEW S, NEW g, Building(g, S), NEW term, NEW type, NEW succ, NEW new, NEW k,
         Follows(g, term, succ, new, k), \A i \in DOMAIN new : new[i].code = <<>>
  PROVE  EndsAs(g, Fresh(End(g, term, type, succ), new, Len(g.blocks) + k), term, succ, new, k)
<1>. DEFINE n == Len(g.blocks)
            l == Len(new)
            h == Fresh(End(g, term, type, succ), new, n + k)
            b == [g.blocks[g.cur] EXCEPT !.term = term, !.type = type, !.succ = succ]
<1>1. EndsIn(g, term, succ, new, k, h, b, n, l) BY EndedBlocks
<1>2. h.unknown = g.unknown BY DEF Fresh, End, Building, FnOf
<1>3. g.cur \in DOMAIN g.blocks /\ k \in DOMAIN new BY DEF Building, Follows
<1>. HIDE DEF n, l, h, b
<1>4. /\ n \in Nat /\ l \in Nat /\ DOMAIN g.blocks = 1 .. n /\ DOMAIN new = 1 .. l
      /\ b.term = term /\ b.succ = succ /\ b.code = g.blocks[g.cur].code
      /\ h.cur = n + k /\ DOMAIN h.blocks = 1 .. n + l
      /\ \A j \in 1 .. n : h.blocks[j] = IF j = g.cur THEN b ELSE g.blocks[j]
      /\ \A j \in 1 .. l : h.blocks[n + j] = new[j]
      /\ \A j \in DOMAIN h.blocks : j \in 1 .. n \/ \E i \in 1 .. l : j = n + i
  BY <1>1 DEF EndsIn
<1>5. EventsOf(h.blocks[g.cur]) = Said(g)
  <2>1. h.blocks[g.cur].code = g.blocks[g.cur].code BY <1>3, <1>4
  <2>. QED BY <2>1, EventsAre DEF Said
<1>6. Said(h) = <<>>
  <2>1. h.blocks[h.cur].code = <<>> BY <1>3, <1>4
  <2>. QED BY <2>1, EventsAre DEF Said
<1>7. \A j \in DOMAIN g.blocks : j \in DOMAIN h.blocks /\ h.blocks[j].code = g.blocks[j].code
  <2>. SUFFICES ASSUME NEW j \in DOMAIN g.blocks
                PROVE  j \in DOMAIN h.blocks /\ h.blocks[j].code = g.blocks[j].code
    OBVIOUS
  <2>1. j \in 1 .. n /\ j \in DOMAIN h.blocks BY <1>4
  <2>2. h.blocks[j] = IF j = g.cur THEN b ELSE g.blocks[j] BY <1>4, <2>1
  <2>. QED BY <1>4, <2>1, <2>2
<1>8. \A j \in DOMAIN h.blocks : j \in DOMAIN g.blocks \/ h.blocks[j].code = <<>>
  <2>. SUFFICES ASSUME NEW j \in DOMAIN h.blocks, j \notin DOMAIN g.blocks PROVE h.blocks[j].code = <<>>
    OBVIOUS
  <2>1. PICK i \in 1 .. l : j = n + i BY <1>4
  <2>2. h.blocks[j] = new[i] /\ i \in DOMAIN new BY <1>4, <2>1
  <2>. QED BY <2>2
<1>9. Spoilt(h) <=> Spoilt(g)
  <2>1. \A c : c = <<>> => ~\E j \in DOMAIN c : Spoils(c[j]) OBVIOUS
  <2>2. ASSUME NEW j \in DOMAIN h.blocks, NEW i \in DOMAIN h.blocks[j].code, Spoils(h.blocks[j].code[i])
        PROVE  Spoilt(g)
    <3>1. j \in DOMAIN g.blocks BY <1>8, <2>1, <2>2
    <3>2. h.blocks[j].code = g.blocks[j].code BY <1>7, <3>1
    <3>. QED BY <2>2, <3>1, <3>2 DEF Spoilt
  <2>3. ASSUME NEW j \in DOMAIN g.blocks, NEW i \in DOMAIN g.blocks[j].code, Spoils(g.blocks[j].code[i])
        PROVE  Spoilt(h)
    <3>1. h.blocks[j].code = g.blocks[j].code /\ j \in DOMAIN h.blocks BY <1>7
    <3>. QED BY <2>3, <3>1 DEF Spoilt
  <2>. QED BY <1>2, <2>2, <2>3 DEF Spoilt
<1>10. /\ \A i \in DOMAIN new : n + i \in DOMAIN h.blocks /\ h.blocks[n + i] = new[i]
       /\ h.blocks[g.cur].term = term /\ h.blocks[g.cur].succ = succ
       /\ h.cur \notin DOMAIN g.blocks
  BY <1>3, <1>4
<1>11. /\ n \in Nat /\ g.cur \in DOMAIN h.blocks
       /\ DOMAIN g.blocks \subseteq DOMAIN h.blocks
       /\ \A j \in DOMAIN g.blocks : j # g.cur => h.blocks[j] = g.blocks[j]
  BY <1>3, <1>4
<1>12. EndsAs(g, h, term, succ, new, k)
  BY <1>2, <1>4, <1>5, <1>6, <1>9, <1>10, <1>11 DEF EndsAs, n
<1>. QED BY <1>12 DEF h, n

\* A return: the paths end there.
LEMMA DeadLeads ==
  ASSUME NEW S \in SUBSET Instrs, NEW g, Sound(g, S), NEW term \in {"ret_ok", "ret_err"}, NEW type
  PROVE  Leads(g, Dead(End(g, term, type, <<>>)), {Run(<<Mark(term)>>, TRUE)})
<1>. DEFINE new == <<NewBlock>>
            e == End(g, term, type, <<>>)
            n == Len(g.blocks)
            h0 == Fresh(e, new, n + 1)
            h == Dead(e)
<1>1. /\ IsBlock(NewBlock) /\ NewBlock.succ = <<>> /\ NewBlock.term = "none" /\ NewBlock.code = <<>>
  BY DEF NewBlock, IsBlock
<1>2. IsList(new) /\ DOMAIN new = {1} /\ Len(new) = 1 /\ new[1] = NewBlock
  <2>1. IsList(new) BY Lists
  <2>. QED BY <2>1
<1>3. h.blocks = h0.blocks /\ h.cur = h0.cur /\ h.unknown = h0.unknown
  <2>1. Len(e.blocks) = n
    <3>. DEFINE b == [g.blocks[g.cur] EXCEPT !.term = term, !.type = type, !.succ = <<>>]
    <3>1. e.blocks = [g.blocks EXCEPT ![g.cur] = b] BY DEF End, Sound, Live
    <3>. HIDE DEF b, e
    <3>. QED BY <3>1, ListExcept DEF Sound, Live
  <2>2. h = Value(h0, "null")
    <3>. HIDE DEF e
    <3>. QED BY <2>1 DEF Dead
  <2>3. "val" # "blocks" /\ "val" # "cur" /\ "val" # "unknown" OBVIOUS
  <2>4. DOMAIN h0 = DOMAIN e BY DEF Fresh
  <2>5. DOMAIN e = {"blocks", "cur", "val", "unknown"} BY DEF End, Sound, Live
  <2>. HIDE DEF h0, e, h
  <2>. QED BY <2>2, <2>4, <2>5 DEF Value
<1>. HIDE DEF new
<1>4. Follows(g, term, <<>>, new, 1) BY <1>1, <1>2 DEF Follows, Sound
<1>5. Building(g, S) BY DEF Sound
<1>6. \A i \in DOMAIN new : new[i].code = <<>> BY <1>1, <1>2
<1>7. /\ n \in Nat /\ g.cur \in DOMAIN h0.blocks
      /\ DOMAIN g.blocks \subseteq DOMAIN h0.blocks /\ h0.cur \notin DOMAIN g.blocks
      /\ h0.cur = n + 1 /\ h0.unknown = g.unknown
      /\ \A b \in DOMAIN g.blocks : b # g.cur => h0.blocks[b] = g.blocks[b]
      /\ h0.blocks[g.cur].term = term /\ h0.blocks[g.cur].succ = <<>>
      /\ EventsOf(h0.blocks[g.cur]) = Said(g) /\ Said(h0) = <<>>
      /\ Spoilt(h0) <=> Spoilt(g)
  <2>1. EndsAs(g, h0, term, <<>>, new, 1) BY <1>4, <1>5, <1>6, EndSays
  <2>. HIDE DEF h0
  <2>. QED BY <2>1 DEF EndsAs
<1>8. Spoilt(h) <=> Spoilt(h0) BY <1>3 DEF Spoilt
<1>9. Said(g) \in Trails BY <1>5, SaidTyped
<1>. HIDE DEF h, h0, n
<1>10. ASSUME NEW P, NEW K \in SUBSET Trails, Solves(h.blocks, P)
       PROVE  P[g.cur] = Behind(Said(g), After({Run(<<Mark(term)>>, TRUE)}, K))
  <2>1. term \in Terms /\ term # "none" BY DEF Terms
  <2>2. P \in [Nat -> SUBSET Trails] /\ P[g.cur] = PathsFrom(h0.blocks, P, g.cur)
    BY <1>3, <1>7, <1>10, <2>1 DEF Solves
  <2>3. PathsFrom(h0.blocks, P, g.cur) = Behind(Said(g), {<<Mark(term)>>})
    <3>1. /\ EventsOf(h0.blocks[g.cur]) = Said(g) /\ EventsOf(h0.blocks[g.cur]) \in Trails
          /\ h0.blocks[g.cur].term = term /\ h0.blocks[g.cur].succ = <<>>
      BY <1>7, <1>9
    <3>2. h0.blocks[g.cur].term \in Terms BY <2>1, <3>1
    <3>3. Shaped(h0.blocks, P, g.cur) BY <2>2, <3>1, <3>2, PathsShape
    <3>. QED BY <3>1, <3>3 DEF Shaped
  <2>4. <<Mark(term)>> \in Trails BY MarkTrails
  <2>5. After({Run(<<Mark(term)>>, TRUE)}, K) = {<<Mark(term)>>} BY <2>4, AfterOne
  <2>. QED BY <2>2, <2>3, <2>5
<1>11. /\ DOMAIN g.blocks \subseteq DOMAIN h.blocks
       /\ h.cur = g.cur \/ h.cur \notin DOMAIN g.blocks
       /\ \A b \in DOMAIN g.blocks : b # g.cur => h.blocks[b] = g.blocks[b]
       /\ Spoilt(g) => Spoilt(h)
  BY <1>3, <1>7, <1>8
<1>12. Leads(g, h, {Run(<<Mark(term)>>, TRUE)}) BY <1>10, <1>11 DEF Leads
<1>. QED BY <1>12 DEF h

\* Nothing is run before something else, or behind it.
LEMMA ThenNothing ==
  ASSUME NEW R \in SUBSET RunSet
  PROVE  Then({Run(<<>>, FALSE)}, R) = R /\ Then(R, {Run(<<>>, FALSE)}) = R
<1>. DEFINE o == Run(<<>>, FALSE)
<1>1. o.events = <<>> /\ o.done = FALSE BY DEF Run
<1>2. ASSUME NEW r \in R
      PROVE  /\ r = Run(r.events, r.done) /\ r.done \in BOOLEAN
             /\ Joined(<<>>, r.events) = r.events /\ Joined(r.events, <<>>) = r.events
  <2>1. r \in [events : Trails, done : BOOLEAN] BY DEF RunSet
  <2>2. r.events \in Trails /\ r = Run(r.events, r.done) /\ r.done \in BOOLEAN BY <2>1 DEF Run
  <2>. QED BY <2>2, JoinedPaths
<1>. HIDE DEF o
<1>3. \A q : q \in Then({o}, R) <=> q \in R
  <2>1. \A q : q \in Then({o}, R) <=> \/ q = o /\ q.done
                                      \/ \E s \in R : q = Run(Joined(<<>>, s.events), s.done)
    BY <1>1, ThenHas
  <2>2. \A s \in R : Run(Joined(<<>>, s.events), s.done) = s BY <1>2
  <2>. SUFFICES ASSUME NEW q PROVE q \in Then({o}, R) <=> q \in R OBVIOUS
  <2>3. q \in Then({o}, R) <=> \E s \in R : q = Run(Joined(<<>>, s.events), s.done) BY <1>1, <2>1
  <2>4. ASSUME q \in R PROVE q \in Then({o}, R) BY <2>2, <2>3, <2>4
  <2>5. ASSUME q \in Then({o}, R) PROVE q \in R BY <2>2, <2>3, <2>5
  <2>. QED BY <2>4, <2>5
<1>4. \A q : q \in Then(R, {o}) <=> q \in R
  <2>1. \A q : q \in Then(R, {o}) <=> \/ q \in R /\ q.done
                                      \/ \E r \in R : ~r.done /\ q = Run(Joined(r.events, <<>>), FALSE)
    <3>1. \A q : q \in Then(R, {o}) <=>
            \/ q \in R /\ q.done
            \/ \E r \in R : ~r.done /\ \E s \in {o} : q = Run(Joined(r.events, s.events), s.done)
      BY ThenHas
    <3>. QED BY <1>1, <3>1, Zenon
  <2>2. \A r \in R : ~r.done => Run(Joined(r.events, <<>>), FALSE) = r BY <1>2
  <2>. QED BY <2>1, <2>2
<1>. QED BY <1>3, <1>4 DEF o

\* Code that says nothing leads on.
LEMMA LeadsNothing ==
  ASSUME NEW S \in SUBSET Instrs, NEW g, Sound(g, S), NEW h, Live(h), NEW i,
         NEW R \in SUBSET RunSet
  PROVE  /\ Says(g, h, <<>>) /\ Leads(h, i, R) => Leads(g, i, R)
         /\ Leads(g, h, R) /\ Building(h, S) /\ Says(h, i, <<>>) => Leads(g, i, R)
<1>. DEFINE none == {Run(<<>>, FALSE)}
<1>1. none \in SUBSET RunSet /\ <<>> \in Trails BY AfterOne, TrailsOfEvents
<1>2. Building(g, S) /\ g.cur \in DOMAIN g.blocks BY DEF Sound, Building
<1>3. Then(none, R) = R /\ Then(R, none) = R BY ThenNothing
<1>4. ASSUME Says(g, h, <<>>), Leads(h, i, R) PROVE Leads(g, i, R)
  <2>1. Leads(g, h, none) BY <1>1, <1>2, <1>4, SaysLeads
  <2>. HIDE DEF none
  <2>2. Leads(g, i, Then(none, R)) BY <1>1, <1>2, <1>4, <2>1, LeadsOn
  <2>. QED BY <1>3, <2>2
<1>5. ASSUME Leads(g, h, R), Building(h, S), Says(h, i, <<>>) PROVE Leads(g, i, R)
  <2>1. Leads(h, i, none) BY <1>1, <1>5, SaysLeads
  <2>. HIDE DEF none
  <2>2. Leads(g, i, Then(R, none)) BY <1>1, <1>2, <1>5, <2>1, LeadsOn
  <2>. QED BY <1>3, <2>2
<1>. QED BY <1>4, <1>5

\* What the marks of a propagation are before the paths that go on.
LEMMA PropagationPaths ==
  ASSUME NEW K \in SUBSET Trails
  PROVE  Behind(<<Mark("ok")>>, K) \cup Behind(<<Mark("err")>>, {<<Mark("ret_err")>>})
           = After(Propagation, K)
<1>. DEFINE ok == Run(<<Mark("ok")>>, FALSE)
            err == Run(<<Mark("err"), Mark("ret_err")>>, TRUE)
            B == Behind(<<Mark("ok")>>, K)
            C == Behind(<<Mark("err")>>, {<<Mark("ret_err")>>})
<1>1. ok.done = FALSE /\ ok.events = <<Mark("ok")>> /\ err.done /\ err.events = <<Mark("err"), Mark("ret_err")>>
  BY DEF Run
<1>2. Propagation = {ok, err} BY DEF Propagation
<1>3. \A p : p \in B <=> \E k \in K : p = Joined(<<Mark("ok")>>, k) BY BehindHas
<1>4. \A p : p \in C <=> p = Joined(<<Mark("err")>>, <<Mark("ret_err")>>) BY BehindHas
<1>5. Joined(<<Mark("err")>>, <<Mark("ret_err")>>) = <<Mark("err"), Mark("ret_err")>> BY MarkTrails
<1>6. \A p : p \in After(Propagation, K) <=>
         \E r \in Propagation : IF r.done THEN p = r.events ELSE \E k \in K : p = Joined(r.events, k)
  BY AfterHas
<1>. HIDE DEF ok, err, B, C
<1>7. \A p : p \in After(Propagation, K) <=> p \in B \cup C
  <2>1. \A p : p \in After(Propagation, K) <=>
          \/ \E k \in K : p = Joined(<<Mark("ok")>>, k)
          \/ p = <<Mark("err"), Mark("ret_err")>>
    <3>1. \A p : p \in After(Propagation, K) <=>
            \/ IF ok.done THEN p = ok.events ELSE \E k \in K : p = Joined(ok.events, k)
            \/ IF err.done THEN p = err.events ELSE \E k \in K : p = Joined(err.events, k)
      BY <1>2, <1>6, Zenon
    <3>. QED BY <1>1, <3>1
  <2>. QED BY <1>3, <1>4, <1>5, <2>1
<1>. QED BY <1>7 DEF B, C

\* A propagation.
LEMMA PropagateLeads ==
  ASSUME NEW S \in SUBSET Instrs, Readable(S), NEW g, Sound(g, S)
  PROVE  Leads(g, GenPropagate(g), Propagation)
<1>. DEFINE n   == Len(g.blocks)
            b   == BadIf(g, g.val # "res")
            err == [NewBlock EXCEPT !.term = "ret_err", !.type = "res"]
            new == <<NewBlock, err>>
            succ == <<n + 1, n + 2>>
            h   == Fresh(End(b, "prop", "void", succ), new, n + 1)
            i   == GenPropagate(g)
<1>0. Instr("bad", NoName, NoSlot) \in S BY DEF Readable
<1>1. Building(g, S) BY DEF Sound
<1>2. Says(g, b, <<>>) /\ Sound(b, S) BY <1>0, <1>1, BadContinues, SaysEmit
<1>3. n \in Nat /\ Len(b.blocks) = n
  <2>1. Kept(g, b) BY Small DEF Sound
  <2>2. n \in Nat BY ListLen DEF Sound, Live
  <2>. QED BY <2>1, <2>2 DEF Kept
<1>4. IsList(new) /\ DOMAIN new = 1 .. 2 /\ Len(new) = 2 /\ new[1] = NewBlock /\ new[2] = err
  BY Lists, ListLen
<1>5. /\ IsBlock(NewBlock) /\ NewBlock.succ = <<>> /\ NewBlock.term = "none" /\ NewBlock.code = <<>>
      /\ IsBlock(err) /\ err.succ = <<>> /\ err.code = <<>> /\ err.term = "ret_err"
  BY DEF NewBlock, IsBlock
<1>6. i = Poison(h) BY DEF GenPropagate
<1>7. \A j \in DOMAIN succ : succ[j] \in n + 1 .. n + 2 BY <1>3
<1>8. succ = <<n + 1, n + 2>> OBVIOUS
<1>. HIDE DEF b, err, new, succ
<1>9. Follows(b, "prop", succ, new, 1)
  BY <1>2, <1>3, <1>4, <1>5, <1>7, SMTT(30) DEF Follows, Sound
<1>10. \A j \in DOMAIN new : new[j].code = <<>> BY <1>4, <1>5
<1>11. EndsAs(b, h, "prop", succ, new, 1)
  <2>1. EndsAs(b, Fresh(End(b, "prop", "void", succ), new, Len(b.blocks) + 1), "prop", succ, new, 1)
    BY <1>2, <1>9, <1>10, EndSays DEF Sound
  <2>. QED BY <1>3, <2>1
<1>12. i.blocks = h.blocks /\ i.cur = h.cur /\ i.unknown = h.unknown
  <2>1. "val" # "blocks" /\ "val" # "cur" /\ "val" # "unknown" OBVIOUS
  <2>2. DOMAIN h = {"blocks", "cur", "val", "unknown"} BY <1>2 DEF Fresh, End, Sound, Live
  <2>. HIDE DEF h, i
  <2>. QED BY <1>6, <2>2 DEF Poison, Value
<1>. HIDE DEF h, i
<1>13. /\ DOMAIN b.blocks \subseteq DOMAIN h.blocks /\ h.cur \notin DOMAIN b.blocks
       /\ h.cur = n + 1 /\ h.unknown = b.unknown /\ b.cur \in DOMAIN h.blocks
       /\ \A j \in DOMAIN b.blocks : j # b.cur => h.blocks[j] = b.blocks[j]
       /\ n + 1 \in DOMAIN h.blocks /\ h.blocks[n + 1] = NewBlock
       /\ n + 2 \in DOMAIN h.blocks /\ h.blocks[n + 2] = err
       /\ h.blocks[b.cur].term = "prop" /\ h.blocks[b.cur].succ = succ
       /\ EventsOf(h.blocks[b.cur]) = Said(b) /\ Said(h) = <<>>
       /\ Spoilt(h) <=> Spoilt(b)
  BY <1>3, <1>4, <1>11 DEF EndsAs
<1>14. Spoilt(i) <=> Spoilt(b) BY <1>12, <1>13 DEF Spoilt
<1>15. Said(i) = <<>> BY <1>12, <1>13 DEF Said
<1>16. ASSUME NEW P, NEW K \in SUBSET Trails, Solves(i.blocks, P), P[i.cur] = Behind(Said(i), K)
       PROVE  P[b.cur] = Behind(Said(b), After(Propagation, K))
  <2>1. P[n + 1] = K BY <1>12, <1>13, <1>15, <1>16, BehindPaths, TrailsOfEvents
  <2>2. /\ P \in [Nat -> SUBSET Trails]
        /\ P[b.cur] = PathsFrom(h.blocks, P, b.cur) /\ P[n + 2] = PathsFrom(h.blocks, P, n + 2)
    BY <1>5, <1>12, <1>13, <1>16 DEF Solves
  <2>3. P[n + 2] = {<<Mark("ret_err")>>}
    <3>1. EventsOf(h.blocks[n + 2]) = <<>> BY <1>5, <1>13, EventsAre
    <3>2. EventsOf(h.blocks[n + 2]) \in Trails /\ h.blocks[n + 2].term \in Terms
      BY <1>5, <1>13, <3>1, TrailsOfEvents DEF Terms
    <3>3. Shaped(h.blocks, P, n + 2) BY <2>2, <3>2, PathsShape
    <3>4. PathsFrom(h.blocks, P, n + 2) = Behind(<<>>, {<<Mark("ret_err")>>})
      BY <1>5, <1>13, <3>1, <3>3 DEF Shaped
    <3>5. {<<Mark("ret_err")>>} \in SUBSET Trails BY MarkTrails
    <3>. QED BY <2>2, <3>4, <3>5, BehindPaths, TrailsOfEvents
  <2>4. P[b.cur] = Behind(Said(b), Behind(<<Mark("ok")>>, K) \cup Behind(<<Mark("err")>>, {<<Mark("ret_err")>>}))
    <3>1. Said(b) \in Trails BY <1>2, SaidTyped DEF Sound
    <3>2. EventsOf(h.blocks[b.cur]) \in Trails /\ h.blocks[b.cur].term \in Terms
      BY <1>13, <3>1 DEF Terms
    <3>3. Shaped(h.blocks, P, b.cur) BY <2>2, <3>2, PathsShape
    <3>4. h.blocks[b.cur].term = "prop" /\ n + 1 \in Nat /\ n + 2 \in Nat /\ h.blocks[b.cur].succ = <<n + 1, n + 2>>
      BY <1>3, <1>8, <1>13
    <3>5. PathsFrom(h.blocks, P, b.cur)
            = Behind(Said(b), Behind(ArmOf("prop", 1), P[n + 1]) \cup Behind(ArmOf("prop", 2), P[n + 2]))
      BY <1>13, <3>3, <3>4 DEF Shaped
    <3>6. ArmOf("prop", 1) = <<Mark("ok")>> /\ ArmOf("prop", 2) = <<Mark("err")>> BY DEF ArmOf
    <3>. QED BY <2>1, <2>2, <2>3, <3>5, <3>6
  <2>5. Behind(<<Mark("ok")>>, K) \cup Behind(<<Mark("err")>>, {<<Mark("ret_err")>>})
           = After(Propagation, K)
    BY PropagationPaths
  <2>. QED BY <2>4, <2>5
<1>17. Leads(b, i, Propagation) BY <1>12, <1>13, <1>14, <1>16 DEF Leads
<1>18. Propagation \in SUBSET RunSet BY MarkTrails
<1>19. Leads(g, i, Propagation) BY <1>2, <1>17, <1>18, LeadsNothing DEF Sound
<1>. QED BY <1>19 DEF i

\* An atom leads to what it runs.
LEMMA AtomLeads ==
  ASSUME NEW S \in SUBSET Instrs, Readable(S), ValuesMatch, gcur \in Nat, gpc \in Nat,
         NEW g, Sound(g, S), NEW a \in Atom, a.kind = "call" => Instr("call", a.val, Here) \in S
  PROVE  Leads(g, GenAtom(g, a), AtomRuns(gcur, gpc, a))
<1>. DEFINE v == Unpropagated(g, a)
<1>1. PICK base : /\ IsBase(base, gcur, gpc, a)
                  /\ AtomRuns(gcur, gpc, a) = IF a.prop THEN Then({Run(base, FALSE)}, Propagation)
                                              ELSE {Run(base, FALSE)}
  BY AtomBase, ZenonT(40)
<1>2. GenAtom(g, a) = IF a.prop THEN GenPropagate(v) ELSE v BY DEF GenAtom, Unpropagated
<1>3. Says(g, v, base) /\ Sound(v, S) BY <1>1, SaysAtom
<1>. HIDE DEF v
<1>4. Building(g, S) /\ g.cur \in DOMAIN g.blocks BY DEF Sound, Building
<1>5. base \in Trails BY <1>1 DEF IsBase
<1>6. Leads(g, v, {Run(base, FALSE)}) BY <1>3, <1>4, <1>5, SaysLeads
<1>7. Leads(v, GenPropagate(v), Propagation) BY <1>3, PropagateLeads
<1>8. {Run(base, FALSE)} \in SUBSET RunSet /\ Propagation \in SUBSET RunSet BY <1>5, AfterOne, MarkTrails
<1>9. Leads(g, GenPropagate(v), Then({Run(base, FALSE)}, Propagation))
  BY <1>3, <1>4, <1>6, <1>7, <1>8, LeadsOn DEF Sound
<1>. QED BY <1>1, <1>2, <1>6, <1>9

\* A return leads to its mark.
LEMMA ReturnLeads ==
  ASSUME NEW S \in SUBSET Instrs, Readable(S), NEW g, Sound(g, S), NEW ret
  PROVE  Leads(g, Dead(ReturnOf(g, ret)), {Run(<<Mark("ret_ok")>>, TRUE)})
<1>. DEFINE b == BadIf(g, g.val \in {"void", "res"})
            R == {Run(<<Mark("ret_ok")>>, TRUE)}
<1>0. Instr("bad", NoName, NoSlot) \in S BY DEF Readable
<1>1. \E u \in {g, b} : \E type : ReturnOf(g, ret) = End(u, "ret_ok", type, <<>>) BY DEF ReturnOf
<1>2. Sound(b, S) /\ Says(g, b, <<>>) BY <1>0, BadContinues, SaysEmit DEF Sound
<1>3. R \in SUBSET RunSet BY MarkTrails, AfterOne
<1>. HIDE DEF b, R
<1>4. PICK u \in {g, b} : \E type : ReturnOf(g, ret) = End(u, "ret_ok", type, <<>>) BY <1>1
<1>5. PICK type : ReturnOf(g, ret) = End(u, "ret_ok", type, <<>>) BY <1>4
<1>6. Leads(u, Dead(End(u, "ret_ok", type, <<>>)), R) BY <1>2, DeadLeads DEF R
<1>7. Leads(g, Dead(ReturnOf(g, ret)), R)
  <2>1. CASE u = g BY <1>5, <1>6, <2>1
  <2>2. CASE u = b
    <3>1. Leads(b, Dead(ReturnOf(g, ret)), R) /\ Live(b) BY <1>2, <1>5, <1>6, <2>2 DEF Sound
    <3>. QED BY <1>2, <1>3, <3>1, LeadsNothing
  <2>. QED BY <2>1, <2>2
<1>. QED BY <1>7 DEF R

\* An expression leads to what it runs; its value is null only where all of that
\* ends the function.
LEMMA ExprLeads ==
  ASSUME NEW S \in SUBSET Instrs, Readable(S), ValuesMatch, gcur \in Nat, gpc \in Nat,
         NEW g, Sound(g, S), NEW e \in Expr, Placed(e, S)
  PROVE  /\ Leads(g, GenExpr(g, e), SourceRuns(gcur, gpc, e))
         /\ GenExpr(g, e).val = "null" => \A r \in SourceRuns(gcur, gpc, e) : r.done
<1>0. Instr("bad", NoName, NoSlot) \in S BY DEF Readable
<1>1. e.atoms \in Seq(Atom) BY DEF Expr
<1>2. ASSUME NEW k \in DOMAIN e.atoms PROVE e.atoms[k] \in Atom
  BY <1>1, ElementOfSeq, LenProperties
<1>3. /\ e.wrap \in {"none", "ok"} => 1 \in DOMAIN e.atoms
      /\ e.wrap \in {"arith", "compare"} => 1 \in DOMAIN e.atoms /\ 2 \in DOMAIN e.atoms
  BY ExprAtoms
<1>. DEFINE A(k) == AtomRuns(gcur, gpc, e.atoms[k])
<1>4. ASSUME NEW h, Sound(h, S), NEW k \in DOMAIN e.atoms,
             e.wrap \in {"none", "ok", "arith", "compare"}
      PROVE  /\ Leads(h, GenAtom(h, e.atoms[k]), A(k)) /\ Sound(GenAtom(h, e.atoms[k]), S)
             /\ GenAtom(h, e.atoms[k]).val # "null" /\ A(k) \in SUBSET RunSet
  <2>1. e.atoms[k] \in Atom BY <1>2
  <2>2. e.atoms[k].kind = "call" => Instr("call", e.atoms[k].val, Here) \in S BY <1>4 DEF Placed
  <2>3. Leads(h, GenAtom(h, e.atoms[k]), A(k)) BY <1>4, <2>1, <2>2, AtomLeads
  <2>4. A(k) \in SUBSET RunSet BY <2>1, RunsTyped
  <2>. QED BY <1>4, <2>1, <2>2, <2>3, <2>4, AtomContinues
<1>11. g.cur \in DOMAIN g.blocks BY DEF Sound, Building
<1>12. Building(g, S) BY DEF Sound
<1>5. CASE e.wrap = "none"
  <2>1. GenExpr(g, e) = GenAtom(g, e.atoms[1]) /\ SourceRuns(gcur, gpc, e) = A(1)
    BY <1>5, RunsAre DEF GenExpr
  <2>. HIDE DEF A
  <2>. QED BY <1>3, <1>4, <1>5, <2>1
<1>6. CASE e.wrap \in {"arith", "compare"}
  <2>. DEFINE l == GenAtom(g, e.atoms[1])
              r == GenAtom(l, e.atoms[2])
              ints == Width(l.val) > 0 /\ Width(r.val) > 0
              i == BadIf(r, ~ints)
              wide == IF Width(l.val) < Width(r.val) THEN r.val ELSE l.val
              ty == IF e.wrap = "compare" THEN "i1" ELSE wide
  <2>1. GenExpr(g, e) = Value(i, ty) BY <1>6 DEF GenExpr, GenBinary, Combine
  <2>2. SourceRuns(gcur, gpc, e) = Then(A(1), A(2)) BY <1>6, RunsAre
  <2>. HIDE DEF A
  <2>3. Leads(g, l, A(1)) /\ Sound(l, S) /\ l.val # "null" /\ A(1) \in SUBSET RunSet
    BY <1>3, <1>4, <1>6
  <2>. HIDE DEF l
  <2>4. Leads(l, r, A(2)) /\ Sound(r, S) /\ r.val # "null" /\ A(2) \in SUBSET RunSet
    BY <1>3, <1>4, <1>6, <2>3
  <2>. HIDE DEF r
  <2>5. ty # "null" BY <2>3, <2>4
  <2>. HIDE DEF ints, ty
  <2>6. Says(r, i, <<>>) /\ Sound(i, S) BY <1>0, <2>4, BadContinues, SaysEmit DEF Sound
  <2>. HIDE DEF i
  <2>7. Says(i, Value(i, ty), <<>>) BY <2>6, SaysEmit DEF Sound
  <2>8. <<>> \in Trails BY TrailsOfEvents
  <2>9. Says(r, Value(i, ty), <<>>) BY <2>4, <2>6, <2>7, <2>8, SaysNothing DEF Sound
  <2>10. Leads(g, r, Then(A(1), A(2))) BY <1>11, <2>3, <2>4, LeadsOn DEF Sound
  <2>11. Then(A(1), A(2)) \in SUBSET RunSet BY <2>3, <2>4, <2>8, AfterThen
  <2>12. Leads(g, Value(i, ty), Then(A(1), A(2)))
    BY <2>4, <2>9, <2>10, <2>11, LeadsNothing DEF Sound
  <2>13. Value(i, ty).val = ty BY <2>6 DEF Value, Sound, Live
  <2>. QED BY <2>1, <2>2, <2>5, <2>12, <2>13
<1>7. CASE e.wrap = "ok"
  <2>. DEFINE v == GenAtom(g, e.atoms[1])
              ret == LlvmOf(gdecl.ret)
              R == {Run(<<Mark("ret_ok")>>, TRUE)}
  <2>1. GenExpr(g, e) = Dead(ReturnOf(v, ret)) BY <1>7 DEF GenExpr, GenReturnOk
  <2>2. SourceRuns(gcur, gpc, e) = Then(A(1), R) BY <1>7, RunsAre
  <2>. HIDE DEF A
  <2>3. Leads(g, v, A(1)) /\ Sound(v, S) /\ A(1) \in SUBSET RunSet BY <1>3, <1>4, <1>7
  <2>. HIDE DEF v, ret
  <2>4. Leads(v, Dead(ReturnOf(v, ret)), R) BY <2>3, ReturnLeads
  <2>5. R \in SUBSET RunSet /\ (\A r \in R : r.done)
    <3>1. <<Mark("ret_ok")>> \in Trails BY MarkTrails
    <3>2. R \in SUBSET RunSet BY <3>1, AfterOne
    <3>. QED BY <3>2 DEF Run
  <2>. HIDE DEF R
  <2>6. Leads(g, Dead(ReturnOf(v, ret)), Then(A(1), R)) BY <1>11, <2>3, <2>4, <2>5, LeadsOn DEF Sound
  <2>7. ASSUME NEW q \in Then(A(1), R) PROVE q.done
    <3>1. q.done \/ \E r \in A(1) : \E s \in R : q = Run(Joined(r.events, s.events), s.done)
      BY <2>7, ThenHas
    <3>. QED BY <2>5, <3>1 DEF Run
  <2>. QED BY <2>1, <2>2, <2>6, <2>7
<1>8. CASE e.wrap = "err"
  <2>. DEFINE R == {Run(<<Mark("ret_err")>>, TRUE)}
  <2>1. GenExpr(g, e) = Dead(End(g, "ret_err", "res", <<>>)) BY <1>8 DEF GenExpr, GenReturnErr
  <2>2. SourceRuns(gcur, gpc, e) = R BY <1>8, RunsAre
  <2>3. Leads(g, Dead(End(g, "ret_err", "res", <<>>)), R) BY DeadLeads
  <2>4. \A r \in R : r.done BY DEF Run
  <2>. QED BY <2>1, <2>2, <2>3, <2>4
<1>9. CASE e.wrap \notin {"none", "arith", "compare", "ok", "err"}
  <2>1. GenExpr(g, e) = Value(g, "i64") BY <1>9 DEF GenExpr, Poison
  <2>2. SourceRuns(gcur, gpc, e) = {Run(<<>>, FALSE)} BY <1>9, RunsAre
  <2>3. Value(g, "i64").val = "i64" BY DEF Value, Sound, Live
  <2>4. Says(g, Value(g, "i64"), <<>>) /\ <<>> \in Trails BY <1>12, SaysEmit, TrailsOfEvents
  <2>5. Leads(g, Value(g, "i64"), {Run(<<>>, FALSE)}) BY <1>12, <2>4, SaysLeads
  <2>. QED BY <2>1, <2>2, <2>3, <2>5
<1>. QED BY <1>5, <1>6, <1>7, <1>8, <1>9

-----------------------------------------------------------------------------
(* The ifs that are open, and the items that opened them.                   *)

\* J are the items that opened the ifs o, behind the first n items of a body.
Opens(body, n, o, J) ==
  /\ J \in [DOMAIN o -> Nat] /\ Depth(body, n) = Len(o)
  /\ \A m \in DOMAIN o :
       /\ J[m] \in 1 .. n /\ body[J[m]].op = "if" /\ Depth(body, J[m]) = m
       /\ \A j \in J[m] .. n : Depth(body, j) >= m
       /\ o[m].within = "then" => \A k \in J[m] .. n : ~(body[k].op = "else" /\ Depth(body, k) = m)

\* Items that are in the blocks open before them change nothing, whether they are
\* generated or not.
LEMMA OpensOn ==
  ASSUME NEW body, NEW n \in Nat, NEW o \in Seq(OpenIf), NEW J, Opens(body, n, o, J),
         NEW p \in Nat, p >= n, Depth(body, p) = Depth(body, n),
         \A j \in (n + 1) .. p : Depth(body, j) >= Len(o)
                                 /\ ~(body[j].op = "else" /\ Depth(body, j) = Len(o))
  PROVE  Opens(body, p, o, J)
<1>1. Len(o) \in Nat /\ DOMAIN o = 1 .. Len(o) BY LenProperties
<1>2. \A j \in Nat : Depth(body, j) \in Int BY NestingStep
<1>. SUFFICES ASSUME NEW m \in DOMAIN o
              PROVE  /\ J[m] \in 1 .. p
                     /\ \A j \in J[m] .. p : Depth(body, j) >= m
                     /\ o[m].within = "then" =>
                          \A k \in J[m] .. p : ~(body[k].op = "else" /\ Depth(body, k) = m)
  BY DEF Opens
<1>3. J[m] \in 1 .. n BY DEF Opens
<1>4. ASSUME NEW j \in J[m] .. p PROVE j \in J[m] .. n \/ j \in (n + 1) .. p BY <1>3
<1>5. ASSUME NEW j \in (n + 1) .. p PROVE Depth(body, j) >= m BY <1>1, <1>2
<1>6. \A j \in J[m] .. p : Depth(body, j) >= m BY <1>4, <1>5 DEF Opens
<1>7. ASSUME o[m].within = "then", NEW k \in J[m] .. p, body[k].op = "else", Depth(body, k) = m
      PROVE  FALSE
  <2>1. k \in (n + 1) .. p BY <1>4, <1>7 DEF Opens
  <2>2. Depth(body, k) >= Len(o) /\ m <= Len(o) /\ m \in Int BY <1>1, <2>1
  <2>3. m = Len(o) BY <1>1, <1>7, <2>2
  <2>. QED BY <1>7, <2>1, <2>3
<1>. QED BY <1>3, <1>6, <1>7

\* An if is opened.
LEMMA OpensIf ==
  ASSUME NEW body, NEW n \in Nat, NEW o \in Seq(OpenIf), NEW J, Opens(body, n, o, J),
         body[n + 1].op = "if", NEW new \in OpenIf
  PROVE  LET L == [m \in DOMAIN Append(o, new) |-> IF m = Len(o) + 1 THEN n + 1 ELSE J[m]]
         IN  Opens(body, n + 1, Append(o, new), L)
<1>. DEFINE q == Append(o, new)
            L == [m \in DOMAIN q |-> IF m = Len(o) + 1 THEN n + 1 ELSE J[m]]
            l == Len(o)
<1>1. l \in Nat /\ DOMAIN o = 1 .. l BY LenProperties
<1>2. \A j \in Nat : Depth(body, j) \in Int BY NestingStep
<1>3. Depth(body, n + 1) = l + 1 /\ Depth(body, n) = l BY NestingStep DEF Opens
<1>4. Len(q) = l + 1 /\ DOMAIN q = 1 .. l + 1 /\ q[l + 1] = new /\ \A m \in 1 .. l : q[m] = o[m]
  BY <1>1, AppendProperties
<1>. HIDE DEF q, l
<1>5. /\ L \in [DOMAIN q -> Nat] /\ L[l + 1] = n + 1 /\ \A m \in 1 .. l : L[m] = J[m]
  <2>1. \A m \in 1 .. l : J[m] \in Nat BY <1>1 DEF Opens
  <2>. QED BY <1>1, <1>4, <2>1 DEF l
<1>. HIDE DEF L
<1>6. ASSUME NEW m \in 1 .. l
      PROVE  /\ L[m] \in 1 .. n + 1 /\ body[L[m]].op = "if" /\ Depth(body, L[m]) = m
             /\ \A j \in L[m] .. n + 1 : Depth(body, j) >= m
             /\ q[m].within = "then" =>
                  \A k \in L[m] .. n + 1 : ~(body[k].op = "else" /\ Depth(body, k) = m)
  <2>1. L[m] = J[m] /\ q[m] = o[m] /\ m \in DOMAIN o BY <1>1, <1>4, <1>5
  <2>2. J[m] \in 1 .. n /\ body[J[m]].op = "if" /\ Depth(body, J[m]) = m BY <2>1 DEF Opens
  <2>3. ASSUME NEW j \in J[m] .. n + 1 PROVE j \in J[m] .. n \/ j = n + 1 BY <2>2
  <2>4. \A j \in J[m] .. n : Depth(body, j) >= m BY <2>1 DEF Opens
  <2>5. Depth(body, n + 1) >= m BY <1>1, <1>3
  <2>6. q[m].within = "then" => \A k \in J[m] .. n : ~(body[k].op = "else" /\ Depth(body, k) = m)
    BY <2>1 DEF Opens
  <2>. QED BY <2>1, <2>2, <2>3, <2>4, <2>5, <2>6
<1>7. /\ L[l + 1] \in 1 .. n + 1 /\ body[L[l + 1]].op = "if" /\ Depth(body, L[l + 1]) = l + 1
      /\ \A j \in L[l + 1] .. n + 1 : Depth(body, j) >= l + 1 /\ body[j].op # "else"
  <2>1. \A j \in (n + 1) .. n + 1 : j = n + 1 OBVIOUS
  <2>2. n + 1 \in 1 .. n + 1 /\ l + 1 >= l + 1 BY <1>1
  <2>. QED BY <1>3, <1>5, <2>1, <2>2
<1>8. \A m \in DOMAIN q : m \in 1 .. l \/ m = l + 1 BY <1>1, <1>4
<1>9. Opens(body, n + 1, q, L) BY <1>3, <1>4, <1>5, <1>6, <1>7, <1>8 DEF Opens
<1>. QED BY <1>9 DEF q, L, l

\* The else branch of the innermost if begins.
LEMMA OpensElse ==
  ASSUME NEW body, NEW n \in Nat, NEW o \in Seq(OpenIf), o # <<>>, NEW J, Opens(body, n, o, J),
         body[n + 1].op = "else", NEW q \in Seq(OpenIf), Len(q) = Len(o), q[Len(o)].within = "else",
         \A m \in DOMAIN o : m # Len(o) => q[m] = o[m]
  PROVE  Opens(body, n + 1, q, J)
<1>. DEFINE l == Len(o)
<1>1. l \in Nat /\ DOMAIN o = 1 .. l /\ DOMAIN q = 1 .. l BY LenProperties
<1>2. \A j \in Nat : Depth(body, j) \in Int BY NestingStep
<1>3. Depth(body, n + 1) = l /\ Depth(body, n) = l
  <2>1. Depth(body, n) = l BY DEF Opens
  <2>2. body[n + 1].op \notin {"if", "for", "endif", "endfor"} OBVIOUS
  <2>. QED BY <2>1, <2>2, NestingStep
<1>. HIDE DEF l
<1>4. ASSUME NEW m \in 1 .. l
      PROVE  /\ J[m] \in 1 .. n + 1 /\ body[J[m]].op = "if" /\ Depth(body, J[m]) = m
             /\ \A j \in J[m] .. n + 1 : Depth(body, j) >= m
             /\ q[m].within = "then" =>
                  \A k \in J[m] .. n + 1 : ~(body[k].op = "else" /\ Depth(body, k) = m)
  <2>1. m \in DOMAIN o BY <1>1
  <2>2. J[m] \in 1 .. n /\ body[J[m]].op = "if" /\ Depth(body, J[m]) = m BY <2>1 DEF Opens
  <2>3. ASSUME NEW j \in J[m] .. n + 1 PROVE j \in J[m] .. n \/ j = n + 1 BY <2>2
  <2>4. \A j \in J[m] .. n : Depth(body, j) >= m BY <2>1 DEF Opens
  <2>5. Depth(body, n + 1) >= m BY <1>1, <1>3
  <2>6. q[m].within = "then" => m # l /\ q[m] = o[m] BY <2>1 DEF l
  <2>7. o[m].within = "then" => \A k \in J[m] .. n : ~(body[k].op = "else" /\ Depth(body, k) = m)
    BY <2>1 DEF Opens
  <2>8. m # l => Depth(body, n + 1) # m BY <1>3
  <2>. QED BY <2>2, <2>3, <2>4, <2>5, <2>6, <2>7, <2>8
<1>5. J \in [DOMAIN q -> Nat] /\ Depth(body, n + 1) = Len(q) BY <1>1, <1>3 DEF Opens, l
<1>. QED BY <1>1, <1>4, <1>5 DEF Opens

\* The innermost if ends.
LEMMA OpensEnd ==
  ASSUME NEW body, NEW n \in Nat, NEW o \in Seq(OpenIf), o # <<>>, NEW J, Opens(body, n, o, J),
         body[n + 1].op = "endif"
  PROVE  LET q == SubSeq(o, 1, Len(o) - 1)
         IN  Opens(body, n + 1, q, [m \in DOMAIN q |-> J[m]])
<1>. DEFINE l == Len(o)
            q == SubSeq(o, 1, l - 1)
            L == [m \in DOMAIN q |-> J[m]]
<1>1. l \in Nat \ {0} /\ DOMAIN o = 1 .. l BY LenProperties, EmptySeq
<1>2. \A j \in Nat : Depth(body, j) \in Int BY NestingStep
<1>3. Depth(body, n + 1) = l - 1 /\ Depth(body, n) = l BY NestingStep DEF Opens
<1>4. Len(q) = l - 1 /\ DOMAIN q = 1 .. l - 1 /\ \A m \in 1 .. l - 1 : q[m] = o[m]
  BY <1>1, SubSeqProperties
<1>. HIDE DEF l, q
<1>5. L \in [DOMAIN q -> Nat] /\ \A m \in DOMAIN q : L[m] = J[m]
  <2>1. \A m \in DOMAIN q : J[m] \in Nat BY <1>1, <1>4 DEF Opens
  <2>. QED BY <2>1
<1>. HIDE DEF L
<1>6. ASSUME NEW m \in DOMAIN q
      PROVE  /\ L[m] \in 1 .. n + 1 /\ body[L[m]].op = "if" /\ Depth(body, L[m]) = m
             /\ \A j \in L[m] .. n + 1 : Depth(body, j) >= m
             /\ q[m].within = "then" =>
                  \A k \in L[m] .. n + 1 : ~(body[k].op = "else" /\ Depth(body, k) = m)
  <2>1. m \in DOMAIN o /\ L[m] = J[m] /\ q[m] = o[m] /\ m <= l - 1 /\ m \in Int BY <1>1, <1>4, <1>5
  <2>2. J[m] \in 1 .. n /\ body[J[m]].op = "if" /\ Depth(body, J[m]) = m BY <2>1 DEF Opens
  <2>3. ASSUME NEW j \in J[m] .. n + 1 PROVE j \in J[m] .. n \/ j = n + 1 BY <2>2
  <2>4. \A j \in J[m] .. n : Depth(body, j) >= m BY <2>1 DEF Opens
  <2>5. Depth(body, n + 1) >= m BY <1>1, <1>3, <2>1
  <2>6. q[m].within = "then" => \A k \in J[m] .. n : ~(body[k].op = "else" /\ Depth(body, k) = m)
    BY <2>1 DEF Opens
  <2>. QED BY <2>1, <2>2, <2>3, <2>4, <2>5, <2>6
<1>7. Opens(body, n + 1, q, L) BY <1>3, <1>4, <1>5, <1>6 DEF Opens
<1>. QED BY <1>7 DEF q, L, l

\* What closes the item that opened the innermost if closes no item before.
LEMMA InnermostStays ==
  ASSUME NEW body, NEW n \in Nat, NEW o \in Seq(OpenIf), o # <<>>, NEW J, Opens(body, n, o, J)
  PROVE  LET k == J[Len(o)]
         IN  /\ Len(o) \in DOMAIN o /\ k \in 1 .. n /\ body[k].op = "if" /\ Depth(body, k) = Len(o)
             /\ Len(o) \in Nat /\ Depth(body, n) = Len(o)
             /\ \A i \in (k + 1) .. n : ~Closes(body, k, i)
<1>1. Len(o) \in Nat \ {0} /\ DOMAIN o = 1 .. Len(o) BY LenProperties, EmptySeq
<1>2. \A j \in Nat : Depth(body, j) \in Int BY NestingStep
<1>3. Len(o) \in DOMAIN o BY <1>1
<1>. DEFINE k == J[Len(o)]
<1>4. k \in 1 .. n /\ body[k].op = "if" /\ Depth(body, k) = Len(o) /\ Depth(body, n) = Len(o)
  BY <1>3 DEF Opens
<1>5. \A j \in k .. n : Depth(body, j) >= Len(o) BY <1>3 DEF Opens
<1>. HIDE DEF k
<1>6. ASSUME NEW i \in (k + 1) .. n, Closes(body, k, i) PROVE FALSE
  <2>1. i \in k .. n /\ i \in Nat BY <1>4
  <2>2. Depth(body, i) + 1 = Depth(body, k) BY <1>6 DEF Closes
  <2>. QED BY <1>1, <1>2, <1>4, <1>5, <2>1, <2>2
<1>. QED BY <1>1, <1>3, <1>4, <1>6 DEF k

\* The else mark of the innermost if.
LEMMA ElseCloses ==
  ASSUME prog \in Programs, NEW c \in DOMAIN prog, NEW n \in Nat, n + 1 \in DOMAIN prog[c].body,
         NEW o \in Seq(OpenIf), o # <<>>, NEW J, Opens(prog[c].body, n, o, J),
         prog[c].body[n + 1].op = "else", o[Len(o)].within = "then"
  PROVE  /\ CloseOf(prog[c].body, n + 1) = CloseOf(prog[c].body, J[Len(o)])
         /\ OrElseOf(prog[c].body, J[Len(o)]) = n + 1
<1>. DEFINE body == prog[c].body
            l == Len(o)
            k == J[l]
            close == CloseOf(body, n + 1)
            e == OrElseOf(body, k)
<1>0. body \in Seq(Item)
  <2>1. prog \in Seq(Decl) BY ProgramsAssumption DEF ProgramsAssumption
  <2>. QED BY <2>1, BodyItems
<1>1. /\ l \in DOMAIN o /\ k \in 1 .. n /\ body[k].op = "if" /\ Depth(body, k) = l
      /\ l \in Nat /\ Depth(body, n) = l
      /\ \A i \in (k + 1) .. n : ~Closes(body, k, i)
  BY InnermostStays
<1>2. \A j \in Nat : Depth(body, j) \in Int BY NestingStep
<1>3. Depth(body, n + 1) = l
  <2>1. body[n + 1].op \notin {"if", "for", "endif", "endfor"} OBVIOUS
  <2>. QED BY <1>1, <2>1, NestingStep
<1>4. /\ close \in (n + 2) .. Len(body) /\ Closes(body, n + 1, close)
      /\ \A i \in (n + 2) .. (close - 1) : ~Closes(body, n + 1, i)
  <2>1. /\ close \in ((n + 1) + 1) .. Len(body) /\ Closes(body, n + 1, close)
        /\ \A i \in ((n + 1) + 1) .. (close - 1) : ~Closes(body, n + 1, i)
    BY CloseFound
  <2>2. (n + 1) + 1 = n + 2 OBVIOUS
  <2>. QED BY <2>1, <2>2
<1>5. \A i : Closes(body, n + 1, i) <=> Closes(body, k, i) BY <1>1, <1>3 DEF Closes
<1>6. ~Closes(body, k, n + 1) BY DEF Closes
<1>7. Len(body) \in Nat /\ DOMAIN body = 1 .. Len(body) BY <1>0, LenProperties
<1>8. CloseOf(body, k) = close
  <2>1. close \in (k + 1) .. Len(body) BY <1>1, <1>4, <1>7
  <2>2. ASSUME NEW i \in (k + 1) .. (close - 1) PROVE ~Closes(body, k, i)
    <3>1. i \in (k + 1) .. n \/ i = n + 1 \/ i \in (n + 2) .. (close - 1) BY <1>1, <1>4, <1>7
    <3>. QED BY <1>1, <1>4, <1>5, <1>6, <3>1
  <2>3. Closes(body, k, close) BY <1>4, <1>5
  <2>4. k \in Nat BY <1>1
  <2>. HIDE DEF body, k, close
  <2>. QED BY <1>0, <2>1, <2>2, <2>3, <2>4, CloseIs
<1>9. k \in DOMAIN body BY <1>1, <1>7
<1>10. /\ e \in (k + 1) .. close
       /\ \/ e = close /\ \A i \in k .. close : ~(body[i].op = "else" /\ CloseOf(body, i) = close)
          \/ /\ body[e].op = "else" /\ CloseOf(body, e) = close
             /\ \A i \in k .. close : body[i].op = "else" /\ CloseOf(body, i) = close => e <= i
  <2>1. LET cl == CloseOf(prog[c].body, k)
            x == OrElseOf(prog[c].body, k)
        IN  /\ x \in (k + 1) .. cl
            /\ \/ x = cl /\ \A i \in k .. cl : ~(prog[c].body[i].op = "else" /\ CloseOf(prog[c].body, i) = cl)
               \/ /\ prog[c].body[x].op = "else" /\ CloseOf(prog[c].body, x) = cl
                  /\ \A i \in k .. cl : prog[c].body[i].op = "else" /\ CloseOf(prog[c].body, i) = cl => x <= i
    <3>. HIDE DEF k
    <3>. QED BY <1>1, <1>9, OrElseFound
  <2>. QED BY <1>8, <2>1
<1>. HIDE DEF k, e
<1>11. n + 1 \in k .. close BY <1>1, <1>4, <1>7
<1>12. body[e].op = "else" /\ CloseOf(body, e) = close /\ e <= n + 1 BY <1>10, <1>11
<1>13. ASSUME e < n + 1 PROVE FALSE
  <2>1. e \in k .. n /\ e \in DOMAIN body /\ e \in Nat BY <1>1, <1>4, <1>7, <1>10, <1>13
  <2>2. Closes(body, e, close)
    <3>1. LET j == CloseOf(prog[c].body, e)
          IN  /\ j \in (e + 1) .. Len(prog[c].body) /\ Closes(prog[c].body, e, j)
              /\ \A i \in (e + 1) .. (j - 1) : ~Closes(prog[c].body, e, i)
      BY <1>12, <2>1, CloseFound
    <3>. QED BY <1>12, <3>1
  <2>3. Depth(body, e) = l BY <1>2, <1>3, <1>4, <2>1, <2>2, <1>7 DEF Closes
  <2>4. ~(body[e].op = "else" /\ Depth(body, e) = l) BY <1>1, <2>1 DEF Opens, k
  <2>. QED BY <1>12, <2>3, <2>4
<1>14. e = n + 1 BY <1>1, <1>4, <1>7, <1>10, <1>12, <1>13
<1>. QED BY <1>8, <1>14 DEF k, e

\* The end of the innermost if.
LEMMA EndIfCloses ==
  ASSUME prog \in Programs, NEW c \in DOMAIN prog, NEW n \in Nat, n + 1 \in DOMAIN prog[c].body,
         NEW o \in Seq(OpenIf), o # <<>>, NEW J, Opens(prog[c].body, n, o, J),
         prog[c].body[n + 1].op = "endif"
  PROVE  /\ CloseOf(prog[c].body, J[Len(o)]) = n + 1
         /\ o[Len(o)].within = "then" => OrElseOf(prog[c].body, J[Len(o)]) = n + 1
<1>. DEFINE body == prog[c].body
            l == Len(o)
            k == J[l]
            e == OrElseOf(body, k)
<1>0. body \in Seq(Item)
  <2>1. prog \in Seq(Decl) BY ProgramsAssumption DEF ProgramsAssumption
  <2>. QED BY <2>1, BodyItems
<1>1. /\ l \in DOMAIN o /\ k \in 1 .. n /\ body[k].op = "if" /\ Depth(body, k) = l
      /\ l \in Nat /\ Depth(body, n) = l
      /\ \A i \in (k + 1) .. n : ~Closes(body, k, i)
  BY InnermostStays
<1>2. \A j \in Nat : Depth(body, j) \in Int BY NestingStep
<1>3. Depth(body, n + 1) = l - 1 BY <1>1, NestingStep
<1>4. Closes(body, k, n + 1) BY <1>1, <1>3 DEF Closes
<1>7. Len(body) \in Nat /\ DOMAIN body = 1 .. Len(body) BY <1>0, LenProperties
<1>8. CloseOf(body, k) = n + 1
  <2>1. n + 1 \in (k + 1) .. Len(body) /\ k \in Nat BY <1>1, <1>7
  <2>2. \A i \in (k + 1) .. ((n + 1) - 1) : ~Closes(body, k, i) BY <1>1
  <2>. HIDE DEF body, k
  <2>. QED BY <1>0, <1>4, <2>1, <2>2, CloseIs
<1>9. k \in DOMAIN body BY <1>1, <1>7
<1>10. /\ e \in (k + 1) .. n + 1
       /\ e = n + 1 \/ (body[e].op = "else" /\ CloseOf(body, e) = n + 1)
  <2>1. LET cl == CloseOf(prog[c].body, k)
            x == OrElseOf(prog[c].body, k)
        IN  /\ x \in (k + 1) .. cl
            /\ \/ x = cl /\ \A i \in k .. cl : ~(prog[c].body[i].op = "else" /\ CloseOf(prog[c].body, i) = cl)
               \/ /\ prog[c].body[x].op = "else" /\ CloseOf(prog[c].body, x) = cl
                  /\ \A i \in k .. cl : prog[c].body[i].op = "else" /\ CloseOf(prog[c].body, i) = cl => x <= i
    <3>. HIDE DEF k
    <3>. QED BY <1>1, <1>9, OrElseFound
  <2>. QED BY <1>8, <2>1
<1>. HIDE DEF k, e
<1>13. ASSUME o[l].within = "then", e # n + 1 PROVE FALSE
  <2>1. e \in k .. n /\ e \in DOMAIN body /\ e \in Nat BY <1>1, <1>7, <1>10, <1>13
  <2>0. body[e].op = "else" /\ CloseOf(body, e) = n + 1 BY <1>10, <1>13
  <2>2. Closes(body, e, n + 1)
    <3>1. LET j == CloseOf(prog[c].body, e)
          IN  /\ j \in (e + 1) .. Len(prog[c].body) /\ Closes(prog[c].body, e, j)
              /\ \A i \in (e + 1) .. (j - 1) : ~Closes(prog[c].body, e, i)
      BY <2>0, <2>1, CloseFound
    <3>. QED BY <2>0, <3>1
  <2>3. Depth(body, e) = l BY <1>2, <1>3, <2>1, <2>2, <1>1 DEF Closes
  <2>4. ~(body[e].op = "else" /\ Depth(body, e) = l) BY <1>1, <1>13, <2>1 DEF Opens, k
  <2>. QED BY <2>0, <2>3, <2>4
<1>. QED BY <1>8, <1>13 DEF k, e

\* A loop is skipped: its items are inside the blocks open before it.
LEMMA OpensLoop ==
  ASSUME prog \in Programs, NEW c \in DOMAIN prog, NEW n \in Nat, n + 1 \in DOMAIN prog[c].body,
         NEW o \in Seq(OpenIf), NEW J, Opens(prog[c].body, n, o, J), prog[c].body[n + 1].op = "for"
  PROVE  Opens(prog[c].body, CloseOf(prog[c].body, n + 1), o, J)
<1>. DEFINE body == prog[c].body
            l == Len(o)
            p == CloseOf(body, n + 1)
<1>0. body \in Seq(Item)
  <2>1. prog \in Seq(Decl) BY ProgramsAssumption DEF ProgramsAssumption
  <2>. QED BY <2>1, BodyItems
<1>1. l \in Nat /\ Depth(body, n) = l BY LenProperties DEF Opens
<1>2. \A j \in Nat : Depth(body, j) \in Int BY NestingStep
<1>3. Depth(body, n + 1) = l + 1 BY <1>1, NestingStep
<1>4. /\ p \in ((n + 1) + 1) .. Len(body) /\ Closes(body, n + 1, p)
      /\ \A i \in ((n + 1) + 1) .. (p - 1) : ~Closes(body, n + 1, i)
  BY CloseFound
<1>5. Len(body) \in Nat BY <1>0, LenProperties
<1>6. p \in Nat /\ p > n + 1 BY <1>4, <1>5
<1>7. Depth(body, p) = l /\ body[p].op \in {"endif", "endfor"}
  <2>1. PICK b, q, d : b = body /\ q = p /\ d = l OBVIOUS
  <2>2. Closes(b, n + 1, q) BY <1>4, <2>1
  <2>3. Depth(b, n + 1) = d + 1 /\ d \in Nat BY <1>1, <1>3, <2>1
  <2>4. Depth(b, q) \in Int BY <1>2, <1>6, <2>1
  <2>5. Depth(b, q) = d /\ b[q].op \in {"endif", "endfor"} BY ONLY <2>2, <2>3, <2>4 DEF Closes
  <2>. QED BY <2>1, <2>5
<1>8. \A j \in (n + 1) .. (p - 1) : Depth(body, j) >= l + 1
  <2>1. \A j \in (n + 1) .. (p - 1) : Depth(body, j) >= Depth(body, n + 1)
    <3>. HIDE DEF body, p
    <3>. QED BY <1>4, <1>6, StaysIn
  <2>. QED BY <1>3, <2>1
<1>. HIDE DEF body, l, p
<1>9. ASSUME NEW j \in (n + 1) .. p
      PROVE  Depth(body, j) >= l /\ ~(body[j].op = "else" /\ Depth(body, j) = l)
  <2>1. j = p \/ j \in (n + 1) .. (p - 1) BY <1>6
  <2>2. CASE j = p BY <1>1, <1>7, <2>2
  <2>3. CASE j \in (n + 1) .. (p - 1)
    <3>1. Depth(body, j) >= l + 1 /\ Depth(body, j) \in Int BY <1>2, <1>8, <2>3
    <3>. QED BY <1>1, <3>1
  <2>. QED BY <2>1, <2>2, <2>3
<1>10. p >= n /\ Depth(body, p) = Depth(body, n) BY <1>1, <1>6, <1>7
<1>11. Opens(body, n, o, J) BY DEF body
<1>12. Opens(body, p, o, J) BY <1>6, <1>9, <1>10, <1>11, OpensOn DEF l
<1>. QED BY <1>12 DEF body, p

-----------------------------------------------------------------------------
(* What the paths of a function under construction are going to be.         *)

\* The blocks the open ifs wait for have the paths the source has behind them: F
\* gives those from each item of the body, and J the item of each if.
Awaits(P, body, o, J, F) ==
  \A m \in DOMAIN o :
    /\ P[o[m].merge] = F[CloseOf(body, J[m]) + 1]
    /\ o[m].within = "then" => P[o[m].orelse] = F[OrElseOf(body, J[m]) + 1]
\* If the paths K go on from the insertion point of g, those from its entry block are
\* those of the source; unless g is spoilt.
Homeward(g, K, body, o, J, F) ==
  \/ Spoilt(g)
  \/ \A P : Solves(g.blocks, P) /\ P[g.cur] = Behind(Said(g), K) /\ Awaits(P, body, o, J, F)
              => P[1] = F[1]

\* What leads on keeps that.
LEMMA HomeLeads ==
  ASSUME NEW g, Live(g), NEW h, NEW R, NEW K \in SUBSET Trails, Leads(g, h, R),
         NEW body, NEW o, NEW J, NEW F, Homeward(g, After(R, K), body, o, J, F)
  PROVE  Homeward(h, K, body, o, J, F)
<1>1. Spoilt(g) => Spoilt(h) BY DEF Leads
<1>. SUFFICES ASSUME ~Spoilt(h), NEW P, Solves(h.blocks, P), P[h.cur] = Behind(Said(h), K),
                     Awaits(P, body, o, J, F)
              PROVE  P[1] = F[1]
  BY DEF Homeward
<1>2. P[g.cur] = Behind(Said(g), After(R, K)) BY DEF Leads
<1>3. Solves(g.blocks, P)
  <2>1. /\ DOMAIN g.blocks \subseteq DOMAIN h.blocks
        /\ \A b \in DOMAIN g.blocks : b # g.cur => h.blocks[b] = g.blocks[b]
    BY DEF Leads
  <2>. QED BY <2>1, SolvesBefore
<1>. QED BY <1>1, <1>2, <1>3 DEF Homeward

\* So does what is said.
LEMMA HomeSays ==
  ASSUME NEW S \in SUBSET Instrs, NEW g, Sound(g, S), NEW h, NEW s \in Trails, Says(g, h, s),
         NEW K \in SUBSET Trails, NEW body, NEW o, NEW J, NEW F,
         Homeward(g, Behind(s, K), body, o, J, F)
  PROVE  Homeward(h, K, body, o, J, F)
<1>1. Leads(g, h, {Run(s, FALSE)}) BY SaysLeads DEF Sound
<1>2. After({Run(s, FALSE)}, K) = Behind(s, K) BY AfterOne
<1>. QED BY <1>1, <1>2, HomeLeads DEF Sound

\* What a binding and an assignment say, the store unless the value is null.
LEMMA StoreSays ==
  ASSUME NEW S \in SUBSET Instrs, Instr("bad", NoName, NoSlot) \in S, NEW v, Sound(v, S),
         NEW name, NEW slot, Instr("store", name, slot) \in S, NEW wrong
  PROVE  LET b == BadIf(v, wrong)
             h == Emit(b, "store", name, slot)
         IN  /\ Sound(b, S) /\ Says(v, b, <<>>) /\ Sound(h, S)
             /\ Says(v, h, <<Event("store", name, slot.decl, slot.at)>>)
             /\ <<Event("store", name, slot.decl, slot.at)>> \in Trails
             /\ slot.decl # gcur => Spoilt(h)
<1>. DEFINE b == BadIf(v, wrong)
            h == Emit(b, "store", name, slot)
            w == Instr("store", name, slot)
            s == <<Event("store", name, slot.decl, slot.at)>>
<1>1. Sound(b, S) /\ Says(v, b, <<>>) BY BadContinues, SaysEmit DEF Sound
<1>. HIDE DEF b
<1>2. Sound(h, S) BY <1>1, EmitContinues
<1>3. Says(b, h, EventIn(w)) /\ (Spoils(w) => Spoilt(h)) BY <1>1, SaysEmit DEF Sound
<1>4. EventIn(w) = s BY DEF EventIn, EventOf, Instr
<1>5. s \in Trails
  <2>1. w \in Instrs OBVIOUS
  <2>. QED BY <1>4, <2>1, EventInTyped
<1>6. Spoils(w) <=> slot.decl # gcur BY DEF Spoils, Instr
<1>. HIDE DEF h, w, s
<1>7. Says(v, h, s) BY <1>1, <1>3, <1>4, <1>5, SaysNothing DEF Sound
<1>. QED BY <1>1, <1>2, <1>3, <1>5, <1>6, <1>7 DEF b, h, s

\* The allocation of a slot says nothing.
LEMMA AllocSays ==
  ASSUME NEW S \in SUBSET Instrs, Instr("bad", NoName, NoSlot) \in S, NEW v, Sound(v, S),
         NEW name, NEW slot, Instr("alloca", name, slot) \in S, NEW wrong
  PROVE  LET h == BadIf(Emit(v, "alloca", name, slot), wrong)
         IN  Says(v, h, <<>>) /\ Sound(h, S)
<1>. DEFINE a == Emit(v, "alloca", name, slot)
            h == BadIf(a, wrong)
<1>1. EventIn(Instr("alloca", name, slot)) = <<>> BY DEF EventIn, Instr
<1>2. Says(v, a, <<>>) BY <1>1, SaysEmit DEF Sound
<1>3. Sound(a, S)
  <2>1. Kept(v, a) BY Small DEF Sound
  <2>2. Building(a, S) BY EmitTyped DEF Sound
  <2>. QED BY <2>1, <2>2 DEF Sound, Kept, Grown
<1>. HIDE DEF a
<1>4. Says(a, h, <<>>) /\ Sound(h, S) BY <1>3, BadContinues, SaysEmit DEF Sound
<1>5. <<>> \in Trails BY TrailsOfEvents
<1>. HIDE DEF h
<1>6. Says(v, h, <<>>) BY <1>2, <1>4, <1>5, SaysNothing DEF Sound
<1>. QED BY <1>4, <1>6 DEF h, a

\* From g to h the current block branched to block merge, and cur1 is current.
WentOn(g, h, merge, cur1) ==
  /\ h.cur = cur1 /\ Said(h) = <<>> /\ (Spoilt(h) <=> Spoilt(g))
  /\ DOMAIN h.blocks = DOMAIN g.blocks
  /\ \A b \in DOMAIN g.blocks : b # g.cur => h.blocks[b] = g.blocks[b]
  /\ \A P : Solves(h.blocks, P) => /\ Solves(g.blocks, P)
                                   /\ P[g.cur] = Behind(Said(g), P[merge])

\* A branch to a block that waits: the current block has the paths from there.
LEMMA GotoPaths ==
  ASSUME NEW S \in SUBSET Instrs, NEW g, Sound(g, S), NEW merge \in Others(g), NEW cur1 \in Others(g),
         g.blocks[cur1].code = <<>>
  PROVE  WentOn(g, Goto(g, merge, cur1), merge, cur1)
<1>. DEFINE b0 == [g.blocks[g.cur] EXCEPT !.term = "br", !.type = "void", !.succ = <<merge>>]
            h == Goto(g, merge, cur1)
<1>1. /\ DOMAIN g = {"blocks", "cur", "val", "unknown"} /\ IsList(g.blocks) /\ g.cur \in DOMAIN g.blocks
      /\ IsBlock(g.blocks[g.cur])
  BY DEF Sound, Live
<1>2. h.blocks = [g.blocks EXCEPT ![g.cur] = b0] /\ h.cur = cur1 /\ h.unknown = g.unknown
  BY <1>1 DEF Goto, End
<1>3. b0.term = "br" /\ b0.succ = <<merge>> /\ b0.code = g.blocks[g.cur].code BY <1>1 DEF IsBlock
<1>4. cur1 \in DOMAIN g.blocks /\ cur1 # g.cur /\ merge \in DOMAIN g.blocks BY DEF Others
<1>. HIDE DEF b0, h
<1>5. /\ DOMAIN h.blocks = DOMAIN g.blocks /\ h.blocks[g.cur] = b0
      /\ \A b \in DOMAIN g.blocks : b # g.cur => h.blocks[b] = g.blocks[b]
  BY <1>1, <1>2
<1>6. Said(h) = <<>>
  <2>1. h.blocks[h.cur].code = <<>> BY <1>2, <1>4, <1>5
  <2>. QED BY <2>1, EventsAre DEF Said
<1>7. Spoilt(h) <=> Spoilt(g)
  <2>1. \A b \in DOMAIN g.blocks : h.blocks[b].code = g.blocks[b].code BY <1>3, <1>5
  <2>. QED BY <1>2, <1>5, <2>1 DEF Spoilt
<1>8. EventsOf(h.blocks[g.cur]) = Said(g)
  <2>1. h.blocks[g.cur].code = g.blocks[g.cur].code BY <1>3, <1>5
  <2>. QED BY <2>1, EventsAre DEF Said
<1>9. Said(g) \in Trails BY SaidTyped DEF Sound
<1>10. ASSUME NEW P, Solves(h.blocks, P)
       PROVE  Solves(g.blocks, P) /\ P[g.cur] = Behind(Said(g), P[merge])
  <2>1. Solves(g.blocks, P) BY <1>5, <1>10, SolvesBefore DEF Sound
  <2>2. P \in [Nat -> SUBSET Trails] /\ P[g.cur] = PathsFrom(h.blocks, P, g.cur)
    BY <1>1, <1>3, <1>5, <1>10 DEF Solves
  <2>3. EventsOf(h.blocks[g.cur]) \in Trails /\ h.blocks[g.cur].term \in Terms
    BY <1>3, <1>5, <1>8, <1>9 DEF Terms
  <2>4. Shaped(h.blocks, P, g.cur) BY <2>2, <2>3, PathsShape
  <2>5. merge \in Nat BY <1>1, <1>4, ListLen
  <2>6. h.blocks[g.cur].term = "br" /\ h.blocks[g.cur].succ = <<merge>> BY <1>3, <1>5
  <2>7. PathsFrom(h.blocks, P, g.cur) = Behind(Said(g), P[merge])
    BY <1>8, <2>4, <2>5, <2>6 DEF Shaped
  <2>. QED BY <2>1, <2>2, <2>7
<1>. QED BY <1>2, <1>5, <1>6, <1>7, <1>10 DEF h, WentOn

\* An if: the paths from its branches go on from the insertion point of v.
IfSetUp(S, v, wrong, body, i, o, J, F, n, q, L, h) ==
  /\ S \in SUBSET Instrs /\ Instr("bad", NoName, NoSlot) \in S /\ Sound(v, S)
  /\ i \in Nat /\ o \in Seq(OpenIf)
  /\ F[i + 1] \in SUBSET Trails /\ F[OrElseOf(body, i) + 1] \in SUBSET Trails
  /\ Homeward(v, Behind(<<Mark("then")>>, F[i + 1])
                   \cup Behind(<<Mark("else")>>, F[OrElseOf(body, i) + 1]), body, o, J, F)
  /\ n = Len(v.blocks) /\ q = Append(o, [orelse |-> n + 2, merge |-> n + 3, within |-> "then"])
  /\ \A m \in DOMAIN q : L[m] = IF m = Len(o) + 1 THEN i ELSE J[m]
  /\ h = Fresh(End(BadIf(v, wrong), "if", "void", <<n + 1, n + 2>>), <<NewBlock, NewBlock, NewBlock>>, n + 1)

\* The three blocks of an if: the first goes on with what follows the if in the
\* source, and the others wait.
LEMMA IfHome ==
  ASSUME NEW S, NEW v, NEW wrong, NEW body, NEW i, NEW o, NEW J, NEW F, NEW n, NEW q, NEW L, NEW h,
         IfSetUp(S, v, wrong, body, i, o, J, F, n, q, L, h)
  PROVE  /\ Homeward(h, F[i + 1], body, q, L, F)
         /\ \A b \in DOMAIN v.blocks : b # v.cur => h.blocks[b] = v.blocks[b]
         /\ h.blocks[n + 2].code = <<>> /\ h.blocks[n + 3].code = <<>>
<1>. /\ S \in SUBSET Instrs /\ Instr("bad", NoName, NoSlot) \in S /\ Sound(v, S)
     /\ i \in Nat /\ o \in Seq(OpenIf)
     /\ F[i + 1] \in SUBSET Trails /\ F[OrElseOf(body, i) + 1] \in SUBSET Trails
     /\ Homeward(v, Behind(<<Mark("then")>>, F[i + 1])
                      \cup Behind(<<Mark("else")>>, F[OrElseOf(body, i) + 1]), body, o, J, F)
     /\ n = Len(v.blocks) /\ q = Append(o, [orelse |-> n + 2, merge |-> n + 3, within |-> "then"])
     /\ \A m \in DOMAIN q : L[m] = IF m = Len(o) + 1 THEN i ELSE J[m]
     /\ h = Fresh(End(BadIf(v, wrong), "if", "void", <<n + 1, n + 2>>), <<NewBlock, NewBlock, NewBlock>>, n + 1)
  BY DEF IfSetUp
<1>. DEFINE b == BadIf(v, wrong)
            new == <<NewBlock, NewBlock, NewBlock>>
            succ == <<n + 1, n + 2>>
            A == Behind(<<Mark("then")>>, F[i + 1])
            B == Behind(<<Mark("else")>>, F[OrElseOf(body, i) + 1])
            l == Len(o)
<1>0. h = Fresh(End(b, "if", "void", succ), new, n + 1) OBVIOUS
<1>1. Says(v, b, <<>>) /\ Sound(b, S) BY BadContinues, SaysEmit DEF Sound
<1>2. n \in Nat /\ Len(b.blocks) = n
  <2>1. Kept(v, b) BY Small DEF Sound
  <2>2. n \in Nat BY ListLen DEF Sound, Live
  <2>. QED BY <2>1, <2>2 DEF Kept
<1>3. /\ IsBlock(NewBlock) /\ NewBlock.succ = <<>> /\ NewBlock.term = "none" /\ NewBlock.code = <<>>
  BY DEF NewBlock, IsBlock
<1>4. /\ IsList(new) /\ DOMAIN new = 1 .. 3 /\ Len(new) = 3
      /\ \A j \in 1 .. 3 : new[j] = NewBlock
  <2>1. IsList(new) /\ Len(new) = 3 BY Lists
  <2>2. DOMAIN new = 1 .. 3 BY <2>1, ListLen
  <2>3. new[1] = NewBlock /\ new[2] = NewBlock /\ new[3] = NewBlock OBVIOUS
  <2>. QED BY <2>1, <2>2, <2>3
<1>5. \A j \in DOMAIN succ : succ[j] \in n + 1 .. n + 3 BY ONLY <1>2
<1>6. l \in Nat /\ DOMAIN o = 1 .. l BY LenProperties
<1>7. /\ DOMAIN q = 1 .. l + 1 /\ q[l + 1].orelse = n + 2 /\ q[l + 1].merge = n + 3
      /\ q[l + 1].within = "then" /\ \A m \in 1 .. l : q[m] = o[m]
  BY <1>6, AppendProperties
<1>8. A \in SUBSET Trails /\ B \in SUBSET Trails
  <2>1. <<Mark("then")>> \in Trails /\ <<Mark("else")>> \in Trails BY MarkTrails
  <2>. QED BY <2>1, BehindPaths
<1>. HIDE DEF b, new, succ, A, B, l
<1>9. Follows(b, "if", succ, new, 1)
  BY <1>1, <1>2, <1>3, <1>4, <1>5, SMTT(30) DEF Follows, Sound
<1>10. \A j \in DOMAIN new : new[j].code = <<>> BY <1>3, <1>4
<1>11. EndsAs(b, h, "if", succ, new, 1)
  <2>1. EndsAs(b, Fresh(End(b, "if", "void", succ), new, Len(b.blocks) + 1), "if", succ, new, 1)
    BY <1>1, <1>9, <1>10, EndSays DEF Sound
  <2>. QED BY <1>0, <1>2, <2>1
<1>12. /\ DOMAIN b.blocks \subseteq DOMAIN h.blocks /\ h.cur \notin DOMAIN b.blocks
       /\ h.cur = n + 1 /\ h.unknown = b.unknown /\ b.cur \in DOMAIN h.blocks
       /\ \A j \in DOMAIN b.blocks : j # b.cur => h.blocks[j] = b.blocks[j]
       /\ h.blocks[n + 2] = NewBlock /\ h.blocks[n + 3] = NewBlock
       /\ h.blocks[b.cur].term = "if" /\ h.blocks[b.cur].succ = succ
       /\ EventsOf(h.blocks[b.cur]) = Said(b) /\ Said(h) = <<>>
       /\ Spoilt(h) <=> Spoilt(b)
  <2>1. h.blocks[n + 2] = NewBlock /\ h.blocks[n + 3] = NewBlock
    <3>1. \A j \in DOMAIN new : h.blocks[n + j] = new[j] BY <1>2, <1>11 DEF EndsAs
    <3>2. 2 \in DOMAIN new /\ 3 \in DOMAIN new /\ new[2] = NewBlock /\ new[3] = NewBlock BY <1>4
    <3>. QED BY <3>1, <3>2
  <2>. QED BY <1>2, <1>11, <2>1 DEF EndsAs
<1>13. Homeward(b, A \cup B, body, o, J, F)
  <2>1. <<>> \in Trails /\ Behind(<<>>, A \cup B) = A \cup B BY <1>8, BehindPaths, TrailsOfEvents
  <2>2. Homeward(v, Behind(<<>>, A \cup B), body, o, J, F) BY <2>1 DEF A, B
  <2>. QED BY <1>1, <1>8, <2>1, <2>2, HomeSays
<1>14. ASSUME ~Spoilt(h), NEW P, Solves(h.blocks, P), P[h.cur] = Behind(Said(h), F[i + 1]),
              Awaits(P, body, q, L, F)
       PROVE  P[1] = F[1]
  <2>1. P[n + 1] = F[i + 1] BY <1>12, <1>14, BehindPaths, TrailsOfEvents
  <2>2. P[n + 2] = F[OrElseOf(body, i) + 1]
    <3>1. l + 1 \in DOMAIN q BY <1>6, <1>7
    <3>2. L[l + 1] = i BY <3>1 DEF l
    <3>. QED BY <1>7, <1>14, <3>1, <3>2 DEF Awaits
  <2>3. Awaits(P, body, o, J, F)
    <3>. SUFFICES ASSUME NEW m \in DOMAIN o
                  PROVE  /\ P[o[m].merge] = F[CloseOf(body, J[m]) + 1]
                         /\ o[m].within = "then" => P[o[m].orelse] = F[OrElseOf(body, J[m]) + 1]
      BY DEF Awaits
    <3>0. m \in Nat /\ m # l + 1 BY <1>6
    <3>1. m \in DOMAIN q /\ q[m] = o[m] BY <1>6, <1>7
    <3>2. L[m] = J[m] BY <3>0, <3>1 DEF l
    <3>. QED BY <1>14, <3>1, <3>2 DEF Awaits
  <2>4. P \in [Nat -> SUBSET Trails] /\ P[b.cur] = PathsFrom(h.blocks, P, b.cur)
    BY <1>12, <1>14 DEF Solves
  <2>5. P[b.cur] = Behind(Said(b), A \cup B)
    <3>1. Said(b) \in Trails BY <1>1, SaidTyped DEF Sound
    <3>2. EventsOf(h.blocks[b.cur]) \in Trails /\ h.blocks[b.cur].term \in Terms
      BY <1>12, <3>1 DEF Terms
    <3>3. Shaped(h.blocks, P, b.cur) BY <2>4, <3>2, PathsShape
    <3>4. h.blocks[b.cur].term = "if" /\ n + 1 \in Nat /\ n + 2 \in Nat /\ h.blocks[b.cur].succ = <<n + 1, n + 2>>
      <4>1. succ = <<n + 1, n + 2>> BY DEF succ
      <4>2. n + 1 \in Nat /\ n + 2 \in Nat BY <1>2
      <4>. QED BY <1>12, <4>1, <4>2, Zenon
    <3>5. PathsFrom(h.blocks, P, b.cur)
            = Behind(Said(b), Behind(ArmOf("if", 1), P[n + 1]) \cup Behind(ArmOf("if", 2), P[n + 2]))
      <4>1. \A a, c \in Nat : h.blocks[b.cur].succ = <<a, c>> =>
              PathsFrom(h.blocks, P, b.cur)
                = Behind(Said(b), Behind(ArmOf("if", 1), P[a]) \cup Behind(ArmOf("if", 2), P[c]))
        <5>1. EventsOf(h.blocks[b.cur]) = Said(b) /\ h.blocks[b.cur].term = "if" BY <1>12
        <5>. QED BY ONLY <5>1, <3>3 DEF Shaped
      <4>. QED BY ONLY <3>4, <4>1, Zenon
    <3>6. ArmOf("if", 1) = <<Mark("then")>> /\ ArmOf("if", 2) = <<Mark("else")>> BY DEF ArmOf
    <3>. QED BY <2>1, <2>2, <2>4, <3>5, <3>6 DEF A, B
  <2>6. Solves(b.blocks, P)
    <3>1. /\ DOMAIN b.blocks \subseteq DOMAIN h.blocks
          /\ \A j \in DOMAIN b.blocks : j # b.cur => h.blocks[j] = b.blocks[j]
      BY <1>12
    <3>2. Live(b) /\ Solves(h.blocks, P) BY <1>1, <1>14 DEF Sound
    <3>. QED BY ONLY <3>1, <3>2, SolvesBefore, Zenon
  <2>. QED BY <1>12, <1>13, <1>14, <2>3, <2>5, <2>6 DEF Homeward
<1>15. Homeward(h, F[i + 1], body, q, L, F) BY <1>14 DEF Homeward
<1>16. \A j \in DOMAIN v.blocks : j # v.cur => h.blocks[j] = v.blocks[j]
  <2>1. /\ b.cur = v.cur /\ DOMAIN b.blocks = DOMAIN v.blocks
        /\ \A j \in DOMAIN v.blocks : j # v.cur => b.blocks[j] = v.blocks[j]
    BY <1>1 DEF Says
  <2>. QED BY <1>12, <2>1
<1>. QED BY <1>3, <1>12, <1>15, <1>16

\* The else branch of the innermost if.
LEMMA ElseHome ==
  ASSUME NEW S \in SUBSET Instrs, NEW g, Sound(g, S), NEW body,
         NEW o \in Seq(OpenIf), o # <<>>, NEW J, NEW F,
         NEW l, l = Len(o), NEW merge, merge = o[l].merge, NEW orelse, orelse = o[l].orelse,
         merge \in Others(g), orelse \in Others(g), g.blocks[orelse].code = <<>>,
         Homeward(g, F[CloseOf(body, J[l]) + 1], body, o, J, F),
         F[OrElseOf(body, J[l]) + 1] \in SUBSET Trails,
         NEW q, q = [o EXCEPT ![l].within = "else"]
  PROVE  Homeward(Goto(g, merge, orelse), F[OrElseOf(body, J[l]) + 1], body, q, J, F)
<1>. DEFINE h == Goto(g, merge, orelse)
            K == F[OrElseOf(body, J[l]) + 1]
<1>1. /\ h.cur = orelse /\ Said(h) = <<>> /\ (Spoilt(h) <=> Spoilt(g))
      /\ \A P : Solves(h.blocks, P) => Solves(g.blocks, P) /\ P[g.cur] = Behind(Said(g), P[merge])
  <2>1. WentOn(g, h, merge, orelse) BY GotoPaths
  <2>. HIDE DEF h
  <2>. QED BY <2>1 DEF WentOn
<1>2. l \in DOMAIN o /\ o[l] \in OpenIf
  <2>1. l \in Nat \ {0} /\ DOMAIN o = 1 .. l BY LenProperties, EmptySeq
  <2>2. l \in 1 .. l BY <2>1
  <2>. QED BY <2>1, <2>2, ElementOfSeq
<1>3. /\ DOMAIN q = DOMAIN o /\ q[l].merge = merge
      /\ \A m \in DOMAIN o : m # l => q[m] = o[m]
  BY <1>2 DEF OpenIf
<1>. HIDE DEF h, K
<1>. SUFFICES Homeward(h, K, body, q, J, F) BY DEF h, K
<1>. SUFFICES ASSUME ~Spoilt(h), NEW P, Solves(h.blocks, P), P[h.cur] = Behind(Said(h), K),
                     Awaits(P, body, q, J, F)
              PROVE  P[1] = F[1]
  BY DEF Homeward
<1>4. P[orelse] = K
  <2>1. K \in SUBSET Trails /\ <<>> \in Trails BY TrailsOfEvents DEF K
  <2>. QED BY <1>1, <2>1, BehindPaths
<1>5. P[merge] = F[CloseOf(body, J[l]) + 1] BY <1>2, <1>3 DEF Awaits
<1>6. Awaits(P, body, o, J, F)
  <2>. SUFFICES ASSUME NEW m \in DOMAIN o
                PROVE  /\ P[o[m].merge] = F[CloseOf(body, J[m]) + 1]
                       /\ o[m].within = "then" => P[o[m].orelse] = F[OrElseOf(body, J[m]) + 1]
    BY DEF Awaits
  <2>1. CASE m = l BY <1>4, <1>5, <2>1 DEF K
  <2>2. CASE m # l
    <3>1. m \in DOMAIN q /\ q[m] = o[m] BY <1>3, <2>2
    <3>. QED BY <3>1 DEF Awaits
  <2>. QED BY <2>1, <2>2
<1>7. Solves(g.blocks, P) /\ P[g.cur] = Behind(Said(g), P[merge]) BY <1>1
<1>. QED BY <1>1, <1>5, <1>6, <1>7 DEF Homeward

\* The end of an if: its innermost one is l, e has what an else branch that was not
\* written leaves.
EndIfSetUp(S, g, body, o, J, F, l, merge, orelse, q, L, e) ==
  /\ S \in SUBSET Instrs /\ Sound(g, S) /\ o \in Seq(OpenIf) /\ o # <<>>
  /\ l = Len(o) /\ merge = o[l].merge /\ orelse = o[l].orelse
  /\ merge \in Others(g) /\ g.blocks[merge].code = <<>> /\ merge # 1
  /\ o[l].within = "then" => /\ orelse \in Others(g) /\ g.blocks[orelse].code = <<>> /\ orelse # merge
                             /\ OrElseOf(body, J[l]) = CloseOf(body, J[l])
  /\ Homeward(g, F[CloseOf(body, J[l]) + 1], body, o, J, F)
  /\ F[CloseOf(body, J[l]) + 1] \in SUBSET Trails
  /\ q = SubSeq(o, 1, l - 1) /\ \A m \in DOMAIN q : L[m] = J[m]
  /\ e = IF o[l].within = "then" THEN Goto(g, merge, orelse) ELSE g

\* The end of the innermost if: what follows is what its branches go on with.
LEMMA EndIfHome ==
  ASSUME NEW S, NEW g, NEW body, NEW o, NEW J, NEW F, NEW l, NEW merge, NEW orelse, NEW q, NEW L, NEW e,
         EndIfSetUp(S, g, body, o, J, F, l, merge, orelse, q, L, e)
  PROVE  Homeward(Goto(e, merge, merge), F[CloseOf(body, J[l]) + 1], body, q, L, F)
<1>. /\ S \in SUBSET Instrs /\ Sound(g, S) /\ o \in Seq(OpenIf) /\ o # <<>>
     /\ l = Len(o) /\ merge = o[l].merge /\ orelse = o[l].orelse
     /\ merge \in Others(g) /\ g.blocks[merge].code = <<>> /\ merge # 1
     /\ o[l].within = "then" => /\ orelse \in Others(g) /\ g.blocks[orelse].code = <<>> /\ orelse # merge
                                /\ OrElseOf(body, J[l]) = CloseOf(body, J[l])
     /\ Homeward(g, F[CloseOf(body, J[l]) + 1], body, o, J, F)
     /\ F[CloseOf(body, J[l]) + 1] \in SUBSET Trails
     /\ q = SubSeq(o, 1, l - 1) /\ \A m \in DOMAIN q : L[m] = J[m]
     /\ e = IF o[l].within = "then" THEN Goto(g, merge, orelse) ELSE g
  BY DEF EndIfSetUp
<1>. DEFINE h == Goto(e, merge, merge)
            K == F[CloseOf(body, J[l]) + 1]
<1>1. l \in DOMAIN o /\ o[l] \in OpenIf
  <2>1. l \in Nat \ {0} /\ DOMAIN o = 1 .. l BY LenProperties, EmptySeq
  <2>2. l \in 1 .. l BY <2>1
  <2>. QED BY <2>1, <2>2, ElementOfSeq
<1>2. /\ DOMAIN q = 1 .. l - 1 /\ \A m \in 1 .. l - 1 : q[m] = o[m]
      /\ DOMAIN o = 1 .. l /\ l \in Nat \ {0}
  <2>1. l \in Nat \ {0} /\ DOMAIN o = 1 .. l BY LenProperties, EmptySeq
  <2>. QED BY <2>1, SubSeqProperties
<1>3. K \in SUBSET Trails /\ <<>> \in Trails BY TrailsOfEvents
<1>. HIDE DEF h, K
<1>4. /\ h.cur = merge /\ Said(h) = <<>> /\ (Spoilt(h) <=> Spoilt(g))
      /\ \A P : Solves(h.blocks, P) =>
           /\ Solves(g.blocks, P) /\ P[g.cur] = Behind(Said(g), P[merge])
           /\ o[l].within = "then" => P[orelse] = Behind(<<>>, P[merge])
  <2>1. CASE o[l].within # "then"
    <3>1. e = g BY <2>1
    <3>2. WentOn(g, h, merge, merge) BY <3>1, GotoPaths DEF h
    <3>. QED BY <2>1, <3>2 DEF WentOn
  <2>2. CASE o[l].within = "then"
    <3>1. e = Goto(g, merge, orelse) BY <2>2
    <3>2. WentOn(g, e, merge, orelse) BY <2>2, <3>1, GotoPaths
    <3>3. Live(e) /\ Others(e) = Others(g) \ {orelse}
      BY <2>2, <3>1, Went DEF Sound
    <3>4. Building(e, S)
      <4>1. Building(End(g, "br", "void", <<merge>>), S)
        <5>1. "br" \in Terms /\ "void" \in LlvmTypes BY DEF Terms, LlvmTypes
        <5>2. merge \in Nat /\ <<merge>> \in Seq(Nat) BY <1>1 DEF OpenIf
        <5>. QED BY <5>1, <5>2, EndTyped DEF Sound
      <4>2. DOMAIN End(g, "br", "void", <<merge>>) = {"blocks", "cur", "val", "unknown"}
        BY DEF Sound, Live, End
      <4>3. orelse \in DOMAIN e.blocks
        <5>1. e.cur \in DOMAIN e.blocks BY <3>3 DEF Live
        <5>. QED BY <3>2, <5>1, SMTT(30) DEF WentOn
      <4>. DEFINE d == End(g, "br", "void", <<merge>>)
      <4>4. e = [d EXCEPT !.cur = orelse] BY <3>1 DEF Goto
      <4>5. orelse \in Nat BY <1>1 DEF OpenIf
      <4>. HIDE DEF d
      <4>6. /\ DOMAIN e = DOMAIN d /\ e.blocks = d.blocks /\ e.cur = orelse /\ e.val = d.val
            /\ e.unknown = d.unknown
        BY <4>2, <4>4 DEF d
      <4>7. d \in FnOf(S) BY <4>1 DEF Building, d
      <4>8. e \in FnOf(S)
        <5>1. e = [d EXCEPT !.cur = orelse] BY <4>4
        <5>. QED BY ONLY <5>1, <4>5, <4>7 DEF FnOf
      <4>. QED BY <4>3, <4>8, <3>2 DEF Building, WentOn
    <3>5. merge \in Others(e) /\ e.blocks[merge].code = <<>>
      <4>1. merge \in DOMAIN g.blocks /\ merge # g.cur BY DEF Others
      <4>. QED BY <2>2, <3>2, <3>3, <4>1 DEF WentOn
    <3>6. WentOn(e, h, merge, merge) BY <3>3, <3>4, <3>5, GotoPaths DEF Sound, h
    <3>. QED BY <2>2, <3>2, <3>6 DEF WentOn
  <2>. QED BY <2>1, <2>2
<1>. SUFFICES Homeward(h, K, body, q, L, F) BY DEF h, K
<1>. SUFFICES ASSUME ~Spoilt(h), NEW P, Solves(h.blocks, P), P[h.cur] = Behind(Said(h), K),
                     Awaits(P, body, q, L, F)
              PROVE  P[1] = F[1]
  BY DEF Homeward
<1>5. P[merge] = K BY <1>3, <1>4, BehindPaths
<1>6. o[l].within = "then" => P[orelse] = K BY <1>3, <1>4, <1>5, BehindPaths
<1>7. Awaits(P, body, o, J, F)
  <2>. SUFFICES ASSUME NEW m \in DOMAIN o
                PROVE  /\ P[o[m].merge] = F[CloseOf(body, J[m]) + 1]
                       /\ o[m].within = "then" => P[o[m].orelse] = F[OrElseOf(body, J[m]) + 1]
    BY DEF Awaits
  <2>1. CASE m = l BY <1>5, <1>6, <2>1 DEF K
  <2>2. CASE m # l
    <3>1. m \in DOMAIN q /\ q[m] = o[m] /\ L[m] = J[m] BY <1>2, <2>2
    <3>. QED BY <3>1 DEF Awaits
  <2>. QED BY <2>1, <2>2
<1>8. Solves(g.blocks, P) /\ P[g.cur] = Behind(Said(g), P[merge]) BY <1>4
<1>. QED BY <1>4, <1>5, <1>7, <1>8 DEF Homeward, K

-----------------------------------------------------------------------------
(* The paths of the source, and what values_ has of its definitions.        *)

\* The paths of the source depend on the program alone, which is fixed.
LEMMA SourceStable ==
  ASSUME prog' = prog
  PROVE  /\ \A c, i, f : PathsAt(c, Unmapped, i, f)' = PathsAt(c, Unmapped, i, f)
         /\ \A c : SourcePaths(c, Unmapped)' = SourcePaths(c, Unmapped)
<1>1. \A c, i, f : PathsAt(c, Unmapped, i, f)' = PathsAt(c, Unmapped, i, f)
  BY DEF PathsAt, ExprRuns, OperandRuns, AtomRuns, Reads
<1>2. \A c : SourcePaths(c, Unmapped)' = SourcePaths(c, Unmapped)
  BY DEF SourcePaths, PathsAt, ExprRuns, OperandRuns, AtomRuns, Reads
<1>. QED BY <1>1, <1>2

\* F are the paths of declaration c from each of its items.
IsSource(F, c) ==
  /\ F \in [1 .. Len(prog[c].body) + 1 -> SUBSET Trails]
  /\ SourcePaths(c, Unmapped) = F[1]
  /\ \A i \in 1 .. Len(prog[c].body) + 1 : F[i] = PathsAt(c, Unmapped, i, F)

\* v has for each name the definition in scope at item j of declaration c, which is
\* d, or a slot of a declaration before.
Slotted(v, d, c, j) ==
  \A x \in Vars :
    IF Definitions(d, x, j) = {} THEN v[x].decl < c
    ELSE v[x].decl = c /\ v[x].at = Resolve(d, x, j)

\* An item that is no loop hides nothing, and what it binds is the latest.
LEMMA PlainDefinitions ==
  ASSUME NEW d, NEW n \in Nat, d.body[n + 1].op \notin {"for", "endfor"}, NEW x
  PROVE  /\ ~Defines(d, n + 1, x) => Definitions(d, x, n + 2) = Definitions(d, x, n + 1)
         /\ Defines(d, n + 1, x) => /\ Definitions(d, x, n + 2) # {}
                                    /\ Resolve(d, x, n + 2) = n + 1
<1>. DEFINE old == Definitions(d, x, n + 1)
            new == Definitions(d, x, n + 2)
<1>1. new = {i \in old : ForDepth(d.body, n + 1) >= ForDepth(d.body, i)}
              \cup {i \in {n + 1} : Defines(d, i, x)}
  BY DefinitionsStep
<1>2. ForDepth(d.body, n + 1) = ForDepth(d.body, n) BY DepthStep
<1>3. \A i \in old : i \in 0 .. n /\ ForDepth(d.body, n) >= ForDepth(d.body, i)
  <2>. SUFFICES ASSUME NEW i \in old PROVE i \in 0 .. n /\ ForDepth(d.body, n) >= ForDepth(d.body, i)
    OBVIOUS
  <2>1. i \in 0 .. n /\ \A k \in i .. n : ForDepth(d.body, k) >= ForDepth(d.body, i) BY InScope
  <2>2. n \in i .. n BY <2>1
  <2>. QED BY <2>1, <2>2
<1>4. Resolve(d, x, n + 2) = MaxOf(new) BY DEF Resolve
<1>. HIDE DEF old, new
<1>5. new = old \cup {i \in {n + 1} : Defines(d, i, x)} BY <1>1, <1>2, <1>3
<1>6. ASSUME Defines(d, n + 1, x) PROVE new # {} /\ MaxOf(new) = n + 1
  <2>1. n + 1 \in new /\ new \in SUBSET (0 .. n + 1) /\ \A k \in new : k <= n + 1
    BY <1>3, <1>5, <1>6
  <2>2. n + 1 \in Nat OBVIOUS
  <2>3. MaxOf(new) = n + 1 BY ONLY <2>1, <2>2, MaxOfIs
  <2>. QED BY <2>1, <2>3
<1>. QED BY <1>4, <1>5, <1>6 DEF old, new

\* So the slots stay, and that of a binding is the new one.
LEMMA SlotsStay ==
  ASSUME NEW d, NEW n \in Nat, NEW c, NEW v, Slotted(v, d, c, n + 1),
         d.body[n + 1].op \notin {"let", "mut", "for", "endfor"}
  PROVE  Slotted(v, d, c, n + 2)
<1>1. \A x : ~Defines(d, n + 1, x) BY DEF Defines
<1>2. \A x : Definitions(d, x, n + 2) = Definitions(d, x, n + 1) BY <1>1, PlainDefinitions
<1>. QED BY <1>2 DEF Slotted, Resolve

\* The binding of item n + 1.
LEMMA SlotBound ==
  ASSUME NEW d, NEW n \in Nat, NEW c, NEW v, Slotted(v, d, c, n + 1), v \in [Vars -> Slot],
         d.body[n + 1].op \in {"let", "mut"}, NEW w, NEW slot, slot.decl = c, slot.at = n + 1,
         w = [v EXCEPT ![d.body[n + 1].name] = slot]
  PROVE  Slotted(w, d, c, n + 2)
<1>. SUFFICES ASSUME NEW x \in Vars
              PROVE  IF Definitions(d, x, n + 2) = {} THEN w[x].decl < c
                     ELSE w[x].decl = c /\ w[x].at = Resolve(d, x, n + 2)
  BY DEF Slotted
<1>1. CASE x = d.body[n + 1].name
  <2>1. Defines(d, n + 1, x) BY <1>1 DEF Defines
  <2>2. Definitions(d, x, n + 2) # {} /\ Resolve(d, x, n + 2) = n + 1 BY <2>1, PlainDefinitions
  <2>3. w[x] = slot BY <1>1
  <2>. QED BY <2>2, <2>3
<1>2. CASE x # d.body[n + 1].name
  <2>1. ~Defines(d, n + 1, x) BY <1>2 DEF Defines
  <2>2. Definitions(d, x, n + 2) = Definitions(d, x, n + 1) BY <2>1, PlainDefinitions
  <2>3. w[x] = v[x] BY <1>2
  <2>. QED BY <2>2, <2>3 DEF Slotted, Resolve
<1>. QED BY <1>1, <1>2

\* The slots of a function are not those of the next.
LEMMA SlotsOlder ==
  ASSUME NEW d, NEW j, NEW c \in Nat, NEW v \in [Vars -> Slot], Slotted(v, d, c, j)
  PROVE  \A x \in Vars : v[x].decl < c + 1
<1>1. \A x \in Vars : v[x].decl \in Nat BY DEF Slot
<1>. QED BY <1>1 DEF Slotted

\* Before the first item the parameters are in scope.
LEMMA ParamsSlotted ==
  ASSUME NEW d, NEW c \in Nat, NEW v, \A x \in Vars : v[x].decl < c,
         NEW w, \A x \in Vars : IF {k \in DOMAIN d.params : d.params[k].name = x} = {} THEN w[x] = v[x]
                                ELSE w[x].decl = c /\ w[x].at = 0
  PROVE  Slotted(w, d, c, 1)
<1>. SUFFICES ASSUME NEW x \in Vars
              PROVE  IF Definitions(d, x, 1) = {} THEN w[x].decl < c
                     ELSE w[x].decl = c /\ w[x].at = Resolve(d, x, 1)
  BY DEF Slotted
<1>1. Definitions(d, x, 1) = IF Defines(d, 0, x) THEN {0} ELSE {}
  <2>1. Definitions(d, x, 1) \subseteq {0} BY DEF Definitions
  <2>2. 0 \in Definitions(d, x, 1) <=> Defines(d, 0, x)
    <3>1. \A k \in 0 .. (1 - 1) : ForDepth(d.body, k) >= ForDepth(d.body, 0)
      <4>1. ForDepth(d.body, 0) \in Int BY DepthStep
      <4>2. \A k \in 0 .. (1 - 1) : k = 0 OBVIOUS
      <4>. QED BY <4>1, <4>2
    <3>. QED BY <3>1 DEF Definitions
  <2>. QED BY <2>1, <2>2
<1>2. Defines(d, 0, x) <=> {k \in DOMAIN d.params : d.params[k].name = x} # {} BY DEF Defines
<1>3. Definitions(d, x, 1) = {0} => Resolve(d, x, 1) = 0
  <2>1. {0} \in SUBSET (0 .. 0) /\ 0 \in {0} /\ \A k \in {0} : k <= 0 OBVIOUS
  <2>2. MaxOf({0}) = 0 BY ONLY <2>1, MaxOfIs
  <2>. QED BY <2>2 DEF Resolve
<1>. QED BY <1>1, <1>2, <1>3

-----------------------------------------------------------------------------
(* The inductive invariant of the paths.                                    *)

\* The bodies nest, and every assignment has a target: what the checker accepts.
Orderly ==
  \A c \in DOMAIN prog :
    /\ \E st : Nests(prog[c].body, Len(prog[c].body), st)
    /\ \A i \in DOMAIN prog[c].body :
         prog[c].body[i].op = "assign" => Definitions(prog[c], prog[c].body[i].name, i) # {}

\* values_ follows the scopes of the function under construction.
SlotInv ==
  ~crashed => IF gpc = 0 THEN \A x \in Vars : values[x].decl < gcur
              ELSE Slotted(values, gdecl, gcur, gpc)

\* The blocks the open ifs wait for are empty.
WaitingEmpty == \A b \in Waiting : fn.blocks[b].code = <<>>

\* The function g is on its way: behind the first n items of declaration c, the
\* ifs o being open, the paths of the source that go on there make it the source.
OnItsWay(g, c, n, o) ==
  \E F, J : /\ IsSource(F, c) /\ Opens(prog[c].body, n, o, J)
            /\ Homeward(g, F[n + 1], prog[c].body, o, J, F)

\* So are the function under construction, and those that were emitted.
PathInv ==
  /\ SlotInv
  /\ ~crashed /\ gpc # 0 => /\ gpc \in 1 .. Len(gdecl.body) + 1
                            /\ WaitingEmpty /\ OnItsWay(fn, gcur, gpc - 1, ifs)
  /\ diags = {} => \A f \in DOMAIN emitted :
                     CompiledPaths(emitted[f].blocks) = SourcePaths(emitted[f].decl, Unmapped)

\* What a statement leaves: if that is on its way, the invariant is kept.
LEMMA WayBehind ==
  ASSUME UNCHANGED <<prog, gcur, emitted, diags>>, PathInv,
         NEW c, c = gcur, NEW d, d = prog[c], NEW p, p = gpc',
         NEW v, v = values', NEW g, g = fn', NEW o, o = ifs',
         p # 0, p \in 1 .. Len(d.body) + 1, WaitingEmpty',
         Slotted(v, d, c, p), OnItsWay(g, c, p - 1, o)
  PROVE  PathInv'
<1>1. gcur' = c /\ gdecl' = d /\ prog' = prog BY DEF gdecl
<1>2. \A i, f : PathsAt(c, Unmapped, i, f)' = PathsAt(c, Unmapped, i, f) BY SourceStable
<1>3. \A e : SourcePaths(e, Unmapped)' = SourcePaths(e, Unmapped) BY SourceStable
<1>4. SlotInv' BY <1>1 DEF SlotInv
<1>5. OnItsWay(fn, gcur, gpc - 1, ifs)'
  <2>1. PICK F, J : /\ IsSource(F, c) /\ Opens(prog[c].body, p - 1, o, J)
                    /\ Homeward(g, F[(p - 1) + 1], prog[c].body, o, J, F)
    BY DEF OnItsWay
  <2>2. IsSource(F, gcur)' BY <1>1, <1>2, <1>3, <2>1 DEF IsSource
  <2>3. Opens(prog[gcur].body, gpc - 1, ifs, J)' BY <1>1, <2>1, SMTT(30)
  <2>4. Homeward(fn, F[(gpc - 1) + 1], prog[gcur].body, ifs, J, F)'
    BY <1>1, <2>1 DEF Homeward, Spoilt, Spoils
  <2>. QED BY <2>2, <2>3, <2>4 DEF OnItsWay
<1>6. (diags = {} => \A f \in DOMAIN emitted :
                     CompiledPaths(emitted[f].blocks) = SourcePaths(emitted[f].decl, Unmapped))'
  BY <1>3 DEF PathInv
<1>. QED BY <1>1, <1>4, <1>5, <1>6 DEF PathInv

-----------------------------------------------------------------------------
(* Statements keep a function on its way.                                   *)

\* A compiler that died has no way.
LEMMA CrashBehind ==
  ASSUME UNCHANGED <<prog, emitted, diags>>, PathInv, crashed'
  PROVE  PathInv'
<1>1. \A e : SourcePaths(e, Unmapped)' = SourcePaths(e, Unmapped) BY SourceStable
<1>. QED BY <1>1 DEF PathInv, SlotInv

\* What is known where a statement is generated; S are the instructions of its
\* function.
Midway(S) ==
  /\ prog \in Programs /\ gcur \in DOMAIN prog /\ gcur \in Nat /\ gdecl.body \in Seq(Item)
  /\ gpc \in Nat \ {0} /\ gpc \in DOMAIN gdecl.body /\ gpc \in 1 .. Len(gdecl.body)
  /\ S \in SUBSET Instrs /\ Readable(S) /\ Instr("bad", NoName, NoSlot) \in S
  /\ Sound(fn, S) /\ IfsOK /\ ifs \in Seq(OpenIf) /\ Others(fn) = Waiting
  /\ values \in [Vars -> Slot] /\ Slotted(values, gdecl, gcur, gpc) /\ ValuesMatch
  /\ WaitingEmpty /\ OnItsWay(fn, gcur, gpc - 1, ifs)

\* That is known.
LEMMA MidwayIs ==
  ASSUME GraphInv, CodeInv, PathInv, NEW ops, Gen(ops)
  PROVE  Midway(Written(gcur)) /\ ~crashed /\ gitem.op \in ops
<1>1. gpc # 0 BY InBody
<1>2. ~crashed /\ gitem.op \in ops /\ gpc \in DOMAIN gdecl.body /\ gcur \in DOMAIN prog
  BY DEF Gen, Running
<1>3. /\ prog \in Programs /\ Live(fn) /\ IfsOK /\ Others(fn) = Waiting
  BY <1>1 DEF GraphInv, BodyInv
<1>4. prog \in Seq(Decl) BY <1>3, ProgramsAssumption DEF ProgramsAssumption
<1>5. gdecl.body \in Seq(Item) BY <1>2, <1>4, BodyItems DEF gdecl
<1>6. gpc \in Nat \ {0} /\ gpc \in 1 .. Len(gdecl.body) BY <1>2, <1>5, LenProperties
<1>7. gcur \in Nat
  <2>1. DOMAIN prog = 1 .. Len(prog) /\ Len(prog) \in Nat BY <1>4, LenProperties
  <2>. QED BY <1>2, <2>1
<1>8. Readable(Written(gcur)) BY <1>1, <1>2, WrittenHere
<1>9. Sound(fn, Written(gcur)) /\ Written(gcur) \in SUBSET Instrs
  BY <1>1, <1>3 DEF CodeInv, FnInv, Sound, Written
<1>10. values \in [Vars -> Slot] BY DEF CodeInv, GenTypeOK
<1>11. Slotted(values, gdecl, gcur, gpc) /\ WaitingEmpty /\ OnItsWay(fn, gcur, gpc - 1, ifs)
  BY <1>1, <1>2 DEF PathInv, SlotInv
<1>12. ValuesMatch
  <2>1. \A x \in Vars : values[x].decl \in Nat BY <1>10 DEF Slot
  <2>. QED BY <1>7, <1>11, <2>1 DEF Slotted, ValuesMatch
<1>13. Instr("bad", NoName, NoSlot) \in Written(gcur) BY <1>8 DEF Readable
<1>14. ifs \in Seq(OpenIf) BY <1>3 DEF IfsOK
<1>. QED BY <1>2, <1>3, <1>5, <1>6, <1>7, <1>8, <1>9, <1>10, <1>11, <1>12, <1>13, <1>14 DEF Midway

\* The way from here.
LEMMA WayFrom ==
  ASSUME NEW S, Midway(S)
  PROVE  \E F, J : /\ IsSource(F, gcur) /\ Opens(gdecl.body, gpc - 1, ifs, J)
                   /\ Homeward(fn, F[gpc], gdecl.body, ifs, J, F)
                   /\ \A i \in 1 .. Len(gdecl.body) + 1 : F[i] \in SUBSET Trails
                   /\ F[gpc] = PathsAt(gcur, Unmapped, gpc, F)
                   /\ F[gpc] \in SUBSET Trails /\ F[gpc + 1] \in SUBSET Trails
                   /\ gpc + 1 \in 1 .. Len(gdecl.body) + 1 /\ gpc # Len(gdecl.body) + 1
<1>0. gpc \in Nat \ {0} /\ gpc \in 1 .. Len(gdecl.body) /\ Len(gdecl.body) \in Nat
  BY LenProperties DEF Midway
<1>1. PICK F, J : /\ IsSource(F, gcur) /\ Opens(gdecl.body, gpc - 1, ifs, J)
                  /\ Homeward(fn, F[(gpc - 1) + 1], gdecl.body, ifs, J, F)
  BY DEF Midway, OnItsWay, gdecl
<1>2. (gpc - 1) + 1 = gpc /\ gpc \in 1 .. Len(gdecl.body) + 1 /\ gpc + 1 \in 1 .. Len(gdecl.body) + 1
      /\ gpc # Len(gdecl.body) + 1
  BY <1>0
<1>3. /\ F \in [1 .. Len(gdecl.body) + 1 -> SUBSET Trails]
      /\ \A i \in 1 .. Len(gdecl.body) + 1 : F[i] = PathsAt(gcur, Unmapped, i, F)
  BY <1>1 DEF IsSource, gdecl
<1>4. \A i \in 1 .. Len(gdecl.body) + 1 : F[i] \in SUBSET Trails BY <1>3
<1>5. F[gpc] = PathsAt(gcur, Unmapped, gpc, F) BY <1>2, <1>3
<1>6. Homeward(fn, F[gpc], gdecl.body, ifs, J, F) BY <1>1, <1>2
<1>. QED BY <1>1, <1>2, <1>4, <1>5, <1>6

\* What the expression of a statement does.
LEMMA ExprHere ==
  ASSUME CodeInv, NEW S, S = Written(gcur), Midway(S),
         gitem.op \in {"let", "mut", "assign", "expr", "if"},
         NEW v, v = GenExpr(fn, gitem.expr), NEW R, R = SourceRuns(gcur, gpc, gitem.expr)
  PROVE  /\ Leads(fn, v, R) /\ Sound(v, S) /\ Grown(fn, v) /\ R \in SUBSET RunSet
         /\ v.val = "null" => \A r \in R : r.done
         /\ \A b \in Waiting : b \in Others(v) /\ v.blocks[b].code = <<>>
<1>1. gitem.expr \in Expr /\ Placed(gitem.expr, S) BY WrittenHere DEF Midway
<1>2. /\ S \in SUBSET Instrs /\ Readable(S) /\ ValuesMatch /\ gcur \in Nat /\ gpc \in Nat
      /\ Sound(fn, S) /\ Live(fn)
  BY DEF Midway, Sound
<1>3. Leads(fn, v, R) /\ (v.val = "null" => \A r \in R : r.done) BY <1>1, <1>2, ExprLeads
<1>4. Sound(v, S) BY <1>1, <1>2, ExprContinues
<1>5. Grown(fn, v) BY <1>2, ExprGrows
<1>6. R \in SUBSET RunSet BY <1>1, <1>2, RunsTyped
<1>7. ASSUME NEW b \in Waiting PROVE b \in Others(v) /\ v.blocks[b].code = <<>>
  <2>1. b \in Others(fn) /\ fn.blocks[b].code = <<>> BY DEF Midway, WaitingEmpty
  <2>2. b \in Others(v) BY <1>5, <2>1 DEF Grown
  <2>3. v.blocks[b] = fn.blocks[b] BY <1>3, <2>1 DEF Leads, Others
  <2>. QED BY <2>1, <2>2, <2>3
<1>. QED BY <1>3, <1>4, <1>5, <1>6, <1>7

\* An item that opens and ends no block.
LEMMA OpensNext ==
  ASSUME NEW S, Midway(S), NEW J, Opens(gdecl.body, gpc - 1, ifs, J),
         gitem.op \notin {"if", "else", "endif", "for", "endfor"}
  PROVE  Opens(gdecl.body, gpc, ifs, J)
<1>. DEFINE n == gpc - 1
<1>1. n \in Nat /\ n + 1 = gpc /\ gpc \in Nat /\ gpc >= n BY DEF Midway
<1>2. gdecl.body[n + 1].op \notin {"if", "else", "endif", "for", "endfor"} BY <1>1 DEF gitem
<1>3. Depth(gdecl.body, n + 1) = Depth(gdecl.body, n) /\ Depth(gdecl.body, n) = Len(ifs)
  BY <1>1, <1>2, NestingStep DEF Opens
<1>4. \A j \in (n + 1) .. gpc : j = n + 1 BY <1>1
<1>5. Len(ifs) \in Nat /\ ifs \in Seq(OpenIf) BY LenProperties DEF Midway
<1>6. Opens(gdecl.body, n, ifs, J) OBVIOUS
<1>. HIDE DEF n
<1>7. \A j \in (n + 1) .. gpc : Depth(gdecl.body, j) >= Len(ifs)
                             /\ ~(gdecl.body[j].op = "else" /\ Depth(gdecl.body, j) = Len(ifs))
  BY <1>2, <1>3, <1>4, <1>5
<1>8. Depth(gdecl.body, gpc) = Depth(gdecl.body, n) BY <1>1, <1>3, SMTT(30)
<1>. QED BY ONLY <1>1, <1>5, <1>6, <1>7, <1>8, OpensOn

\* F are the paths of the source, and J the items that opened the open ifs.
OnWay(F, J) ==
  /\ IsSource(F, gcur) /\ Opens(gdecl.body, gpc - 1, ifs, J)
  /\ Homeward(fn, F[gpc], gdecl.body, ifs, J, F)
  /\ \A i \in 1 .. Len(gdecl.body) + 1 : F[i] \in SUBSET Trails
  /\ F[gpc] = PathsAt(gcur, Unmapped, gpc, F)
  /\ F[gpc] \in SUBSET Trails /\ F[gpc + 1] \in SUBSET Trails
  /\ gpc + 1 \in 1 .. Len(gdecl.body) + 1 /\ gpc # Len(gdecl.body) + 1

\* The paths from here, by what the statement is.
LEMMA PathsHere ==
  ASSUME NEW F, NEW J, OnWay(F, J), NEW R, R = SourceRuns(gcur, gpc, gitem.expr)
  PROVE  /\ gitem.op \in {"let", "mut"} =>
              F[gpc] = After(Then(R, {Run(<<Event("store", gitem.name, gcur, gpc)>>, FALSE)}), F[gpc + 1])
         /\ gitem.op = "assign" =>
              F[gpc] = After(Then(R, {Run(<<Event("store", gitem.name, gcur,
                                                  Resolve(gdecl, gitem.name, gpc))>>, FALSE)}), F[gpc + 1])
         /\ gitem.op = "expr" => F[gpc] = After(R, F[gpc + 1])
         /\ gitem.op = "if" =>
              F[gpc] = After(R, Behind(<<Mark("then")>>, F[gpc + 1])
                                  \cup Behind(<<Mark("else")>>, F[OrElseOf(gdecl.body, gpc) + 1]))
         /\ gitem.op \in {"else", "for"} => F[gpc] = F[CloseOf(gdecl.body, gpc) + 1]
         /\ gitem.op \in {"walrus", "match", "tail", "endif"} => F[gpc] = F[gpc + 1]
<1>1. F[gpc] = PathsAt(gcur, Unmapped, gpc, F) /\ gpc # Len(gdecl.body) + 1 BY DEF OnWay
<1>. QED BY <1>1 DEF PathsAt, Unmapped, UnmappedStmts, UnmappedExprs, SourceRuns, Behind, gdecl, gitem

\* An item that is no block goes on with the next.
LEMMA NextItem ==
  ASSUME NEW S, Midway(S), PathInv, UNCHANGED <<prog, gcur, emitted, diags, ifs>>, gpc' = gpc + 1,
         gitem.op \notin {"if", "else", "endif", "for", "endfor"},
         NEW F, NEW J, OnWay(F, J), NEW g, g = fn', NEW v, v = values',
         Homeward(g, F[gpc + 1], gdecl.body, ifs, J, F),
         \A b \in Waiting : g.blocks[b].code = <<>>,
         Slotted(v, gdecl, gcur, gpc + 1)
  PROVE  PathInv'
<1>1. gpc \in Nat /\ gpc + 1 \in Nat /\ gpc + 1 # 0 /\ (gpc + 1) - 1 = gpc BY DEF Midway
<1>2. Opens(gdecl.body, gpc, ifs, J) BY OpensNext DEF OnWay
<1>3. WaitingEmpty'
  <2>1. Waiting' = Waiting BY DEF Waiting
  <2>. QED BY <2>1 DEF WaitingEmpty
<1>. DEFINE p == gpc + 1
<1>4. OnItsWay(g, gcur, p - 1, ifs)
  <2>1. IsSource(F, gcur) BY DEF OnWay
  <2>2. p - 1 = gpc BY <1>1
  <2>. QED BY <1>2, <2>1, <2>2 DEF OnItsWay, gdecl
<1>5. p # 0 /\ p = gpc' /\ p \in 1 .. Len(gdecl.body) + 1 BY <1>1 DEF OnWay
<1>. HIDE DEF p
<1>6. PICK d : d = prog[gcur] OBVIOUS
<1>7. p \in 1 .. Len(d.body) + 1 /\ Slotted(v, d, gcur, p) BY <1>5, <1>6 DEF gdecl, p
<1>. QED BY <1>3, <1>4, <1>5, <1>6, <1>7, WayBehind

\* What runs, then stores s.
LEMMA StoredHome ==
  ASSUME NEW S \in SUBSET Instrs, NEW g, Sound(g, S), NEW v, Sound(v, S), NEW h,
         NEW R \in SUBSET RunSet, Leads(g, v, R), NEW s \in Trails, Says(v, h, s),
         NEW K \in SUBSET Trails, NEW body, NEW o, NEW J, NEW F,
         Homeward(g, After(Then(R, {Run(s, FALSE)}), K), body, o, J, F)
  PROVE  Homeward(h, K, body, o, J, F)
<1>1. Run(s, FALSE) \in RunSet /\ After({Run(s, FALSE)}, K) = Behind(s, K) BY AfterOne
<1>2. {Run(s, FALSE)} \in SUBSET RunSet BY <1>1
<1>3. After(Then(R, {Run(s, FALSE)}), K) = After(R, Behind(s, K))
  <2>1. PICK Q : Q = {Run(s, FALSE)} OBVIOUS
  <2>2. After(Then(R, Q), K) = After(R, After(Q, K)) BY <1>2, <2>1, AfterThen
  <2>. QED BY <1>1, <2>1, <2>2
<1>4. Behind(s, K) \in SUBSET Trails BY BehindPaths
<1>5. Homeward(v, Behind(s, K), body, o, J, F) BY <1>3, <1>4, HomeLeads DEF Sound
<1>. QED BY <1>5, HomeSays

\* An expression statement.
LEMMA ExprOnWay ==
  ASSUME GraphInv, CodeInv, PathInv, GenExprStmt
  PROVE  PathInv'
<1>. DEFINE S == Written(gcur)
            v == GenExpr(fn, gitem.expr)
            R == SourceRuns(gcur, gpc, gitem.expr)
<1>1. Midway(S) /\ gitem.op = "expr" BY MidwayIs DEF GenExprStmt
<1>2. /\ UNCHANGED <<prog, gcur, emitted, diags, ifs>> /\ gpc' = gpc + 1 /\ fn' = v
      /\ values' = values
  BY DEF GenExprStmt, Gen
<1>. HIDE DEF S
<1>3. /\ Leads(fn, v, R) /\ \A b \in Waiting : v.blocks[b].code = <<>>
  BY <1>1, ExprHere DEF S
<1>. HIDE DEF v
<1>4. PICK F, J : OnWay(F, J) BY <1>1, WayFrom DEF OnWay
<1>5. F[gpc] = After(R, F[gpc + 1]) BY <1>1, <1>4, PathsHere
<1>. HIDE DEF R
<1>6. Homeward(v, F[gpc + 1], gdecl.body, ifs, J, F)
  <2>1. Live(fn) BY <1>1 DEF Midway, Sound
  <2>2. Homeward(fn, After(R, F[gpc + 1]), gdecl.body, ifs, J, F) /\ F[gpc + 1] \in SUBSET Trails
    BY <1>4, <1>5 DEF OnWay
  <2>. QED BY <1>3, <2>1, <2>2, HomeLeads
<1>7. Slotted(values, gdecl, gcur, gpc + 1)
  <2>1. gpc - 1 \in Nat /\ (gpc - 1) + 1 = gpc /\ (gpc - 1) + 2 = gpc + 1 BY <1>1 DEF Midway
  <2>2. gdecl.body[gpc].op = "expr" /\ Slotted(values, gdecl, gcur, gpc)
    BY <1>1 DEF gitem, Midway
  <2>. QED BY <2>1, <2>2, SlotsStay
<1>8. gitem.op \notin {"if", "else", "endif", "for", "endfor"} BY <1>1
<1>. QED BY <1>1, <1>2, <1>3, <1>4, <1>6, <1>7, <1>8, NextItem

\* What runs has ended the function: what is said then is of no account.
LEMMA DoneHome ==
  ASSUME NEW S \in SUBSET Instrs, NEW g, Sound(g, S), NEW v, Sound(v, S), NEW h,
         NEW R, Leads(g, v, R), \A r \in R : r.done, NEW Q, Says(v, h, <<>>),
         NEW K \in SUBSET Trails, NEW body, NEW o, NEW J, NEW F,
         Homeward(g, After(Then(R, Q), K), body, o, J, F)
  PROVE  Homeward(h, K, body, o, J, F)
<1>1. <<>> \in Trails /\ Behind(<<>>, K) = K BY BehindPaths, TrailsOfEvents
<1>2. After(Then(R, Q), K) = After(R, K) BY AfterOne
<1>3. Homeward(v, Behind(<<>>, K), body, o, J, F) BY <1>1, <1>2, HomeLeads DEF Sound
<1>. QED BY <1>1, <1>3, HomeSays

\* A binding's slot is allocated, and then stored to.
LEMMA BindSays ==
  ASSUME NEW S \in SUBSET Instrs, Instr("bad", NoName, NoSlot) \in S, NEW v, Sound(v, S),
         NEW name, NEW slot, Instr("alloca", name, slot) \in S, Instr("store", name, slot) \in S,
         NEW wrong
  PROVE  LET a == BadIf(Emit(v, "alloca", name, slot), wrong)
             s == <<Event("store", name, slot.decl, slot.at)>>
         IN  /\ Says(v, a, <<>>) /\ s \in Trails
             /\ \A wrong2 : Says(v, Emit(BadIf(a, wrong2), "store", name, slot), s)
<1>. DEFINE a == BadIf(Emit(v, "alloca", name, slot), wrong)
            s == <<Event("store", name, slot.decl, slot.at)>>
            e(w) == Emit(BadIf(a, w), "store", name, slot)
<1>1. Says(v, a, <<>>) /\ Sound(a, S) BY AllocSays
<1>. HIDE DEF a
<1>2. ASSUME NEW w PROVE Says(a, e(w), s) /\ s \in Trails
  <2>1. LET b2 == BadIf(a, w)
            h2 == Emit(b2, "store", name, slot)
        IN  /\ Sound(b2, S) /\ Says(a, b2, <<>>) /\ Sound(h2, S)
            /\ Says(a, h2, <<Event("store", name, slot.decl, slot.at)>>)
            /\ <<Event("store", name, slot.decl, slot.at)>> \in Trails
            /\ slot.decl # gcur => Spoilt(h2)
    BY <1>1, StoreSays
  <2>. QED BY <2>1
<1>. HIDE DEF e, s
<1>3. \A w : Says(v, e(w), s)
  <2>1. Building(v, S) BY DEF Sound
  <2>. QED BY <1>1, <1>2, <2>1, SaysNothing
<1>. QED BY <1>1, <1>2, <1>3 DEF a, s, e

\* A binding.
LEMMA BindOnWay ==
  ASSUME GraphInv, CodeInv, PathInv, GenBinding
  PROVE  PathInv'
<1>. DEFINE S == Written(gcur)
            v == GenExpr(fn, gitem.expr)
            R == SourceRuns(gcur, gpc, gitem.expr)
            type == BindingType(v)
            slot == [decl |-> gcur, at |-> gpc, type |-> type]
            a == BadIf(Emit(v, "alloca", gitem.name, slot), type = "void")
            h == IF v.val = "null" THEN a
                 ELSE Emit(BadIf(a, Coerce(v.val, type) = "bad"), "store", gitem.name, slot)
            s == <<Event("store", gitem.name, slot.decl, slot.at)>>
<1>1. Midway(S) /\ gitem.op \in {"let", "mut"} BY MidwayIs DEF GenBinding
<1>2. /\ UNCHANGED <<prog, gcur, emitted, diags, ifs>> /\ gpc' = gpc + 1 /\ fn' = h
      /\ values' = [values EXCEPT ![gitem.name] = slot]
  BY DEF GenBinding, Gen, Bind
<1>. HIDE DEF S
<1>3. /\ Leads(fn, v, R) /\ Sound(v, S) /\ R \in SUBSET RunSet
      /\ v.val = "null" => \A r \in R : r.done
      /\ \A b \in Waiting : b \in Others(v) /\ v.blocks[b].code = <<>>
  BY <1>1, ExprHere DEF S
<1>4. type \in LlvmTypes
  <2>1. LlvmOf(gitem.type) \in LlvmTypes /\ "i64" \in LlvmTypes BY LlvmTyped DEF LlvmTypes
  <2>2. v.val \in LlvmTypes \cup {"null"} BY <1>3 DEF Sound, Building, FnOf
  <2>. QED BY <2>1, <2>2 DEF BindingType
<1>. HIDE DEF v, type
<1>5. slot \in Slot /\ slot.decl = gcur /\ slot.at = gpc BY <1>1, <1>4 DEF Slot, Midway
<1>. HIDE DEF slot
<1>6. Instr("alloca", gitem.name, slot) \in S /\ Instr("store", gitem.name, slot) \in S
  <2>1. gpc # 0 /\ gpc \in DOMAIN gdecl.body BY <1>1 DEF Midway
  <2>. QED BY <1>5, <2>1, WrittenHere DEF S
<1>7. PICK F, J : OnWay(F, J) BY <1>1, WayFrom DEF OnWay
<1>8. F[gpc] = After(Then(R, {Run(s, FALSE)}), F[gpc + 1]) BY <1>1, <1>5, <1>7, PathsHere
<1>. HIDE DEF R, s, h
<1>9. Says(v, a, <<>>) /\ s \in Trails /\ (v.val # "null" => Says(v, h, s)) /\ (v.val = "null" => h = a)
  <2>. DEFINE w == Coerce(v.val, type) = "bad"
              wrong == type = "void"
  <2>1. /\ S \in SUBSET Instrs /\ Instr("bad", NoName, NoSlot) \in S BY <1>1 DEF Midway
  <2>2. h = IF v.val = "null" THEN a ELSE Emit(BadIf(a, w), "store", gitem.name, slot) BY DEF h
  <2>3. a = BadIf(Emit(v, "alloca", gitem.name, slot), wrong) OBVIOUS
  <2>. HIDE DEF a, w, wrong
  <2>4. LET a2 == BadIf(Emit(v, "alloca", gitem.name, slot), wrong)
            s2 == <<Event("store", gitem.name, slot.decl, slot.at)>>
        IN  /\ Says(v, a2, <<>>) /\ s2 \in Trails
            /\ \A wrong2 : Says(v, Emit(BadIf(a2, wrong2), "store", gitem.name, slot), s2)
    BY <1>3, <1>6, <2>1, BindSays
  <2>. QED BY <2>2, <2>3, <2>4 DEF s
<1>. HIDE DEF a
<1>10. Homeward(h, F[gpc + 1], gdecl.body, ifs, J, F)
  <2>1. Sound(fn, S) /\ S \in SUBSET Instrs BY <1>1 DEF Midway
  <2>2. PICK K : K = F[gpc + 1] OBVIOUS
  <2>3. PICK body : body = gdecl.body OBVIOUS
  <2>4. PICK Q : Q = {Run(s, FALSE)} OBVIOUS
  <2>5. Homeward(fn, After(Then(R, Q), K), body, ifs, J, F) /\ K \in SUBSET Trails
    BY <1>7, <1>8, <2>2, <2>3, <2>4 DEF OnWay
  <2>6. Leads(fn, v, R) /\ Sound(v, S) /\ R \in SUBSET RunSet BY <1>3
  <2>7. CASE v.val = "null"
    <3>1. Says(v, h, <<>>) /\ \A r \in R : r.done BY <1>3, <1>9, <2>7
    <3>2. Homeward(h, K, body, ifs, J, F) BY ONLY <2>1, <2>5, <2>6, <3>1, DoneHome
    <3>. QED BY <2>2, <2>3, <3>2
  <2>8. CASE v.val # "null"
    <3>1. Says(v, h, s) /\ s \in Trails BY <1>9, <2>8
    <3>2. Homeward(fn, After(Then(R, {Run(s, FALSE)}), K), body, ifs, J, F) BY <2>4, <2>5
    <3>3. Homeward(h, K, body, ifs, J, F) BY ONLY <2>1, <2>5, <2>6, <3>1, <3>2, StoredHome
    <3>. QED BY <2>2, <2>3, <3>3
  <2>. QED BY <2>7, <2>8
<1>11. \A b \in Waiting : h.blocks[b].code = <<>> BY <1>3, <1>9 DEF Others, Says
<1>12. Slotted(values', gdecl, gcur, gpc + 1)
  <2>1. gpc - 1 \in Nat /\ (gpc - 1) + 1 = gpc /\ (gpc - 1) + 2 = gpc + 1 BY <1>1 DEF Midway
  <2>2. gdecl.body[gpc].op \in {"let", "mut"} /\ Slotted(values, gdecl, gcur, gpc)
        /\ values \in [Vars -> Slot] /\ gitem = gdecl.body[gpc]
    BY <1>1 DEF gitem, Midway
  <2>3. values' = [values EXCEPT ![gdecl.body[gpc].name] = slot] BY <1>2 DEF gitem
  <2>. QED BY <1>5, <2>1, <2>2, <2>3, SlotBound
<1>13. gitem.op \notin {"if", "else", "endif", "for", "endfor"} BY <1>1
<1>. QED BY <1>1, <1>2, <1>7, <1>10, <1>11, <1>12, <1>13, NextItem

\* An assignment: the slot of its target is that of the definition in scope.
LEMMA AssignOnWay ==
  ASSUME GraphInv, CodeInv, Orderly, PathInv, GenAssign
  PROVE  PathInv'
<1>. DEFINE S == Written(gcur)
            v == GenExpr(fn, gitem.expr)
            R == SourceRuns(gcur, gpc, gitem.expr)
            slot == values[gitem.name]
            h == Emit(BadIf(v, Coerce(v.val, slot.type) = "bad"), "store", gitem.name, slot)
            s == <<Event("store", gitem.name, slot.decl, slot.at)>>
<1>1. Midway(S) /\ gitem.op = "assign" BY MidwayIs DEF GenAssign
<1>2. gitem.name \in Vars
  <2>1. gitem \in Item BY <1>1, ElementOfSeq DEF Midway, gitem
  <2>. QED BY <1>1, <2>1 DEF Item
<1>3. slot \in Slot /\ slot.decl = gcur /\ slot.at = Resolve(gdecl, gitem.name, gpc)
  <2>1. Definitions(gdecl, gitem.name, gpc) # {} BY <1>1 DEF Orderly, Midway, gdecl, gitem
  <2>. QED BY <1>1, <1>2, <2>1 DEF Midway, Slotted
<1>4. slot # NoSlot
  <2>1. gcur # 0
    <3>1. prog \in Seq(Decl) BY <1>1, ProgramsAssumption DEF Midway, ProgramsAssumption
    <3>2. gcur \in 1 .. Len(prog) BY <1>1, <3>1, LenProperties DEF Midway
    <3>. QED BY <3>2
  <2>. QED BY <1>3, <2>1 DEF NoSlot
<1>5. /\ UNCHANGED <<prog, gcur, emitted, diags, ifs, values>> /\ gpc' = gpc + 1
      /\ crashed' \/ (v.val # "null" /\ fn' = h)
  BY <1>4 DEF GenAssign, Gen, StoreTo
<1>. SUFFICES ASSUME ~crashed' PROVE PathInv' BY <1>5, CrashBehind
<1>. HIDE DEF S
<1>6. /\ Leads(fn, v, R) /\ Sound(v, S) /\ R \in SUBSET RunSet
      /\ \A b \in Waiting : b \in Others(v) /\ v.blocks[b].code = <<>>
  BY <1>1, ExprHere DEF S
<1>. HIDE DEF v, slot
<1>7. Instr("store", gitem.name, slot) \in S
  <2>1. gpc # 0 /\ gpc \in DOMAIN gdecl.body BY <1>1 DEF Midway
  <2>. QED BY <1>3, <2>1, WrittenHere DEF S
<1>8. PICK F, J : OnWay(F, J) BY <1>1, WayFrom DEF OnWay
<1>9. F[gpc] = After(Then(R, {Run(s, FALSE)}), F[gpc + 1]) BY <1>1, <1>3, <1>8, PathsHere
<1>10. Says(v, h, s) /\ s \in Trails
  <2>1. /\ S \in SUBSET Instrs /\ Instr("bad", NoName, NoSlot) \in S BY <1>1 DEF Midway
  <2>2. LET b2 == BadIf(v, Coerce(v.val, slot.type) = "bad")
            h2 == Emit(b2, "store", gitem.name, slot)
        IN  /\ Sound(b2, S) /\ Says(v, b2, <<>>) /\ Sound(h2, S)
            /\ Says(v, h2, <<Event("store", gitem.name, slot.decl, slot.at)>>)
            /\ <<Event("store", gitem.name, slot.decl, slot.at)>> \in Trails
            /\ slot.decl # gcur => Spoilt(h2)
    BY <1>6, <1>7, <2>1, StoreSays
  <2>. QED BY <2>2
<1>. HIDE DEF R, s, h
<1>11. Homeward(h, F[gpc + 1], gdecl.body, ifs, J, F)
  <2>1. Sound(fn, S) /\ S \in SUBSET Instrs BY <1>1 DEF Midway
  <2>2. Homeward(fn, After(Then(R, {Run(s, FALSE)}), F[gpc + 1]), gdecl.body, ifs, J, F)
        /\ F[gpc + 1] \in SUBSET Trails
    BY <1>8, <1>9 DEF OnWay
  <2>3. s \in Trails /\ Says(v, h, s) BY <1>10
  <2>4. Leads(fn, v, R) /\ Sound(v, S) /\ R \in SUBSET RunSet BY <1>6
  <2>5. PICK K : K = F[gpc + 1] OBVIOUS
  <2>6. PICK body : body = gdecl.body OBVIOUS
  <2>7. Homeward(fn, After(Then(R, {Run(s, FALSE)}), K), body, ifs, J, F) /\ K \in SUBSET Trails
    BY <2>2, <2>5, <2>6
  <2>8. Homeward(h, K, body, ifs, J, F) BY ONLY <2>1, <2>3, <2>4, <2>7, StoredHome
  <2>. QED BY <2>5, <2>6, <2>8
<1>12. \A b \in Waiting : h.blocks[b].code = <<>> BY <1>6, <1>10 DEF Others, Says
<1>13. Slotted(values, gdecl, gcur, gpc + 1)
  <2>1. gpc - 1 \in Nat /\ (gpc - 1) + 1 = gpc /\ (gpc - 1) + 2 = gpc + 1 BY <1>1 DEF Midway
  <2>2. gdecl.body[gpc].op = "assign" /\ Slotted(values, gdecl, gcur, gpc)
    BY <1>1 DEF gitem, Midway
  <2>. QED BY <2>1, <2>2, SlotsStay
<1>14. gitem.op \notin {"if", "else", "endif", "for", "endfor"} BY <1>1
<1>15. fn' = h /\ values' = values BY <1>5
<1>. QED BY <1>1, <1>5, <1>8, <1>11, <1>12, <1>13, <1>14, <1>15, NextItem

\* A statement nothing is generated for, a loop with its items: what it defines is
\* out of scope behind it.
LEMMA NothingOnWay ==
  ASSUME GraphInv, CodeInv, Orderly, PathInv, GenNothing
  PROVE  PathInv'
<1>. DEFINE S == Written(gcur)
            c == CloseOf(gdecl.body, gpc)
<1>1. Midway(S) /\ gitem.op \in {"match", "walrus", "tail", "for"} /\ ~crashed
  BY MidwayIs DEF GenNothing
<1>2. /\ UNCHANGED <<prog, gcur, emitted, diags, ifs, fn, values>>
      /\ gpc' = IF gitem.op = "for" THEN c + 1 ELSE gpc + 1
  BY DEF GenNothing, Gen
<1>. HIDE DEF S
<1>3. PICK F, J : OnWay(F, J) BY <1>1, WayFrom DEF OnWay
<1>4. /\ gpc - 1 \in Nat /\ (gpc - 1) + 1 = gpc /\ (gpc - 1) + 2 = gpc + 1
      /\ Slotted(values, gdecl, gcur, gpc)
  BY <1>1 DEF Midway
<1>5. Waiting' = Waiting /\ \A b \in Waiting : fn.blocks[b].code = <<>>
  BY <1>1, <1>2 DEF Midway, WaitingEmpty, Waiting
<1>6. CASE gitem.op # "for"
  <2>1. gitem.op \notin {"if", "else", "endif", "for", "endfor"} BY <1>1, <1>6
  <2>2. F[gpc] = F[gpc + 1] BY <1>1, <1>3, <1>6, PathsHere
  <2>3. Homeward(fn, F[gpc + 1], gdecl.body, ifs, J, F) BY <1>3, <2>2 DEF OnWay
  <2>4. gdecl.body[gpc].op \notin {"let", "mut", "for", "endfor"} BY <1>1, <1>6 DEF gitem
  <2>5. Slotted(values, gdecl, gcur, gpc + 1) BY <1>4, <2>4, SlotsStay
  <2>6. gpc' = gpc + 1 /\ fn' = fn /\ values' = values BY <1>2, <1>6
  <2>. QED BY <1>1, <1>2, <1>3, <1>5, <2>1, <2>3, <2>5, <2>6, NextItem
<1>7. CASE gitem.op = "for"
  <2>. DEFINE body == gdecl.body
              len == Len(gdecl.body)
  <2>1. body[gpc].op = "for" /\ gpc \in DOMAIN body /\ gpc \in 1 .. len /\ len \in Nat /\ prog \in Programs
        /\ gcur \in DOMAIN prog /\ body = prog[gcur].body
    BY <1>1, <1>7, LenProperties DEF Midway, gitem, gdecl
  <2>2. /\ c \in (gpc + 1) .. len /\ Closes(body, gpc, c)
        /\ \A i \in (gpc + 1) .. (c - 1) : ~Closes(body, gpc, i)
    BY <2>1, CloseFound
  <2>3. Opens(body, c, ifs, J)
    <3>1. gpc - 1 \in Nat /\ (gpc - 1) + 1 \in DOMAIN prog[gcur].body /\ ifs \in Seq(OpenIf)
          /\ Opens(prog[gcur].body, gpc - 1, ifs, J) /\ prog[gcur].body[(gpc - 1) + 1].op = "for"
      BY <1>1, <1>3, <1>4, <2>1 DEF OnWay, Midway
    <3>2. Opens(prog[gcur].body, CloseOf(prog[gcur].body, (gpc - 1) + 1), ifs, J)
      BY ONLY <2>1, <3>1, OpensLoop
    <3>. QED BY <1>4, <2>1, <3>2
  <2>4. F[gpc] = F[c + 1] BY <1>3, <1>7, PathsHere
  <2>5. PICK st : Nests(body, len, st) BY <1>1, <2>1 DEF Orderly
  <2>6. \A x : Definitions(gdecl, x, c + 1) = Definitions(gdecl, x, gpc)
    <3>. HIDE DEF c, len
    <3>1. Nests(gdecl.body, len, st) /\ gpc \in 1 .. len /\ gdecl.body[gpc].op = "for"
          /\ c \in (gpc + 1) .. len /\ Closes(gdecl.body, gpc, c)
          /\ \A i \in (gpc + 1) .. (c - 1) : ~Closes(gdecl.body, gpc, i)
      BY <2>1, <2>2, <2>5
    <3>. QED BY ONLY <3>1, LoopScoped
  <2>7. Slotted(values, gdecl, gcur, c + 1) BY <1>4, <2>6 DEF Slotted, Resolve
  <2>. DEFINE p == c + 1
  <2>8. p = gpc' /\ p # 0 /\ p - 1 = c /\ p \in 1 .. len + 1 /\ c \in Nat
    <3>1. gpc' = p BY <1>2, <1>7
    <3>. HIDE DEF c
    <3>. QED BY <2>1, <2>2, <3>1
  <2>9. OnItsWay(fn, gcur, p - 1, ifs)
    <3>1. Homeward(fn, F[(p - 1) + 1], body, ifs, J, F) BY <1>3, <2>4, <2>8 DEF OnWay
    <3>2. IsSource(F, gcur) BY <1>3 DEF OnWay
    <3>. QED BY <2>1, <2>3, <2>8, <3>1, <3>2 DEF OnItsWay
  <2>10. WaitingEmpty' BY <1>2, <1>5 DEF WaitingEmpty
  <2>11. Slotted(values, gdecl, gcur, p) BY <2>7
  <2>. HIDE DEF p, c
  <2>12. PICK d : d = prog[gcur] OBVIOUS
  <2>13. p \in 1 .. Len(d.body) + 1 /\ Slotted(values, d, gcur, p) BY <2>8, <2>11, <2>12 DEF gdecl
  <2>. QED BY <1>2, <2>8, <2>9, <2>10, <2>12, <2>13, WayBehind
<1>. QED BY <1>6, <1>7

\* The blocks an if adds to those that are waited for.
LEMMA WaitingMore ==
  ASSUME ifs \in Seq(OpenIf), NEW a \in Nat, NEW b \in Nat,
         ifs' = Append(ifs, [orelse |-> a, merge |-> b, within |-> "then"])
  PROVE  \A w \in Waiting' : w \in Waiting \/ w = a \/ w = b
<1>. DEFINE new == [orelse |-> a, merge |-> b, within |-> "then"]
            m == Len(ifs)
<1>1. m \in Nat /\ DOMAIN ifs = 1 .. m BY LenProperties
<1>2. /\ DOMAIN ifs' = 1 .. m + 1 /\ ifs'[m + 1] = new
      /\ \A k \in 1 .. m : ifs'[k] = ifs[k]
  <2>1. new \in OpenIf BY DEF OpenIf
  <2>. HIDE DEF new
  <2>. QED BY <1>1, <2>1, AppendProperties DEF new
<1>3. new.orelse = a /\ new.merge = b OBVIOUS
<1>4. \A k \in DOMAIN ifs' : k \in 1 .. m \/ k = m + 1 BY <1>1, <1>2
<1>. HIDE DEF new, m
<1>. QED BY <1>1, <1>2, <1>3, <1>4 DEF Waiting

\* An if statement.
LEMMA IfOnWay ==
  ASSUME GraphInv, CodeInv, PathInv, GenIf
  PROVE  PathInv'
<1>. DEFINE S == Written(gcur)
            v == GenExpr(fn, gitem.expr)
            R == SourceRuns(gcur, gpc, gitem.expr)
            body == gdecl.body
<1>1. Midway(S) /\ gitem.op = "if" BY MidwayIs DEF GenIf
<1>2. /\ UNCHANGED <<prog, gcur, emitted, diags, values>> /\ gpc' = gpc + 1
      /\ IfOn(v, <<1, 2>>)
  BY DEF GenIf, Gen
<1>. HIDE DEF S
<1>3. /\ Leads(fn, v, R) /\ Sound(v, S)
      /\ \A b \in Waiting : b \in Others(v) /\ v.blocks[b].code = <<>>
  BY <1>1, ExprHere DEF S
<1>. HIDE DEF v
<1>4. CASE v.val = "null"
  <2>1. crashed' BY <1>2, <1>4 DEF IfOn
  <2>. QED BY <1>2, <2>1, CrashBehind
<1>5. CASE v.val # "null"
  <2>. DEFINE n == Len(v.blocks)
              wrong == (Width(v.val) = 0)
              h == Fresh(End(BadIf(v, wrong), "if", "void", <<n + 1, n + 2>>),
                         <<NewBlock, NewBlock, NewBlock>>, n + 1)
              q == Append(ifs, [orelse |-> n + 2, merge |-> n + 3, within |-> "then"])
  <2>1. fn' = h /\ ifs' = q BY <1>2, <1>5 DEF IfOn
  <2>2. PICK F, J : OnWay(F, J) BY <1>1, WayFrom DEF OnWay
  <2>. DEFINE A == Behind(<<Mark("then")>>, F[gpc + 1])
              B == Behind(<<Mark("else")>>, F[OrElseOf(body, gpc) + 1])
              L == [m \in DOMAIN q |-> IF m = Len(ifs) + 1 THEN gpc ELSE J[m]]
  <2>3. F[gpc] = After(R, A \cup B) BY <1>1, <2>2, PathsHere
  <2>4. F[gpc + 1] \in SUBSET Trails /\ F[OrElseOf(body, gpc) + 1] \in SUBSET Trails
    <3>1. prog \in Programs /\ gcur \in DOMAIN prog /\ gpc \in DOMAIN prog[gcur].body
          /\ prog[gcur].body[gpc].op = "if" /\ body = prog[gcur].body
      BY <1>1 DEF Midway, gdecl, gitem
    <3>2. CloseOf(body, gpc) \in (gpc + 1) .. Len(body) BY <3>1, CloseFound
    <3>3. OrElseOf(body, gpc) \in (gpc + 1) .. CloseOf(body, gpc) BY <3>1, OrElseFound
    <3>4. gpc \in Nat /\ Len(body) \in Nat BY <1>1, LenProperties DEF Midway
    <3>5. OrElseOf(body, gpc) + 1 \in 1 .. Len(body) + 1
      <4>. HIDE DEF body
      <4>. QED BY <3>2, <3>3, <3>4
    <3>. QED BY <2>2, <3>5 DEF OnWay
  <2>5. A \in SUBSET Trails /\ B \in SUBSET Trails /\ (A \cup B) \in SUBSET Trails
    <3>1. <<Mark("then")>> \in Trails /\ <<Mark("else")>> \in Trails BY MarkTrails
    <3>2. A \in SUBSET Trails BY <2>4, <3>1, BehindPaths
    <3>3. B \in SUBSET Trails BY <2>4, <3>1, BehindPaths
    <3>. QED BY <3>2, <3>3
  <2>6. Homeward(v, A \cup B, body, ifs, J, F)
    <3>1. Live(fn) BY <1>1 DEF Midway, Sound
    <3>2. Homeward(fn, F[gpc], body, ifs, J, F) BY <2>2 DEF OnWay
    <3>. HIDE DEF A, B, R
    <3>3. PICK K : K = A \cup B OBVIOUS
    <3>4. Homeward(fn, After(R, K), body, ifs, J, F) /\ K \in SUBSET Trails BY <2>3, <2>5, <3>2, <3>3
    <3>5. Homeward(v, K, body, ifs, J, F) BY <1>3, <3>1, <3>4, HomeLeads
    <3>. QED BY <3>3, <3>5
  <2>7. S \in SUBSET Instrs /\ Instr("bad", NoName, NoSlot) \in S /\ gpc \in Nat /\ ifs \in Seq(OpenIf)
    BY <1>1 DEF Midway
  <2>8. /\ Homeward(h, F[gpc + 1], body, q, L, F)
        /\ \A b \in DOMAIN v.blocks : b # v.cur => h.blocks[b] = v.blocks[b]
        /\ h.blocks[n + 2].code = <<>> /\ h.blocks[n + 3].code = <<>>
    <3>1. \A m \in DOMAIN q : L[m] = IF m = Len(ifs) + 1 THEN gpc ELSE J[m] OBVIOUS
    <3>2. n = Len(v.blocks) /\ q = Append(ifs, [orelse |-> n + 2, merge |-> n + 3, within |-> "then"])
      OBVIOUS
    <3>3. h = Fresh(End(BadIf(v, wrong), "if", "void", <<n + 1, n + 2>>), <<NewBlock, NewBlock, NewBlock>>, n + 1)
      OBVIOUS
    <3>4. Homeward(v, Behind(<<Mark("then")>>, F[gpc + 1]) \cup Behind(<<Mark("else")>>, F[OrElseOf(body, gpc) + 1]),
                  body, ifs, J, F)
      BY <2>6
    <3>. HIDE DEF n, q, h, L, body, wrong, A, B
    <3>5. IfSetUp(S, v, wrong, body, gpc, ifs, J, F, n, q, L, h)
      BY ONLY <1>3, <2>4, <2>7, <3>1, <3>2, <3>3, <3>4 DEF IfSetUp
    <3>. QED BY ONLY <3>5, IfHome
  <2>9. Opens(body, gpc, q, L)
    <3>1. gpc - 1 \in Nat /\ (gpc - 1) + 1 = gpc BY <1>1 DEF Midway
    <3>2. Opens(body, gpc - 1, ifs, J) BY <2>2 DEF OnWay
    <3>3. body[(gpc - 1) + 1].op = "if" BY <1>1, <3>1 DEF gitem
    <3>4. n \in Nat
      <4>1. Live(v) BY <1>3 DEF Sound
      <4>. QED BY <4>1, ListLen DEF Live
    <3>. DEFINE new == [orelse |-> n + 2, merge |-> n + 3, within |-> "then"]
    <3>5. new \in OpenIf
      <4>1. n + 2 \in Nat /\ n + 3 \in Nat BY <3>4
      <4>. QED BY <4>1 DEF OpenIf
    <3>. HIDE DEF n, new, body
    <3>6. LET M == [m \in DOMAIN Append(ifs, new) |-> IF m = Len(ifs) + 1 THEN (gpc - 1) + 1 ELSE J[m]]
          IN  Opens(body, (gpc - 1) + 1, Append(ifs, new), M)
      BY ONLY <2>7, <3>1, <3>2, <3>3, <3>5, OpensIf
    <3>. QED BY <3>1, <3>6 DEF new
  <2>10. WaitingEmpty'
    <3>1. \A w \in Waiting' : w \in Waiting \/ w = n + 2 \/ w = n + 3
      <4>1. n \in Nat
        <5>1. Live(v) BY <1>3 DEF Sound
        <5>. QED BY <5>1, ListLen DEF Live
      <4>2. n + 2 \in Nat /\ n + 3 \in Nat BY <4>1
      <4>. HIDE DEF n
      <4>. QED BY <2>1, <2>7, <4>2, WaitingMore
    <3>. HIDE DEF n, h, q
    <3>2. \A w \in Waiting' : h.blocks[w].code = <<>>
      <4>1. \A w \in Waiting : w \in DOMAIN v.blocks /\ w # v.cur /\ v.blocks[w].code = <<>>
        BY <1>3 DEF Others
      <4>. QED BY <2>8, <3>1, <4>1
    <3>. QED BY <2>1, <3>2 DEF WaitingEmpty
  <2>. HIDE DEF n, h, q, L, wrong, A, B
  <2>. DEFINE p == gpc + 1
  <2>11. p # 0 /\ p = gpc' /\ p \in 1 .. Len(body) + 1 /\ p - 1 = gpc
    BY <1>2, <2>2, <2>7 DEF OnWay
  <2>12. Slotted(values, gdecl, gcur, p)
    <3>1. gpc - 1 \in Nat /\ (gpc - 1) + 1 = gpc /\ (gpc - 1) + 2 = p BY <1>1 DEF Midway
    <3>2. gdecl.body[gpc].op = "if" /\ Slotted(values, gdecl, gcur, gpc) BY <1>1 DEF gitem, Midway
    <3>. QED BY <3>1, <3>2, SlotsStay
  <2>13. OnItsWay(h, gcur, p - 1, q)
    <3>1. IsSource(F, gcur) BY <2>2 DEF OnWay
    <3>. QED BY <2>8, <2>9, <2>11, <3>1 DEF OnItsWay, gdecl
  <2>. HIDE DEF p
  <2>14. PICK d : d = prog[gcur] OBVIOUS
  <2>15. p \in 1 .. Len(d.body) + 1 /\ Slotted(values, d, gcur, p) BY <2>11, <2>12, <2>14 DEF gdecl
  <2>. QED BY <1>2, <2>1, <2>10, <2>11, <2>13, <2>14, <2>15, WayBehind
<1>. QED BY <1>4, <1>5

\* The blocks of the innermost if wait, and are empty.
LEMMA InnermostHere ==
  ASSUME NEW S, Midway(S), ifs # <<>>
  PROVE  /\ Len(ifs) \in DOMAIN ifs /\ Len(ifs) \in Nat \ {0} /\ InnermostIf = ifs[Len(ifs)]
         /\ InnermostIf \in OpenIf
         /\ InnermostIf.merge \in Others(fn) /\ InnermostIf.merge # 1
         /\ fn.blocks[InnermostIf.merge].code = <<>>
         /\ InnermostIf.within = "then" =>
              /\ InnermostIf.orelse \in Others(fn) /\ fn.blocks[InnermostIf.orelse].code = <<>>
              /\ InnermostIf.orelse # InnermostIf.merge /\ InnermostIf.orelse # 1
<1>. DEFINE i == InnermostIf
<1>1. Live(fn) /\ IfsOK /\ Others(fn) = Waiting BY DEF Midway, Sound
<1>2. Len(ifs) \in DOMAIN ifs /\ i \in OpenIf /\ i = ifs[Len(ifs)]
      /\ i.orelse \in 2 .. Len(fn.blocks) /\ i.merge \in 2 .. Len(fn.blocks) /\ i.merge # i.orelse
  BY <1>1, InnermostOpen DEF InnermostIf
<1>3. Len(ifs) \in Nat \ {0} BY <1>1, <1>2, IfsTyped
<1>4. i.merge # 1 /\ i.orelse # 1 BY <1>2
<1>5. i.merge \in Waiting /\ (i.within = "then" => i.orelse \in Waiting)
  <2>. HIDE DEF i
  <2>. QED BY <1>2 DEF Waiting
<1>6. \A b \in Waiting : fn.blocks[b].code = <<>> BY DEF Midway, WaitingEmpty
<1>. QED BY <1>1, <1>2, <1>3, <1>4, <1>5, <1>6

\* A branch of the current block to one that waits leaves the blocks that still wait
\* empty.
LEMMA WentEmpty ==
  ASSUME NEW g, Live(g), NEW merge \in Others(g), merge # 1,
         NEW cur1 \in Others(g), \A b \in Others(g) : g.blocks[b].code = <<>>
  PROVE  LET h == Goto(g, merge, cur1)
         IN  /\ Live(h) /\ Others(h) = Others(g) \ {cur1}
             /\ \A b \in Others(h) : h.blocks[b].code = <<>>
<1>. DEFINE h == Goto(g, merge, cur1)
            b == [g.blocks[g.cur] EXCEPT !.term = "br", !.type = "void", !.succ = <<merge>>]
<1>1. Live(h) /\ Others(h) = Others(g) \ {cur1} BY Went
<1>2. h.blocks = [g.blocks EXCEPT ![g.cur] = b] BY DEF Live, Goto, End
<1>. HIDE DEF h, b
<1>3. \A w \in Others(h) : h.blocks[w].code = <<>>
  <2>1. \A w \in Others(g) : w \in DOMAIN g.blocks /\ w # g.cur BY DEF Others
  <2>. QED BY <1>1, <1>2, <2>1
<1>. QED BY <1>1, <1>3 DEF h

\* The else mark of an if.
LEMMA ElseOnWay ==
  ASSUME GraphInv, CodeInv, PathInv, GenElse
  PROVE  PathInv'
<1>. DEFINE S == Written(gcur)
            body == gdecl.body
            l == Len(ifs)
            i == InnermostIf
<1>1. Midway(S) /\ gitem.op = "else" /\ gpc # 0 BY MidwayIs, InBody DEF GenElse
<1>2. /\ UNCHANGED <<prog, gcur, emitted, diags, values>> /\ gpc' = gpc + 1
      /\ ifs # <<>> /\ i.within = "then" /\ fn' = Goto(fn, i.merge, i.orelse)
      /\ ifs' = [ifs EXCEPT ![l].within = "else"]
  BY DEF GenElse, Gen
<1>3. BodyInv' BY Statements
<1>. HIDE DEF S
<1>4. /\ l \in DOMAIN ifs /\ l \in Nat \ {0} /\ i = ifs[l] /\ i \in OpenIf
      /\ i.merge \in Others(fn) /\ i.merge # 1
      /\ i.orelse \in Others(fn) /\ fn.blocks[i.orelse].code = <<>>
  BY <1>1, <1>2, InnermostHere
<1>5. /\ S \in SUBSET Instrs /\ Sound(fn, S) /\ ifs \in Seq(OpenIf) /\ gpc \in Nat
      /\ prog \in Programs /\ gcur \in DOMAIN prog /\ body \in Seq(Item) /\ gpc \in 1 .. Len(body)
      /\ gpc - 1 \in Nat /\ (gpc - 1) + 1 = gpc /\ gpc + 1 = (gpc - 1) + 2 /\ gpc \in DOMAIN body
      /\ Others(fn) = Waiting /\ \A b \in Waiting : fn.blocks[b].code = <<>>
  BY <1>1 DEF Midway, WaitingEmpty
<1>6. PICK F, J : OnWay(F, J) BY <1>1, WayFrom DEF OnWay
<1>7. /\ CloseOf(body, gpc) = CloseOf(body, J[l]) /\ OrElseOf(body, J[l]) = gpc
  <2>1. Opens(prog[gcur].body, gpc - 1, ifs, J) BY <1>6 DEF OnWay, gdecl
  <2>2. prog[gcur].body[(gpc - 1) + 1].op = "else" BY <1>1, <1>5 DEF gitem, gdecl
  <2>3. ifs[Len(ifs)].within = "then" BY <1>2, <1>4
  <2>4. (gpc - 1) + 1 \in DOMAIN prog[gcur].body BY <1>5 DEF gdecl
  <2>5. PICK n : n = gpc - 1 OBVIOUS
  <2>6. /\ prog \in Programs /\ gcur \in DOMAIN prog /\ n \in Nat /\ n + 1 \in DOMAIN prog[gcur].body
        /\ ifs \in Seq(OpenIf) /\ ifs # <<>> /\ Opens(prog[gcur].body, n, ifs, J)
        /\ prog[gcur].body[n + 1].op = "else" /\ ifs[Len(ifs)].within = "then" /\ n + 1 = gpc
    BY <1>2, <1>5, <2>1, <2>2, <2>3, <2>4, <2>5
  <2>7. /\ CloseOf(prog[gcur].body, n + 1) = CloseOf(prog[gcur].body, J[Len(ifs)])
        /\ OrElseOf(prog[gcur].body, J[Len(ifs)]) = n + 1
    BY ONLY <2>6, ElseCloses
  <2>. QED BY <2>6, <2>7 DEF gdecl
<1>8. Homeward(fn, F[CloseOf(body, J[l]) + 1], body, ifs, J, F)
  <2>1. F[gpc] = F[CloseOf(body, gpc) + 1] BY <1>1, <1>6, PathsHere
  <2>. QED BY <1>6, <1>7, <2>1 DEF OnWay
<1>9. F[gpc + 1] \in SUBSET Trails /\ gpc + 1 \in 1 .. Len(body) + 1 BY <1>6 DEF OnWay
<1>10. Homeward(fn', F[gpc + 1], body, ifs', J, F)
  <2>1. PICK merge, orelse : merge = i.merge /\ orelse = i.orelse OBVIOUS
  <2>2. PICK q : q = ifs' OBVIOUS
  <2>3. /\ merge = ifs[l].merge /\ orelse = ifs[l].orelse /\ merge \in Others(fn) /\ orelse \in Others(fn)
        /\ fn.blocks[orelse].code = <<>> /\ q = [ifs EXCEPT ![l].within = "else"]
        /\ F[OrElseOf(body, J[l]) + 1] \in SUBSET Trails /\ ifs # <<>> /\ ifs \in Seq(OpenIf)
        /\ S \in SUBSET Instrs /\ Sound(fn, S) /\ l = Len(ifs)
    BY <1>2, <1>4, <1>5, <1>7, <1>9, <2>1, <2>2
  <2>. HIDE DEF l, body
  <2>4. Homeward(Goto(fn, merge, orelse), F[OrElseOf(body, J[l]) + 1], body, q, J, F)
    BY ONLY <1>8, <2>3, ElseHome
  <2>. QED BY <1>2, <1>7, <2>1, <2>2, <2>4
<1>11. Opens(body, gpc, ifs', J)
  <2>1. Opens(body, gpc - 1, ifs, J) /\ body[(gpc - 1) + 1].op = "else" /\ ifs # <<>>
    BY <1>1, <1>2, <1>5, <1>6 DEF OnWay, gitem
  <2>2. DOMAIN ifs = 1 .. l /\ \A k \in DOMAIN ifs : ifs[k] \in OpenIf BY <1>5, LenProperties, ElementOfSeq
  <2>3. PICK j : j = [ifs[l] EXCEPT !.within = "else"] OBVIOUS
  <2>4. j \in OpenIf /\ j.within = "else" BY <1>4, <2>3 DEF OpenIf
  <2>5. ifs' = [ifs EXCEPT ![l] = j] BY <1>2, <2>3
  <2>6. ifs' \in Seq(OpenIf) /\ Len(ifs') = Len(ifs) /\ ifs'[Len(ifs)] = j
        /\ \A m \in DOMAIN ifs : m # Len(ifs) => ifs'[m] = ifs[m]
    <3>1. ifs' \in Seq(OpenIf) /\ DOMAIN ifs' = DOMAIN ifs /\ Len(ifs') = Len(ifs)
      BY <1>4, <1>5, <2>4, <2>5, ExceptSeq
    <3>. QED BY <1>4, <2>5, <3>1
  <2>7. PICK n, q : n = gpc - 1 /\ q = ifs' OBVIOUS
  <2>8. /\ n \in Nat /\ ifs \in Seq(OpenIf) /\ ifs # <<>> /\ Opens(body, n, ifs, J)
        /\ body[n + 1].op = "else" /\ q \in Seq(OpenIf) /\ Len(q) = Len(ifs)
        /\ q[Len(ifs)].within = "else" /\ \A m \in DOMAIN ifs : m # Len(ifs) => q[m] = ifs[m]
    BY <1>5, <2>1, <2>4, <2>6, <2>7
  <2>. HIDE DEF body
  <2>9. Opens(body, n + 1, q, J) BY ONLY <2>8, OpensElse
  <2>. QED BY <1>5, <2>7, <2>9
<1>12. WaitingEmpty'
  <2>1. Others(fn') = Waiting' BY <1>2, <1>3, <1>5 DEF BodyInv
  <2>2. \A b \in Others(fn') : fn'.blocks[b].code = <<>>
    <3>1. PICK merge, orelse : merge = i.merge /\ orelse = i.orelse OBVIOUS
    <3>2. /\ Live(fn) /\ merge \in Others(fn) /\ merge # 1
          /\ orelse \in Others(fn) /\ \A b \in Others(fn) : fn.blocks[b].code = <<>>
      BY <1>4, <1>5, <3>1 DEF Sound
    <3>3. LET h == Goto(fn, merge, orelse)
          IN  /\ Live(h) /\ Others(h) = Others(fn) \ {orelse}
              /\ \A b \in Others(h) : h.blocks[b].code = <<>>
      BY ONLY <3>2, WentEmpty
    <3>. QED BY <1>2, <3>1, <3>3
  <2>. QED BY <2>1, <2>2 DEF WaitingEmpty
<1>. DEFINE p == gpc + 1
<1>13. p # 0 /\ p = gpc' /\ p - 1 = gpc BY <1>2, <1>5
<1>14. Slotted(values, gdecl, gcur, p)
  <2>1. gdecl.body[(gpc - 1) + 1].op = "else" /\ Slotted(values, gdecl, gcur, (gpc - 1) + 1)
    BY <1>1, <1>5 DEF gitem, Midway
  <2>. QED BY <1>5, <2>1, SlotsStay
<1>15. OnItsWay(fn', gcur, p - 1, ifs')
  <2>1. IsSource(F, gcur) BY <1>6 DEF OnWay
  <2>. QED BY <1>10, <1>11, <1>13, <2>1 DEF OnItsWay, gdecl
<1>. HIDE DEF p
<1>16. PICK d, g, o, v : d = prog[gcur] /\ g = fn' /\ o = ifs' /\ v = values' OBVIOUS
<1>17. p \in 1 .. Len(d.body) + 1 /\ Slotted(v, d, gcur, p) /\ OnItsWay(g, gcur, p - 1, o)
  BY <1>2, <1>9, <1>14, <1>15, <1>16 DEF gdecl, p
<1>. QED BY <1>2, <1>12, <1>13, <1>16, <1>17, WayBehind

\* The end of an if.
LEMMA EndIfOnWay ==
  ASSUME GraphInv, CodeInv, PathInv, GenEndIf
  PROVE  PathInv'
<1>. DEFINE S == Written(gcur)
            body == gdecl.body
            l == Len(ifs)
            i == InnermostIf
            e == IF i.within = "then" THEN Goto(fn, i.merge, i.orelse) ELSE fn
<1>1. Midway(S) /\ gitem.op = "endif" /\ gpc # 0 BY MidwayIs, InBody DEF GenEndIf
<1>2. /\ UNCHANGED <<prog, gcur, emitted, diags, values>> /\ gpc' = gpc + 1
      /\ ifs # <<>> /\ fn' = Goto(e, i.merge, i.merge)
      /\ ifs' = SubSeq(ifs, 1, l - 1)
  BY DEF GenEndIf, Gen
<1>3. BodyInv' BY Statements
<1>. HIDE DEF S
<1>4. /\ l \in DOMAIN ifs /\ l \in Nat \ {0} /\ i = ifs[l] /\ i \in OpenIf
      /\ i.merge \in Others(fn) /\ i.merge # 1 /\ fn.blocks[i.merge].code = <<>>
      /\ i.within = "then" => /\ i.orelse \in Others(fn) /\ fn.blocks[i.orelse].code = <<>>
                              /\ i.orelse # i.merge
  BY <1>1, <1>2, InnermostHere
<1>5. /\ S \in SUBSET Instrs /\ Sound(fn, S) /\ ifs \in Seq(OpenIf) /\ gpc \in Nat
      /\ prog \in Programs /\ gcur \in DOMAIN prog /\ body \in Seq(Item) /\ gpc \in 1 .. Len(body)
      /\ gpc - 1 \in Nat /\ (gpc - 1) + 1 = gpc /\ gpc + 1 = (gpc - 1) + 2 /\ gpc \in DOMAIN body
      /\ Others(fn) = Waiting /\ \A b \in Waiting : fn.blocks[b].code = <<>>
  BY <1>1 DEF Midway, WaitingEmpty
<1>6. PICK F, J : OnWay(F, J) BY <1>1, WayFrom DEF OnWay
<1>7. /\ CloseOf(body, J[l]) = gpc /\ (i.within = "then" => OrElseOf(body, J[l]) = gpc)
  <2>1. Opens(prog[gcur].body, gpc - 1, ifs, J) BY <1>6 DEF OnWay, gdecl
  <2>2. prog[gcur].body[(gpc - 1) + 1].op = "endif" BY <1>1, <1>5 DEF gitem, gdecl
  <2>3. (gpc - 1) + 1 \in DOMAIN prog[gcur].body BY <1>5 DEF gdecl
  <2>4. PICK n : n = gpc - 1 OBVIOUS
  <2>5. /\ prog \in Programs /\ gcur \in DOMAIN prog /\ n \in Nat /\ n + 1 \in DOMAIN prog[gcur].body
        /\ ifs \in Seq(OpenIf) /\ ifs # <<>> /\ Opens(prog[gcur].body, n, ifs, J)
        /\ prog[gcur].body[n + 1].op = "endif" /\ n + 1 = gpc
    BY <1>2, <1>5, <2>1, <2>2, <2>3, <2>4
  <2>6. /\ CloseOf(prog[gcur].body, J[Len(ifs)]) = n + 1
        /\ ifs[Len(ifs)].within = "then" => OrElseOf(prog[gcur].body, J[Len(ifs)]) = n + 1
    BY ONLY <2>5, EndIfCloses
  <2>. QED BY <1>4, <2>5, <2>6 DEF gdecl
<1>8. Homeward(fn, F[CloseOf(body, J[l]) + 1], body, ifs, J, F)
  <2>1. F[gpc] = F[gpc + 1] BY <1>1, <1>6, PathsHere
  <2>. QED BY <1>6, <1>7, <2>1 DEF OnWay
<1>9. F[gpc + 1] \in SUBSET Trails /\ gpc + 1 \in 1 .. Len(body) + 1 BY <1>6 DEF OnWay
<1>. DEFINE L == [m \in DOMAIN SubSeq(ifs, 1, l - 1) |-> J[m]]
<1>10. Homeward(fn', F[gpc + 1], body, ifs', L, F)
  <2>1. PICK merge, orelse : merge = i.merge /\ orelse = i.orelse OBVIOUS
  <2>2. PICK q, w, K : q = ifs' /\ w = e /\ K = L OBVIOUS
  <2>3. \A m \in DOMAIN q : K[m] = J[m] BY <1>2, <2>2
  <2>4. w = IF ifs[l].within = "then" THEN Goto(fn, merge, orelse) ELSE fn
    <3>. HIDE DEF i
    <3>. QED BY <1>4, <2>1, <2>2
  <2>5. /\ merge = ifs[l].merge /\ orelse = ifs[l].orelse /\ merge \in Others(fn)
        /\ fn.blocks[merge].code = <<>> /\ merge # 1
        /\ ifs[l].within = "then" => /\ orelse \in Others(fn) /\ fn.blocks[orelse].code = <<>>
                                     /\ orelse # merge /\ OrElseOf(body, J[l]) = CloseOf(body, J[l])
        /\ q = SubSeq(ifs, 1, l - 1)
        /\ F[CloseOf(body, J[l]) + 1] \in SUBSET Trails /\ ifs # <<>> /\ ifs \in Seq(OpenIf)
        /\ S \in SUBSET Instrs /\ Sound(fn, S) /\ l = Len(ifs)
    BY <1>2, <1>4, <1>5, <1>7, <1>9, <2>1, <2>2
  <2>. HIDE DEF l, body, e, L, i
  <2>6. Homeward(Goto(w, merge, merge), F[CloseOf(body, J[l]) + 1], body, q, K, F)
    <3>1. EndIfSetUp(S, fn, body, ifs, J, F, l, merge, orelse, q, K, w)
      BY ONLY <1>8, <2>3, <2>4, <2>5 DEF EndIfSetUp
    <3>. QED BY ONLY <3>1, EndIfHome
  <2>. QED BY <1>2, <1>7, <2>1, <2>2, <2>6
<1>11. Opens(body, gpc, ifs', L)
  <2>1. PICK n : n = gpc - 1 OBVIOUS
  <2>2. /\ Opens(body, n, ifs, J) /\ body[n + 1].op = "endif" /\ ifs # <<>> /\ n \in Nat
        /\ ifs \in Seq(OpenIf) /\ n + 1 = gpc
    BY <1>1, <1>2, <1>5, <1>6, <2>1 DEF OnWay, gitem
  <2>. HIDE DEF body
  <2>3. LET q == SubSeq(ifs, 1, Len(ifs) - 1)
        IN  Opens(body, n + 1, q, [m \in DOMAIN q |-> J[m]])
    BY ONLY <2>2, OpensEnd
  <2>. QED BY <1>2, <2>2, <2>3
<1>. HIDE DEF L
<1>12. WaitingEmpty'
  <2>1. Others(fn') = Waiting' BY <1>2, <1>3, <1>5 DEF BodyInv
  <2>2. PICK merge, orelse : merge = i.merge /\ orelse = i.orelse OBVIOUS
  <2>3. Live(fn) /\ \A b \in Others(fn) : fn.blocks[b].code = <<>> BY <1>5 DEF Sound
  <2>4. PICK w : w = e OBVIOUS
  <2>5. Live(w) /\ merge \in Others(w) /\ merge # 1 /\ \A b \in Others(w) : w.blocks[b].code = <<>>
    <3>1. CASE i.within = "then"
      <4>1. /\ Live(fn) /\ merge \in Others(fn) /\ merge # 1
            /\ orelse \in Others(fn) /\ \A b \in Others(fn) : fn.blocks[b].code = <<>>
            /\ orelse # merge
        BY <1>4, <2>2, <2>3, <3>1
      <4>2. LET h == Goto(fn, merge, orelse)
            IN  /\ Live(h) /\ Others(h) = Others(fn) \ {orelse}
                /\ \A b \in Others(h) : h.blocks[b].code = <<>>
        BY ONLY <4>1, WentEmpty
      <4>3. w = Goto(fn, merge, orelse) BY <2>2, <2>4, <3>1
      <4>. QED BY ONLY <4>1, <4>2, <4>3
    <3>2. CASE i.within # "then" BY <1>4, <2>2, <2>3, <2>4, <3>2
    <3>. QED BY <3>1, <3>2
  <2>6. LET h == Goto(w, merge, merge)
        IN  /\ Live(h) /\ Others(h) = Others(w) \ {merge}
            /\ \A b \in Others(h) : h.blocks[b].code = <<>>
    BY ONLY <2>5, WentEmpty
  <2>7. fn' = Goto(w, merge, merge) BY <1>2, <2>2, <2>4
  <2>. QED BY <2>1, <2>6, <2>7 DEF WaitingEmpty
<1>. DEFINE p == gpc + 1
<1>13. p # 0 /\ p = gpc' /\ p - 1 = gpc BY <1>2, <1>5
<1>14. Slotted(values, gdecl, gcur, p)
  <2>1. gdecl.body[(gpc - 1) + 1].op = "endif" /\ Slotted(values, gdecl, gcur, (gpc - 1) + 1)
    BY <1>1, <1>5 DEF gitem, Midway
  <2>. QED BY <1>5, <2>1, SlotsStay
<1>15. OnItsWay(fn', gcur, p - 1, ifs')
  <2>1. IsSource(F, gcur) BY <1>6 DEF OnWay
  <2>. QED BY <1>10, <1>11, <1>13, <2>1 DEF OnItsWay, gdecl
<1>. HIDE DEF p
<1>16. PICK d, g, o, v : d = prog[gcur] /\ g = fn' /\ o = ifs' /\ v = values' OBVIOUS
<1>17. p \in 1 .. Len(d.body) + 1 /\ Slotted(v, d, gcur, p) /\ OnItsWay(g, gcur, p - 1, o)
  BY <1>2, <1>9, <1>14, <1>15, <1>16 DEF gdecl, p
<1>. QED BY <1>2, <1>12, <1>13, <1>16, <1>17, WayBehind

-----------------------------------------------------------------------------
(* Functions are begun and ended on their way.                              *)

\* A function that was begun goes on with all of its source: its first block only
\* allocates.
LEMMA BegunHome ==
  ASSUME NEW code \in Seq(Instrs), \A k \in DOMAIN code : code[k].op \in {"alloca", "bad"},
         NEW g, g = [NewFunction EXCEPT !.blocks[1].code = code],
         NEW K \in SUBSET Trails, NEW body, NEW o, NEW J, NEW F, K = F[1]
  PROVE  Homeward(g, K, body, o, J, F)
<1>1. g.cur = 1 /\ 1 \in DOMAIN g.blocks /\ g.blocks[1].code = code BY DEF NewFunction, NewBlock
<1>2. CASE \E k \in DOMAIN code : code[k].op = "bad" BY <1>1, <1>2 DEF Homeward, Spoilt, Spoils
<1>3. CASE \A k \in DOMAIN code : code[k].op = "alloca"
  <2>1. Said(g) = <<>> BY <1>1, <1>3, EventsAre DEF Said
  <2>2. Behind(<<>>, K) = K BY BehindPaths, TrailsOfEvents
  <2>. QED BY <1>1, <2>1, <2>2 DEF Homeward
<1>. QED BY <1>2, <1>3

\* A body is begun.
LEMMA BeginOnWay ==
  ASSUME GraphInv, CodeInv, PathInv, BeginBody
  PROVE  PathInv'
<1>. DEFINE params == gdecl.params
            slot(k) == [decl |-> gcur, at |-> 0, type |-> LlvmOf(params[k].type)]
            op(k) == IF slot(k).type = "void" THEN "bad" ELSE "alloca"
            code == [k \in DOMAIN params |-> Instr(op(k), params[k].name, slot(k))]
            named(x) == {k \in DOMAIN params : params[k].name = x}
<1>1. /\ gcur \in DOMAIN prog /\ prog \in Programs /\ prog \in Seq(Decl) /\ gcur \in Nat
      /\ values \in [Vars -> Slot] /\ gpc' = 1 /\ gpc = 0 /\ ifs' = <<>> /\ ~crashed
      /\ UNCHANGED <<prog, gcur, emitted, diags, entry, crashed>>
  BY DEF BeginBody, Running, CodeInv, GenTypeOK, GraphInv
<1>2. fn' = [NewFunction EXCEPT !.blocks[1].code = code] BY DEF BeginBody
<1>3. values' = [x \in Vars |-> IF named(x) = {} THEN values[x] ELSE slot(MaxOf(named(x)))]
  BY DEF BeginBody
<1>4. gdecl \in Decl /\ params \in Seq(Param) /\ gdecl.body \in Seq(Item)
  BY <1>1, BodyItems DEF gdecl, Decl
<1>5. code \in Seq(Instrs)
  <2>1. CodeInv' BY BeginTyped
  <2>2. Building(fn', Written(gcur)') /\ Written(gcur)' \subseteq Instrs
    BY <1>1, <2>1 DEF CodeInv, FnInv, Written
  <2>3. Building(fn', Instrs) BY <2>2, WrittenTyped
  <2>4. fn'.blocks[fn'.cur].code \in Seq(Instrs) BY <2>3, SaidTyped
  <2>. HIDE DEF code
  <2>5. fn'.cur = 1 /\ fn'.blocks[1].code = code BY <1>2 DEF NewFunction, NewBlock
  <2>. QED BY <2>4, <2>5
<1>6. \A k \in DOMAIN code : code[k].op \in {"alloca", "bad"} BY DEF Instr
<1>7. PICK F : IsSource(F, gcur)
  <2>1. LET n == Len(prog[gcur].body) + 1
        IN  \E F \in [1 .. n -> SUBSET Trails] :
              /\ SourcePaths(gcur, Unmapped) = F[1]
              /\ \A i \in 1 .. n : F[i] = PathsAt(gcur, Unmapped, i, F)
    <3>1. prog \in Programs /\ gcur \in DOMAIN prog BY <1>1
    <3>. QED BY ONLY <3>1, SourceExists, Zenon
  <2>. QED BY <2>1 DEF IsSource
<1>8. F[1] \in SUBSET Trails
  <2>1. Len(prog[gcur].body) \in Nat BY <1>4, LenProperties DEF gdecl
  <2>2. 1 \in 1 .. Len(prog[gcur].body) + 1 BY <2>1
  <2>. QED BY <1>7, <2>2 DEF IsSource
<1>. DEFINE J == [m \in DOMAIN <<>> |-> 0]
<1>9. Opens(prog[gcur].body, 0, <<>>, J)
  <2>1. Depth(prog[gcur].body, 0) = 0 BY NestingZero
  <2>2. Len(<<>>) = 0 /\ DOMAIN <<>> = {} BY EmptySeq, Lists, ListLen
  <2>. QED BY <2>1, <2>2 DEF Opens
<1>. HIDE DEF code, J
<1>10. Homeward(fn', F[0 + 1], prog[gcur].body, <<>>, J, F)
  <2>1. 0 + 1 = 1 OBVIOUS
  <2>2. Homeward(fn', F[1], prog[gcur].body, <<>>, J, F) BY <1>2, <1>5, <1>6, <1>8, BegunHome
  <2>. QED BY <2>1, <2>2
<1>11. OnItsWay(fn', gcur, 1 - 1, <<>>)
  <2>1. 1 - 1 = 0 OBVIOUS
  <2>. QED BY <1>7, <1>9, <1>10, <2>1 DEF OnItsWay
<1>12. Slotted(values', gdecl, gcur, 1)
  <2>1. \A x \in Vars : values[x].decl < gcur BY <1>1 DEF PathInv, SlotInv
  <2>2. \A k : slot(k).decl = gcur /\ slot(k).at = 0 OBVIOUS
  <2>. HIDE DEF slot
  <2>3. \A x \in Vars : IF {k \in DOMAIN gdecl.params : gdecl.params[k].name = x} = {}
                        THEN values'[x] = values[x]
                        ELSE values'[x].decl = gcur /\ values'[x].at = 0
    BY <1>3, <2>2
  <2>4. PICK w : w = values' OBVIOUS
  <2>5. \A x \in Vars : IF {k \in DOMAIN gdecl.params : gdecl.params[k].name = x} = {}
                        THEN w[x] = values[x] ELSE w[x].decl = gcur /\ w[x].at = 0
    BY <2>3, <2>4
  <2>6. gcur \in Nat BY <1>1
  <2>7. Slotted(w, gdecl, gcur, 1) BY ONLY <2>1, <2>5, <2>6, ParamsSlotted
  <2>. QED BY <2>4, <2>7
<1>13. WaitingEmpty'
  <2>1. DOMAIN <<>> = {} BY EmptySeq
  <2>2. Waiting' = {} BY <1>1, <2>1 DEF Waiting
  <2>. QED BY <2>2 DEF WaitingEmpty
<1>14. 1 \in 1 .. Len(gdecl.body) + 1
  <2>1. Len(gdecl.body) \in Nat BY <1>4, LenProperties
  <2>. QED BY <2>1
<1>15. PICK d, g, o, v, p : d = prog[gcur] /\ g = fn' /\ o = ifs' /\ v = values' /\ p = gpc' OBVIOUS
<1>16. p # 0 /\ p \in 1 .. Len(d.body) + 1 /\ Slotted(v, d, gcur, p) /\ OnItsWay(g, gcur, p - 1, o)
  BY <1>1, <1>11, <1>12, <1>14, <1>15 DEF gdecl
<1>. QED BY <1>1, <1>13, <1>15, <1>16, WayBehind

\* A declaration without body is skipped, and the entry point is made.
LEMMA SkipOnWay ==
  ASSUME CodeInv, PathInv, SkipDecl \/ GenMain
  PROVE  PathInv'
<1>1. UNCHANGED <<prog, gpc, fn, ifs, values, emitted, diags, crashed>> /\ gcur' = gcur + 1 /\ ~crashed
  BY DEF SkipDecl, GenMain, Running
<1>2. gpc = 0
  <2>1. CASE SkipDecl BY <2>1 DEF SkipDecl, CodeInv, FnInv, gdecl
  <2>2. CASE GenMain
    <3>1. prog \in Seq(Decl) BY DEF CodeInv, GenTypeOK
    <3>2. Len(prog) \in Nat /\ DOMAIN prog = 1 .. Len(prog) BY <3>1, LenProperties
    <3>3. gcur \notin DOMAIN prog BY <2>2, <3>2 DEF GenMain
    <3>. QED BY <3>3 DEF CodeInv, FnInv
  <2>. QED BY <2>1, <2>2
<1>3. SlotInv'
  <2>1. \A x \in Vars : values[x].decl < gcur /\ values[x].decl \in Nat
    BY <1>1, <1>2 DEF PathInv, SlotInv, CodeInv, GenTypeOK, Slot
  <2>2. gcur \in Nat
    <3>1. prog \in Seq(Decl) /\ gcur \in 1 .. Len(prog) + 2 BY DEF CodeInv, GenTypeOK
    <3>2. Len(prog) \in Nat BY <3>1, LenProperties
    <3>. QED BY <3>1, <3>2
  <2>3. \A x \in Vars : values[x].decl < gcur + 1 BY <2>1, <2>2
  <2>. QED BY <1>1, <1>2, <2>3 DEF SlotInv
<1>4. \A e : SourcePaths(e, Unmapped)' = SourcePaths(e, Unmapped) BY <1>1, SourceStable
<1>. QED BY <1>1, <1>2, <1>3, <1>4 DEF PathInv

\* h are the blocks of g when the last has ended.
EndedBody(g, h, S) ==
  /\ DOMAIN h.blocks = DOMAIN g.blocks /\ g.cur \in DOMAIN g.blocks /\ 1 \in DOMAIN h.blocks
  /\ \A b \in DOMAIN g.blocks : b # g.cur => h.blocks[b] = g.blocks[b]
  /\ \A b \in DOMAIN g.blocks : h.blocks[b].code = g.blocks[b].code
  /\ h.blocks[g.cur].succ = <<>> /\ h.blocks[g.cur].term = "ret_end"
  /\ h.unknown = g.unknown /\ h.blocks \in Seq(BlockOf(S)) /\ Coded(h.blocks)

\* The default return ends it.
LEMMA EndBlocks ==
  ASSUME NEW S \in SUBSET Instrs, NEW g, Sound(g, S), NEW type \in LlvmTypes,
         NEW h, h = End(g, "ret_end", type, <<>>)
  PROVE  EndedBody(g, h, S)
<1>. DEFINE b == [g.blocks[g.cur] EXCEPT !.term = "ret_end", !.type = type, !.succ = <<>>]
<1>1. h.blocks = [g.blocks EXCEPT ![g.cur] = b] /\ h.unknown = g.unknown BY DEF Sound, Live, End
<1>2. b.code = g.blocks[g.cur].code /\ b.succ = <<>> /\ b.term = "ret_end"
  BY DEF Sound, Live, IsBlock
<1>3. g.cur \in DOMAIN g.blocks BY DEF Sound, Live
<1>4. Building(h, S)
  <2>1. "ret_end" \in Terms /\ <<>> \in Seq(Nat) BY DEF Terms
  <2>. QED BY <2>1, EndTyped DEF Sound
<1>5. h.blocks \in Seq(BlockOf(S)) BY <1>4 DEF Building, FnOf
<1>6. Coded(h.blocks)
  <2>. SUFFICES ASSUME NEW i \in DOMAIN h.blocks
                PROVE  h.blocks[i].code \in Seq(Instrs) /\ h.blocks[i].term \in Terms
    BY DEF Coded
  <2>1. h.blocks[i] \in BlockOf(S)
    <3>1. DOMAIN h.blocks = 1 .. Len(h.blocks) BY <1>5, LenProperties
    <3>. QED BY <1>5, <3>1, ElementOfSeq
  <2>2. Seq(S) \subseteq Seq(Instrs) BY SeqMonotonic
  <2>. QED BY <2>1, <2>2 DEF BlockOf
<1>7. 1 \in DOMAIN g.blocks
  <2>1. IsList(g.blocks) BY DEF Sound, Live
  <2>2. Len(g.blocks) \in Nat /\ DOMAIN g.blocks = 1 .. Len(g.blocks) BY <2>1, ListLen
  <2>. QED BY <1>3, <2>2
<1>. HIDE DEF b
<1>. QED BY <1>1, <1>2, <1>3, <1>5, <1>6, <1>7 DEF EndedBody

\* A function that is verified is not spoilt.
LEMMA VerifiedOwn ==
  ASSUME NEW S \in SUBSET Instrs, NEW g, Sound(g, S), \A w \in S : w.op = "alloca" => w.slot.decl = gcur,
         NEW type \in LlvmTypes, NEW h, h = End(g, "ret_end", type, <<>>),
         NEW ret, Verified(h.blocks, ret), h.unknown = {}
  PROVE  ~Spoilt(g)
<1>1. /\ DOMAIN h.blocks = DOMAIN g.blocks /\ h.unknown = g.unknown /\ h.blocks \in Seq(BlockOf(S))
      /\ \A b \in DOMAIN g.blocks : h.blocks[b].code = g.blocks[b].code
  BY EndBlocks DEF EndedBody
<1>. SUFFICES ASSUME NEW b \in DOMAIN h.blocks, NEW k \in DOMAIN h.blocks[b].code,
                     Spoils(h.blocks[b].code[k])
              PROVE  FALSE
  BY <1>1 DEF Spoilt
<1>. DEFINE w == h.blocks[b].code[k]
<1>2. w.op # "bad" /\ (w.op \in {"load", "store"} => Dominates(h.blocks, w.slot, b, k))
  BY DEF Verified
<1>3. Dominates(h.blocks, w.slot, b, k) /\ w.slot.decl # gcur BY <1>2 DEF Spoils
<1>4. PICK c \in DOMAIN h.blocks : \E j \in DOMAIN h.blocks[c].code :
        h.blocks[c].code[j] = Instr("alloca", h.blocks[c].code[j].name, w.slot)
  BY <1>3 DEF Dominates
<1>5. PICK j \in DOMAIN h.blocks[c].code :
        h.blocks[c].code[j] = Instr("alloca", h.blocks[c].code[j].name, w.slot)
  BY <1>4
<1>6. h.blocks[c].code[j] \in S
  <2>1. DOMAIN h.blocks = 1 .. Len(h.blocks) BY <1>1, LenProperties
  <2>2. h.blocks[c] \in BlockOf(S) BY <1>1, <2>1, ElementOfSeq
  <2>3. h.blocks[c].code \in Seq(S) BY <2>2 DEF BlockOf
  <2>. QED BY <2>3, ElementOfSeq, LenProperties
<1>. HIDE DEF w
<1>. QED BY <1>3, <1>5, <1>6 DEF Instr

\* The paths of the whole function, where that is on its way to the end.
LEMMA FinishedHome ==
  ASSUME NEW S \in SUBSET Instrs, NEW g, Sound(g, S), NEW type \in LlvmTypes,
         NEW h, h = End(g, "ret_end", type, <<>>), Closed(h.blocks), Acyclic(h.blocks),
         ~Spoilt(g), NEW K, K = {<<Mark("ret_end")>>}, NEW body, NEW J, NEW F,
         Homeward(g, K, body, <<>>, J, F)
  PROVE  CompiledPaths(h.blocks) = F[1]
<1>1. /\ DOMAIN h.blocks = DOMAIN g.blocks /\ g.cur \in DOMAIN g.blocks /\ 1 \in DOMAIN h.blocks
      /\ \A b \in DOMAIN g.blocks : b # g.cur => h.blocks[b] = g.blocks[b]
      /\ \A b \in DOMAIN g.blocks : h.blocks[b].code = g.blocks[b].code
      /\ h.blocks[g.cur].succ = <<>> /\ h.blocks[g.cur].term = "ret_end" /\ Coded(h.blocks)
  <2>1. S \in SUBSET Instrs /\ Sound(g, S) /\ type \in LlvmTypes /\ h = End(g, "ret_end", type, <<>>)
    OBVIOUS
  <2>2. EndedBody(g, h, S) BY ONLY <2>1, EndBlocks
  <2>. QED BY <2>2 DEF EndedBody
<1>2. PICK paths \in [DOMAIN h.blocks -> SUBSET Seq(Events)] :
        /\ CompiledPaths(h.blocks) = paths[1]
        /\ \A b \in DOMAIN h.blocks : paths[b] = PathsFrom(h.blocks, paths, b)
  BY <1>1, PathsExist
<1>. DEFINE P == [b \in Nat |-> IF b \in DOMAIN h.blocks THEN paths[b] ELSE {}]
<1>3. DOMAIN h.blocks \subseteq Nat /\ \A b \in DOMAIN h.blocks : P[b] = paths[b]
  BY DEF Closed
<1>4. P \in [Nat -> SUBSET Trails]
  <2>1. \A b \in DOMAIN h.blocks : paths[b] \in SUBSET Trails BY TrailsOfEvents
  <2>. QED BY <2>1
<1>. HIDE DEF P
<1>5. \A b \in DOMAIN h.blocks : P[b] = PathsFrom(h.blocks, P, b)
  <2>. TAKE b \in DOMAIN h.blocks
  <2>1. Agree(h.blocks, paths, P, b) BY <1>3 DEF Agree, Closed
  <2>2. PathsFrom(h.blocks, paths, b) = PathsFrom(h.blocks, P, b) BY <2>1, SamePaths
  <2>. QED BY <1>2, <1>3, <2>2
<1>6. Solves(h.blocks, P) BY <1>4, <1>5 DEF Solves
<1>7. Solves(g.blocks, P)
  <2>1. Live(g) /\ DOMAIN g.blocks \subseteq DOMAIN h.blocks BY <1>1 DEF Sound
  <2>2. \A b \in DOMAIN g.blocks : b # g.cur => h.blocks[b] = g.blocks[b] BY <1>1
  <2>. QED BY ONLY <1>6, <2>1, <2>2, SolvesBefore, Zenon
<1>8. P[g.cur] = Behind(Said(g), K)
  <2>1. EventsOf(h.blocks[g.cur]) = Said(g) BY <1>1, EventsAre DEF Said
  <2>2. Said(g) \in Trails /\ h.blocks[g.cur].term \in Terms
    BY <1>1, SaidTyped DEF Sound, Terms
  <2>3. Shaped(h.blocks, P, g.cur) BY <1>4, <2>1, <2>2, PathsShape
  <2>. QED BY <1>1, <1>5, <2>1, <2>3 DEF Shaped
<1>9. Awaits(P, body, <<>>, J, F)
  <2>1. DOMAIN <<>> = {} BY EmptySeq
  <2>. QED BY <2>1 DEF Awaits
<1>10. P[1] = F[1] BY <1>7, <1>8, <1>9 DEF Homeward
<1>. QED BY <1>1, <1>2, <1>3, <1>10

\* A function that was on its way to its end is what the source says, unless
\* something is reported.
LEMMA FinishOnWay ==
  ASSUME GraphInv, CodeInv, PathInv, FinishBody
  PROVE  PathInv'
<1>. DEFINE S == Written(gcur)
            ret == LlvmOf(gdecl.ret)
            done == End(fn, "ret_end", ret, <<>>)
            fails == IF Verified(done.blocks, ret) THEN {} ELSE {"verify"}
            new == [decl |-> gcur, blocks |-> done.blocks]
            n == Len(gdecl.body)
<1>1. /\ gcur \in DOMAIN prog /\ prog \in Seq(Decl) /\ gcur \in Nat /\ prog \in Programs
      /\ gpc = n + 1 /\ ifs = <<>> /\ UNCHANGED <<prog, ifs, values>> /\ ~crashed
      /\ values \in [Vars -> Slot]
  BY DEF FinishBody, Running, CodeInv, GenTypeOK, GraphInv
<1>2. gpc # 0 /\ n \in Nat /\ gpc - 1 = n
  <2>1. gdecl.body \in Seq(Item) BY <1>1, BodyItems DEF gdecl
  <2>2. n \in Nat BY <2>1, LenProperties
  <2>. QED BY <1>1, <2>2
<1>3. \/ /\ fn' = done /\ emitted' = Append(emitted, new)
         /\ diags' = diags \cup done.unknown \cup fails
         /\ gcur' = gcur + 1 /\ gpc' = 0 /\ UNCHANGED crashed
      \/ crashed' = TRUE /\ UNCHANGED <<fn, emitted, diags, gcur, gpc>>
  BY DEF FinishBody
<1>4. CASE crashed' = TRUE /\ UNCHANGED <<fn, emitted, diags, gcur, gpc>>
  BY <1>1, <1>4, CrashBehind
<1>5. CASE /\ fn' = done /\ emitted' = Append(emitted, new)
           /\ diags' = diags \cup done.unknown \cup fails
           /\ gcur' = gcur + 1 /\ gpc' = 0 /\ UNCHANGED crashed
  <2>1. Slotted(values, gdecl, gcur, gpc) /\ OnItsWay(fn, gcur, n, <<>>)
    BY <1>1, <1>2 DEF PathInv, SlotInv
  <2>2. SlotInv'
    <3>1. \A x \in Vars : values[x].decl < gcur + 1 BY <1>1, <2>1, SlotsOlder
    <3>. QED BY <1>1, <1>5, <3>1 DEF SlotInv
  <2>3. /\ Sound(fn, S) /\ S \in SUBSET Instrs /\ ret \in LlvmTypes
        /\ \A w \in S : w.op = "alloca" => w.slot.decl = gcur
    <3>1. Live(fn) /\ Building(fn, S) BY <1>2 DEF GraphInv, BodyInv, CodeInv, FnInv
    <3>. QED BY <3>1, LlvmTyped DEF Sound, Written
  <2>4. /\ IsList(emitted) /\ Len(emitted) \in Nat /\ DOMAIN emitted = 1 .. Len(emitted)
        /\ DOMAIN emitted' = 1 .. Len(emitted) + 1
        /\ \A f \in 1 .. Len(emitted) : emitted'[f] = emitted[f]
        /\ emitted'[Len(emitted) + 1] = new
    <3>1. IsList(emitted) BY DEF GraphInv
    <3>2. PICK T : T = {emitted[f] : f \in DOMAIN emitted} \cup {new} OBVIOUS
    <3>3. {emitted[f] : f \in DOMAIN emitted} \subseteq T /\ new \in T BY <3>2
    <3>4. emitted \in Seq(T) BY <3>1, <3>3, SeqMonotonic DEF IsList
    <3>. HIDE DEF new, done, fails
    <3>. QED BY <1>5, <3>1, <3>3, <3>4, AppendProperties, LenProperties
  <2>5. \A f \in DOMAIN emitted' :
          (f \in DOMAIN emitted /\ emitted'[f] = emitted[f]) \/ emitted'[f] = new
    <3>. HIDE DEF new, done, fails
    <3>1. \A f \in 1 .. Len(emitted) + 1 : f \in 1 .. Len(emitted) \/ f = Len(emitted) + 1 BY <2>4
    <3>. QED BY <2>4, <3>1
  <2>6. Closed(done.blocks) /\ Acyclic(done.blocks)
    <3>1. GraphInv' BY GraphKept DEF GenNext, GenStep
    <3>2. PICK f \in DOMAIN emitted' : emitted'[f] = new
      <4>1. Len(emitted) + 1 \in DOMAIN emitted' BY <2>4
      <4>. QED BY <2>4, <4>1
    <3>3. emitted'[f].blocks = done.blocks BY <3>2
    <3>4. EmittedClosed' /\ EmittedRanked' BY <3>1 DEF GraphInv
    <3>5. PICK blocks : blocks = done.blocks OBVIOUS
    <3>6. Acyclic(blocks)
      <4>1. Acyclic(emitted'[f].blocks) BY <3>4 DEF EmittedRanked, Acyclic
      <4>. QED BY <3>3, <3>5, <4>1
    <3>7. \A b \in DOMAIN blocks : \A k \in DOMAIN blocks[b].succ : blocks[b].succ[k] \in DOMAIN blocks
      <4>1. \A b \in DOMAIN emitted'[f].blocks : \A k \in DOMAIN emitted'[f].blocks[b].succ :
              emitted'[f].blocks[b].succ[k] \in DOMAIN emitted'[f].blocks
        BY <3>4 DEF EmittedClosed
      <4>. HIDE DEF new, done
      <4>. QED BY <3>3, <3>5, <4>1
    <3>8. blocks \in Seq(BlockOf(S)) /\ 1 \in DOMAIN blocks
      <4>1. EndedBody(fn, done, S) BY <2>3, EndBlocks
      <4>. QED BY <3>5, <4>1 DEF EndedBody
    <3>9. Len(blocks) \in Nat /\ DOMAIN blocks = 1 .. Len(blocks) BY <3>8, ListOfSeq
    <3>. QED BY <3>5, <3>6, <3>7, <3>8, <3>9 DEF Closed
  <2>7. ASSUME diags' = {}
        PROVE  diags = {} /\ CompiledPaths(new.blocks) = SourcePaths(new.decl, Unmapped)
    <3>1. diags = {} /\ done.unknown = {} /\ Verified(done.blocks, ret) BY <1>5, <2>7
    <3>. HIDE DEF done, fails, ret, S
    <3>2. ~Spoilt(fn)
      <4>1. done = End(fn, "ret_end", ret, <<>>) BY DEF done
      <4>. QED BY <2>3, <3>1, <4>1, VerifiedOwn
    <3>3. PICK F, J : /\ IsSource(F, gcur) /\ Opens(prog[gcur].body, n, <<>>, J)
                      /\ Homeward(fn, F[n + 1], prog[gcur].body, <<>>, J, F)
      BY <2>1 DEF OnItsWay
    <3>4. F[n + 1] = {<<Mark("ret_end")>>}
      <4>1. n + 1 \in 1 .. Len(prog[gcur].body) + 1 /\ n + 1 = Len(prog[gcur].body) + 1
        BY <1>2 DEF gdecl
      <4>2. F[n + 1] = PathsAt(gcur, Unmapped, n + 1, F) BY <3>3, <4>1 DEF IsSource
      <4>. QED BY <4>1, <4>2 DEF PathsAt
    <3>5. CompiledPaths(done.blocks) = F[1]
      <4>1. done = End(fn, "ret_end", ret, <<>>) BY DEF done
      <4>2. PICK K : K = F[n + 1] OBVIOUS
      <4>3. K = {<<Mark("ret_end")>>} /\ Homeward(fn, K, prog[gcur].body, <<>>, J, F) BY <3>3, <3>4, <4>2
      <4>. QED BY ONLY <2>3, <2>6, <3>2, <4>1, <4>3, FinishedHome
    <3>6. SourcePaths(gcur, Unmapped) = F[1] BY <3>3 DEF IsSource
    <3>. QED BY <3>1, <3>5, <3>6
  <2>8. \A e : SourcePaths(e, Unmapped)' = SourcePaths(e, Unmapped) BY <1>1, SourceStable
  <2>9. ASSUME diags' = {}, NEW f \in DOMAIN emitted'
        PROVE  CompiledPaths(emitted'[f].blocks) = SourcePaths(emitted'[f].decl, Unmapped)
    <3>. HIDE DEF new
    <3>1. CASE f \in DOMAIN emitted /\ emitted'[f] = emitted[f]
      BY <2>7, <2>9, <3>1 DEF PathInv
    <3>2. CASE emitted'[f] = new BY <2>7, <2>9, <3>2
    <3>. QED BY <2>5, <2>9, <3>1, <3>2
  <2>10. (diags = {} => \A f \in DOMAIN emitted :
            CompiledPaths(emitted[f].blocks) = SourcePaths(emitted[f].decl, Unmapped))'
    <3>. SUFFICES ASSUME diags' = {}, NEW f \in DOMAIN emitted'
                  PROVE  (CompiledPaths(emitted[f].blocks) = SourcePaths(emitted[f].decl, Unmapped))'
      OBVIOUS
    <3>1. (SourcePaths(emitted[f].decl, Unmapped))' = SourcePaths(emitted'[f].decl, Unmapped) BY <2>8
    <3>. QED BY <2>9, <3>1
  <2>. QED BY <1>5, <2>2, <2>10 DEF PathInv
<1>. QED BY <1>3, <1>4, <1>5

\* A step that changes nothing of the generator keeps that.
LEMMA PathStutters ==
  ASSUME PathInv, UNCHANGED gvars
  PROVE  PathInv'
<1>1. /\ \A c, i, f : PathsAt(c, Unmapped, i, f)' = PathsAt(c, Unmapped, i, f)
      /\ \A c : SourcePaths(c, Unmapped)' = SourcePaths(c, Unmapped)
  BY SourceStable DEF gvars
<1>2. SlotInv' BY DEF PathInv, SlotInv, gvars, gdecl
<1>3. \A g, c, n, o : OnItsWay(g, c, n, o)' = OnItsWay(g, c, n, o)
  BY <1>1 DEF OnItsWay, IsSource, Homeward, Spoilt, Spoils, gvars
<1>4. WaitingEmpty' = WaitingEmpty BY DEF WaitingEmpty, Waiting, gvars
<1>5. OnItsWay(fn, gcur, gpc - 1, ifs)' = OnItsWay(fn, gcur, gpc - 1, ifs) BY <1>3 DEF gvars
<1>6. UNCHANGED <<crashed, gpc, gdecl, diags, emitted>> BY DEF gvars, gdecl
<1>. QED BY <1>1, <1>2, <1>4, <1>5, <1>6 DEF PathInv

\* Every step of the generator keeps that.
LEMMA PathKept ==
  ASSUME GraphInv, CodeInv, Orderly, PathInv, [GenNext]_gvars
  PROVE  PathInv'
<1>1. CASE UNCHANGED gvars BY <1>1, PathStutters
<1>2. CASE GenStep
  BY <1>2, SkipOnWay, BeginOnWay, FinishOnWay, BindOnWay, AssignOnWay, ExprOnWay, NothingOnWay,
     IfOnWay, ElseOnWay, EndIfOnWay
  DEF GenStep
<1>. QED BY <1>1, <1>2 DEF GenNext, GenTerminating

-----------------------------------------------------------------------------
(* The compiled program and its source.                                     *)

\* Before the first function no variable has a slot, and nothing was emitted.
LEMMA PathInitial == GenInit => PathInv
<1>. SUFFICES ASSUME GenInit PROVE PathInv OBVIOUS
<1>1. /\ gcur = 1 /\ gpc = 0 /\ values = [x \in Vars |-> NoSlot]
      /\ emitted = <<>> /\ crashed = FALSE
  BY DEF GenInit, GenStart
<1>2. \A x \in Vars : values[x].decl < gcur BY <1>1 DEF NoSlot
<1>3. DOMAIN emitted = {} BY <1>1
<1>. QED BY <1>1, <1>2, <1>3 DEF PathInv, SlotInv

\* The bodies of an accepted program nest, and its assignments have targets.
LEMMA OrderlyAccepted ==
  ASSUME TypeOK, NestInv, AssignmentsMutable, Accepted
  PROVE  Orderly
<1>1. prog \in Seq(Decl) /\ cur = Len(prog) + 1 BY DEF TypeOK, Accepted, Checked
<1>. SUFFICES ASSUME NEW c \in DOMAIN prog
              PROVE  /\ \E st : Nests(prog[c].body, Len(prog[c].body), st)
                     /\ \A i \in DOMAIN prog[c].body :
                          prog[c].body[i].op = "assign"
                          => Definitions(prog[c], prog[c].body[i].name, i) # {}
  BY DEF Orderly
<1>2. c < cur
  <2>1. Len(prog) \in Nat /\ DOMAIN prog = 1 .. Len(prog) BY <1>1, LenProperties
  <2>. QED BY <1>1, <2>1
<1>3. \E st : Nests(prog[c].body, Len(prog[c].body), st) BY <1>2 DEF NestInv
<1>4. ASSUME NEW i \in DOMAIN prog[c].body, prog[c].body[i].op = "assign"
      PROVE  Definitions(prog[c], prog[c].body[i].name, i) # {}
  <2>1. i \in Walked(c) BY <1>2, <1>4 DEF Walked
  <2>. QED BY <1>4, <2>1 DEF AssignmentsMutable
<1>. QED BY <1>3, <1>4

\* Every step of the compiler keeps the paths: the generator runs on accepted
\* programs only.
LEMMA PathStep ==
  ASSUME TypeOK, NestInv, AssignmentsMutable, StageInv, GraphInv, CodeInv, PathInv,
         [ANext]_allVars
  PROVE  PathInv'
<1>1. CASE Generate /\ GenStep
  <2>1. Accepted BY <1>1 DEF Generate, StageInv
  <2>2. Orderly BY <2>1, OrderlyAccepted
  <2>. QED BY <1>1, <2>2, PathKept DEF GenNext
<1>2. CASE UNCHANGED gvars BY <1>2, PathStutters
<1>. QED BY <1>1, <1>2, CompilerStep

\* So it holds in every state.
LEMMA PathHolds == ASpec => []PathInv
<1>1. AInit => PathInv
  <2>1. AInit => GenInit BY DEF AInit, Init, GenInit
  <2>. QED BY <2>1, PathInitial
<1>2. /\ TypeOK /\ NestInv /\ AssignmentsMutable /\ StageInv
      /\ GraphInv /\ CodeInv /\ PathInv /\ [ANext]_allVars
      => PathInv'
  BY PathStep
<1>3. ASpec => [](TypeOK /\ NestInv /\ AssignmentsMutable)
  BY CompilerChecks, TypeCorrect, NestHolds, AssignmentsAreToMutables, PTL
<1>4. ASpec => [](GraphInv /\ CodeInv) BY CompilerGenerates, CodeHolds, PTL
<1>. QED BY <1>1, <1>2, <1>3, <1>4, StageHolds, PTL DEF ASpec

-----------------------------------------------------------------------------
(* Every function is emitted.                                               *)

\* Of the declarations the generator is done with, the functions were emitted, each
\* once and in their order.
EmissionInOrder ==
  /\ prog \in Seq(Decl) /\ emitted \in Seq([decl : Nat, blocks : Seq(BlockSet)]) /\ gcur \in Nat
  /\ \A f \in DOMAIN emitted : emitted[f].decl < gcur
  /\ \A f, g \in DOMAIN emitted : f < g => emitted[f].decl < emitted[g].decl
  /\ \A c \in DOMAIN prog : c < gcur /\ prog[c].kind = "fn" =>
       \E f \in DOMAIN emitted : emitted[f].decl = c

\* A step of the generator: the next declaration is done with, the program is, or
\* neither.
LEMMA OrderKept ==
  ASSUME EmissionInOrder, GenTypeOK', [GenNext]_gvars
  PROVE  EmissionInOrder'
<1>1. /\ (prog \in Seq(Decl))' /\ (emitted \in Seq([decl : Nat, blocks : Seq(BlockSet)]))'
      /\ (gcur \in Nat)'
  BY DEF GenTypeOK
<1>0. /\ Len(emitted) \in Nat /\ DOMAIN emitted = 1 .. Len(emitted)
      /\ \A f \in DOMAIN emitted : emitted[f].decl \in Nat
      /\ \A e : /\ Len(Append(emitted, e)) = Len(emitted) + 1
               /\ DOMAIN Append(emitted, e) = 1 .. Len(emitted) + 1
               /\ Append(emitted, e)[Len(emitted) + 1] = e
               /\ \A f \in DOMAIN emitted : Append(emitted, e)[f] = emitted[f]
  <2>1. PICK S : S = [decl : Nat, blocks : Seq(BlockSet)] OBVIOUS
  <2>2. emitted \in Seq(S) BY <2>1 DEF EmissionInOrder
  <2>3. \A e \in S : e.decl \in Nat BY <2>1
  <2>4. \A f \in DOMAIN emitted : emitted[f] \in S BY <2>2
  <2>. QED BY <2>2, <2>3, <2>4
<1>2. CASE UNCHANGED <<prog, emitted, gcur>> BY <1>2 DEF EmissionInOrder
<1>3. CASE gcur' = gcur + 1 /\ UNCHANGED <<prog, emitted>> /\ (gcur \in DOMAIN prog => prog[gcur].kind # "fn")
  <2>1. ASSUME NEW c \in DOMAIN prog, c < gcur + 1, prog[c].kind = "fn" PROVE c < gcur
    <3>1. c \in Nat /\ c # gcur BY <1>3, <2>1 DEF EmissionInOrder
    <3>. QED BY <2>1, <3>1 DEF EmissionInOrder
  <2>2. \A f \in DOMAIN emitted : emitted[f].decl < gcur + 1
    <3>. QED BY <1>0 DEF EmissionInOrder
  <2>. QED BY <1>1, <1>3, <2>1, <2>2 DEF EmissionInOrder
<1>4. CASE /\ gcur \in DOMAIN prog /\ gcur' = gcur + 1 /\ UNCHANGED prog
           /\ \E blocks : emitted' = Append(emitted, [decl |-> gcur, blocks |-> blocks])
  <2>1. PICK e : emitted' = Append(emitted, e) /\ e.decl = gcur BY <1>4
  <2>2. /\ Len(emitted) \in Nat /\ DOMAIN emitted = 1 .. Len(emitted)
        /\ DOMAIN emitted' = 1 .. Len(emitted) + 1
        /\ \A f \in DOMAIN emitted : emitted'[f] = emitted[f] /\ emitted[f].decl \in Nat
        /\ emitted'[Len(emitted) + 1] = e
    BY <1>0, <2>1
  <2>3. \A f \in DOMAIN emitted' : emitted'[f].decl < gcur + 1
    <3>. SUFFICES ASSUME NEW f \in DOMAIN emitted' PROVE emitted'[f].decl < gcur + 1 OBVIOUS
    <3>1. CASE f \in DOMAIN emitted BY <2>2, <3>1 DEF EmissionInOrder
    <3>2. CASE f = Len(emitted) + 1 BY <2>1, <2>2, <3>2 DEF EmissionInOrder
    <3>. QED BY <2>2, <3>1, <3>2
  <2>4. \A f, g \in DOMAIN emitted' : f < g => emitted'[f].decl < emitted'[g].decl
    <3>. SUFFICES ASSUME NEW f \in DOMAIN emitted', NEW g \in DOMAIN emitted', f < g
                 PROVE  emitted'[f].decl < emitted'[g].decl
      OBVIOUS
    <3>1. f \in DOMAIN emitted BY <2>2
    <3>2. CASE g \in DOMAIN emitted BY <2>2, <3>1, <3>2 DEF EmissionInOrder
    <3>3. CASE g = Len(emitted) + 1 BY <2>1, <2>2, <3>1, <3>3 DEF EmissionInOrder
    <3>. QED BY <2>2, <3>2, <3>3
  <2>5. ASSUME NEW c \in DOMAIN prog, c < gcur + 1, prog[c].kind = "fn"
        PROVE  \E f \in DOMAIN emitted' : emitted'[f].decl = c
    <3>1. CASE c = gcur BY <2>1, <2>2, <3>1
    <3>2. CASE c # gcur
      <4>1. c \in Nat /\ c < gcur BY <2>5, <3>2 DEF EmissionInOrder
      <4>2. PICK f \in DOMAIN emitted : emitted[f].decl = c BY <2>5, <4>1 DEF EmissionInOrder
      <4>. QED BY <2>2, <4>2
    <3>. QED BY <3>1, <3>2
  <2>. QED BY <1>1, <1>4, <2>3, <2>4, <2>5 DEF EmissionInOrder
<1>5. CASE SkipDecl BY <1>3, <1>5 DEF SkipDecl, gdecl
<1>6. CASE FinishBody
  <2>1. UNCHANGED <<prog, emitted, gcur>>
        \/ /\ gcur' = gcur + 1 /\ UNCHANGED prog
           /\ \E blocks : emitted' = Append(emitted, [decl |-> gcur, blocks |-> blocks])
    BY <1>6 DEF FinishBody
  <2>2. gcur \in DOMAIN prog BY <1>6 DEF FinishBody, Running
  <2>. QED BY <1>2, <1>4, <2>1, <2>2
<1>7. CASE GenMain
  <2>1. gcur \notin DOMAIN prog BY <1>7 DEF GenMain, EmissionInOrder
  <2>. QED BY <1>3, <1>7, <2>1 DEF GenMain
<1>8. CASE BeginBody BY <1>2, <1>8 DEF BeginBody
<1>9. CASE GenBinding \/ GenAssign \/ GenExprStmt \/ GenNothing \/ GenIf \/ GenElse \/ GenEndIf
  <2>1. UNCHANGED <<prog, emitted, gcur>>
    BY <1>9 DEF GenBinding, GenAssign, GenExprStmt, GenNothing, GenIf, GenElse, GenEndIf, Gen
  <2>. QED BY <1>2, <2>1
<1>10. CASE GenTerminating \/ UNCHANGED gvars
  <2>1. UNCHANGED <<prog, emitted, gcur>> BY <1>10 DEF GenTerminating, gvars
  <2>. QED BY <1>2, <2>1
<1>. QED BY <1>5, <1>6, <1>7, <1>8, <1>9, <1>10 DEF GenNext, GenStep

\* So it holds in every state.
LEMMA OrderHolds == GenSpec => []EmissionInOrder
<1>1. GenInit /\ GenTypeOK => EmissionInOrder
  BY DEF GenInit, GenStart, GenTypeOK, EmissionInOrder
<1>2. EmissionInOrder /\ GenTypeOK' /\ [GenNext]_gvars => EmissionInOrder' BY OrderKept
<1>. QED BY <1>1, <1>2, GenTypeCorrect, PTL DEF GenSpec

-----------------------------------------------------------------------------
\* A program that is compiled does what it says: each function is emitted, once, and
\* the paths of the code generated for it are those of its source, with the
\* definition of each variable that lexical scoping gives it, although values_ knows
\* neither scopes nor functions (codegen.cpp, generate), for every program the
\* checker accepts.
THEOREM CompilesAsWritten == ASpec => []CompiledFaithfully
<1>1. ASSUME StageInv, PathInv, EmissionInOrder PROVE CompiledFaithfully
  <2>. SUFFICES ASSUME stage = "emitted"
               PROVE  /\ \A f \in DOMAIN emitted :
                           CompiledPaths(emitted[f].blocks) = SourcePaths(emitted[f].decl, Unmapped)
                      /\ \A c \in DOMAIN prog : prog[c].kind = "fn" =>
                           \E f \in DOMAIN emitted : emitted[f].decl = c
                      /\ \A f, g \in DOMAIN emitted : f < g => emitted[f].decl < emitted[g].decl
    BY DEF CompiledFaithfully
  <2>1. Built BY <1>1 DEF StageInv
  <2>2. \A f \in DOMAIN emitted :
          CompiledPaths(emitted[f].blocks) = SourcePaths(emitted[f].decl, Unmapped)
    BY <1>1, <2>1 DEF Built, PathInv
  <2>3. \A c \in DOMAIN prog : c < gcur
    BY <1>1, <2>1 DEF Built, Generated, EmissionInOrder
  <2>. QED BY <1>1, <2>2, <2>3 DEF EmissionInOrder
<1>2. ASpec => []EmissionInOrder BY CompilerGenerates, OrderHolds, PTL
<1>. QED BY <1>1, <1>2, StageHolds, PathHolds, PTL

==============================================================================
