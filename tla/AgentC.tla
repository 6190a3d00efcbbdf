------------------------------- MODULE AgentC --------------------------------
(***************************************************************************)
(* The compiler agentc (main.cpp) from the parsed program on: the type     *)
(* checker, then the code generator, each stopping the compilation when it *)
(* has errors, then the output.                                             *)
(***************************************************************************)
EXTENDS TypeChecker, CodeGen

VARIABLE stage   \* check, generate, emitted, rejected or crashed

checkVars == <<cur, pc, scopes, open, errors, warnings>>
genVars   == <<gcur, gpc, fn, ifs, values, emitted, diags, entry, crashed>>
allVars   == <<prog, stage, checkVars, genVars>>

-----------------------------------------------------------------------------
\* Stage 4: the type checker runs to its end, then its errors are looked at.
Check == stage = "check" /\ Step /\ UNCHANGED <<stage, genVars>>

Judge ==
  /\ stage = "check" /\ Checked
  /\ stage' = IF errors = {} THEN "generate" ELSE "rejected"
  /\ UNCHANGED <<prog, checkVars, genVars>>

\* Stage 5: the code generator runs to its end, then its errors are looked at.
Generate == stage = "generate" /\ GenStep /\ UNCHANGED <<stage, checkVars>>

Emission ==
  /\ stage = "generate" /\ Generated
  /\ stage' = IF diags = {} THEN "emitted" ELSE "rejected"
  /\ UNCHANGED <<prog, checkVars, genVars>>

\* The checker throws, or the generator crashes: nothing catches either.
Abort ==
  /\ \/ stage = "check" /\ Thrown
     \/ stage = "generate" /\ crashed
  /\ stage' = "crashed"
  /\ UNCHANGED <<prog, checkVars, genVars>>

Exited == stage \in {"emitted", "rejected", "crashed"} /\ UNCHANGED allVars

AInit == Init /\ GenStart /\ stage = "check"
AStep == Check \/ Judge \/ Generate \/ Emission \/ Abort
ANext == AStep \/ Exited
ASpec == AInit /\ [][ANext]_allVars

-----------------------------------------------------------------------------
(* What a function does, as the set of its possible paths: the variables    *)
(* it reads and writes, by definition, the functions it calls, the outcome  *)
(* of its conditions and propagations, and how it returns.                  *)

Event(op, name, c, i) == <<op, name, c, i>>
Mark(op) == Event(op, NoName, 0, 0)

\* What the instructions of a block are to a path: an allocation is nothing.
EventOf(c) ==
  IF c.op = "call" THEN Event("call", c.name, 0, 0)
  ELSE Event(c.op, c.name, c.slot.decl, c.slot.at)
EventsOf(block) ==
  LET upTo[k \in 0 .. Len(block.code)] ==
        IF k = 0 THEN <<>>
        ELSE upTo[k - 1] \o (IF block.code[k].op = "alloca" THEN <<>> ELSE <<EventOf(block.code[k])>>)
  IN  upTo[Len(block.code)]

\* The paths of the blocks generated for a function.
CompiledPaths(blocks) ==
  LET arm(term, k) == CASE term = "if"   -> <<Mark(IF k = 1 THEN "then" ELSE "else")>>
                        [] term = "prop" -> <<Mark(IF k = 1 THEN "ok" ELSE "err")>>
                        [] OTHER -> <<>>
      paths[b \in DOMAIN blocks] ==
        IF blocks[b].succ = <<>> THEN {Append(EventsOf(blocks[b]), Mark(blocks[b].term))}
        ELSE UNION {{EventsOf(blocks[b]) \o arm(blocks[b].term, k) \o p :
                       p \in paths[blocks[b].succ[k]]} : k \in DOMAIN blocks[b].succ}
  IN  paths[1]

\* The paths through an expression at item i of declaration c, and whether they
\* end the function.
Run(events, done) == [events |-> events, done |-> done]
Then(first, second) ==
  {r \in first : r.done}
    \cup {Run(r.events \o s.events, s.done) : r \in {q \in first : ~q.done}, s \in second}

\* The paths of what is run and then, unless that ends the function, of the rest.
After(runs, rest) ==
  {r.events : r \in {q \in runs : q.done}}
    \cup {r.events \o p : r \in {q \in runs : ~q.done}, p \in rest}

Reads(c, i, x) == <<Event("load", x, c, Resolve(prog[c], x, i))>>
Propagation == {Run(<<Mark("ok")>>, FALSE), Run(<<Mark("err"), Mark("ret_err")>>, TRUE)}
AtomRuns(c, i, a) ==
  LET reads[k \in 0..Len(a.args)] ==
        IF k = 0 THEN <<>>
        ELSE reads[k - 1] \o (IF a.args[k].kind = "ident" THEN Reads(c, i, a.args[k].val) ELSE <<>>)
      base == CASE a.kind = "lit"   -> <<>>
                [] a.kind = "ident" -> Reads(c, i, a.val)
                [] OTHER            -> Append(reads[Len(a.args)], Event("call", a.val, 0, 0))
  IN  IF a.prop THEN Then({Run(base, FALSE)}, Propagation) ELSE {Run(base, FALSE)}
\* The operands of an expression, in the order they are written.
OperandRuns(c, i, atoms) ==
  LET upTo[k \in 0..Len(atoms)] ==
        IF k = 0 THEN {Run(<<>>, FALSE)} ELSE Then(upTo[k - 1], AtomRuns(c, i, atoms[k]))
  IN  upTo[Len(atoms)]
\* An expression runs its operands, unless its kind is in `unmapped', and then
\* returns where it is ^(e) or ^!(e).
ExprRuns(c, i, e, unmapped) ==
  LET operands == IF e.wrap \in unmapped THEN {Run(<<>>, FALSE)}
                                         ELSE OperandRuns(c, i, e.atoms)
  IN  CASE e.wrap = "ok"  -> Then(operands, {Run(<<Mark("ret_ok")>>, TRUE)})
        [] e.wrap = "err" -> Then(operands, {Run(<<Mark("ret_err")>>, TRUE)})
        [] OTHER          -> operands

\* Where the first branch of the if at item i ends: its else mark, or its end.
OrElseOf(body, i) ==
  LET close == CloseOf(body, i)
      marks == {k \in i..close : body[k].op = "else" /\ CloseOf(body, k) = close}
  IN  IF marks = {} THEN close ELSE CHOOSE k \in marks : \A j \in marks : k <= j

\* The paths of declaration c from item i on, those from later items being
\* `from', without what is in `unmapped': statements, and operands of expressions.
PathsAt(c, unmapped, i, from) ==
  LET body == prog[c].body
      it == body[i]
      e  == ExprRuns(c, i, it.expr, unmapped)
      store(at) == {Run(<<Event("store", it.name, c, at)>>, FALSE)}
      arm(op, rest) == {<<Mark(op)>> \o p : p \in rest}
  IN  IF i = Len(body) + 1 THEN {<<Mark("ret_end")>>}
      ELSE IF it.op \in unmapped
      THEN from[(IF it.op = "for" THEN CloseOf(body, i) ELSE i) + 1]
      ELSE CASE it.op \in {"let", "mut"} -> After(Then(e, store(i)), from[i + 1])
             [] it.op = "assign" ->
                  After(Then(e, store(Resolve(prog[c], it.name, i))), from[i + 1])
             [] it.op = "expr" -> After(e, from[i + 1])
             [] it.op = "tail" -> {r.events : r \in e}
             [] it.op = "else" -> from[CloseOf(body, i) + 1]
             [] it.op = "if"   -> After(e, arm("then", from[i + 1])
                                           \cup arm("else", from[OrElseOf(body, i) + 1]))
             [] OTHER          -> from[i + 1]
\* The paths of declaration c in source order.
SourcePaths(c, unmapped) ==
  LET from[i \in 1..(Len(prog[c].body) + 1)] == PathsAt(c, unmapped, i, from) IN from[1]

\* What the code generator has no code for: statements; and the operands of ^!(e),
\* which gen_return_err ignores, and of the expressions gen_expr has no case for.
UnmappedStmts == {"walrus", "match", "for", "tail"}
UnmappedExprs == {"err", "not", "par", "method", "at", "spawn", "sync", "mem", "budget"}
Unmapped      == UnmappedStmts \cup UnmappedExprs

-----------------------------------------------------------------------------
(* Properties.                                                              *)

\* A program that is compiled does what it says, as far as code is generated for
\* it: the paths of the generated function are those of the source, each variable
\* being the definition the lexical scoping of the type checker gives it (though
\* values_ knows neither scopes nor functions), each call made once and in order,
\* each branch and each error return taken where the source has it.  Left out of
\* the source is what no code is generated for, although the language has it
\* (Unmapped): := bindings, matches, loops and the last ^(e) of a block, and every
\* read and call below ^!( ), !, @par, a method, @snd, @rcv, @spn, @syn, @mem or
\* @budget.  Every function is generated, once.
CompiledFaithfully ==
  stage = "emitted" =>
    /\ \A f \in DOMAIN emitted :
         CompiledPaths(emitted[f].blocks) = SourcePaths(emitted[f].decl, Unmapped)
    /\ \A c \in DOMAIN prog : prog[c].kind = "fn" => \E f \in DOMAIN emitted : emitted[f].decl = c
    /\ \A f, g \in DOMAIN emitted : f < g => emitted[f].decl < emitted[g].decl

\* The items of declaration c whose expression is hidden from inference by an
\* operator.
HiddenOperands == {"arith", "compare"}

\* On no path does compiled code read a variable before it is written, although
\* the checker lets a block see what an if branch before it defined: the slot of
\* such a variable does not dominate the read (verifyFunction).
WrittenBeforeRead ==
  stage = "emitted" =>
    \A f \in DOMAIN emitted : \A p \in CompiledPaths(emitted[f].blocks) :
      \A k \in DOMAIN p :
        p[k][1] = "load" /\ p[k][4] > 0 =>
          \E j \in 1..(k - 1) : p[j] = [p[k] EXCEPT ![1] = "store"]

\* The sandbox: code that was generated calls a module of the standard library
\* only in a function that declares the capability, whatever the path through
\* checker and generator, operands of operators excepted.
CapabilitiesEmitted ==
  stage = "emitted" =>
    \A f \in DOMAIN emitted : \A b \in DOMAIN emitted[f].blocks :
      \A k \in DOMAIN emitted[f].blocks[b].code :
        LET c == emitted[f].blocks[b].code[k]
            d == prog[emitted[f].decl]
        IN  /\ c.op = "call" /\ Module(c.name) # "none"
            /\ d.body[c.slot.at].expr.wrap \notin HiddenOperands
            => CapFor(c.name)[1] \in d.caps

==============================================================================
