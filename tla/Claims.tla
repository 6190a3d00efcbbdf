------------------------------- MODULE Claims --------------------------------
(***************************************************************************)
(* What the documents and the example programs of the repository say of    *)
(* every program the compiler accepts and compiles.  Each statement below  *)
(* is refuted by a run: PROJECT.json quotes the line and says where the    *)
(* code does otherwise.                                                     *)
(***************************************************************************)
EXTENDS AgentC

\* The standard library functions that declaration c calls in the code that was
\* generated for it, with the item of the call.
EmittedCalls(c) ==
  UNION {UNION {{<<b.code[k].name, b.code[k].slot.at>> :
                   k \in {n \in DOMAIN b.code : b.code[n].op = "call"}} :
                b \in {emitted[f].blocks[n] : n \in DOMAIN emitted[f].blocks}} :
         f \in {n \in DOMAIN emitted : emitted[n].decl = c}}
Compiled == {c \in DOMAIN prog : stage = "emitted" /\ prog[c].kind = "fn"}

\* "Pure functions cannot execute impure side-effects" (proof_purity.agc): a
\* function that declares no effect calls no input/output, network or model
\* function.
PureFunctionsArePure ==
  \A c \in Compiled :
    prog[c].effects \cap Effects = {} =>
      \A call \in EmittedCalls(c) : Module(call[1]) = "none"

\* "Untrusted data cannot breach trusted sinks" (proof_trust.agc, whose sink is
\* io::wr): no argument of a compiled call of io::wr is an untrusted variable.
SinksTrusted ==
  \A c \in Compiled : \A call \in EmittedCalls(c) :
    call[1] = "io::wr" =>
      \A k \in DOMAIN prog[c].body[call[2]].expr.atoms :
        LET a == prog[c].body[call[2]].expr.atoms[k]
        IN  \A n \in DOMAIN a.args :
              a.args[n].kind = "ident" =>
                TypeOfDef(prog[c], a.args[n].val, Resolve(prog[c], a.args[n].val, call[2])) # "utr"

\* "`^(expr)` | Return" (README.md): the compiled function returns where the
\* source does, with that outcome.
ReturnsAreLifted ==
  \A f \in DOMAIN emitted :
    stage = "emitted" =>
      CompiledPaths(emitted[f].blocks) = SourcePaths(emitted[f].decl, Unmapped \ {"tail"})

==============================================================================
