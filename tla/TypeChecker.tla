----------------------------- MODULE TypeChecker -----------------------------
(***************************************************************************)
(* The semantic pass (typechecker/typechecker.cpp, typeenv.cpp, rules.cpp):*)
(* one action per check_* function, run over the declarations of the       *)
(* program in order.  Scopes form a stack; a statement is checked in one   *)
(* step with every inference, move and diagnostic it causes.               *)
(***************************************************************************)
EXTENDS Compilation

CONSTANT BudgetRange   \* number of values of the uint32_t budget cap (2^32)

ASSUME BudgetRangeAssumption == BudgetRange \in Nat \ {0}

VARIABLES
  cur,      \* index of the declaration being checked
  pc,       \* 0 before the declaration is entered, else the next item
  scopes,   \* TypeEnv::scopes_, outermost first
  open,     \* the blocks of the body being walked, outermost first
  errors,   \* errors_: code, declaration and item
  warnings  \* declarations given W701

vars == <<prog, cur, pc, scopes, open, errors, warnings>>

decl == prog[cur]
item == decl.body[pc]

-----------------------------------------------------------------------------
(* The environment.                                                         *)

\* defined_at is the item that defines the binding, 0 for a parameter.
Binding == [type : Types, mutable : BOOLEAN, moved : BOOLEAN, at : Nat]
NewBinding(t, m, i) == [type |-> t, mutable |-> m, moved |-> FALSE, at |-> i]
Absent == [type |-> NoType, mutable |-> FALSE, moved |-> FALSE, at |-> 0]

\* A scope: bindings (Absent for the names it does not bind), return_type
\* (NoType: none) and fn_annotations (the declaration they belong to, 0:
\* nullptr).
ScopeSet == [binds : [Vars -> Binding \cup {Absent}],
             ret : Types \cup {NoType}, ann : Nat]
NewScope(ret, ann) == [binds |-> [x \in Vars |-> Absent], ret |-> ret, ann |-> ann]

\* Mutant of Define: the moved flag of the binding that is overwritten stays.
DefineKeepsMoved(s, x, b) ==
  [s EXCEPT ![Len(s)].binds[x] = [b EXCEPT !.moved = @ \/ s[Len(s)].binds[x].moved]]

\* TypeEnv::define: into the innermost scope, over a binding of the same name.
Define(s, x, b) == [s EXCEPT ![Len(s)].binds[x] = b]

\* Mutant of Home: a lookup that searches from the outermost scope.
HomeOutermost(s, x) ==
  LET homes == {i \in DOMAIN s : s[i].binds[x] # Absent}
  IN  CHOOSE i \in homes : \A j \in homes : i <= j

\* The scopes that bind x, and the innermost of them: TypeEnv::lookup.
Homes(s, x) == {i \in DOMAIN s : s[i].binds[x] # Absent}
Bound(s, x) == Homes(s, x) # {}
Home(s, x)  == CHOOSE i \in Homes(s, x) : \A j \in Homes(s, x) : j <= i
Lookup(s, x) == s[Home(s, x)].binds[x]

\* TypeEnv::current_return_type, NoType when no scope has one.
CurrentReturn(s) ==
  LET has == {i \in DOMAIN s : s[i].ret # NoType}
  IN  IF has = {} THEN NoType
      ELSE s[CHOOSE i \in has : \A j \in has : j <= i].ret

\* Mutant of CurrentCaps: the annotations of the innermost scope.
CurrentCapsInnermost(s) ==
  IF s = <<>> \/ s[Len(s)].ann = 0 THEN {} ELSE prog[s[Len(s)].ann].caps

\* TypeEnv::current_annotations: those of the outermost scope.
CurrentCaps(s) == IF s = <<>> \/ s[1].ann = 0 THEN {} ELSE prog[s[1].ann].caps

\* TypeEnv::is_assignable, of types whose names differ only by their kind.
IsAssignable(from, to) == KindOf(from) = KindOf(to)

\* rules.cpp is_owned: Own (and Ch, Agt, which behave alike).
IsOwned(t) == t = "own"

-----------------------------------------------------------------------------
(* The signatures known to the checker.                                     *)

StdNames == {"io::rd", "io::wr", "io::ls", "net::get", "net::post",
             "val::tru", "val::san", "val::vch", "ctx::infer", "ctx::embed",
             "mem::budget", "agc_print", "std::print", "std::panic"}

\* init_stdlib_sigs.
StdSig(f) == CASE f \in {"io::rd", "io::ls", "net::get", "net::post",
                         "ctx::infer", "ctx::embed"} -> "utr"
               [] f \in {"val::tru", "val::san", "val::vch"} -> "tru"
               [] f = "mem::budget" -> "u32"
               [] OTHER -> "unit"

\* The module prefix of a qualified name, as fn_name.find("io::") == 0 tests it.
Module(f) == CASE f \in {"io::rd", "io::wr", "io::ls", "io::ex", "io::del"} -> "io"
               [] f \in {"net::get", "net::post"} -> "net"
               [] f \in {"ctx::infer", "ctx::embed"} -> "ctx"
               [] OTHER -> "none"

\* The name of a declaration is one identifier (parse_fn), never a qualified name.
DeclaredNamesAssumption ==
  \A p \in Programs : \A i \in DOMAIN p : Module(p[i].name) = "none"
ASSUME DeclaredNamesAssumption

\* register_fn: functions only, and the last declaration of a name wins.
Registered(f) == {i \in DOMAIN prog : prog[i].kind # "agent" /\ prog[i].name = f}
FnReg(f) == prog[CHOOSE i \in Registered(f) : \A j \in Registered(f) : j <= i]

-----------------------------------------------------------------------------
(* Inference.                                                               *)

\* The expressions infer() looks into.  Every other wrapper is answered with
\* unit by infer's default case, infer_field or infer_at_primitive, and the
\* children are not visited.
Inferred(e) == e.wrap \in {"none", "ok", "err"}

\* The places of e where infer() reaches an identifier: the expression itself,
\* or an argument of a call (infer_call infers its arguments).
UsePoints(e) ==
  IF ~Inferred(e) THEN {}
  ELSE LET a == e.atoms[1]
       IN  CASE a.kind = "ident" -> {<<0, a.val>>}
             [] a.kind = "call"  -> {<<k, a.args[k].val>> :
                                       k \in {n \in DOMAIN a.args : a.args[n].kind = "ident"}}
             [] OTHER -> {}
Uses(e) == {u[2] : u \in UsePoints(e)}
UsesTwice(e, x) == \E u, v \in UsePoints(e) : u # v /\ u[2] = x /\ v[2] = x

\* infer_ident and infer_call; infer_propagate returns its operand's type.
InferAtom(a) ==
  CASE a.kind = "lit"   -> a.val
    [] a.kind = "ident" -> IF Bound(scopes, a.val) THEN Lookup(scopes, a.val).type
                           ELSE "unit"
    [] OTHER            -> IF a.val \in StdNames THEN StdSig(a.val)
                           ELSE IF Registered(a.val) # {} THEN FnReg(a.val).ret
                           ELSE "unit"

\* infer_return_ok and infer_return_err.
InferReturn(wrap, t) ==
  LET ret == CurrentReturn(scopes)
      expected == IF wrap = "err" THEN "agtE" ELSE OkOf(ret)
  IN  IF ret \in ResultTypes /\ IsAssignable(t, expected) THEN ret ELSE t

Infer(e) == CASE e.wrap = "none"        -> InferAtom(e.atoms[1])
              [] e.wrap \in {"ok", "err"} -> InferReturn(e.wrap, InferAtom(e.atoms[1]))
              [] OTHER                  -> "unit"

\* check_not_moved, at each identifier reached: moved before e, or by an earlier
\* identifier of e.
UsesMoved(e) ==
  \E x \in Uses(e) :
     /\ Bound(scopes, x)
     /\ \/ Lookup(scopes, x).moved
        \/ IsOwned(Lookup(scopes, x).type) /\ UsesTwice(e, x)

\* mark_moved, for every owned identifier reached.
Taken(e) == {x \in Uses(e) : Bound(scopes, x) /\ IsOwned(Lookup(scopes, x).type)}
MovedIn(binds, names) ==
  [x \in Vars |-> IF x \in names THEN [binds[x] EXCEPT !.moved = TRUE] ELSE binds[x]]

\* Mutant of Consume: only bindings of the innermost scope are marked.
ConsumeInnermost(e) ==
  LET last == Len(scopes)
  IN  [scopes EXCEPT ![last].binds = MovedIn(@, {x \in Taken(e) : Home(scopes, x) = last})]

Consume(e) ==
  [i \in DOMAIN scopes |->
     [scopes[i] EXCEPT !.binds = MovedIn(@, {x \in Taken(e) : Home(scopes, x) = i})]]

\* Mutant of MissingCap: calls of net:: are not looked at.
MissingCapFiles(f) ==
  LET declared == CurrentCaps(scopes)
  IN  CASE Module(f) = "io"  -> IF "fs" \in declared THEN {} ELSE {"E503"}
        [] Module(f) = "ctx" -> IF "llm" \in declared THEN {} ELSE {"E502"}
        [] OTHER -> {}

\* enforce_caps, for a call that resolves to the standard library.
MissingCap(f) ==
  LET declared == CurrentCaps(scopes)
  IN  CASE Module(f) = "io"  -> IF "fs" \in declared THEN {} ELSE {"E503"}
        [] Module(f) = "net" -> IF "net" \in declared THEN {} ELSE {"E504"}
        [] Module(f) = "ctx" -> IF "llm" \in declared THEN {} ELSE {"E502"}
        [] OTHER -> {}

CallErrors(e) ==
  IF ~Inferred(e) \/ e.atoms[1].kind # "call" THEN {}
  ELSE LET f == e.atoms[1].val
       IN  IF f \in StdNames THEN MissingCap(f)
           ELSE IF Registered(f) # {} THEN {} ELSE {"E209-Call"}

InferErrors(e) == CallErrors(e) \cup (IF UsesMoved(e) THEN {"E204"} ELSE {})

\* enforce_trust.  Two rules report E301, and two E209; the category that
\* errors_ keeps beside the code tells them apart, here a suffix of it.
TrustErrors(from, to) == IF to = "tru" /\ from = "utr" THEN {"E301-Trust"} ELSE {}

Report(codes) == errors' = errors \cup [code : codes, decl : {cur}, at : {pc}]

-----------------------------------------------------------------------------
(* Entering and leaving a declaration: check_fn.                            *)

\* check_intent_present and check_annotation_conflicts.  E803 needs a value on
\* #~(...), which the parser does not store.
HeaderErrors(d) ==
  LET none == "none" \in d.effects
      shared == d.costs \cap {"io", "net", "mem", "agt"} # {}
  IN  (IF d.intent THEN {} ELSE {"E801"})
        \cup (IF none /\ shared THEN {"E802"} ELSE {})
        \cup (IF d.overconf THEN {"E804"} ELSE {})
        \cup (IF "llm" \in d.costs /\ "llm" \notin d.caps THEN {"E805"} ELSE {})
        \cup (IF "agt" \in d.costs /\ "agt" \notin d.caps THEN {"E806"} ELSE {})

\* The scope of the function: a Unit return type is stored as nullopt, and a
\* parameter hides an earlier one of the same name.
FnScope(d) ==
  LET named(x) == {k \in DOMAIN d.params : d.params[k].name = x}
      param(x) == d.params[CHOOSE k \in named(x) : \A l \in named(x) : l <= k]
  IN  [binds |-> [x \in Vars |-> IF named(x) = {} THEN Absent
                                 ELSE NewBinding(param(x).type, param(x).mutable, 0)],
       ret |-> IF d.ret = "unit" THEN NoType ELSE d.ret, ann |-> cur]

\* The cost of #$(llm:N) is kept as it is written, and std::stoul throws where N is
\* no unsigned long, which is twice as wide as the uint32_t of the cap.  Nothing
\* catches it: the process ends.
Thrown == /\ cur \in DOMAIN prog /\ pc = 0
          /\ "llm" \in decl.costs /\ decl.llm >= BudgetRange * BudgetRange

BeginFn ==
  /\ cur \in DOMAIN prog /\ pc = 0 /\ ~Thrown
  /\ scopes' = Append(scopes, FnScope(decl))
  /\ Report(HeaderErrors(decl))
  /\ pc' = 1
  /\ UNCHANGED <<prog, cur, open, warnings>>

\* collect_stmt_effects walks the expressions of bindings, assignments and
\* expression statements, whatever wraps them, at any depth of the body; it
\* looks neither at conditions, iterated and matched expressions, tails, nor
\* at inferred (:=) bindings, and a call of a declared function has no effect.
WalkedOps == {"let", "mut", "assign", "expr"}
EffectOf(f) == CASE Module(f) = "io"  -> {"io"}
                 [] Module(f) = "net" -> {"net"}
                 [] Module(f) = "ctx" -> {"llm"}
                 [] OTHER -> {}
ExprEffects(e) ==
  UNION {EffectOf(e.atoms[k].val) : k \in {n \in DOMAIN e.atoms : e.atoms[n].kind = "call"}}
    \cup (IF e.wrap \in {"spawn", "at", "sync"} THEN {"agt"} ELSE {})
    \cup (IF e.wrap = "mem" THEN {"sys"} ELSE {})
BodyEffects(body) ==
  UNION {ExprEffects(body[i].expr) : i \in {j \in DOMAIN body : body[j].op \in WalkedOps}}

\* enforce_effects.
EffectErrors(d) ==
  LET declared == d.effects \cap Effects
      actual   == BodyEffects(d.body)
  IN  (IF declared = {} /\ actual # {} THEN {"E601"} ELSE {})
        \cup (IF \E f \in {"io", "net"} : f \in actual \ declared THEN {"E602"} ELSE {})

\* budget_cap_from_annotations returns an unsigned long as a uint32_t; 0 means
\* that no cap is declared.  estimate_block_cost: 10, and 10 per statement of
\* the outermost block.
BudgetCap(d) == IF "llm" \in d.costs THEN d.llm % BudgetRange ELSE 0
EstimatedCost(d) == 10 + 10 * Cardinality(TopLevel(d.body))

\* check_budget: E701 at 100% of the cap, W701 from 80%.
OverBudget(d)  == BudgetCap(d) # 0 /\ EstimatedCost(d) >= BudgetCap(d)
NearBudget(d)  == /\ BudgetCap(d) # 0 /\ ~OverBudget(d)
                  /\ 5 * EstimatedCost(d) >= 4 * BudgetCap(d)

FinishFn ==
  /\ cur \in DOMAIN prog /\ pc = Len(decl.body) + 1 /\ open = <<>>
  /\ Report(EffectErrors(decl) \cup (IF OverBudget(decl) THEN {"E701"} ELSE {}))
  /\ warnings' = warnings \cup (IF NearBudget(decl) THEN {cur} ELSE {})
  /\ scopes' = SubSeq(scopes, 1, Len(scopes) - 1)
  /\ cur' = cur + 1 /\ pc' = 0
  /\ UNCHANGED <<prog, open>>

-----------------------------------------------------------------------------
(* Statements: check_stmt and check_block.                                  *)

At(ops) == /\ cur \in DOMAIN prog /\ pc \in DOMAIN decl.body
           /\ item.op \in ops
           /\ pc' = pc + 1
           /\ UNCHANGED <<prog, cur, warnings>>

\* Mutants of CheckBinding: a binding without annotation gets no type; the
\* trust rule is not applied.
CheckBindingUntyped ==
  /\ At({"let", "mut"})
  /\ Report(InferErrors(item.expr) \cup (IF item.type = "str" THEN {"E208"} ELSE {})
              \cup TrustErrors(Infer(item.expr), item.type))
  /\ scopes' = Define(Consume(item.expr), item.name,
                      NewBinding(item.type, item.op = "mut", pc))
  /\ UNCHANGED open
CheckBindingUntrusted ==
  /\ At({"let", "mut"})
  /\ Report(InferErrors(item.expr) \cup (IF item.type = "str" THEN {"E208"} ELSE {}))
  /\ scopes' = Define(Consume(item.expr), item.name,
                      NewBinding(IF item.type = NoType THEN Infer(item.expr) ELSE item.type,
                                 item.op = "mut", pc))
  /\ UNCHANGED open

\* check_binding: $ and ~.
CheckBinding ==
  /\ At({"let", "mut"})
  /\ LET rhs == Infer(item.expr)
         type == IF item.type = NoType THEN rhs ELSE item.type
     IN  /\ Report(InferErrors(item.expr)
                     \cup (IF item.type = "str" THEN {"E208"} ELSE {})
                     \cup TrustErrors(rhs, item.type))
         /\ scopes' = Define(Consume(item.expr), item.name,
                             NewBinding(type, item.op = "mut", pc))
  /\ UNCHANGED open

\* Mutant of CheckAssign: E201 is not reported.
CheckAssignAnything ==
  /\ At({"assign"})
  /\ Report(InferErrors(item.expr)
              \cup IF ~Bound(scopes, item.name) THEN {"E209-Scope"}
                   ELSE TrustErrors(Infer(item.expr), Lookup(scopes, item.name).type))
  /\ scopes' = Consume(item.expr)
  /\ UNCHANGED open

\* The Assign case of check_stmt: E209 ends it, E201 does not; check_sem_insert
\* is called whatever the tier of the binding.
CheckAssign ==
  /\ At({"assign"})
  /\ LET rhs == Infer(item.expr)
     IN  Report(InferErrors(item.expr)
                  \cup IF ~Bound(scopes, item.name) THEN {"E209-Scope"}
                       ELSE LET b == Lookup(scopes, item.name)
                            IN  (IF b.mutable THEN {} ELSE {"E201"})
                                  \cup TrustErrors(rhs, b.type)
                                  \cup (IF rhs = "utr" THEN {"E703"} ELSE {}))
  /\ scopes' = Consume(item.expr)
  /\ UNCHANGED open

\* An expression statement, or a match, whose arms the parser does not keep
\* (check_match).
CheckExpr ==
  /\ At({"expr", "match"})
  /\ Report(InferErrors(item.expr))
  /\ scopes' = Consume(item.expr)
  /\ UNCHANGED open

\* check_stmt has no case for LocalInfer: `$ x := e' defines nothing.
SkipLocalInfer ==
  /\ At({"walrus"})
  /\ UNCHANGED <<scopes, open, errors>>

\* check_if: the condition, then the two blocks in the scope around them.
CheckIf ==
  /\ At({"if"})
  /\ Report(InferErrors(item.expr))
  /\ scopes' = Consume(item.expr)
  /\ open' = Append(open, "then")

Innermost == IF open = <<>> THEN "none" ELSE open[Len(open)]
Outer == SubSeq(open, 1, Len(open) - 1)

CheckElse ==
  /\ At({"else"}) /\ Innermost = "then"
  /\ open' = Append(Outer, "else")
  /\ UNCHANGED <<scopes, errors>>

CheckEndIf ==
  /\ At({"endif"}) /\ Innermost \in {"then", "else"}
  /\ open' = Outer
  /\ UNCHANGED <<scopes, errors>>

\* check_for_in: the iterated expression outside, the variable (of type unit,
\* whatever is iterated) and the block inside a scope of its own.
CheckForIn ==
  /\ At({"for"})
  /\ Report(InferErrors(item.expr))
  /\ scopes' = LET s == Append(Consume(item.expr), NewScope(NoType, 0))
               IN  Define(s, item.name, NewBinding("unit", FALSE, pc))
  /\ open' = Append(open, "for")

\* Mutant of CheckEndFor: pop_scope is forgotten.
CheckEndForNoPop ==
  /\ At({"endfor"}) /\ Innermost = "for"
  /\ open' = Outer
  /\ UNCHANGED <<scopes, errors>>

CheckEndFor ==
  /\ At({"endfor"}) /\ Innermost = "for"
  /\ scopes' = SubSeq(scopes, 1, Len(scopes) - 1)
  /\ open' = Outer
  /\ UNCHANGED errors

\* check_block: the tail must be assignable to the return type, if there is one.
CheckTail ==
  /\ At({"tail"})
  /\ LET type == Infer(item.expr)
         ret  == CurrentReturn(scopes)
     IN  Report(InferErrors(item.expr)
                  \cup (IF ret = NoType \/ IsAssignable(type, ret) THEN {} ELSE {"E301-Return"}))
  /\ scopes' = Consume(item.expr)
  /\ UNCHANGED open

-----------------------------------------------------------------------------
Checked == cur = Len(prog) + 1
Accepted == Checked /\ errors = {}

Terminating == (Checked \/ Thrown) /\ UNCHANGED vars

Init ==
  /\ prog \in Programs
  /\ cur = 1 /\ pc = 0
  /\ scopes = <<>> /\ open = <<>>
  /\ errors = {} /\ warnings = {}

Step ==
  \/ BeginFn \/ FinishFn
  \/ CheckBinding \/ CheckAssign \/ CheckExpr \/ SkipLocalInfer
  \/ CheckIf \/ CheckElse \/ CheckEndIf
  \/ CheckForIn \/ CheckEndFor
  \/ CheckTail

Next == Step \/ Terminating

Spec == Init /\ [][Next]_vars

-----------------------------------------------------------------------------
(* The types the language gives, stated over the body alone, without the    *)
(* scope stack.                                                             *)

\* The type of expression e at item j, given the types T of the definitions.
RefAtomType(d, a, j, T) ==
  CASE a.kind = "lit" -> a.val
    [] a.kind = "ident" ->
         IF Definitions(d, a.val, j) = {} THEN "unit"
         ELSE IF Resolve(d, a.val, j) = 0 THEN ParamOf(d, a.val).type
         ELSE T[Resolve(d, a.val, j)]
    [] OTHER -> IF a.val \in StdNames THEN StdSig(a.val)
                ELSE IF Registered(a.val) # {} THEN FnReg(a.val).ret ELSE "unit"
RefType(d, e, j, T) ==
  LET t == RefAtomType(d, e.atoms[1], j, T)
      fits == d.ret \in ResultTypes /\ IF e.wrap = "ok" THEN KindOf(t) = KindOf(OkOf(d.ret))
                                       ELSE t = "agtE"
  IN  CASE e.wrap = "none" -> t
        [] e.wrap \in {"ok", "err"} -> IF fits THEN d.ret ELSE t
        [] OTHER -> "unit"

\* The type of what item i of d defines, given those of the items before, and
\* the types of what each item of d defines.
TypeGiven(d, i, T) ==
  LET it == d.body[i]
  IN  IF it.op \in {"let", "mut"}
      THEN IF it.type = NoType THEN RefType(d, it.expr, i, T) ELSE it.type
      ELSE "unit"
DefTypes(d) == LET T[i \in DOMAIN d.body] == TypeGiven(d, i, T) IN T
TypeOfDef(d, x, i) == IF i = 0 THEN ParamOf(d, x).type ELSE DefTypes(d)[i]

\* The items of declaration c already walked whose expression is inferred.
Walked(c) ==
  {i \in DOMAIN prog[c].body :
     /\ prog[c].body[i].op \notin {"walrus", "else", "endif", "endfor"}
     /\ c < cur \/ (c = cur /\ i < pc)}
Error(code, c, i) == [code |-> code, decl |-> c, at |-> i] \in errors

-----------------------------------------------------------------------------
(* Properties.                                                              *)

ErrorCodes == {"E201", "E204", "E208", "E209-Scope", "E209-Call",
               "E301-Trust", "E301-Return", "E502", "E503", "E504", "E601",
               "E602", "E701", "E703", "E801", "E802", "E804", "E805", "E806"}

\* The types of the variables.
TypeOK ==
  /\ prog \in Seq(Decl)
  /\ cur \in 1..(Len(prog) + 1)
  /\ pc \in Nat
  /\ scopes \in Seq(ScopeSet)
  /\ open \in Seq({"then", "else", "for"})
  /\ errors \subseteq [code : ErrorCodes, decl : Nat, at : Nat]
  /\ warnings \subseteq Nat

\* The scope stack is balanced: between declarations it is empty (no binding of
\* one function is visible in the next), and inside a body it holds the
\* function's scope and one for each @iter body being walked, whatever ifs are
\* nested around and inside them (push_scope and pop_scope of check_fn,
\* check_for_in, check_if).
ScopesBalanced ==
  Len(scopes) = IF pc = 0 THEN 0
                ELSE 1 + Cardinality({i \in DOMAIN open : open[i] = "for"})

\* TypeEnv::lookup implements lexical scoping: the binding it finds is the
\* latest definition of the name that no finished @iter body contains.  The
\* blocks of an if share the scope around them, as check_if pushes none.
LexicalScoping ==
  pc > 0 =>
    \A x \in Vars :
      LET defs == Definitions(decl, x, pc)
      IN  /\ Bound(scopes, x) <=> defs # {}
          /\ defs # {} => Lookup(scopes, x).at = MaxOf(defs)

\* The type TypeEnv::lookup finds is that of the definition the name refers to:
\* the one written, or the one inferred along the definitions it depends on,
\* whatever has been defined and shadowed since (check_binding, infer_ident).
TypesInferred ==
  pc > 0 =>
    \A x \in Vars :
      Bound(scopes, x) =>
        Lookup(scopes, x).type = TypeOfDef(decl, x, Resolve(decl, x, pc))

\* No value is used after it was moved: of two uses of one owned definition,
\* the later in source order is reported E204, however the name was shadowed
\* and redefined in between (infer_ident, mark_moved, check_not_moved).
NoUseAfterMove ==
  \A c \in 1..cur : c \in DOMAIN prog =>
    \A i, j \in Walked(c) : i < j =>
      \A x \in Uses(prog[c].body[i].expr) \cap Uses(prog[c].body[j].expr) :
        LET before == Definitions(prog[c], x, i)
            after  == Definitions(prog[c], x, j)
        IN  /\ before # {} /\ after # {}
            /\ MaxOf(before) = MaxOf(after)
            /\ IsOwned(TypeOfDef(prog[c], x, MaxOf(after)))
            => Error("E204", c, j)

\* E204 is never reported without a cause: some owned definition the statement
\* uses has been used before, or is used twice in it.
MoveErrorsJustified ==
  \A e \in errors : e.code = "E204" =>
    LET d == prog[e.decl]
        owned(x) == /\ Definitions(d, x, e.at) # {}
                    /\ IsOwned(TypeOfDef(d, x, Resolve(d, x, e.at)))
    IN  \E x \in Uses(d.body[e.at].expr) :
          /\ owned(x)
          /\ \/ UsesTwice(d.body[e.at].expr, x)
             \/ \E i \in Walked(e.decl) :
                  /\ i < e.at /\ x \in Uses(d.body[i].expr)
                  /\ Definitions(d, x, i) # {}
                  /\ Resolve(d, x, i) = Resolve(d, x, e.at)

\* In an accepted program every assignment has a target, and the definition it
\* resolves to is mutable: a `~' binding or a `~' parameter (E209, E201).
AssignmentsMutable ==
  Accepted =>
    \A c \in DOMAIN prog : \A i \in Walked(c) :
      LET d == prog[c]
          x == d.body[i].name
      IN  d.body[i].op = "assign" =>
            /\ Definitions(d, x, i) # {}
            /\ IF Resolve(d, x, i) = 0 THEN ParamOf(d, x).mutable
               ELSE d.body[Resolve(d, x, i)].op = "mut"

\* In an accepted program no untrusted value is stored in a trusted variable,
\* by a binding or by an assignment, directly or through variables whose type
\* was inferred; operators hide the type of their operands (infer), so only
\* expressions the checker looks into are covered.
TrustedStores ==
  Accepted =>
    \A c \in DOMAIN prog : \A i \in Walked(c) :
      LET d == prog[c]
          it == d.body[i]
          target == IF it.op \in {"let", "mut"} THEN it.type
                    ELSE IF it.op = "assign"
                    THEN TypeOfDef(d, it.name, Resolve(d, it.name, i))
                    ELSE NoType
      IN  target = "tru" => RefType(d, it.expr, i, DefTypes(d)) # "utr"

\* A call of the standard library in a place infer() reaches is reported when,
\* and only when, the function it stands in does not declare the capability of
\* its module, however deep in loops and branches it is (enforce_caps reads the
\* outermost scope's annotations).
CapFor(f) == CASE Module(f) = "io" -> <<"fs", "E503">>
               [] Module(f) = "net" -> <<"net", "E504">>
               [] Module(f) = "ctx" -> <<"llm", "E502">>
CapRules == {<<"fs", "E503">>, <<"net", "E504">>, <<"llm", "E502">>}
LacksCap(d, i, rule) ==
  LET e == d.body[i].expr
  IN  /\ Inferred(e) /\ e.atoms[1].kind = "call" /\ e.atoms[1].val \in StdNames
      /\ Module(e.atoms[1].val) # "none" /\ CapFor(e.atoms[1].val) = rule
      /\ rule[1] \notin d.caps
CapErrorsExact ==
  \A c \in DOMAIN prog : \A i \in Walked(c) : \A rule \in CapRules :
    Error(rule[2], c, i) <=> LacksCap(prog[c], i, rule)

=============================================================================
