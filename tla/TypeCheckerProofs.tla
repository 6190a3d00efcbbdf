-------------------------- MODULE TypeCheckerProofs --------------------------
(***************************************************************************)
(* Proofs about the type checker, for every set of names, every set of     *)
(* well-formed programs and every budget range.  In four parts:            *)
(*  - the type invariant, the balance of the scope stack, the exactness of *)
(*    the capability rule;                                                 *)
(*  - the scope stack implements lexical scoping: what the n-th scope binds*)
(*    a name to is the latest definition of the name that is in scope and  *)
(*    inside n - 1 @iter bodies, and assignments to what is not mutable are*)
(*    always reported;                                                     *)
(*  - the types the checker gives, and the moves it tracks, are those of   *)
(*    the program: a binding holds the type of its definition, and whether *)
(*    a statement before has used that definition;                         *)
(*  - the blocks of what was walked nest.                                  *)
(***************************************************************************)
EXTENDS TypeChecker, SetLemmas, SequenceTheorems, TLAPS

\* The kinds of open blocks.
Blocks == {"then", "else", "for"}

-----------------------------------------------------------------------------
(* What the helpers of the environment return.                              *)

\* lookup finds a scope that binds the name, and no inner one binds it.
LEMMA HomeIsInnermost ==
  ASSUME NEW s \in Seq(ScopeSet), NEW x \in Vars, Bound(s, x)
  PROVE  /\ Home(s, x) \in 1..Len(s)
         /\ s[Home(s, x)].binds[x] # Absent
         /\ \A j \in Homes(s, x) : j <= Home(s, x)
<1>1. Homes(s, x) \in SUBSET (1..Len(s)) /\ Homes(s, x) # {} /\ Len(s) \in Nat
  BY DEF Bound, Homes
<1>2. Home(s, x) \in Homes(s, x) /\ \A j \in Homes(s, x) : j <= Home(s, x)
  <2> HIDE DEF Homes
  <2> QED BY <1>1, GreatestPosition DEF Home
<1> QED BY <1>1, <1>2 DEF Homes

\* The fields of a scope of the stack, and of a binding in it.
LEMMA ScopeFields ==
  ASSUME NEW s \in Seq(ScopeSet), NEW i \in 1..Len(s), NEW x \in Vars
  PROVE  /\ s[i] \in ScopeSet
         /\ s[i].binds \in [Vars -> Binding \cup {Absent}]
         /\ s[i].binds[x] \in Binding \cup {Absent}
         /\ s[i].ret \in Types \cup {NoType}
         /\ s[i].ann \in Nat
<1>1. s[i] \in ScopeSet
  OBVIOUS
<1> QED BY <1>1 DEF ScopeSet

\* A lookup of a bound name returns a binding, never the mark of an absent one.
LEMMA LookupTyped ==
  ASSUME NEW s \in Seq(ScopeSet), NEW x \in Vars, Bound(s, x)
  PROVE  Lookup(s, x) \in Binding
BY HomeIsInnermost, ScopeFields DEF Lookup

\* The return type found in the stack is a type, or there is none.
LEMMA CurrentReturnTyped ==
  ASSUME NEW s \in Seq(ScopeSet)
  PROVE  CurrentReturn(s) \in Types \cup {NoType}
<1> DEFINE has == {i \in DOMAIN s : s[i].ret # NoType}
<1>1. CASE has = {}
  BY <1>1 DEF CurrentReturn
<1>2. CASE has # {}
  <2> DEFINE m == CHOOSE i \in has : \A j \in has : j <= i
  <2>1. has \in SUBSET (1..Len(s)) /\ Len(s) \in Nat
    OBVIOUS
  <2>2. m \in has
    <3> HIDE DEF has
    <3> QED BY <1>2, <2>1, GreatestPosition
  <2>3. s[m].ret \in Types \cup {NoType}
    <3>1. m \in 1..Len(s)
      BY <2>1, <2>2
    <3>2. s[m] \in ScopeSet
      BY <3>1
    <3> QED BY <3>2 DEF ScopeSet
  <2> QED BY <1>2, <2>3 DEF CurrentReturn
<1> QED BY <1>1, <1>2

\* The signature of a registered function is that of a declaration.
LEMMA FnRegTyped ==
  ASSUME TypeOK, NEW f, Registered(f) # {}
  PROVE  FnReg(f) \in Decl
<1>1. Registered(f) \in SUBSET (1..Len(prog)) /\ Len(prog) \in Nat
  BY DEF TypeOK, Registered
<1> DEFINE m == CHOOSE i \in Registered(f) : \A j \in Registered(f) : j <= i
<1>2. m \in Registered(f)
  BY <1>1, GreatestPosition
<1>3. m \in 1..Len(prog)
  BY <1>1, <1>2
<1>4. prog[m] \in Decl
  BY <1>3 DEF TypeOK
<1> QED BY <1>4 DEF FnReg

-----------------------------------------------------------------------------
(* Inference yields types, and consuming keeps the shape of the stack.      *)

\* Every literal, identifier and call has a type.
LEMMA InferAtomTyped ==
  ASSUME TypeOK, NEW a \in Atom
  PROVE  InferAtom(a) \in Types
<1>1. CASE a.kind = "lit"
  BY <1>1 DEF InferAtom, Atom
<1>2. CASE a.kind = "ident"
  <2>1. a.val \in Vars
    BY <1>2 DEF Atom
  <2>2. CASE Bound(scopes, a.val)
    <3>1. Lookup(scopes, a.val) \in Binding
      BY <2>1, <2>2, LookupTyped DEF TypeOK
    <3>2. Lookup(scopes, a.val).type \in Types
      BY <3>1 DEF Binding
    <3> QED BY <1>2, <2>2, <3>2 DEF InferAtom
  <2>3. CASE ~Bound(scopes, a.val)
    BY <1>2, <2>3 DEF InferAtom, Types
  <2> QED BY <2>2, <2>3
<1>3. CASE a.kind = "call"
  <2>1. CASE a.val \in StdNames
    <3>1. StdSig(a.val) \in Types
      BY DEF StdSig, Types
    <3> QED BY <1>3, <2>1, <3>1 DEF InferAtom
  <2>2. CASE a.val \notin StdNames /\ Registered(a.val) # {}
    <3>1. FnReg(a.val) \in Decl
      BY <2>2, FnRegTyped
    <3>2. FnReg(a.val).ret \in Types
      BY <3>1 DEF Decl
    <3> QED BY <1>3, <2>2, <3>2 DEF InferAtom
  <2>3. CASE a.val \notin StdNames /\ Registered(a.val) = {}
    BY <1>3, <2>3 DEF InferAtom, Types
  <2> QED BY <2>1, <2>2, <2>3
<1> QED BY <1>1, <1>2, <1>3 DEF Atom

\* An expression infer() looks into has exactly one operand.
LEMMA FirstAtom ==
  ASSUME NEW e \in Expr, Inferred(e)
  PROVE  e.atoms[1] \in Atom
<1>1. e.atoms \in Seq(Atom) /\ Len(e.atoms) = 1
  BY DEF Expr, Inferred
<1> QED BY <1>1

\* infer() answers every expression with a type.
LEMMA InferTyped ==
  ASSUME TypeOK, NEW e \in Expr
  PROVE  Infer(e) \in Types
<1>1. CASE e.wrap = "none"
  BY <1>1, FirstAtom, InferAtomTyped DEF Infer, Inferred
<1>2. CASE e.wrap \in {"ok", "err"}
  <2>1. InferAtom(e.atoms[1]) \in Types
    BY <1>2, FirstAtom, InferAtomTyped DEF Inferred
  <2>2. InferReturn(e.wrap, InferAtom(e.atoms[1])) \in Types
    <3>1. ResultTypes \subseteq Types
      BY DEF ResultTypes, Types
    <3> QED BY <2>1, <3>1 DEF InferReturn
  <2> QED BY <1>2, <2>2 DEF Infer
<1>3. CASE e.wrap \notin {"none", "ok", "err"}
  BY <1>3 DEF Infer, Types
<1> QED BY <1>1, <1>2, <1>3

\* push_scope makes a scope.
LEMMA NewScopeTyped ==
  ASSUME NEW ret \in Types \cup {NoType}, NEW ann \in Nat
  PROVE  NewScope(ret, ann) \in ScopeSet
BY DEF NewScope, ScopeSet

\* define stores a binding.
LEMMA NewBindingTyped ==
  ASSUME NEW t \in Types, NEW m \in BOOLEAN, NEW i \in Nat
  PROVE  NewBinding(t, m, i) \in Binding
BY DEF NewBinding, Binding

\* Rebinding a name of one scope.
LEMMA DefineTyped ==
  ASSUME NEW s \in Seq(ScopeSet), NEW x, NEW b \in Binding
  PROVE  /\ Define(s, x, b) \in Seq(ScopeSet)
         /\ Len(Define(s, x, b)) = Len(s)
         /\ \A i \in 1..Len(s) : Define(s, x, b)[i].ann = s[i].ann
<1>1. CASE Len(s) = 0
  <2>1. s = <<>>
    BY <1>1
  <2>2. Define(s, x, b) = s
    BY <1>1, <2>1 DEF Define
  <2> QED BY <1>1, <2>2
<1>2. CASE Len(s) # 0
  <2> DEFINE n == Len(s)
             new == [s[n] EXCEPT !.binds[x] = b]
  <2>1. n \in 1..Len(s) /\ s[n] \in ScopeSet
    BY <1>2
  <2>2. [s[n].binds EXCEPT ![x] = b] \in [Vars -> Binding \cup {Absent}]
    BY <2>1 DEF ScopeSet
  <2>3. new \in ScopeSet /\ new.ann = s[n].ann
    BY <2>1, <2>2 DEF ScopeSet
  <2>4. Define(s, x, b) = [s EXCEPT ![n] = new]
    BY <2>1 DEF Define
  <2> HIDE DEF new
  <2> QED BY <2>1, <2>3, <2>4
<1> QED BY <1>1, <1>2

\* Marking names as moved changes the flag of bindings and nothing else.
LEMMA MovedInTyped ==
  ASSUME NEW binds \in [Vars -> Binding \cup {Absent}], NEW names,
         \A x \in names \cap Vars : binds[x] # Absent
  PROVE  MovedIn(binds, names) \in [Vars -> Binding \cup {Absent}]
<1>1. ASSUME NEW x \in Vars
      PROVE  (IF x \in names THEN [binds[x] EXCEPT !.moved = TRUE] ELSE binds[x])
                \in Binding \cup {Absent}
  <2>1. CASE x \in names
    <3>1. binds[x] \in Binding
      BY <2>1
    <3> QED BY <2>1, <3>1 DEF Binding
  <2>2. CASE x \notin names
    BY <2>2
  <2> QED BY <2>1, <2>2
<1> QED BY <1>1 DEF MovedIn

\* An expression marks bindings, and leaves the stack as it is otherwise.
LEMMA ConsumeTyped ==
  ASSUME scopes \in Seq(ScopeSet), NEW e \in Expr
  PROVE  /\ Consume(e) \in Seq(ScopeSet)
         /\ Len(Consume(e)) = Len(scopes)
         /\ \A i \in 1..Len(scopes) : Consume(e)[i].ann = scopes[i].ann
<1> DEFINE at(i) == {x \in Taken(e) : Home(scopes, x) = i}
           new(i) == [scopes[i] EXCEPT !.binds = MovedIn(@, at(i))]
<1>1. ASSUME NEW i \in 1..Len(scopes)
      PROVE  new(i) \in ScopeSet /\ new(i).ann = scopes[i].ann
  <2>1. /\ scopes[i] \in ScopeSet
        /\ scopes[i].binds \in [Vars -> Binding \cup {Absent}]
    <3>1. scopes[i] \in ScopeSet
      OBVIOUS
    <3> QED BY <3>1 DEF ScopeSet
  <2>2. \A x \in at(i) \cap Vars : scopes[i].binds[x] # Absent
    BY HomeIsInnermost DEF Taken
  <2>3. MovedIn(scopes[i].binds, at(i)) \in [Vars -> Binding \cup {Absent}]
    <3> HIDE DEF at
    <3> QED BY <2>1, <2>2, MovedInTyped
  <2> HIDE DEF at
  <2> QED BY <2>1, <2>3 DEF ScopeSet
<1>2. DOMAIN scopes = 1..Len(scopes) /\ Len(scopes) \in Nat
  OBVIOUS
<1>3. Consume(e) = [i \in 1..Len(scopes) |-> new(i)]
  BY <1>2 DEF Consume
<1>4. Consume(e) \in [1..Len(scopes) -> ScopeSet]
  <2> HIDE DEF new
  <2> QED BY <1>1, <1>3
<1>5. Consume(e) \in Seq(ScopeSet) /\ Len(Consume(e)) = Len(scopes)
  BY <1>2, <1>4
<1>6. \A i \in 1..Len(scopes) : Consume(e)[i].ann = scopes[i].ann
  <2> HIDE DEF new
  <2> QED BY <1>1, <1>3
<1> QED BY <1>5, <1>6

\* check_fn pushes a scope that binds the parameters.
LEMMA FnScopeTyped ==
  ASSUME TypeOK, NEW d \in Decl
  PROVE  FnScope(d) \in ScopeSet /\ FnScope(d).ann = cur
<1> DEFINE named(x) == {k \in DOMAIN d.params : d.params[k].name = x}
           m(x) == CHOOSE k \in named(x) : \A l \in named(x) : l <= k
           bind(x) == IF named(x) = {} THEN Absent
                      ELSE NewBinding(d.params[m(x)].type, d.params[m(x)].mutable, 0)
           ret == IF d.ret = "unit" THEN NoType ELSE d.ret
<1>1. d.params \in Seq(Param) /\ d.ret \in Types
  BY DEF Decl
<1>2. ASSUME NEW x \in Vars
      PROVE  bind(x) \in Binding \cup {Absent}
  <2>1. CASE named(x) = {}
    BY <2>1
  <2>2. CASE named(x) # {}
    <3>1. named(x) \in SUBSET (1..Len(d.params)) /\ Len(d.params) \in Nat
      BY <1>1
    <3>2. m(x) \in named(x)
      <4> HIDE DEF named
      <4> QED BY <2>2, <3>1, GreatestPosition
    <3>3. d.params[m(x)] \in Param
      <4> HIDE DEF m
      <4> QED BY <1>1, <3>1, <3>2
    <3>4. d.params[m(x)].type \in Types /\ d.params[m(x)].mutable \in BOOLEAN
      <4> HIDE DEF m
      <4> QED BY <3>3 DEF Param
    <3>5. NewBinding(d.params[m(x)].type, d.params[m(x)].mutable, 0) \in Binding
      <4> HIDE DEF m
      <4> QED BY <3>4, NewBindingTyped
    <3> QED BY <2>2, <3>5
  <2> QED BY <2>1, <2>2
<1>3. [x \in Vars |-> bind(x)] \in [Vars -> Binding \cup {Absent}]
  <2> HIDE DEF bind
  <2> QED BY <1>2
<1>4. ret \in Types \cup {NoType} /\ cur \in Nat
  BY <1>1 DEF TypeOK
<1>5. FnScope(d) = [binds |-> [x \in Vars |-> bind(x)], ret |-> ret, ann |-> cur]
  BY DEF FnScope
<1> HIDE DEF bind, ret
<1> QED BY <1>3, <1>4, <1>5 DEF ScopeSet

-----------------------------------------------------------------------------
(* The type invariant.                                                      *)

\* What a step of a body knows of the item it checks.
LEMMA ItemTyped ==
  ASSUME TypeOK, cur \in DOMAIN prog
  PROVE  /\ decl \in Decl /\ decl.body \in Seq(Item) /\ Len(decl.body) \in Nat
         /\ pc \in DOMAIN decl.body =>
              /\ item \in Item /\ item.expr \in Expr
              /\ item.type \in Types \cup {NoType}
<1>1. prog[cur] \in Decl
  BY DEF TypeOK
<1>2. prog[cur].body \in Seq(Item)
  BY <1>1 DEF Decl
<1>3. Len(prog[cur].body) \in Nat
  BY <1>2
<1>4. ASSUME pc \in DOMAIN prog[cur].body
      PROVE  prog[cur].body[pc] \in Item
  BY <1>2, <1>4
<1>5. pc \in DOMAIN prog[cur].body =>
        /\ prog[cur].body[pc].expr \in Expr
        /\ prog[cur].body[pc].type \in Types \cup {NoType}
  BY <1>4 DEF Item
<1> QED BY <1>1, <1>2, <1>3, <1>4, <1>5 DEF decl, item

\* The rules report error codes the checker knows.
LEMMA CodesTyped ==
  /\ \A e : InferErrors(e) \subseteq ErrorCodes
  /\ \A t, u : TrustErrors(t, u) \subseteq ErrorCodes
  /\ \A d : HeaderErrors(d) \subseteq ErrorCodes
  /\ \A d : EffectErrors(d) \subseteq ErrorCodes
<1>1. \A f : MissingCap(f) \subseteq {"E502", "E503", "E504"}
  BY DEF MissingCap
<1>2. \A e : CallErrors(e) \subseteq {"E502", "E503", "E504", "E209-Call"}
  BY <1>1 DEF CallErrors
<1>3. \A e : InferErrors(e) \subseteq ErrorCodes
  BY <1>2 DEF InferErrors, ErrorCodes
<1>4. \A t, u : TrustErrors(t, u) \subseteq ErrorCodes
  BY DEF TrustErrors, ErrorCodes
<1>5. \A d : HeaderErrors(d) \subseteq ErrorCodes
  BY DEF HeaderErrors, ErrorCodes
<1>6. \A d : EffectErrors(d) \subseteq ErrorCodes
  BY DEF EffectErrors, ErrorCodes
<1> QED BY <1>3, <1>4, <1>5, <1>6

\* Reporting known codes keeps errors_ well typed.
LEMMA ReportTyped ==
  ASSUME TypeOK, NEW codes \in SUBSET ErrorCodes, Report(codes)
  PROVE  errors' \subseteq [code : ErrorCodes, decl : Nat, at : Nat]
<1>1. cur \in Nat /\ pc \in Nat
  BY DEF TypeOK
<1>2. [code : codes, decl : {cur}, at : {pc}]
        \subseteq [code : ErrorCodes, decl : Nat, at : Nat]
  BY <1>1
<1> QED BY <1>2 DEF TypeOK, Report

\* A step of a body that reports codes of the checker, and keeps the scopes and
\* the open blocks well typed, keeps the types.
LEMMA BodyStepTyped ==
  ASSUME TypeOK, NEW ops, At(ops),
         errors' \subseteq [code : ErrorCodes, decl : Nat, at : Nat],
         scopes' \in Seq(ScopeSet), open' \in Seq(Blocks)
  PROVE  TypeOK'
BY DEF TypeOK, At, Blocks

\* The initial states have the types.
LEMMA InitTyped == Init => TypeOK
BY ProgramsAssumption DEF Init, TypeOK, ProgramsAssumption

\* Every step keeps the types.
THEOREM TypesPreserved == TypeOK /\ [Next]_vars => TypeOK'
<1> SUFFICES ASSUME TypeOK, [Next]_vars
             PROVE  TypeOK'
  OBVIOUS
<1> USE DEF Blocks
<1>1. CASE BeginFn
  <2>1. cur \in DOMAIN prog /\ decl \in Decl
    BY <1>1, ItemTyped DEF BeginFn
  <2>2. FnScope(decl) \in ScopeSet
    BY <2>1, FnScopeTyped
  <2>3. scopes' \in Seq(ScopeSet)
    BY <1>1, <2>2 DEF BeginFn, TypeOK
  <2>4. errors' \subseteq [code : ErrorCodes, decl : Nat, at : Nat]
    BY <1>1, CodesTyped, ReportTyped DEF BeginFn
  <2> QED BY <1>1, <2>3, <2>4 DEF BeginFn, TypeOK
<1>2. CASE FinishFn
  <2>1. errors' \subseteq [code : ErrorCodes, decl : Nat, at : Nat]
    <3>1. EffectErrors(decl) \cup (IF OverBudget(decl) THEN {"E701"} ELSE {})
            \subseteq ErrorCodes
      BY CodesTyped DEF ErrorCodes
    <3> QED BY <1>2, <3>1, ReportTyped DEF FinishFn
  <2>2. scopes' \in Seq(ScopeSet)
    BY <1>2 DEF FinishFn, TypeOK
  <2>3. warnings' \subseteq Nat /\ cur' \in 1..(Len(prog') + 1)
    <3>1. cur \in 1..Len(prog) /\ Len(prog) \in Nat /\ prog' = prog /\ cur' = cur + 1
      BY <1>2 DEF FinishFn, TypeOK
    <3>2. warnings' \subseteq warnings \cup {cur} /\ warnings \subseteq Nat
      BY <1>2 DEF FinishFn, TypeOK
    <3> QED BY <3>1, <3>2
  <2> QED BY <1>2, <2>1, <2>2, <2>3 DEF FinishFn, TypeOK
<1>3. CASE CheckBinding
  <2>1. /\ At({"let", "mut"}) /\ pc \in Nat /\ item.expr \in Expr
        /\ item.type \in Types \cup {NoType}
    BY <1>3, ItemTyped DEF CheckBinding, At, TypeOK
  <2>2. Infer(item.expr) \in Types
    BY <2>1, InferTyped
  <2> DEFINE type == IF item.type = NoType THEN Infer(item.expr) ELSE item.type
             codes == InferErrors(item.expr)
                        \cup (IF item.type = "str" THEN {"E208"} ELSE {})
                        \cup TrustErrors(Infer(item.expr), item.type)
  <2>3. codes \subseteq ErrorCodes
    BY CodesTyped DEF ErrorCodes
  <2>4. type \in Types
    BY <2>1, <2>2
  <2>5. /\ scopes' = Define(Consume(item.expr), item.name, NewBinding(type, item.op = "mut", pc))
        /\ Report(codes) /\ open' = open
    BY <1>3 DEF CheckBinding
  <2>6. NewBinding(type, item.op = "mut", pc) \in Binding
    <3> HIDE DEF type
    <3> QED BY <2>1, <2>4, NewBindingTyped
  <2>7. scopes' \in Seq(ScopeSet)
    BY <2>1, <2>5, <2>6, ConsumeTyped, DefineTyped DEF TypeOK
  <2>8. errors' \subseteq [code : ErrorCodes, decl : Nat, at : Nat]
    BY <2>3, <2>5, ReportTyped
  <2>9. open' \in Seq(Blocks)
    BY <2>5 DEF TypeOK
  <2> QED BY <2>1, <2>7, <2>8, <2>9, BodyStepTyped
<1>4. CASE CheckAssign
  <2>1. At({"assign"}) /\ item.expr \in Expr
    BY <1>4, ItemTyped DEF CheckAssign, At
  <2> DEFINE b == Lookup(scopes, item.name)
             codes == InferErrors(item.expr)
                        \cup IF ~Bound(scopes, item.name) THEN {"E209-Scope"}
                             ELSE (IF b.mutable THEN {} ELSE {"E201"})
                                    \cup TrustErrors(Infer(item.expr), b.type)
                                    \cup (IF Infer(item.expr) = "utr" THEN {"E703"} ELSE {})
  <2>2. codes \subseteq ErrorCodes
    BY CodesTyped DEF ErrorCodes
  <2>3. Report(codes) /\ scopes' = Consume(item.expr) /\ open' = open
    BY <1>4 DEF CheckAssign
  <2>4. scopes' \in Seq(ScopeSet)
    BY <2>1, <2>3, ConsumeTyped DEF TypeOK
  <2>5. errors' \subseteq [code : ErrorCodes, decl : Nat, at : Nat]
    BY <2>2, <2>3, ReportTyped
  <2>6. open' \in Seq(Blocks)
    BY <2>3 DEF TypeOK
  <2> QED BY <2>1, <2>4, <2>5, <2>6, BodyStepTyped
<1>5. CASE CheckExpr
  <2>1. At({"expr", "match"}) /\ item.expr \in Expr
    BY <1>5, ItemTyped DEF CheckExpr, At
  <2>2. scopes' \in Seq(ScopeSet)
    BY <1>5, <2>1, ConsumeTyped DEF CheckExpr, TypeOK
  <2>3. errors' \subseteq [code : ErrorCodes, decl : Nat, at : Nat]
    BY <1>5, CodesTyped, ReportTyped DEF CheckExpr
  <2>4. open' \in Seq(Blocks)
    BY <1>5 DEF CheckExpr, TypeOK
  <2> QED BY <2>1, <2>2, <2>3, <2>4, BodyStepTyped
<1>6. CASE SkipLocalInfer
  BY <1>6 DEF SkipLocalInfer, At, TypeOK
<1>7. CASE CheckIf
  <2>1. At({"if"}) /\ item.expr \in Expr
    BY <1>7, ItemTyped DEF CheckIf, At
  <2>2. scopes' \in Seq(ScopeSet)
    BY <1>7, <2>1, ConsumeTyped DEF CheckIf, TypeOK
  <2>3. errors' \subseteq [code : ErrorCodes, decl : Nat, at : Nat]
    BY <1>7, CodesTyped, ReportTyped DEF CheckIf
  <2>4. open' \in Seq(Blocks)
    BY <1>7 DEF CheckIf, TypeOK
  <2> QED BY <2>1, <2>2, <2>3, <2>4, BodyStepTyped
<1>8. CASE CheckElse
  <2>1. open' \in Seq(Blocks)
    <3>1. open # <<>> /\ open \in Seq(Blocks)
      BY <1>8 DEF CheckElse, Innermost, TypeOK
    <3>2. Outer \in Seq(Blocks)
      BY <3>1, OccurrencesFront DEF Outer
    <3> QED BY <1>8, <3>2 DEF CheckElse
  <2> QED BY <1>8, <2>1 DEF CheckElse, At, TypeOK
<1>9. CASE CheckEndIf
  <2>1. open' \in Seq(Blocks)
    <3>1. open # <<>> /\ open \in Seq(Blocks)
      BY <1>9 DEF CheckEndIf, Innermost, TypeOK
    <3> QED BY <1>9, <3>1, OccurrencesFront DEF CheckEndIf, Outer
  <2> QED BY <1>9, <2>1 DEF CheckEndIf, At, TypeOK
<1>10. CASE CheckForIn
  <2>1. At({"for"}) /\ item.expr \in Expr /\ pc \in Nat
    BY <1>10, ItemTyped DEF CheckForIn, At, TypeOK
  <2>2. NewBinding("unit", FALSE, pc) \in Binding /\ NewScope(NoType, 0) \in ScopeSet
    BY <2>1, NewBindingTyped, NewScopeTyped DEF Types
  <2>3. Append(Consume(item.expr), NewScope(NoType, 0)) \in Seq(ScopeSet)
    BY <2>1, <2>2, ConsumeTyped DEF TypeOK
  <2>4. scopes' \in Seq(ScopeSet)
    BY <1>10, <2>2, <2>3, DefineTyped DEF CheckForIn
  <2>5. errors' \subseteq [code : ErrorCodes, decl : Nat, at : Nat]
    BY <1>10, CodesTyped, ReportTyped DEF CheckForIn
  <2>6. open' \in Seq(Blocks)
    BY <1>10 DEF CheckForIn, TypeOK
  <2> QED BY <2>1, <2>4, <2>5, <2>6, BodyStepTyped
<1>11. CASE CheckEndFor
  <2>1. open' \in Seq(Blocks)
    <3>1. open # <<>> /\ open \in Seq(Blocks)
      BY <1>11 DEF CheckEndFor, Innermost, TypeOK
    <3> QED BY <1>11, <3>1, OccurrencesFront DEF CheckEndFor, Outer
  <2>2. scopes' \in Seq(ScopeSet)
    BY <1>11 DEF CheckEndFor, TypeOK
  <2> QED BY <1>11, <2>1, <2>2 DEF CheckEndFor, At, TypeOK
<1>12. CASE CheckTail
  <2>1. At({"tail"}) /\ item.expr \in Expr
    BY <1>12, ItemTyped DEF CheckTail, At
  <2> DEFINE codes == InferErrors(item.expr)
                        \cup (IF \/ CurrentReturn(scopes) = NoType
                                 \/ IsAssignable(Infer(item.expr), CurrentReturn(scopes))
                              THEN {} ELSE {"E301-Return"})
  <2>2. codes \subseteq ErrorCodes
    BY CodesTyped DEF ErrorCodes
  <2>3. Report(codes) /\ scopes' = Consume(item.expr) /\ open' = open
    BY <1>12 DEF CheckTail
  <2>4. scopes' \in Seq(ScopeSet)
    BY <2>1, <2>3, ConsumeTyped DEF TypeOK
  <2>5. errors' \subseteq [code : ErrorCodes, decl : Nat, at : Nat]
    BY <2>2, <2>3, ReportTyped
  <2>6. open' \in Seq(Blocks)
    BY <2>3 DEF TypeOK
  <2> QED BY <2>1, <2>4, <2>5, <2>6, BodyStepTyped
<1>13. CASE UNCHANGED vars
  BY <1>13 DEF vars, TypeOK
<1> QED BY <1>1, <1>2, <1>3, <1>4, <1>5, <1>6, <1>7, <1>8, <1>9, <1>10,
           <1>11, <1>12, <1>13 DEF Next, Step, Terminating

\* The types of the variables, in every program: each lookup, each choice of a
\* scope or of a declaration made along the way finds what it looks for.
THEOREM TypeCorrect == Spec => []TypeOK
<1> QED BY InitTyped, TypesPreserved, PTL DEF Spec

-----------------------------------------------------------------------------
(* The balance of the scope stack.  ScopesBalanced alone is not inductive:  *)
(* that entering a declaration finds no block open is needed too.           *)

Balanced == ScopesBalanced /\ (pc = 0 => open = <<>>)

\* Inside a declaration the stack is one scope higher than the open @iter bodies.
LEMMA BalancedIn ==
  ASSUME TypeOK
  PROVE  ScopesBalanced <=> Len(scopes) = IF pc = 0 THEN 0 ELSE 1 + Occurrences(open, "for")
BY DEF ScopesBalanced, Occurrences

\* A step of a body that leaves the depth of the stack and the number of open
\* @iter bodies in step.
LEMMA BodyStepBalanced ==
  ASSUME TypeOK, TypeOK', Balanced, NEW ops, At(ops), NEW d \in Int,
         Len(scopes') = Len(scopes) + d,
         Occurrences(open', "for") = Occurrences(open, "for") + d
  PROVE  Balanced'
<1>1. cur \in DOMAIN prog /\ pc \in Nat \ {0} /\ pc' = pc + 1
  <2>1. decl.body \in Seq(Item)
    BY ItemTyped DEF At
  <2> QED BY <2>1 DEF At
<1>2. Len(scopes) = 1 + Occurrences(open, "for")
  BY <1>1, BalancedIn DEF Balanced
<1>3. ScopesBalanced' <=> Len(scopes') = IF pc' = 0 THEN 0 ELSE 1 + Occurrences(open', "for")
  BY DEF TypeOK, ScopesBalanced, Occurrences
<1>4. Occurrences(open, "for") \in Nat
  BY OccurrencesFinite DEF TypeOK
<1> HIDE DEF Occurrences
<1>5. Len(scopes') = 1 + Occurrences(open', "for")
  BY <1>2, <1>4
<1> QED BY <1>1, <1>3, <1>5 DEF Balanced

\* Every step keeps the balance.
THEOREM BalancePreserved == TypeOK /\ TypeOK' /\ Balanced /\ [Next]_vars => Balanced'
<1> SUFFICES ASSUME TypeOK, TypeOK', Balanced, [Next]_vars
             PROVE  Balanced'
  OBVIOUS
<1> DEFINE fors == Occurrences(open, "for")
<1>0. fors \in Nat /\ scopes \in Seq(ScopeSet) /\ Len(scopes) \in Nat
      /\ open \in Seq({"then", "else", "for"})
  <2>1. open \in Seq({"then", "else", "for"}) /\ scopes \in Seq(ScopeSet)
    BY DEF TypeOK
  <2>2. fors \in Nat
    BY <2>1, OccurrencesFinite
  <2> HIDE DEF fors
  <2> QED BY <2>1, <2>2
<1> HIDE DEF fors
<1>1. CASE BeginFn
  <2>1. pc = 0 /\ pc' = 1 /\ Len(scopes) = 0 /\ open = <<>> /\ open' = open
    BY <1>1 DEF BeginFn, Balanced, ScopesBalanced
  <2>2. Len(scopes') = 1
    BY <1>0, <1>1, <2>1 DEF BeginFn
  <2>3. {i \in DOMAIN open' : open'[i] = "for"} = {}
    BY <2>1
  <2> QED BY <2>1, <2>2, <2>3, FS_EmptySet DEF Balanced, ScopesBalanced
<1>2. CASE FinishFn
  <2>1. pc # 0 /\ open = <<>> /\ pc' = 0 /\ open' = open
    <3>1. decl.body \in Seq(Item)
      BY <1>2, ItemTyped DEF FinishFn
    <3> QED BY <1>2, <3>1 DEF FinishFn
  <2>2. {i \in DOMAIN open : open[i] = "for"} = {}
    BY <2>1
  <2>3. Len(scopes) = 1
    BY <2>1, <2>2, FS_EmptySet DEF Balanced, ScopesBalanced
  <2>4. Len(scopes') = 0
    BY <1>0, <1>2, <2>3 DEF FinishFn
  <2> QED BY <2>1, <2>4 DEF Balanced, ScopesBalanced
<1>3. CASE CheckBinding
  <2>1. At({"let", "mut"}) /\ pc \in Nat /\ item.expr \in Expr
        /\ item.type \in Types \cup {NoType}
    BY <1>3, ItemTyped DEF CheckBinding, At, TypeOK
  <2> DEFINE type == IF item.type = NoType THEN Infer(item.expr) ELSE item.type
             b == NewBinding(type, item.op = "mut", pc)
  <2>2. type \in Types
    BY <2>1, InferTyped
  <2>3. b \in Binding
    <3> HIDE DEF type
    <3> QED BY <2>1, <2>2, NewBindingTyped
  <2>4. scopes' = Define(Consume(item.expr), item.name, b) /\ open' = open
    BY <1>3 DEF CheckBinding
  <2> HIDE DEF b
  <2>5. Len(scopes') = Len(scopes)
    BY <1>0, <2>1, <2>3, <2>4, ConsumeTyped, DefineTyped
  <2> QED BY <1>0, <2>1, <2>4, <2>5, BodyStepBalanced DEF fors
<1>4. CASE CheckAssign \/ CheckExpr \/ CheckTail
  <2>1. PICK ops : At(ops)
    BY <1>4 DEF CheckAssign, CheckExpr, CheckTail
  <2>2. item.expr \in Expr
    BY <2>1, ItemTyped DEF At
  <2>3. scopes' = Consume(item.expr) /\ open' = open
    BY <1>4 DEF CheckAssign, CheckExpr, CheckTail
  <2>4. Len(scopes') = Len(scopes)
    BY <1>0, <2>2, <2>3, ConsumeTyped
  <2> QED BY <1>0, <2>1, <2>3, <2>4, BodyStepBalanced DEF fors
<1>5. CASE SkipLocalInfer
  <2>1. At({"walrus"}) /\ scopes' = scopes /\ open' = open
    BY <1>5 DEF SkipLocalInfer
  <2> QED BY <1>0, <2>1, BodyStepBalanced DEF fors
<1>6. CASE CheckIf
  <2>1. At({"if"}) /\ item.expr \in Expr
    BY <1>6, ItemTyped DEF CheckIf, At
  <2>2. Len(scopes') = Len(scopes)
    BY <1>0, <1>6, <2>1, ConsumeTyped DEF CheckIf
  <2>3. Occurrences(open', "for") = fors
    BY <1>0, <1>6, OccurrencesAppend DEF CheckIf, fors
  <2> QED BY <1>0, <2>1, <2>2, <2>3, BodyStepBalanced DEF fors
<1>7. ASSUME open # <<>>
      PROVE  /\ Outer \in Seq({"then", "else", "for"})
             /\ Occurrences(Outer, "for") \in Nat
             /\ fors = Occurrences(Outer, "for") + (IF open[Len(open)] = "for" THEN 1 ELSE 0)
  BY <1>0, <1>7, OccurrencesFront, OccurrencesFinite DEF Outer, fors
<1>8. CASE CheckElse
  <2>1. /\ At({"else"}) /\ open # <<>> /\ open[Len(open)] = "then"
        /\ open' = Append(Outer, "else") /\ scopes' = scopes
    BY <1>8 DEF CheckElse, Innermost
  <2>2. Occurrences(open', "for") = Occurrences(Outer, "for") + 0
    BY <1>7, <2>1, OccurrencesAppend
  <2>3. Occurrences(open', "for") = fors
    BY <1>7, <2>1, <2>2
  <2> QED BY <1>0, <2>1, <2>3, BodyStepBalanced DEF fors
<1>9. CASE CheckEndIf
  <2>1. /\ At({"endif"}) /\ open # <<>> /\ open[Len(open)] \in {"then", "else"}
        /\ open' = Outer /\ scopes' = scopes
    BY <1>9 DEF CheckEndIf, Innermost
  <2>2. Occurrences(open', "for") = fors
    BY <1>7, <2>1
  <2> QED BY <1>0, <2>1, <2>2, BodyStepBalanced DEF fors
<1>10. CASE CheckForIn
  <2>1. At({"for"}) /\ item.expr \in Expr /\ pc \in Nat
    BY <1>10, ItemTyped DEF CheckForIn, At, TypeOK
  <2> DEFINE pushed == Append(Consume(item.expr), NewScope(NoType, 0))
             b == NewBinding("unit", FALSE, pc)
  <2>2. b \in Binding /\ NewScope(NoType, 0) \in ScopeSet
    BY <2>1, NewBindingTyped, NewScopeTyped DEF Types
  <2>3. pushed \in Seq(ScopeSet) /\ Len(pushed) = Len(scopes) + 1
    BY <1>0, <2>1, <2>2, ConsumeTyped
  <2>4. scopes' = Define(pushed, item.name, b)
    BY <1>10 DEF CheckForIn
  <2> HIDE DEF pushed, b
  <2>5. Len(scopes') = Len(scopes) + 1
    BY <2>2, <2>3, <2>4, DefineTyped
  <2>6. Occurrences(open', "for") = fors + 1
    BY <1>0, <1>10, OccurrencesAppend DEF CheckForIn, fors
  <2> QED BY <1>0, <2>1, <2>5, <2>6, BodyStepBalanced DEF fors
<1>11. CASE CheckEndFor
  <2>1. /\ At({"endfor"}) /\ open # <<>> /\ open[Len(open)] = "for"
        /\ open' = Outer /\ scopes' = SubSeq(scopes, 1, Len(scopes) - 1)
    BY <1>11 DEF CheckEndFor, Innermost
  <2>2. fors = Occurrences(open', "for") + 1
    BY <1>7, <2>1
  <2>3. pc # 0
    <3>1. decl.body \in Seq(Item)
      BY <2>1, ItemTyped DEF At
    <3> QED BY <2>1, <3>1 DEF At
  <2>4. Len(scopes) = 1 + fors
    BY <2>3, BalancedIn DEF Balanced, fors
  <2>5. Len(scopes') = Len(scopes) + (-1)
    BY <1>0, <2>1, <2>4
  <2>6. Occurrences(open', "for") = fors + (-1)
    BY <1>7, <2>1
  <2> DEFINE d == -1
  <2>7. d \in Int /\ Len(scopes') = Len(scopes) + d /\ Occurrences(open', "for") = fors + d
    BY <2>5, <2>6
  <2> HIDE DEF d
  <2> QED BY <2>1, <2>7, BodyStepBalanced DEF fors
<1>12. CASE UNCHANGED vars
  BY <1>12 DEF vars, Balanced, ScopesBalanced
<1> QED BY <1>1, <1>2, <1>3, <1>4, <1>5, <1>6, <1>8, <1>9, <1>10, <1>11, <1>12
        DEF Next, Step, Terminating

\* The scope stack is balanced at every step of every check.
THEOREM ScopeBalance == Spec => []ScopesBalanced
<1>1. Init => Balanced
  BY DEF Init, Balanced, ScopesBalanced
<1>2. Balanced => ScopesBalanced
  BY DEF Balanced
<1> QED BY <1>1, <1>2, TypeCorrect, BalancePreserved, PTL DEF Spec

-----------------------------------------------------------------------------
(* The capability rule.  It is exact because the outermost scope is that of *)
(* the declaration being checked (Anchored), and because an error, once     *)
(* reported, stays, and none is reported for an item not yet reached.       *)

Anchored == pc > 0 => Len(scopes) >= 1 /\ scopes[1].ann = cur
Reached == \A e \in errors : e.decl < cur \/ (e.decl = cur /\ e.at < pc)
CapInv == Anchored /\ Reached /\ CapErrorsExact

\* The bottom of the stack is the scope of the declaration being checked.
LEMMA AnchoredPreserved ==
  TypeOK /\ TypeOK' /\ Balanced /\ Anchored /\ [Next]_vars => Anchored'
<1> SUFFICES ASSUME TypeOK, TypeOK', Balanced, Anchored, [Next]_vars
             PROVE  Anchored'
  OBVIOUS
<1>0. scopes \in Seq(ScopeSet) /\ Len(scopes) \in Nat /\ pc \in Nat
  <2>1. scopes \in Seq(ScopeSet) /\ pc \in Nat
    BY DEF TypeOK
  <2> QED BY <2>1
\* Inside a body pc is positive.
<1>1. ASSUME NEW ops, At(ops)
      PROVE  pc > 0 /\ cur' = cur /\ 1 \in 1..Len(scopes) /\ scopes[1].ann = cur
  <2>1. pc > 0 /\ cur' = cur
    <3>1. decl.body \in Seq(Item)
      BY <1>1, ItemTyped DEF At
    <3> QED BY <1>1, <3>1 DEF At
  <2> QED BY <1>0, <2>1 DEF Anchored
<1>2. CASE BeginFn
  <2>1. pc = 0 /\ Len(scopes) = 0 /\ cur' = cur /\ scopes' = Append(scopes, FnScope(decl))
    BY <1>2 DEF BeginFn, Balanced, ScopesBalanced
  <2>2. decl \in Decl
    BY <1>2, ItemTyped DEF BeginFn
  <2>3. FnScope(decl).ann = cur /\ FnScope(decl) \in ScopeSet
    BY <2>2, FnScopeTyped
  <2> QED BY <1>0, <2>1, <2>3 DEF Anchored
<1>3. CASE FinishFn
  BY <1>3 DEF FinishFn, Anchored
<1>4. CASE CheckBinding
  <2>1. At({"let", "mut"}) /\ item.expr \in Expr /\ item.type \in Types \cup {NoType}
    BY <1>4, ItemTyped DEF CheckBinding, At
  <2> DEFINE type == IF item.type = NoType THEN Infer(item.expr) ELSE item.type
             b == NewBinding(type, item.op = "mut", pc)
  <2>2. type \in Types
    BY <2>1, InferTyped
  <2>3. b \in Binding
    <3> HIDE DEF type
    <3> QED BY <1>0, <2>2, NewBindingTyped
  <2>4. scopes' = Define(Consume(item.expr), item.name, b)
    BY <1>4 DEF CheckBinding
  <2> HIDE DEF b
  <2>5. Len(scopes') = Len(scopes) /\ scopes'[1].ann = scopes[1].ann
    BY <1>0, <1>1, <2>1, <2>3, <2>4, ConsumeTyped, DefineTyped
  <2> QED BY <1>0, <1>1, <2>1, <2>5 DEF Anchored
<1>5. CASE CheckAssign \/ CheckExpr \/ CheckTail \/ CheckIf
  <2>1. PICK ops : At(ops)
    BY <1>5 DEF CheckAssign, CheckExpr, CheckTail, CheckIf
  <2>2. item.expr \in Expr
    BY <2>1, ItemTyped DEF At
  <2>3. scopes' = Consume(item.expr)
    BY <1>5 DEF CheckAssign, CheckExpr, CheckTail, CheckIf
  <2>4. Len(scopes') = Len(scopes) /\ scopes'[1].ann = scopes[1].ann
    BY <1>0, <1>1, <2>1, <2>2, <2>3, ConsumeTyped
  <2> QED BY <1>0, <1>1, <2>1, <2>4 DEF Anchored
<1>6. CASE SkipLocalInfer \/ CheckElse \/ CheckEndIf
  <2>1. PICK ops : At(ops)
    BY <1>6 DEF SkipLocalInfer, CheckElse, CheckEndIf
  <2>2. scopes' = scopes
    BY <1>6 DEF SkipLocalInfer, CheckElse, CheckEndIf
  <2> QED BY <1>0, <1>1, <2>1, <2>2 DEF Anchored
<1>7. CASE CheckForIn
  <2>1. At({"for"}) /\ item.expr \in Expr
    BY <1>7, ItemTyped DEF CheckForIn, At
  <2> DEFINE pushed == Append(Consume(item.expr), NewScope(NoType, 0))
             b == NewBinding("unit", FALSE, pc)
  <2>2. b \in Binding /\ NewScope(NoType, 0) \in ScopeSet
    BY <1>0, NewBindingTyped, NewScopeTyped DEF Types
  <2>3. Consume(item.expr) \in Seq(ScopeSet) /\ Len(Consume(item.expr)) = Len(scopes)
        /\ Consume(item.expr)[1].ann = scopes[1].ann
    BY <1>0, <1>1, <2>1, ConsumeTyped
  <2>4. pushed \in Seq(ScopeSet) /\ Len(pushed) = Len(scopes) + 1
        /\ pushed[1].ann = scopes[1].ann
    BY <1>0, <1>1, <2>1, <2>2, <2>3
  <2>5. scopes' = Define(pushed, item.name, b)
    BY <1>7 DEF CheckForIn
  <2> HIDE DEF pushed, b
  <2>6. Len(scopes') = Len(scopes) + 1 /\ scopes'[1].ann = scopes[1].ann
    BY <1>0, <1>1, <2>1, <2>2, <2>4, <2>5, DefineTyped
  <2> QED BY <1>0, <1>1, <2>1, <2>6 DEF Anchored
<1>8. CASE CheckEndFor
  <2>1. /\ At({"endfor"}) /\ open # <<>> /\ open[Len(open)] = "for"
        /\ open \in Seq(Blocks) /\ scopes' = SubSeq(scopes, 1, Len(scopes) - 1)
    BY <1>8 DEF CheckEndFor, Innermost, TypeOK, Blocks
  <2>2. Occurrences(open, "for") >= 1
    <3>1. SubSeq(open, 1, Len(open) - 1) \in Seq(Blocks)
      BY <2>1, OccurrencesFront
    <3>2. Occurrences(SubSeq(open, 1, Len(open) - 1), "for") \in Nat
      BY <3>1, OccurrencesFinite
    <3> QED BY <2>1, <3>2, OccurrencesFront
  <2>3. Occurrences(open, "for") \in Nat
    BY <2>1, OccurrencesFinite
  <2>4. Len(scopes) = 1 + Occurrences(open, "for")
    BY <1>0, <1>1, <2>1, BalancedIn DEF Balanced
  <2>5. Len(scopes) >= 2
    BY <2>2, <2>3, <2>4
  <2>6. Len(scopes') >= 1 /\ scopes'[1] = scopes[1]
    BY <1>0, <2>1, <2>5
  <2> QED BY <1>1, <2>1, <2>6 DEF Anchored
<1>9. CASE UNCHANGED vars
  BY <1>9 DEF vars, Anchored
<1> QED BY <1>2, <1>3, <1>4, <1>5, <1>6, <1>7, <1>8, <1>9 DEF Next, Step, Terminating

\* The body of a declaration.
LEMMA BodyTyped ==
  ASSUME TypeOK, NEW c \in DOMAIN prog
  PROVE  c \in Nat \ {0} /\ prog[c].body \in Seq(Item)
<1>1. prog[c] \in Decl /\ c \in Nat \ {0}
  BY SMTT(30) DEF TypeOK
<1> QED BY <1>1 DEF Decl

\* The codes inference reports for the item being checked are those the rule
\* asks for.
LEMMA CapCodes ==
  ASSUME TypeOK, Anchored, NEW ops, At(ops), NEW rule \in CapRules
  PROVE  rule[2] \in InferErrors(item.expr) <=> LacksCap(prog[cur], pc, rule)
<1> DEFINE e == item.expr
           f == e.atoms[1].val
<1>1. pc > 0 /\ cur > 0 /\ cur \in DOMAIN prog
  <2>1. decl.body \in Seq(Item)
    BY ItemTyped DEF At
  <2>2. cur \in 1..(Len(prog) + 1)
    BY DEF TypeOK
  <2> QED BY <2>1, <2>2 DEF At
<1>2. CurrentCaps(scopes) = prog[cur].caps
  BY <1>1 DEF Anchored, CurrentCaps
<1>3. e = prog[cur].body[pc].expr
  BY DEF item, decl
<1>4. rule[2] \in InferErrors(e) <=> rule[2] \in CallErrors(e)
  BY DEF InferErrors, CapRules
<1>5. rule[2] \in CallErrors(e) <=>
        /\ Inferred(e) /\ e.atoms[1].kind = "call" /\ f \in StdNames
        /\ rule[2] \in MissingCap(f)
  BY DEF CallErrors, CapRules
<1>6. rule[2] \in MissingCap(f) <=>
        Module(f) # "none" /\ CapFor(f) = rule /\ rule[1] \notin prog[cur].caps
  <2>1. Module(f) \in {"io", "net", "ctx", "none"}
    BY DEF Module
  <2>2. CASE Module(f) = "io"
    BY <1>2, <2>2 DEF MissingCap, CapFor, CapRules
  <2>3. CASE Module(f) = "net"
    BY <1>2, <2>3 DEF MissingCap, CapFor, CapRules
  <2>4. CASE Module(f) = "ctx"
    BY <1>2, <2>4, SMTT(30) DEF MissingCap, CapFor, CapRules
  <2>5. CASE Module(f) = "none"
    BY <2>5, SMTT(30) DEF MissingCap
  <2> QED BY <2>1, <2>2, <2>3, <2>4, <2>5
<1> QED BY <1>3, <1>4, <1>5, <1>6 DEF LacksCap

\* A step of a body whose reported codes follow the rule, or that reports
\* nothing for an item without expression.
LEMMA BodyStepExact ==
  ASSUME TypeOK, Reached, CapErrorsExact, NEW ops, At(ops), NEW codes,
         Report(codes),
         \/ item.op \in {"walrus", "else", "endif", "endfor"}
         \/ \A rule \in CapRules : rule[2] \in codes <=> LacksCap(prog[cur], pc, rule)
  PROVE  Reached' /\ CapErrorsExact'
<1>1. /\ cur \in Nat /\ pc \in Nat /\ prog' = prog /\ cur' = cur /\ pc' = pc + 1
      /\ errors' = errors \cup [code : codes, decl : {cur}, at : {pc}]
  BY DEF TypeOK, At, Report
<1>2. Reached'
  <2> SUFFICES ASSUME NEW e \in errors'
               PROVE  e.decl < cur' \/ (e.decl = cur' /\ e.at < pc')
    BY DEF Reached
  <2>1. CASE e \in errors
    <3>1. e.decl \in Nat /\ e.at \in Nat
      BY <2>1 DEF TypeOK
    <3> QED BY <1>1, <2>1, <3>1 DEF Reached
  <2>2. CASE e \in [code : codes, decl : {cur}, at : {pc}]
    BY <1>1, <2>2
  <2> QED BY <1>1, <2>1, <2>2
<1>3. ASSUME NEW c \in DOMAIN prog, NEW i \in Walked(c)', NEW rule \in CapRules
      PROVE  Error(rule[2], c, i)' <=> LacksCap(prog[c], i, rule)
  <2>1. i \in Nat /\ c \in Nat
    <3>1. prog[c].body \in Seq(Item)
      BY BodyTyped
    <3>2. i \in DOMAIN prog[c].body
      BY <1>1, <1>3 DEF Walked
    <3> QED BY <3>1, <3>2, BodyTyped
  <2>2. CASE i \in Walked(c)
    <3>1. ~(c = cur /\ i = pc)
      BY <1>1, <2>1, <2>2 DEF Walked
    <3>2. Error(rule[2], c, i)' <=> Error(rule[2], c, i)
      BY <1>1, <3>1 DEF Error
    <3> QED BY <2>2, <3>2 DEF CapErrorsExact
  <2>3. CASE i \notin Walked(c)
    <3>1. c = cur /\ i = pc /\ item.op \notin {"walrus", "else", "endif", "endfor"}
      BY <1>1, <1>3, <2>1, <2>3 DEF Walked, item, decl
    <3>2. ~Error(rule[2], c, i)
      BY <1>1, <3>1 DEF Reached, Error
    <3>3. Error(rule[2], c, i)' <=> rule[2] \in codes
      BY <1>1, <3>1, <3>2 DEF Error
    <3> QED BY <3>1, <3>3
  <2> QED BY <2>2, <2>3
<1> QED BY <1>1, <1>2, <1>3, ZenonT(40) DEF CapErrorsExact, LacksCap

\* A step that reports an error of a declaration as a whole changes no item's.
LEMMA OutsideStepExact ==
  ASSUME TypeOK, Reached, CapErrorsExact, cur \in DOMAIN prog, NEW codes, Report(codes),
         pc \notin DOMAIN prog[cur].body, prog' = prog,
         \/ cur' = cur /\ pc = 0 /\ pc' = 1
         \/ cur' = cur + 1 /\ pc = Len(prog[cur].body) + 1 /\ pc' = 0
  PROVE  Reached' /\ CapErrorsExact'
<1>1. /\ cur \in Nat /\ pc \in Nat /\ prog[cur].body \in Seq(Item)
      /\ errors' = errors \cup [code : codes, decl : {cur}, at : {pc}]
  BY BodyTyped DEF TypeOK, Report
<1>2. Reached'
  <2> SUFFICES ASSUME NEW e \in errors'
               PROVE  e.decl < cur' \/ (e.decl = cur' /\ e.at < pc')
    BY DEF Reached
  <2>1. CASE e \in errors
    <3>1. e.decl \in Nat /\ e.at \in Nat
      BY <2>1 DEF TypeOK
    <3> QED BY <1>1, <2>1, <3>1 DEF Reached
  <2>2. CASE e \in [code : codes, decl : {cur}, at : {pc}]
    BY <1>1, <2>2
  <2> QED BY <1>1, <2>1, <2>2
<1>3. ASSUME NEW c \in DOMAIN prog, NEW i \in Walked(c)', NEW rule \in CapRules
      PROVE  Error(rule[2], c, i)' <=> LacksCap(prog[c], i, rule)
  <2>1. i \in DOMAIN prog[c].body /\ prog[c].body \in Seq(Item) /\ c \in Nat
    <3>1. i \in DOMAIN prog[c].body
      BY <1>3 DEF Walked
    <3> QED BY <3>1, BodyTyped
  <2>2. i \in 1..Len(prog[c].body) /\ Len(prog[c].body) \in Nat
    BY <2>1
  <2>3. i \in Walked(c)
    BY <1>1, <1>3, <2>1, <2>2 DEF Walked
  <2>4. ~(c = cur /\ i = pc)
    BY <2>1
  <2>5. Error(rule[2], c, i)' <=> Error(rule[2], c, i)
    BY <1>1, <2>4 DEF Error
  <2> QED BY <2>3, <2>5 DEF CapErrorsExact
<1> QED BY <1>2, <1>3 DEF CapErrorsExact, LacksCap

\* Every step keeps the capability rule exact.
THEOREM ExactnessPreserved ==
  TypeOK /\ Anchored /\ Reached /\ CapErrorsExact /\ [Next]_vars
    => Reached' /\ CapErrorsExact'
<1> SUFFICES ASSUME TypeOK, Anchored, Reached, CapErrorsExact, [Next]_vars
             PROVE  Reached' /\ CapErrorsExact'
  OBVIOUS
<1>1. CASE BeginFn
  <2>1. cur \in DOMAIN prog /\ Report(HeaderErrors(decl)) /\ pc = 0 /\ pc' = 1
        /\ prog' = prog /\ cur' = cur
    BY <1>1 DEF BeginFn
  <2>2. decl.body \in Seq(Item)
    BY <2>1, ItemTyped
  <2>3. pc \notin DOMAIN prog[cur].body
    BY <2>1, <2>2 DEF decl
  <2> QED BY <2>1, <2>3, OutsideStepExact
<1>2. CASE FinishFn
  <2>1. /\ cur \in DOMAIN prog /\ pc = Len(prog[cur].body) + 1 /\ pc' = 0
        /\ prog' = prog /\ cur' = cur + 1
        /\ Report(EffectErrors(decl) \cup (IF OverBudget(decl) THEN {"E701"} ELSE {}))
    BY <1>2 DEF FinishFn, decl
  <2>2. prog[cur].body \in Seq(Item)
    BY <2>1, ItemTyped DEF decl
  <2>3. pc \notin DOMAIN prog[cur].body
    BY <2>1, <2>2
  <2> QED BY <2>1, <2>3, OutsideStepExact
<1>3. CASE CheckBinding \/ CheckAssign \/ CheckExpr \/ CheckIf \/ CheckForIn \/ CheckTail
  <2>1. PICK ops : At(ops)
    BY <1>3 DEF CheckBinding, CheckAssign, CheckExpr, CheckIf, CheckForIn, CheckTail
  <2>2. PICK more \in SUBSET (ErrorCodes \ {"E502", "E503", "E504"}) :
          Report(InferErrors(item.expr) \cup more)
    <3>1. CASE CheckBinding
      <4> DEFINE more == (IF item.type = "str" THEN {"E208"} ELSE {})
                           \cup TrustErrors(Infer(item.expr), item.type)
      <4>1. Report(InferErrors(item.expr) \cup (IF item.type = "str" THEN {"E208"} ELSE {})
                     \cup TrustErrors(Infer(item.expr), item.type))
        BY <3>1 DEF CheckBinding
      <4>2. Report(InferErrors(item.expr) \cup more)
        BY <4>1 DEF Report
      <4>3. more \subseteq ErrorCodes \ {"E502", "E503", "E504"}
        BY DEF TrustErrors, ErrorCodes
      <4> HIDE DEF more
      <4> QED BY <4>2, <4>3
    <3>2. CASE CheckAssign
      <4> DEFINE b == Lookup(scopes, item.name)
                 more == IF ~Bound(scopes, item.name) THEN {"E209-Scope"}
                         ELSE (IF b.mutable THEN {} ELSE {"E201"})
                                \cup TrustErrors(Infer(item.expr), b.type)
                                \cup (IF Infer(item.expr) = "utr" THEN {"E703"} ELSE {})
      <4>1. Report(InferErrors(item.expr) \cup more)
        BY <3>2 DEF CheckAssign
      <4>2. more \subseteq ErrorCodes \ {"E502", "E503", "E504"}
        BY DEF TrustErrors, ErrorCodes
      <4> HIDE DEF more
      <4> QED BY <4>1, <4>2
    <3>3. CASE CheckExpr \/ CheckIf \/ CheckForIn
      <4>1. Report(InferErrors(item.expr) \cup {})
        BY <3>3 DEF CheckExpr, CheckIf, CheckForIn, Report
      <4> QED BY <4>1
    <3>4. CASE CheckTail
      <4> DEFINE ret == CurrentReturn(scopes)
                 more == IF ret = NoType \/ IsAssignable(Infer(item.expr), ret)
                         THEN {} ELSE {"E301-Return"}
      <4>1. Report(InferErrors(item.expr) \cup more)
        BY <3>4 DEF CheckTail
      <4>2. more \subseteq ErrorCodes \ {"E502", "E503", "E504"}
        BY DEF ErrorCodes
      <4> HIDE DEF more
      <4> QED BY <4>1, <4>2
    <3> QED BY <1>3, <3>1, <3>2, <3>3, <3>4
  <2>3. \A rule \in CapRules : rule[2] \notin more
    BY <2>2 DEF CapRules
  <2>4. \A rule \in CapRules :
          rule[2] \in InferErrors(item.expr) \cup more <=> LacksCap(prog[cur], pc, rule)
    BY <2>1, <2>3, CapCodes
  <2> QED BY <2>1, <2>2, <2>4, BodyStepExact
<1>4. CASE SkipLocalInfer \/ CheckElse \/ CheckEndIf \/ CheckEndFor
  <2>1. PICK ops \in {{"walrus"}, {"else"}, {"endif"}, {"endfor"}} : At(ops)
    BY <1>4 DEF SkipLocalInfer, CheckElse, CheckEndIf, CheckEndFor
  <2>2. item.op \in {"walrus", "else", "endif", "endfor"}
    BY <2>1 DEF At
  <2>3. Report({})
    BY <1>4 DEF SkipLocalInfer, CheckElse, CheckEndIf, CheckEndFor, Report
  <2> QED BY <2>1, <2>2, <2>3, BodyStepExact
<1>5. CASE UNCHANGED vars
  BY <1>5 DEF vars, Reached, CapErrorsExact, Walked, Error, LacksCap
<1> QED BY <1>1, <1>2, <1>3, <1>4, <1>5 DEF Next, Step, Terminating

\* In every program a call of the standard library that inference reaches is
\* reported if and only if its declaration lacks the capability of the module.
THEOREM CapabilityRule == Spec => []CapErrorsExact
<1>1. Init => Balanced /\ CapInv
  <2> SUFFICES ASSUME Init
               PROVE  Balanced /\ CapInv
    OBVIOUS
  <2>1. TypeOK /\ cur = 1 /\ pc = 0
    BY InitTyped DEF Init
  <2>2. ASSUME NEW c \in DOMAIN prog
        PROVE  Walked(c) = {}
    <3>1. c \in Nat \ {0} /\ prog[c].body \in Seq(Item)
      BY <2>1, BodyTyped
    <3>2. ASSUME NEW i \in DOMAIN prog[c].body
          PROVE  ~(c < cur) /\ ~(c = cur /\ i < pc)
      <4>1. i \in Nat
        BY <3>1
      <4> QED BY <2>1, <3>1, <4>1
    <3> QED BY <3>2 DEF Walked
  <2> QED BY <2>1, <2>2
          DEF Init, Balanced, ScopesBalanced, CapInv, Anchored, Reached, CapErrorsExact
<1>2. TypeOK /\ TypeOK' /\ Balanced /\ CapInv /\ [Next]_vars => Balanced' /\ CapInv'
  BY BalancePreserved, AnchoredPreserved, ExactnessPreserved DEF CapInv
<1>3. CapInv => CapErrorsExact
  BY DEF CapInv
<1> QED BY <1>1, <1>2, <1>3, TypeCorrect, PTL DEF Spec

-----------------------------------------------------------------------------
(* Part 2: the scope stack implements lexical scoping.                      *)

\* The definitions of x in scope behind item n of d, in the body of scope level l.
DefinedAt(d, x, n, l) == {i \in Definitions(d, x, n + 1) : ForDepth(d.body, i) = l - 1}

\* Item i (0: the last parameter of the name) defines x as mutable.
MutableBy(d, x, i) == IF i = 0 THEN ParamOf(d, x).mutable ELSE d.body[i].op = "mut"

\* b is the binding the definitions defs of x leave in their scope.
Latest(b, d, x, defs) ==
  /\ b = Absent <=> defs = {}
  /\ defs # {} => /\ b.at \in defs /\ \A i \in defs : i <= b.at
                  /\ b.mutable = MutableBy(d, x, b.at)

\* The stack s is the one the first n items of d leave.
Mirrors(s, d, n) ==
  /\ \A k \in 0..n : ForDepth(d.body, k) \in Nat
  /\ Len(s) = 1 + ForDepth(d.body, n)
  /\ \A l \in 1..Len(s), x \in Vars : Latest(s[l].binds[x], d, x, DefinedAt(d, x, n, l))

ScopeInv == pc > 0 => cur \in DOMAIN prog /\ Mirrors(scopes, decl, pc - 1)

-----------------------------------------------------------------------------
(* Block structure.                                                         *)

\* One more item is counted, or not.
LEMMA CountStep ==
  ASSUME NEW body, NEW n \in Nat, NEW ops
  PROVE  /\ Count(body, n, ops) \in Nat
         /\ Count(body, n + 1, ops) = Count(body, n, ops)
                                        + (IF body[n + 1].op \in ops THEN 1 ELSE 0)
<1>. DEFINE old == {i \in 1..n : body[i].op \in ops}
            new == {i \in 1..(n + 1) : body[i].op \in ops}
<1>1. IsFiniteSet(old) /\ Cardinality(old) \in Nat
  <2>1. IsFiniteSet(1..n) BY FS_Interval
  <2>. QED BY <2>1, FS_Subset, FS_CardinalityType
<1>2. n + 1 \notin old OBVIOUS
<1>3. new = IF body[n + 1].op \in ops THEN old \cup {n + 1} ELSE old
  <2>1. 1..(n + 1) = (1..n) \cup {n + 1} OBVIOUS
  <2>. QED BY <2>1
<1>4. Cardinality(old \cup {n + 1}) = Cardinality(old) + 1
  <2>. HIDE DEF old
  <2>. QED BY <1>1, <1>2, FS_AddElement
<1>5. Count(body, n, ops) = Cardinality(old) /\ Count(body, n + 1, ops) = Cardinality(new)
  BY DEF Count
<1>. HIDE DEF old, new
<1>. QED BY <1>1, <1>3, <1>4, <1>5

\* An @iter body begins or ends, or the depth stays what it is.
LEMMA DepthStep ==
  ASSUME NEW body, NEW n \in Nat
  PROVE  /\ ForDepth(body, n) \in Int
         /\ body[n + 1].op = "for" => ForDepth(body, n + 1) = ForDepth(body, n) + 1
         /\ body[n + 1].op = "endfor" => ForDepth(body, n + 1) = ForDepth(body, n) - 1
         /\ body[n + 1].op \notin {"for", "endfor"} => ForDepth(body, n + 1) = ForDepth(body, n)
<1>. DEFINE opened(k) == Count(body, k, {"for"})
            closed(k) == Count(body, k, {"endfor"})
<1>1. /\ opened(n) \in Nat
      /\ opened(n + 1) = opened(n) + (IF body[n + 1].op \in {"for"} THEN 1 ELSE 0)
  BY CountStep
<1>2. /\ closed(n) \in Nat
      /\ closed(n + 1) = closed(n) + (IF body[n + 1].op \in {"endfor"} THEN 1 ELSE 0)
  BY CountStep
<1>3. ForDepth(body, n) = opened(n) - closed(n)
      /\ ForDepth(body, n + 1) = opened(n + 1) - closed(n + 1)
  BY DEF ForDepth
<1>. HIDE DEF opened, closed
<1>. QED BY <1>1, <1>2, <1>3

\* Outside every @iter body.
LEMMA DepthZero ==
  ASSUME NEW body
  PROVE  ForDepth(body, 0) = 0
<1>1. \A ops : Count(body, 0, ops) = 0
  <2>. TAKE ops
  <2>1. {i \in 1..0 : body[i].op \in ops} = {} OBVIOUS
  <2>. QED BY <2>1, FS_EmptySet DEF Count
<1>. QED BY <1>1 DEF ForDepth

\* What one more item does to the definitions in scope: those inside an @iter
\* body that ends go, and what the item defines comes.
LEMMA DefinitionsStep ==
  ASSUME NEW d, NEW x, NEW n \in Nat
  PROVE  Definitions(d, x, n + 2) =
           {i \in Definitions(d, x, n + 1) : ForDepth(d.body, n + 1) >= ForDepth(d.body, i)}
             \cup {i \in {n + 1} : Defines(d, i, x)}
<1>. DEFINE D(k) == ForDepth(d.body, k)
<1>1. \A k \in Nat : D(k) \in Int BY DepthStep
<1>. HIDE DEF D
<1>2. 0..(n + 1) = (0..n) \cup {n + 1} OBVIOUS
<1>3. \A i \in 0..n : i..(n + 1) = (i..n) \cup {n + 1} OBVIOUS
<1>4. (n + 1)..(n + 1) = {n + 1} OBVIOUS
<1>5. Definitions(d, x, n + 1) = {i \in 0..n : Defines(d, i, x) /\ \A k \in i..n : D(k) >= D(i)}
  BY DEF Definitions, D
<1>6. Definitions(d, x, n + 2)
        = {i \in 0..(n + 1) : Defines(d, i, x) /\ \A k \in i..(n + 1) : D(k) >= D(i)}
  BY DEF Definitions, D
<1>7. D(n + 1) >= D(n + 1) BY <1>1
<1>8. Definitions(d, x, n + 2) =
        {i \in Definitions(d, x, n + 1) : D(n + 1) >= D(i)} \cup {i \in {n + 1} : Defines(d, i, x)}
  BY <1>2, <1>3, <1>4, <1>5, <1>6, <1>7
<1>. QED BY <1>8 DEF D

\* A definition in scope is an item before, and at least as far out as the place.
LEMMA InScope ==
  ASSUME NEW d, NEW x, NEW n \in Nat, NEW i \in Definitions(d, x, n + 1)
  PROVE  /\ i \in 0..n /\ Defines(d, i, x)
         /\ \A k \in i..n : ForDepth(d.body, k) >= ForDepth(d.body, i)
BY DEF Definitions

\* The definitions of one level behind one more item.
LEMMA DefinedAtStep ==
  ASSUME NEW d, NEW x, NEW n \in Nat, NEW l \in Nat
  PROVE  /\ l - 1 <= ForDepth(d.body, n + 1) =>
              DefinedAt(d, x, n + 1, l) =
                DefinedAt(d, x, n, l)
                  \cup {i \in {n + 1} : Defines(d, i, x) /\ ForDepth(d.body, i) = l - 1}
         /\ l - 1 > ForDepth(d.body, n) => DefinedAt(d, x, n, l) = {}
<1>. DEFINE D(k) == ForDepth(d.body, k)
            old == Definitions(d, x, n + 1)
<1>1. \A k \in Nat : D(k) \in Int BY DepthStep
<1>2. \A i \in old : i \in 0..n /\ D(n) >= D(i)
  <2>. TAKE i \in old
  <2>1. i \in 0..n /\ \A k \in i..n : D(k) >= D(i) BY InScope
  <2>2. n \in i..n BY <2>1
  <2>. HIDE DEF D
  <2>. QED BY <2>1, <2>2
<1>3. Definitions(d, x, (n + 1) + 1) = {i \in old : D(n + 1) >= D(i)} \cup {i \in {n + 1} : Defines(d, i, x)}
  <2>1. (n + 1) + 1 = n + 2 OBVIOUS
  <2>. QED BY <2>1, DefinitionsStep
<1>4. DefinedAt(d, x, n, l) = {i \in old : D(i) = l - 1}
  BY DEF DefinedAt
<1>5. DefinedAt(d, x, n + 1, l) = {i \in Definitions(d, x, (n + 1) + 1) : D(i) = l - 1}
  BY DEF DefinedAt
<1>6. \A i \in old : D(i) \in Int BY <1>1, <1>2
<1>7. D(n) \in Int /\ D(n + 1) \in Int BY <1>1
<1>. HIDE DEF D, old
<1>8. l - 1 <= D(n + 1) =>
        DefinedAt(d, x, n + 1, l) =
          DefinedAt(d, x, n, l) \cup {i \in {n + 1} : Defines(d, i, x) /\ D(i) = l - 1}
  BY <1>3, <1>4, <1>5, <1>6, <1>7
<1>9. l - 1 > D(n) => DefinedAt(d, x, n, l) = {}
  BY <1>2, <1>4, <1>6, <1>7
<1>. QED BY <1>8, <1>9 DEF D

-----------------------------------------------------------------------------
(* The environment.                                                         *)

\* Marking as moved hides nothing and shows nothing.
LEMMA ConsumeKeeps ==
  ASSUME scopes \in Seq(ScopeSet), NEW e \in Expr, NEW l \in 1..Len(scopes), NEW x \in Vars
  PROVE  LET b == scopes[l].binds[x]
             c == Consume(e)[l].binds[x]
         IN  (c = Absent <=> b = Absent) /\ c.at = b.at /\ c.mutable = b.mutable
<1>. DEFINE b == scopes[l].binds[x]
            c == Consume(e)[l].binds[x]
            at == {y \in Taken(e) : Home(scopes, y) = l}
<1>1. /\ scopes[l] \in ScopeSet /\ b \in Binding \cup {Absent}
  BY ScopeFields
<1>2. c = IF x \in at THEN [b EXCEPT !.moved = TRUE] ELSE b
  <2>1. Consume(e)[l] = [scopes[l] EXCEPT !.binds = MovedIn(@, at)]
    BY DEF Consume
  <2>2. Consume(e)[l].binds = MovedIn(scopes[l].binds, at)
    <3>. HIDE DEF at
    <3>. QED BY <1>1, <2>1 DEF ScopeSet
  <2>. HIDE DEF at
  <2>. QED BY <2>2 DEF MovedIn
<1>3. CASE x \in at
  <2>1. b # Absent
    BY <1>3, HomeIsInnermost DEF Taken
  <2>2. b \in Binding BY <1>1, <2>1
  <2>3. c \in Binding /\ c.at = b.at /\ c.mutable = b.mutable
    <3>. HIDE DEF b, c, at
    <3>. QED BY <1>2, <1>3, <2>2 DEF Binding
  <2>4. c # Absent
    <3>. HIDE DEF b, c, at
    <3>. QED BY <2>3 DEF Binding, Absent, Types, NoType
  <2>. QED BY <2>1, <2>3, <2>4
<1>4. CASE x \notin at
  <2>. HIDE DEF b, c, at
  <2>1. c = b BY <1>2, <1>4
  <2>. QED BY <2>1 DEF b, c
<1>. QED BY <1>3, <1>4

\* A definition is seen in the innermost scope, under its name.
LEMMA DefineIs ==
  ASSUME NEW s \in Seq(ScopeSet), Len(s) # 0, NEW y, NEW b,
         NEW l \in 1..Len(s), NEW x \in Vars
  PROVE  Define(s, y, b)[l].binds[x] = IF l = Len(s) /\ x = y THEN b ELSE s[l].binds[x]
<1>1. s[l] \in ScopeSet OBVIOUS
<1>2. s[l].binds \in [Vars -> Binding \cup {Absent}] BY <1>1 DEF ScopeSet
<1>3. DOMAIN s = 1..Len(s) OBVIOUS
<1>4. Define(s, y, b)[l] = IF l = Len(s) THEN [s[l] EXCEPT !.binds[y] = b] ELSE s[l]
  BY <1>3 DEF Define
<1>5. [s[l] EXCEPT !.binds[y] = b].binds = [s[l].binds EXCEPT ![y] = b]
  BY <1>1 DEF ScopeSet
<1>. QED BY <1>2, <1>4, <1>5

-----------------------------------------------------------------------------
(* What a statement does to the stack.                                      *)

\* Marking as moved.
LEMMA ConsumedMirrors ==
  ASSUME scopes \in Seq(ScopeSet), NEW e \in Expr, NEW d, NEW n \in Nat, Mirrors(scopes, d, n)
  PROVE  Mirrors(Consume(e), d, n)
<1>1. Len(Consume(e)) = Len(scopes) BY ConsumeTyped
<1>2. ASSUME NEW l \in 1..Len(scopes), NEW x \in Vars
      PROVE  Latest(Consume(e)[l].binds[x], d, x, DefinedAt(d, x, n, l))
  <2>1. Latest(scopes[l].binds[x], d, x, DefinedAt(d, x, n, l)) BY DEF Mirrors
  <2>2. LET b == scopes[l].binds[x]
            c == Consume(e)[l].binds[x]
        IN  (c = Absent <=> b = Absent) /\ c.at = b.at /\ c.mutable = b.mutable
    BY ConsumeKeeps
  <2>. QED BY <2>1, <2>2 DEF Latest
<1>. QED BY <1>1, <1>2 DEF Mirrors

\* The depths behind one more item, if a scope remains.
LEMMA DepthsTyped ==
  ASSUME NEW s, NEW d, NEW n \in Nat, Mirrors(s, d, n), ForDepth(d.body, n + 1) \in Nat
  PROVE  \A k \in 0..(n + 1) : ForDepth(d.body, k) \in Nat
<1>1. 0..(n + 1) = (0..n) \cup {n + 1} OBVIOUS
<1>. QED BY <1>1 DEF Mirrors

\* A statement that defines nothing.
LEMMA NothingDefined ==
  ASSUME NEW s, NEW d, NEW n \in Nat, Mirrors(s, d, n),
         d.body[n + 1].op \notin {"let", "mut", "for", "endfor"}
  PROVE  Mirrors(s, d, n + 1)
<1>1. /\ ForDepth(d.body, n) \in Nat /\ ForDepth(d.body, n + 1) = ForDepth(d.body, n)
      /\ Len(s) = 1 + ForDepth(d.body, n)
  BY DepthStep DEF Mirrors
<1>2. ASSUME NEW l \in 1..Len(s), NEW x \in Vars
      PROVE  DefinedAt(d, x, n + 1, l) = DefinedAt(d, x, n, l)
  <2>1. l \in Nat /\ l - 1 <= ForDepth(d.body, n + 1) BY <1>1
  <2>2. ~Defines(d, n + 1, x) BY DEF Defines
  <2>3. {i \in {n + 1} : Defines(d, i, x) /\ ForDepth(d.body, i) = l - 1} = {} BY <2>2
  <2>4. DefinedAt(d, x, n + 1, l) =
          DefinedAt(d, x, n, l) \cup {i \in {n + 1} : Defines(d, i, x) /\ ForDepth(d.body, i) = l - 1}
    BY <2>1, DefinedAtStep
  <2>. QED BY <2>3, <2>4
<1>3. \A k \in 0..(n + 1) : ForDepth(d.body, k) \in Nat
  BY <1>1, DepthsTyped
<1>. QED BY <1>1, <1>2, <1>3 DEF Mirrors

\* A definition in the innermost scope, which is that of its level.
LEMMA LatestDefined ==
  ASSUME NEW d, NEW n \in Nat, NEW defs \in SUBSET (0..n), NEW x, NEW b \in Binding,
         b.at = n + 1, b.mutable = MutableBy(d, x, n + 1)
  PROVE  Latest(b, d, x, defs \cup {n + 1})
<1>1. b # Absent BY DEF Binding, Absent, Types, NoType
<1>2. \A i \in defs \cup {n + 1} : i <= n + 1 OBVIOUS
<1>3. b.at \in defs \cup {n + 1} /\ \A i \in defs \cup {n + 1} : i <= b.at BY <1>2
<1>4. b.mutable = MutableBy(d, x, b.at) BY Zenon
<1>5. defs \cup {n + 1} # {} OBVIOUS
<1>. QED BY <1>1, <1>3, <1>4, <1>5, Zenon DEF Latest

\* A binding.
LEMMA BindingDefined ==
  ASSUME NEW s \in Seq(ScopeSet), NEW d, NEW n \in Nat, Mirrors(s, d, n),
         d.body[n + 1].op \in {"let", "mut"}, NEW b \in Binding,
         b.at = n + 1, b.mutable = (d.body[n + 1].op = "mut")
  PROVE  Mirrors(Define(s, d.body[n + 1].name, b), d, n + 1)
<1>. DEFINE y == d.body[n + 1].name
            t == Define(s, y, b)
<1>1. /\ ForDepth(d.body, n) \in Nat /\ ForDepth(d.body, n + 1) = ForDepth(d.body, n)
      /\ Len(s) = 1 + ForDepth(d.body, n)
  BY DepthStep DEF Mirrors
<1>2. Len(t) = Len(s) /\ Len(s) # 0 BY <1>1, DefineTyped
<1>3. ASSUME NEW l \in 1..Len(s), NEW x \in Vars
      PROVE  Latest(t[l].binds[x], d, x, DefinedAt(d, x, n + 1, l))
  <2>1. l \in Nat /\ l - 1 <= ForDepth(d.body, n + 1) BY <1>1
  <2>2. Defines(d, n + 1, x) <=> x = y BY DEF Defines
  <2>3. ForDepth(d.body, n + 1) = l - 1 <=> l = Len(s) BY <1>1, <2>1
  <2>4. DefinedAt(d, x, n + 1, l) = DefinedAt(d, x, n, l) \cup (IF l = Len(s) /\ x = y THEN {n + 1} ELSE {})
    <3>. HIDE DEF y
    <3>. QED BY <2>1, <2>2, <2>3, DefinedAtStep
  <2>5. t[l].binds[x] = IF l = Len(s) /\ x = y THEN b ELSE s[l].binds[x]
    BY <1>2, DefineIs
  <2>6. DefinedAt(d, x, n, l) \in SUBSET (0..n) BY DEF DefinedAt, Definitions
  <2>7. MutableBy(d, x, n + 1) = (d.body[n + 1].op = "mut") BY DEF MutableBy
  <2>8. Latest(s[l].binds[x], d, x, DefinedAt(d, x, n, l)) BY DEF Mirrors
  <2>9. b.mutable = MutableBy(d, x, n + 1) BY <2>7, Zenon
  <2>. HIDE DEF y, t
  <2>10. CASE l = Len(s) /\ x = y
    <3>1. DefinedAt(d, x, n + 1, l) = DefinedAt(d, x, n, l) \cup {n + 1} /\ t[l].binds[x] = b
      BY <2>4, <2>5, <2>10
    <3>2. Latest(b, d, x, DefinedAt(d, x, n, l) \cup {n + 1})
      BY <2>6, <2>9, LatestDefined
    <3>. QED BY <3>1, <3>2
  <2>11. CASE ~(l = Len(s) /\ x = y)
    <3>1. DefinedAt(d, x, n + 1, l) = DefinedAt(d, x, n, l) /\ t[l].binds[x] = s[l].binds[x]
      BY <2>4, <2>5, <2>11
    <3>. QED BY <3>1, <2>8
  <2>. QED BY <2>10, <2>11
<1>4. \A k \in 0..(n + 1) : ForDepth(d.body, k) \in Nat
  BY <1>1, DepthsTyped
<1>. HIDE DEF t
<1>5. Mirrors(t, d, n + 1) BY <1>1, <1>2, <1>3, <1>4 DEF Mirrors
<1>. QED BY <1>5 DEF t

\* An @iter body begins, and its variable is defined in a scope of its own.
LEMMA LoopBegun ==
  ASSUME NEW s \in Seq(ScopeSet), NEW d, NEW n \in Nat, Mirrors(s, d, n),
         d.body[n + 1].op = "for", NEW b \in Binding, b.at = n + 1, b.mutable = FALSE,
         NEW new \in ScopeSet, \A x \in Vars : new.binds[x] = Absent
  PROVE  Mirrors(Define(Append(s, new), d.body[n + 1].name, b), d, n + 1)
<1>. DEFINE y == d.body[n + 1].name
            t == Define(Append(s, new), y, b)
            m == Len(s)
<1>1. /\ ForDepth(d.body, n) \in Nat /\ ForDepth(d.body, n + 1) = ForDepth(d.body, n) + 1
      /\ m = 1 + ForDepth(d.body, n)
  BY DepthStep DEF Mirrors
<1>2. /\ Append(s, new) \in Seq(ScopeSet) /\ Len(Append(s, new)) = m + 1
      /\ \A l \in 1..m : Append(s, new)[l] = s[l]
      /\ Append(s, new)[m + 1] = new
  OBVIOUS
<1>3. Len(t) = m + 1 /\ m + 1 # 0
  <2>1. Len(t) = Len(Append(s, new))
    <3>. HIDE DEF y
    <3>. QED BY <1>2, DefineTyped
  <2>. HIDE DEF t
  <2>. QED BY <1>1, <1>2, <2>1
<1>4. ASSUME NEW l \in 1..(m + 1), NEW x \in Vars
      PROVE  Latest(t[l].binds[x], d, x, DefinedAt(d, x, n + 1, l))
  <2>1. l \in Nat /\ l - 1 <= ForDepth(d.body, n + 1) BY <1>1
  <2>2. Defines(d, n + 1, x) <=> x = y BY DEF Defines
  <2>3. ForDepth(d.body, n + 1) = l - 1 <=> l = m + 1 BY <1>1, <2>1
  <2>4. DefinedAt(d, x, n + 1, l) =
          DefinedAt(d, x, n, l) \cup (IF l = m + 1 /\ x = y THEN {n + 1} ELSE {})
    <3>1. DefinedAt(d, x, n + 1, l) =
            DefinedAt(d, x, n, l) \cup {i \in {n + 1} : Defines(d, i, x) /\ ForDepth(d.body, i) = l - 1}
      BY <2>1, DefinedAtStep
    <3>2. {i \in {n + 1} : Defines(d, i, x) /\ ForDepth(d.body, i) = l - 1} =
            IF l = m + 1 /\ x = y THEN {n + 1} ELSE {}
      <4>. HIDE DEF y, m
      <4>. QED BY <2>2, <2>3
    <3>. QED BY <3>1, <3>2
  <2>5. t[l].binds[x] = IF l = m + 1 /\ x = y THEN b ELSE Append(s, new)[l].binds[x]
    <3>. DEFINE p == Append(s, new)
    <3>1. p \in Seq(ScopeSet) /\ Len(p) = m + 1 BY <1>2
    <3>. HIDE DEF y, p, m
    <3>2. l \in 1..Len(p) /\ Len(p) # 0 BY <1>3, <3>1
    <3>3. Define(p, y, b)[l].binds[x] = IF l = Len(p) /\ x = y THEN b ELSE p[l].binds[x]
      BY <3>1, <3>2, DefineIs
    <3>. QED BY <3>1, <3>3 DEF p
  <2>6. DefinedAt(d, x, n, l) \in SUBSET (0..n) BY DEF DefinedAt, Definitions
  <2>7. MutableBy(d, x, n + 1) = FALSE BY DEF MutableBy
  <2>8. b.mutable = MutableBy(d, x, n + 1) BY <2>7, Zenon
  <2>9. CASE l = m + 1
    <3>1. l - 1 > ForDepth(d.body, n) BY <1>1, <2>9
    <3>2. DefinedAt(d, x, n, l) = {} BY <2>1, <3>1, DefinedAtStep
    <3>3. Latest(b, d, x, {} \cup {n + 1})
      <4>1. {} \in SUBSET (0..n) OBVIOUS
      <4>. QED BY <2>8, <4>1, LatestDefined
    <3>4. Latest(Absent, d, x, {}) BY DEF Latest
    <3>5. t[l].binds[x] = IF x = y THEN b ELSE Absent BY <1>2, <2>5, <2>9
    <3>6. DefinedAt(d, x, n + 1, l) = {} \cup (IF x = y THEN {n + 1} ELSE {})
      BY <2>4, <2>9, <3>2
    <3>. HIDE DEF t, y, m
    <3>. QED BY <3>3, <3>4, <3>5, <3>6
  <2>10. CASE l # m + 1
    <3>1. l \in 1..m BY <1>1, <2>10
    <3>2. DefinedAt(d, x, n + 1, l) = DefinedAt(d, x, n, l) BY <2>4, <2>10
    <3>3. t[l].binds[x] = s[l].binds[x]
      <4>. HIDE DEF t, m
      <4>. QED BY <1>2, <2>5, <2>10, <3>1
    <3>4. Latest(s[l].binds[x], d, x, DefinedAt(d, x, n, l)) BY <3>1 DEF Mirrors
    <3>. QED BY <3>2, <3>3, <3>4
  <2>. QED BY <2>9, <2>10
<1>5. \A k \in 0..(n + 1) : ForDepth(d.body, k) \in Nat
  BY <1>1, DepthsTyped
<1>6. Len(t) = 1 + ForDepth(d.body, n + 1) BY <1>1, <1>3
<1>. HIDE DEF t, m
<1>7. Mirrors(t, d, n + 1) BY <1>3, <1>4, <1>5, <1>6 DEF Mirrors
<1>. QED BY <1>7 DEF t

\* An @iter body ends, and what it defined is gone.
LEMMA LoopEnded ==
  ASSUME NEW s \in Seq(ScopeSet), NEW d, NEW n \in Nat, Mirrors(s, d, n),
         d.body[n + 1].op = "endfor", Len(s) >= 2
  PROVE  Mirrors(SubSeq(s, 1, Len(s) - 1), d, n + 1)
<1>. DEFINE t == SubSeq(s, 1, Len(s) - 1)
            m == Len(s)
<1>1. /\ ForDepth(d.body, n) \in Nat /\ ForDepth(d.body, n + 1) = ForDepth(d.body, n) - 1
      /\ m = 1 + ForDepth(d.body, n) /\ m >= 2
  BY DepthStep DEF Mirrors
<1>2. Len(t) = m - 1 /\ \A l \in 1..(m - 1) : t[l] = s[l] /\ l \in 1..m /\ l \in Nat
  BY <1>1
<1>3. ASSUME NEW l \in 1..(m - 1), NEW x \in Vars
      PROVE  Latest(t[l].binds[x], d, x, DefinedAt(d, x, n + 1, l))
  <2>1. l \in Nat /\ l - 1 <= ForDepth(d.body, n + 1) BY <1>1
  <2>2. {i \in {n + 1} : Defines(d, i, x) /\ ForDepth(d.body, i) = l - 1} = {}
    BY DEF Defines
  <2>3. DefinedAt(d, x, n + 1, l) = DefinedAt(d, x, n, l)
    <3>1. DefinedAt(d, x, n + 1, l) =
            DefinedAt(d, x, n, l) \cup {i \in {n + 1} : Defines(d, i, x) /\ ForDepth(d.body, i) = l - 1}
      BY <2>1, DefinedAtStep
    <3>. QED BY <2>2, <3>1
  <2>4. Latest(s[l].binds[x], d, x, DefinedAt(d, x, n, l)) BY <1>2 DEF Mirrors
  <2>. HIDE DEF t, m
  <2>. QED BY <1>2, <2>3, <2>4
<1>4. \A k \in 0..(n + 1) : ForDepth(d.body, k) \in Nat
  BY <1>1, DepthsTyped
<1>5. Len(t) = 1 + ForDepth(d.body, n + 1) BY <1>1, <1>2
<1>. HIDE DEF t, m
<1>6. Mirrors(t, d, n + 1) BY <1>2, <1>3, <1>4, <1>5 DEF Mirrors
<1>. QED BY <1>6 DEF t

\* A function begins with its parameters.
LEMMA FunctionBegun ==
  ASSUME NEW d \in Decl
  PROVE  Mirrors(<<FnScope(d)>>, d, 0)
<1>1. ForDepth(d.body, 0) = 0 BY DepthZero
<1>2. ASSUME NEW x \in Vars
      PROVE  Latest(FnScope(d).binds[x], d, x, DefinedAt(d, x, 0, 1))
  <2>. DEFINE named == {k \in DOMAIN d.params : d.params[k].name = x}
              last == CHOOSE k \in named : \A l \in named : l <= k
              b == NewBinding(d.params[last].type, d.params[last].mutable, 0)
  <2>1. d.params \in Seq(Param) BY DEF Decl
  <2>2. FnScope(d).binds[x] = IF named = {} THEN Absent ELSE b
    BY DEF FnScope
  <2>3. DefinedAt(d, x, 0, 1) = IF named = {} THEN {} ELSE {0}
    <3>1. 0..((0 + 1) - 1) = {0} /\ 0..0 = {0} OBVIOUS
    <3>2. Definitions(d, x, 0 + 1) = {i \in {0} : Defines(d, i, x)}
      BY <1>1, <3>1 DEF Definitions
    <3>3. Defines(d, 0, x) <=> named # {} BY DEF Defines
    <3>. HIDE DEF named
    <3>. QED BY <1>1, <3>2, <3>3 DEF DefinedAt
  <2>4. CASE named = {}
    BY <2>2, <2>3, <2>4 DEF Latest
  <2>5. CASE named # {}
    <3>1. named \in SUBSET (1..Len(d.params)) /\ Len(d.params) \in Nat BY <2>1
    <3>2. last \in named
      <4>. HIDE DEF named
      <4>. QED BY <2>5, <3>1, GreatestPosition
    <3>3. d.params[last] \in Param
      <4>. HIDE DEF last
      <4>. QED BY <2>1, <3>1, <3>2
    <3>4. b # Absent
      <4>1. d.params[last].type \in Types
        <5>. HIDE DEF last
        <5>. QED BY <3>3 DEF Param
      <4>. HIDE DEF last
      <4>. QED BY <4>1 DEF NewBinding, Absent, Types, NoType
    <3>5. b.at = 0 /\ b.mutable = d.params[last].mutable
      <4>. HIDE DEF last
      <4>. QED BY DEF NewBinding
    <3>6. MutableBy(d, x, 0) = d.params[last].mutable
      BY DEF MutableBy, ParamOf, MaxOf
    <3>7. b.mutable = MutableBy(d, x, b.at) BY <3>5, <3>6, Zenon
    <3>. HIDE DEF b, last, named
    <3>8. b.at \in {0} /\ \A i \in {0} : i <= b.at BY <3>5
    <3>9. Latest(b, d, x, {0})
      <4>1. {0} # {} OBVIOUS
      <4>. QED BY <3>4, <3>7, <3>8, <4>1, Zenon DEF Latest
    <3>. QED BY <2>2, <2>3, <2>5, <3>9
  <2>. QED BY <2>4, <2>5
<1>3. 0..0 = {0} /\ 1..1 = {1} OBVIOUS
<1>4. Len(<<FnScope(d)>>) = 1 /\ <<FnScope(d)>>[1] = FnScope(d) OBVIOUS
<1>. QED BY <1>1, <1>2, <1>3, <1>4 DEF Mirrors
-----------------------------------------------------------------------------
(* Every step.                                                              *)

\* Where a statement is checked.
LEMMA AtItem ==
  ASSUME TypeOK, ScopeInv, NEW ops, At(ops)
  PROVE  /\ pc - 1 \in Nat /\ (pc - 1) + 1 = pc /\ pc > 0
         /\ decl \in Decl /\ item = decl.body[pc] /\ item.op \in ops
         /\ item \in Item /\ item.expr \in Expr
         /\ Mirrors(scopes, decl, pc - 1)
         /\ Mirrors(scopes', decl, pc) => ScopeInv'
<1>1. /\ cur \in DOMAIN prog /\ pc \in DOMAIN decl.body /\ item.op \in ops
      /\ pc' = pc + 1 /\ prog' = prog /\ cur' = cur
  BY DEF At
<1>2. decl \in Decl /\ item \in Item /\ item.expr \in Expr /\ decl.body \in Seq(Item)
  BY <1>1, ItemTyped
<1>3. pc \in Nat /\ pc > 0 BY <1>1, <1>2
<1>4. Mirrors(scopes, decl, pc - 1) BY <1>3 DEF ScopeInv
<1>5. pc' - 1 = pc /\ decl' = decl BY <1>1, <1>3 DEF decl
<1>6. Mirrors(scopes', decl, pc) => ScopeInv'
  BY <1>1, <1>5 DEF ScopeInv
<1>. QED BY <1>1, <1>2, <1>3, <1>4, <1>6 DEF item

\* Inside an @iter body there is a scope besides that of the function.
LEMMA LoopScope ==
  ASSUME TypeOK, Balanced, ScopeInv, CheckEndFor
  PROVE  Len(scopes) >= 2
<1>1. At({"endfor"}) /\ open # <<>> /\ open[Len(open)] = "for"
  BY DEF CheckEndFor, Innermost
<1>2. open \in Seq({"then", "else", "for"}) BY DEF TypeOK
<1>3. /\ Outer \in Seq({"then", "else", "for"})
      /\ Occurrences(open, "for") = Occurrences(Outer, "for") + 1
  BY <1>1, <1>2, OccurrencesFront DEF Outer
<1>4. Occurrences(Outer, "for") \in Nat BY <1>3, OccurrencesFinite
<1>5. Len(scopes) = 1 + Occurrences(open, "for")
  <2>1. pc # 0 BY <1>1, AtItem
  <2>. QED BY <2>1, BalancedIn DEF Balanced
<1>. HIDE DEF Occurrences
<1>. QED BY <1>3, <1>4, <1>5

\* Every step keeps the scopes what the definitions make them.
THEOREM ScopingPreserved == TypeOK /\ Balanced /\ ScopeInv /\ [Next]_vars => ScopeInv'
<1>. SUFFICES ASSUME TypeOK, Balanced, ScopeInv, [Next]_vars
              PROVE  ScopeInv'
  OBVIOUS
<1>0. scopes \in Seq(ScopeSet) /\ pc \in Nat BY DEF TypeOK
<1>1. CASE BeginFn
  <2>1. cur \in DOMAIN prog /\ decl \in Decl BY <1>1, ItemTyped DEF BeginFn
  <2>2. scopes = <<>>
    <3>1. pc = 0 BY <1>1 DEF BeginFn
    <3>2. Len(scopes) = 0 BY <3>1 DEF Balanced, ScopesBalanced
    <3>. QED BY <1>0, <3>2
  <2>3. scopes' = <<FnScope(decl)>> BY <1>1, <2>2 DEF BeginFn
  <2>4. pc' - 1 = 0 /\ decl' = decl /\ cur' = cur /\ prog' = prog BY <1>1 DEF BeginFn, decl
  <2>5. Mirrors(scopes', decl, 0) BY <2>1, <2>3, FunctionBegun
  <2>. QED BY <2>1, <2>4, <2>5 DEF ScopeInv
<1>2. CASE FinishFn
  BY <1>2 DEF FinishFn, ScopeInv
<1>3. CASE CheckBinding
  <2>1. At({"let", "mut"}) BY <1>3 DEF CheckBinding
  <2>. DEFINE n == pc - 1
              type == IF item.type = NoType THEN Infer(item.expr) ELSE item.type
              b == NewBinding(type, item.op = "mut", pc)
  <2>2. scopes' = Define(Consume(item.expr), item.name, b) BY <1>3 DEF CheckBinding
  <2>3. b \in Binding /\ b.at = pc
    <3>1. type \in Types BY <2>1, AtItem, InferTyped DEF Item
    <3>. HIDE DEF type
    <3>2. b \in Binding BY <1>0, <3>1, NewBindingTyped
    <3>. QED BY <3>2 DEF NewBinding
  <2>4. b.mutable = (item.op = "mut") BY Zenon DEF NewBinding
  <2>. HIDE DEF b
  <2>5. Consume(item.expr) \in Seq(ScopeSet) BY <1>0, <2>1, AtItem, ConsumeTyped
  <2>6. n \in Nat /\ n + 1 = pc /\ item = decl.body[n + 1] /\ item.op \in {"let", "mut"}
        /\ item.expr \in Expr /\ Mirrors(scopes, decl, n)
    BY <2>1, AtItem
  <2>. HIDE DEF n
  <2>7. Mirrors(Consume(item.expr), decl, n) BY <1>0, <2>6, ConsumedMirrors
  <2>8. Mirrors(Define(Consume(item.expr), decl.body[n + 1].name, b), decl, n + 1)
    <3>1. b.mutable = (decl.body[n + 1].op = "mut") BY <2>4, <2>6, Zenon
    <3>2. b.at = n + 1 /\ decl.body[n + 1].op \in {"let", "mut"} BY <2>3, <2>6
    <3>. QED BY <2>3, <2>5, <2>6, <2>7, <3>1, <3>2, BindingDefined
  <2>. QED BY <2>1, <2>2, <2>6, <2>8, AtItem
<1>4. CASE CheckAssign \/ CheckExpr \/ CheckTail \/ CheckIf
  <2>1. PICK ops \in SUBSET {"assign", "expr", "match", "tail", "if"} : At(ops)
    BY <1>4 DEF CheckAssign, CheckExpr, CheckTail, CheckIf
  <2>2. scopes' = Consume(item.expr)
    BY <1>4 DEF CheckAssign, CheckExpr, CheckTail, CheckIf
  <2>3. Mirrors(Consume(item.expr), decl, pc - 1)
    BY <1>0, <2>1, AtItem, ConsumedMirrors
  <2>4. decl.body[(pc - 1) + 1].op \notin {"let", "mut", "for", "endfor"}
    BY <2>1, AtItem
  <2>5. Mirrors(Consume(item.expr), decl, (pc - 1) + 1)
    <3>1. pc - 1 \in Nat BY <2>1, AtItem
    <3>. QED BY <2>3, <2>4, <3>1, NothingDefined
  <2>. QED BY <2>1, <2>2, <2>5, AtItem
<1>5. CASE SkipLocalInfer \/ CheckElse \/ CheckEndIf
  <2>1. PICK ops \in SUBSET {"walrus", "else", "endif"} : At(ops)
    BY <1>5 DEF SkipLocalInfer, CheckElse, CheckEndIf
  <2>2. scopes' = scopes
    BY <1>5 DEF SkipLocalInfer, CheckElse, CheckEndIf
  <2>3. decl.body[(pc - 1) + 1].op \notin {"let", "mut", "for", "endfor"}
    BY <2>1, AtItem
  <2>4. Mirrors(scopes, decl, (pc - 1) + 1)
    <3>1. pc - 1 \in Nat /\ Mirrors(scopes, decl, pc - 1) BY <2>1, AtItem
    <3>. QED BY <2>3, <3>1, NothingDefined
  <2>. QED BY <2>1, <2>2, <2>4, AtItem
<1>6. CASE CheckForIn
  <2>1. At({"for"}) BY <1>6 DEF CheckForIn
  <2>. DEFINE n == pc - 1
              s == Consume(item.expr)
              b == NewBinding("unit", FALSE, pc)
              new == NewScope(NoType, 0)
  <2>2. scopes' = Define(Append(s, new), item.name, b) BY <1>6 DEF CheckForIn
  <2>3. b \in Binding /\ b.at = pc /\ b.mutable = FALSE
    <3>1. b \in Binding BY <1>0, NewBindingTyped DEF Types
    <3>. QED BY <3>1 DEF NewBinding
  <2>4. new \in ScopeSet /\ \A x \in Vars : new.binds[x] = Absent
    <3>1. new \in ScopeSet BY NewScopeTyped
    <3>. QED BY <3>1 DEF NewScope
  <2>. HIDE DEF b, new
  <2>5. s \in Seq(ScopeSet) BY <1>0, <2>1, AtItem, ConsumeTyped
  <2>6. n \in Nat /\ n + 1 = pc /\ item = decl.body[n + 1] /\ item.op = "for"
        /\ item.expr \in Expr /\ Mirrors(scopes, decl, n)
    BY <2>1, AtItem
  <2>. HIDE DEF n
  <2>7. Mirrors(s, decl, n) BY <1>0, <2>6, ConsumedMirrors
  <2>. HIDE DEF s
  <2>8. Mirrors(Define(Append(s, new), decl.body[n + 1].name, b), decl, n + 1)
    BY <2>3, <2>4, <2>5, <2>6, <2>7, LoopBegun
  <2>. QED BY <2>1, <2>2, <2>6, <2>8, AtItem
<1>7. CASE CheckEndFor
  <2>1. /\ At({"endfor"}) /\ scopes' = SubSeq(scopes, 1, Len(scopes) - 1)
    BY <1>7 DEF CheckEndFor
  <2>2. Len(scopes) >= 2 BY <1>7, LoopScope
  <2>3. Mirrors(SubSeq(scopes, 1, Len(scopes) - 1), decl, (pc - 1) + 1)
    <3>1. pc - 1 \in Nat /\ Mirrors(scopes, decl, pc - 1) /\ decl.body[(pc - 1) + 1].op = "endfor"
      BY <2>1, AtItem
    <3>. QED BY <1>0, <2>2, <3>1, LoopEnded
  <2>. QED BY <2>1, <2>3, AtItem
<1>8. CASE UNCHANGED vars
  BY <1>8 DEF vars, ScopeInv, decl
<1>. QED BY <1>1, <1>2, <1>3, <1>4, <1>5, <1>6, <1>7, <1>8 DEF Next, Step, Terminating

\* For every program the stack holds at every step what the definitions make it.
LEMMA ScopingHolds == Spec => [](TypeOK /\ Balanced /\ ScopeInv)
<1>1. Init => TypeOK /\ Balanced /\ ScopeInv
  BY InitTyped DEF Init, Balanced, ScopesBalanced, ScopeInv
<1>2. TypeOK /\ TypeOK' /\ Balanced /\ ScopeInv /\ [Next]_vars => Balanced' /\ ScopeInv'
  BY BalancePreserved, ScopingPreserved
<1>. QED BY <1>1, <1>2, TypeCorrect, PTL DEF Spec
-----------------------------------------------------------------------------
(* What a lookup finds.                                                     *)

\* The greatest of some numbers, as CHOOSE writes it.
LEMMA MaxOfIs ==
  ASSUME NEW n \in Nat, NEW S \in SUBSET (0..n), NEW m \in S, \A k \in S : k <= m
  PROVE  MaxOf(S) = m
<1>1. \A k \in S : (\A l \in S : l <= k) => k = m
  <2>. SUFFICES ASSUME NEW k \in S, \A l \in S : l <= k PROVE k = m OBVIOUS
  <2>1. k \in 0..n /\ m \in 0..n /\ k <= m /\ m <= k OBVIOUS
  <2>. QED BY <2>1
<1>. QED BY <1>1 DEF MaxOf

\* The innermost scope that binds a name has its latest definition in scope: one
\* inside fewer @iter bodies that came later would have ended that scope.
LEMMA LookupIsLatest ==
  ASSUME NEW s \in Seq(ScopeSet), NEW d, NEW n \in Nat, Mirrors(s, d, n), NEW x \in Vars
  PROVE  LET defs == Definitions(d, x, n + 1)
         IN  /\ Bound(s, x) <=> defs # {}
             /\ Bound(s, x) => /\ Lookup(s, x).at = MaxOf(defs)
                               /\ Lookup(s, x).mutable = MutableBy(d, x, MaxOf(defs))
<1>. DEFINE D(k) == ForDepth(d.body, k)
            defs == Definitions(d, x, n + 1)
<1>1. /\ \A k \in 0..n : D(k) \in Nat
      /\ Len(s) = 1 + D(n)
      /\ \A l \in 1..Len(s) : Latest(s[l].binds[x], d, x, DefinedAt(d, x, n, l))
  BY DEF Mirrors
<1>2. \A i \in defs : i \in 0..n /\ \A k \in i..n : D(k) >= D(i)
  BY InScope
<1>3. \A l : DefinedAt(d, x, n, l) = {i \in defs : D(i) = l - 1}
  BY DEF DefinedAt
<1>4. \A i \in defs : D(i) + 1 \in 1..Len(s) /\ i \in DefinedAt(d, x, n, D(i) + 1)
  <2>. TAKE i \in defs
  <2>1. i \in 0..n /\ n \in i..n BY <1>2
  <2>2. D(i) \in Nat /\ D(n) \in Nat /\ D(n) >= D(i) BY <1>1, <1>2, <2>1
  <2>. HIDE DEF D
  <2>. QED BY <1>1, <1>3, <2>2
<1>5. DOMAIN s = 1..Len(s) OBVIOUS
<1>. HIDE DEF D, defs
<1>6. Bound(s, x) <=> defs # {}
  <2>1. ASSUME NEW i \in defs PROVE Bound(s, x)
    <3>1. s[D(i) + 1].binds[x] # Absent BY <1>1, <1>4, <2>1 DEF Latest
    <3>. QED BY <1>4, <1>5, <3>1 DEF Bound, Homes
  <2>2. ASSUME Bound(s, x) PROVE defs # {}
    <3>1. PICK l \in 1..Len(s) : s[l].binds[x] # Absent BY <1>5, <2>2 DEF Bound, Homes
    <3>2. DefinedAt(d, x, n, l) # {} BY <1>1, <3>1 DEF Latest
    <3>. QED BY <1>3, <3>2
  <2>. QED BY <2>1, <2>2
<1>7. ASSUME Bound(s, x)
      PROVE  /\ Lookup(s, x).at = MaxOf(defs)
             /\ Lookup(s, x).mutable = MutableBy(d, x, MaxOf(defs))
  <2>. DEFINE h == Home(s, x)
              b == s[h].binds[x]
  <2>1. h \in 1..Len(s) /\ b # Absent /\ \A l \in Homes(s, x) : l <= h
    BY <1>7, HomeIsInnermost
  <2>. HIDE DEF h
  <2>2. /\ b.at \in DefinedAt(d, x, n, h) /\ \A i \in DefinedAt(d, x, n, h) : i <= b.at
        /\ b.mutable = MutableBy(d, x, b.at)
    <3>1. Latest(b, d, x, DefinedAt(d, x, n, h)) BY <1>1, <2>1
    <3>. HIDE DEF b
    <3>. QED BY <2>1, <3>1, Zenon DEF Latest
  <2>3. b.at \in defs /\ D(b.at) = h - 1 /\ b.at \in 0..n BY <1>2, <1>3, <2>2
  <2>4. ASSUME NEW i \in defs PROVE i <= b.at
    <3>. DEFINE l == D(i) + 1
    <3>1. l \in 1..Len(s) /\ i \in DefinedAt(d, x, n, l) /\ i \in 0..n BY <1>2, <1>4
    <3>2. s[l].binds[x] # Absent BY <1>1, <3>1 DEF Latest
    <3>3. l <= h BY <1>5, <2>1, <3>1, <3>2 DEF Homes
    <3>4. CASE l = h BY <2>2, <3>1, <3>4
    <3>5. CASE l < h
      <4>. SUFFICES ASSUME i > b.at PROVE FALSE BY <2>3, <3>1
      <4>1. i \in b.at..n BY <2>3, <3>1
      <4>2. D(i) >= D(b.at) BY <1>2, <2>3, <4>1
      <4>3. D(i) \in Nat /\ h \in Nat BY <1>1, <2>1, <3>1
      <4>. QED BY <2>3, <3>5, <4>2, <4>3
    <3>6. D(i) \in Nat /\ h \in Nat BY <1>1, <2>1, <3>1
    <3>. QED BY <3>3, <3>4, <3>5, <3>6
  <2>5. defs \in SUBSET (0..n) BY <1>2
  <2>6. MaxOf(defs) = b.at
    <3>. HIDE DEF b
    <3>. QED BY <2>3, <2>4, <2>5, MaxOfIs
  <2>7. Lookup(s, x) = b BY DEF Lookup, h
  <2>. HIDE DEF b
  <2>8. Lookup(s, x).mutable = MutableBy(d, x, MaxOf(defs)) BY <2>2, <2>6, <2>7, Zenon
  <2>. QED BY <2>6, <2>7, <2>8
<1>. QED BY <1>6, <1>7 DEF defs

\* For every program: the binding TypeEnv::lookup finds is the latest definition
\* of the name in scope, and it finds one exactly if there is one (LexicalScoping;
\* TypeEnv::lookup, check_for_in and check_if).
THEOREM LookupIsLexical == Spec => []LexicalScoping
<1>1. TypeOK /\ ScopeInv => LexicalScoping
  <2>. SUFFICES ASSUME TypeOK, ScopeInv, pc > 0, NEW x \in Vars
                PROVE  LET defs == Definitions(decl, x, pc)
                       IN  /\ Bound(scopes, x) <=> defs # {}
                           /\ defs # {} => Lookup(scopes, x).at = MaxOf(defs)
    BY DEF LexicalScoping
  <2>1. scopes \in Seq(ScopeSet) /\ pc - 1 \in Nat /\ (pc - 1) + 1 = pc
    <3>1. pc \in Nat BY DEF TypeOK
    <3>. QED BY <3>1 DEF TypeOK
  <2>2. Mirrors(scopes, decl, pc - 1) BY DEF ScopeInv
  <2>. QED BY <2>1, <2>2, LookupIsLatest
<1>. QED BY <1>1, ScopingHolds, PTL

-----------------------------------------------------------------------------
(* Assignments.                                                             *)

\* The assignment at item i of d has a target, which is mutable.
Assignable(d, i) ==
  /\ Definitions(d, d.body[i].name, i) # {}
  /\ MutableBy(d, d.body[i].name, Resolve(d, d.body[i].name, i))

\* Each assignment checked is one of these, or has been reported.
AssignsReported ==
  \A c \in DOMAIN prog : \A i \in Walked(c) :
    prog[c].body[i].op = "assign" => Assignable(prog[c], i) \/ errors # {}

\* An error stays, and a step adds at most one item to those checked.
LEMMA StepWalks ==
  ASSUME TypeOK, [Next]_vars
  PROVE  /\ errors \subseteq errors' /\ prog' = prog
         /\ \A c \in DOMAIN prog : \A i \in Walked(c)' :
              i \in Walked(c) \/ (c = cur /\ i = pc /\ pc \in DOMAIN decl.body)
<1>1. /\ cur \in Nat /\ pc \in Nat /\ prog \in Seq(Decl)
  BY DEF TypeOK
<1>2. \A c \in DOMAIN prog : \A i \in DOMAIN prog[c].body : i \in Nat \ {0} /\ c \in Nat
  BY BodyTyped
<1>3. CASE BeginFn \/ FinishFn
  <2>1. errors \subseteq errors' /\ prog' = prog
    BY <1>3 DEF BeginFn, FinishFn, Report
  <2>2. \/ pc = 0 /\ pc' = 1 /\ cur' = cur
        \/ /\ cur \in DOMAIN prog /\ pc = Len(prog[cur].body) + 1 /\ pc' = 0 /\ cur' = cur + 1
           /\ prog[cur].body \in Seq(Item)
    BY <1>3, ItemTyped DEF BeginFn, FinishFn, decl
  <2>3. \A c \in DOMAIN prog : \A i \in Walked(c)' : i \in Walked(c)
    BY <1>1, <1>2, <2>1, <2>2 DEF Walked
  <2>. QED BY <2>1, <2>3
<1>4. ASSUME NEW ops, At(ops), errors \subseteq errors'
      PROVE  /\ prog' = prog
             /\ \A c \in DOMAIN prog : \A i \in Walked(c)' :
                  i \in Walked(c) \/ (c = cur /\ i = pc /\ pc \in DOMAIN decl.body)
  <2>1. pc \in DOMAIN decl.body /\ pc' = pc + 1 /\ prog' = prog /\ cur' = cur
    BY <1>4 DEF At
  <2>. QED BY <1>1, <1>2, <2>1 DEF Walked
<1>5. CASE CheckBinding \/ CheckAssign \/ CheckExpr \/ CheckIf \/ CheckForIn \/ CheckTail
  <2>1. PICK ops : At(ops)
    BY <1>5 DEF CheckBinding, CheckAssign, CheckExpr, CheckIf, CheckForIn, CheckTail
  <2>2. errors \subseteq errors'
    BY <1>5 DEF CheckBinding, CheckAssign, CheckExpr, CheckIf, CheckForIn, CheckTail, Report
  <2>. QED BY <1>4, <2>1, <2>2
<1>6. CASE SkipLocalInfer \/ CheckElse \/ CheckEndIf \/ CheckEndFor
  <2>1. PICK ops : At(ops)
    BY <1>6 DEF SkipLocalInfer, CheckElse, CheckEndIf, CheckEndFor
  <2>2. errors \subseteq errors'
    BY <1>6 DEF SkipLocalInfer, CheckElse, CheckEndIf, CheckEndFor
  <2>. QED BY <1>4, <2>1, <2>2
<1>7. CASE UNCHANGED vars
  BY <1>7 DEF vars, Walked
<1>. QED BY <1>3, <1>5, <1>6, <1>7 DEF Next, Step, Terminating

\* An assignment that has no mutable target is reported when it is checked.
LEMMA AssignChecked ==
  ASSUME TypeOK, ScopeInv, [Next]_vars, pc \in DOMAIN decl.body, cur \in DOMAIN prog,
         item.op = "assign", NEW c, c = cur, pc \in Walked(c)'
  PROVE  Assignable(decl, pc) \/ errors' # {}
<1>0. cur \in Nat /\ pc \in Nat /\ pc # 0
  <2>1. decl.body \in Seq(Item) BY ItemTyped
  <2>. QED BY <2>1 DEF TypeOK
<1>1. CheckAssign
  <2>1. ~UNCHANGED vars /\ ~Terminating
    <3>1. ~(cur' = cur /\ pc' = pc) BY <1>0 DEF Walked
    <3>. QED BY <3>1 DEF Terminating, vars
  <2>2. pc \notin {0, Len(decl.body) + 1}
    <3>1. decl.body \in Seq(Item) BY ItemTyped
    <3>. QED BY <1>0, <3>1
  <2>3. ~BeginFn /\ ~FinishFn BY <2>2 DEF BeginFn, FinishFn
  <2>4. \A ops : At(ops) => "assign" \in ops BY DEF At
  <2>5. /\ ~CheckBinding /\ ~CheckExpr /\ ~SkipLocalInfer /\ ~CheckIf /\ ~CheckElse
        /\ ~CheckEndIf /\ ~CheckForIn /\ ~CheckEndFor /\ ~CheckTail
    BY <2>4 DEF CheckBinding, CheckExpr, SkipLocalInfer, CheckIf, CheckElse, CheckEndIf,
                CheckForIn, CheckEndFor, CheckTail
  <2>. QED BY <2>1, <2>3, <2>5 DEF Next, Step
<1>2. /\ At({"assign"}) /\ item.name \in Vars
  BY <1>1, AtItem DEF CheckAssign, Item
<1>. DEFINE x == item.name
            defs == Definitions(decl, x, pc)
<1>3. /\ Bound(scopes, x) <=> defs # {}
      /\ Bound(scopes, x) => Lookup(scopes, x).mutable = MutableBy(decl, x, MaxOf(defs))
  <2>1. /\ scopes \in Seq(ScopeSet) /\ pc - 1 \in Nat /\ (pc - 1) + 1 = pc
        /\ Mirrors(scopes, decl, pc - 1)
    BY <1>2, AtItem DEF TypeOK
  <2>. QED BY <1>2, <2>1, LookupIsLatest
<1>. HIDE DEF defs
<1>4. CASE ~Bound(scopes, x)
  <2>1. [code |-> "E209-Scope", decl |-> cur, at |-> pc] \in errors'
    BY <1>1, <1>4 DEF CheckAssign, Report
  <2>. QED BY <2>1
<1>5. CASE Bound(scopes, x) /\ ~Lookup(scopes, x).mutable
  <2>1. [code |-> "E201", decl |-> cur, at |-> pc] \in errors'
    BY <1>1, <1>5 DEF CheckAssign, Report
  <2>. QED BY <2>1
<1>6. CASE Bound(scopes, x) /\ Lookup(scopes, x).mutable
  <2>1. MutableBy(decl, x, MaxOf(defs)) BY <1>3, <1>6, Zenon
  <2>2. defs # {} BY <1>3, <1>6
  <2>. QED BY <2>1, <2>2 DEF Assignable, Resolve, defs, item
<1>. QED BY <1>4, <1>5, <1>6

\* For every program: if it is accepted, every assignment has a target, and the
\* definition it resolves to is mutable (AssignmentsMutable; the Assign case of
\* check_stmt).
THEOREM AssignmentsAreToMutables == Spec => []AssignmentsMutable
<1>1. Init => AssignsReported
  <2>. SUFFICES ASSUME Init, NEW c \in DOMAIN prog, NEW i \in Walked(c) PROVE FALSE
    BY DEF AssignsReported
  <2>1. TypeOK /\ cur = 1 /\ pc = 0 BY InitTyped DEF Init
  <2>2. i \in DOMAIN prog[c].body BY DEF Walked
  <2>3. c \in Nat \ {0} /\ i \in Nat BY <2>1, <2>2, BodyTyped
  <2>. QED BY <2>1, <2>3 DEF Walked
<1>2. TypeOK /\ ScopeInv /\ AssignsReported /\ [Next]_vars => AssignsReported'
  <2>. SUFFICES ASSUME TypeOK, ScopeInv, AssignsReported, [Next]_vars,
                       NEW c \in DOMAIN prog', NEW i \in Walked(c)',
                       prog'[c].body[i].op = "assign"
                PROVE  Assignable(prog'[c], i) \/ errors' # {}
    BY DEF AssignsReported
  <2>1. prog' = prog /\ errors \subseteq errors' BY StepWalks
  <2>2. CASE i \in Walked(c)
    <3>1. Assignable(prog[c], i) \/ errors # {} BY <2>1, <2>2 DEF AssignsReported
    <3>. QED BY <2>1, <3>1
  <2>3. CASE i \notin Walked(c)
    <3>1. c = cur /\ i = pc /\ pc \in DOMAIN decl.body BY <2>1, <2>3, StepWalks
    <3>2. Assignable(decl, pc) \/ errors' # {}
      <4>1. cur \in DOMAIN prog /\ pc \in Walked(c)' BY <2>1, <3>1
      <4>2. item.op = "assign" BY <2>1, <3>1 DEF decl, item
      <4>. QED BY <3>1, <4>1, <4>2, AssignChecked
    <3>. QED BY <2>1, <3>1, <3>2 DEF decl
  <2>. QED BY <2>2, <2>3
<1>3. AssignsReported => AssignmentsMutable
  BY DEF AssignsReported, AssignmentsMutable, Accepted, Assignable, MutableBy
<1>. QED BY <1>1, <1>2, <1>3, ScopingHolds, PTL DEF Spec

-----------------------------------------------------------------------------
(* Part 3: the types the checker gives, and the moves it tracks.            *)

-----------------------------------------------------------------------------
(* What a name refers to.                                                   *)

\* A set of positions before j that is not empty has a greatest member, which
\* MaxOf names.
LEMMA MaxOfIsMember ==
  ASSUME NEW j \in Nat, NEW S \in SUBSET (0..j), S # {}
  PROVE  MaxOf(S) \in S /\ \A k \in S : k <= MaxOf(S)
<1>1. S \in SUBSET Nat /\ IsFiniteSet(S)
  <2>1. IsFiniteSet(0..j) BY FS_Interval
  <2>2. IsFiniteSet(S) BY <2>1, FS_Subset
  <2>. QED BY <2>2
<1>2. \E m \in S : \A k \in S : k <= m BY <1>1, MaxExists
<1>. QED BY <1>2 DEF MaxOf

\* A name refers to a definition before the place that uses it.
LEMMA ResolveBefore ==
  ASSUME NEW d, NEW x, NEW j \in Nat \ {0}, Definitions(d, x, j) # {}
  PROVE  /\ Resolve(d, x, j) \in 0..(j - 1)
         /\ Resolve(d, x, j) \in Definitions(d, x, j)
<1>1. Definitions(d, x, j) \in SUBSET (0..(j - 1)) BY DEF Definitions
<1>2. j - 1 \in Nat OBVIOUS
<1>. QED BY <1>1, <1>2, MaxOfIsMember DEF Resolve

-----------------------------------------------------------------------------
(* The types of the definitions: DefTypes is the function its equation      *)
(* describes, because a type depends on those of earlier definitions only.  *)

\* Only the types of earlier definitions count.
LEMMA RefTypeLocal ==
  ASSUME NEW d, NEW e, NEW j \in Nat \ {0}, NEW T, NEW U, \A k \in 1..(j - 1) : T[k] = U[k]
  PROVE  RefType(d, e, j, T) = RefType(d, e, j, U)
<1>1. \A a : RefAtomType(d, a, j, T) = RefAtomType(d, a, j, U)
  <2>. TAKE a
  <2>1. \/ Definitions(d, a.val, j) = {}
        \/ Resolve(d, a.val, j) = 0
        \/ T[Resolve(d, a.val, j)] = U[Resolve(d, a.val, j)]
    <3>. SUFFICES ASSUME Definitions(d, a.val, j) # {}, Resolve(d, a.val, j) # 0
                  PROVE  Resolve(d, a.val, j) \in 1..(j - 1)
      OBVIOUS
    <3>1. Resolve(d, a.val, j) \in 0..(j - 1) BY ResolveBefore
    <3>. QED BY <3>1
  <2>. QED BY <2>1 DEF RefAtomType
<1>. QED BY <1>1 DEF RefType

\* The type a definition is given depends on the types before it alone.
LEMMA TypeGivenLocal ==
  ASSUME NEW d, NEW j \in Nat \ {0}, NEW T, NEW U, \A k \in 1..(j - 1) : T[k] = U[k]
  PROVE  TypeGiven(d, j, T) = TypeGiven(d, j, U)
<1>1. RefType(d, d.body[j].expr, j, T) = RefType(d, d.body[j].expr, j, U)
  BY RefTypeLocal
<1>. QED BY <1>1 DEF TypeGiven

\* The first n definitions have types.
LEMMA TypesExist ==
  ASSUME NEW d, NEW len \in Nat
  PROVE  \E T : T = [i \in 1..len |-> TypeGiven(d, i, T)]
<1>. DEFINE Typed(n) == \E T : T = [i \in 1..n |-> TypeGiven(d, i, T)]
            Bad == {n \in 1..len : ~Typed(n)}
<1>1. Typed(0)
  <2>1. <<>> = [i \in 1..0 |-> TypeGiven(d, i, <<>>)]
    OBVIOUS
  <2>. QED BY <2>1
<1>2. ASSUME NEW n \in Nat, Typed(n) PROVE Typed(n + 1)
  <2>1. PICK T : T = [i \in 1..n |-> TypeGiven(d, i, T)] BY <1>2
  <2>. DEFINE U == [i \in 1..(n + 1) |-> TypeGiven(d, i, T)]
  <2>2. \A i \in 1..n : U[i] = T[i]
    <3>. TAKE i \in 1..n
    <3>1. i \in 1..(n + 1) OBVIOUS
    <3>2. U[i] = TypeGiven(d, i, T) BY <3>1
    <3>. QED BY <2>1, <3>2
  <2>3. \A i \in 1..(n + 1) : TypeGiven(d, i, T) = TypeGiven(d, i, U)
    <3>. TAKE i \in 1..(n + 1)
    <3>1. i \in Nat \ {0} /\ \A k \in 1..(i - 1) : k \in 1..n OBVIOUS
    <3>. HIDE DEF U
    <3>2. \A k \in 1..(i - 1) : T[k] = U[k] BY <2>2, <3>1
    <3>. QED BY <3>1, <3>2, TypeGivenLocal
  <2>4. U = [i \in 1..(n + 1) |-> TypeGiven(d, i, U)]
    BY <2>3, Zenon
  <2>. QED BY <2>4
<1>3. Bad = {}
  <2>. SUFFICES ASSUME Bad # {} PROVE FALSE OBVIOUS
  <2>1. Bad \in SUBSET (1..len) OBVIOUS
  <2>2. PICK m \in Bad : \A k \in Bad : m <= k
    <3>. HIDE DEF Bad
    <3>. QED BY <2>1, LeastPosition
  <2>3. m \in 1..len /\ ~Typed(m) OBVIOUS
  <2>4. m - 1 \in Nat /\ (m - 1) + 1 = m BY <2>3
  <2>5. m - 1 = 0 \/ m - 1 \in 1..len BY <2>3
  <2>6. Typed(m - 1)
    <3>1. m - 1 \notin Bad
      <4>. HIDE DEF Bad
      <4>. QED BY <2>2, <2>3
    <3>. HIDE DEF Typed
    <3>. QED BY <1>1, <2>5, <3>1
  <2>. HIDE DEF Typed
  <2>. QED BY <1>2, <2>3, <2>4, <2>6
<1>4. len = 0 \/ len \in 1..len OBVIOUS
<1>5. Typed(len)
  <2>. HIDE DEF Typed
  <2>. QED BY <1>1, <1>3, <1>4
<1>. QED BY <1>5

\* DefTypes satisfies its equation.
LEMMA DefTypesEquation ==
  ASSUME NEW d, d.body \in Seq(Item), NEW i \in DOMAIN d.body
  PROVE  DefTypes(d)[i] = TypeGiven(d, i, DefTypes(d))
<1>1. DOMAIN d.body = 1..Len(d.body) /\ Len(d.body) \in Nat OBVIOUS
<1>2. \E T : T = [k \in DOMAIN d.body |-> TypeGiven(d, k, T)]
  <2>1. \E T : T = [k \in 1..Len(d.body) |-> TypeGiven(d, k, T)] BY <1>1, TypesExist
  <2>. QED BY <1>1, <2>1
<1>3. DefTypes(d) = CHOOSE T : T = [k \in DOMAIN d.body |-> TypeGiven(d, k, T)]
  BY DEF DefTypes
<1>4. DefTypes(d) = [k \in DOMAIN d.body |-> TypeGiven(d, k, DefTypes(d))]
  BY <1>2, <1>3
<1>. QED BY <1>4

-----------------------------------------------------------------------------
(* What the bindings of the stack hold.                                     *)

\* infer() is called for the expression of item i.
Inferring(d, i) == d.body[i].op \notin {"walrus", "else", "endif", "endfor"}

\* One of the first n items uses x where it refers to definition a.
UsedBy(d, x, a, n) ==
  \E i \in 1..n : /\ Inferring(d, i) /\ x \in Uses(d.body[i].expr)
                  /\ Definitions(d, x, i) # {} /\ Resolve(d, x, i) = a

\* b has the type of its definition, and is moved if an owned value was used.
Faithful(b, d, x, n) ==
  b # Absent => /\ b.type = TypeOfDef(d, x, b.at)
                /\ b.moved <=> IsOwned(b.type) /\ UsedBy(d, x, b.at, n)

\* Every binding of the stack, behind the first n items of d.
Carries(s, d, n) == \A l \in 1..Len(s), x \in Vars : Faithful(s[l].binds[x], d, x, n)

\* The return type of the function is that of the outermost scope, and no other
\* scope has one.
Returns(s, d) ==
  \A l \in 1..Len(s) :
    s[l].ret = IF l = 1 /\ d.ret # "unit" THEN d.ret ELSE NoType

MoveInv == pc > 0 => Carries(scopes, decl, pc - 1) /\ Returns(scopes, decl)

-----------------------------------------------------------------------------
(* What has been reported of the items walked.                              *)

\* A use of an owned definition that a statement before has used.
UsesAgain(d, x, j) ==
  /\ x \in Uses(d.body[j].expr) /\ Definitions(d, x, j) # {}
  /\ IsOwned(TypeOfDef(d, x, Resolve(d, x, j)))
  /\ UsedBy(d, x, Resolve(d, x, j), j - 1)

MovesReported ==
  \A c \in DOMAIN prog : \A j \in Walked(c) : \A x \in Vars :
    UsesAgain(prog[c], x, j) => Error("E204", c, j)

\* Item i stores an untrusted value where a trusted one is asked for.
Distrusted(d, i) ==
  LET it == d.body[i]
      target == IF it.op \in {"let", "mut"} THEN it.type
                ELSE IF it.op = "assign" THEN TypeOfDef(d, it.name, Resolve(d, it.name, i))
                ELSE NoType
  IN  target = "tru" /\ RefType(d, it.expr, i, DefTypes(d)) = "utr"

DistrustReported ==
  \A c \in DOMAIN prog : \A i \in Walked(c) : errors = {} => ~Distrusted(prog[c], i)

-----------------------------------------------------------------------------
(* The uses of a definition.                                                *)

\* One more item uses a definition, or not.
LEMMA UsedStep ==
  ASSUME NEW d, NEW x, NEW a, NEW n \in Nat
  PROVE  UsedBy(d, x, a, n + 1) <=>
           \/ UsedBy(d, x, a, n)
           \/ /\ Inferring(d, n + 1) /\ x \in Uses(d.body[n + 1].expr)
              /\ Definitions(d, x, n + 1) # {} /\ Resolve(d, x, n + 1) = a
<1>1. 1..(n + 1) = (1..n) \cup {n + 1} OBVIOUS
<1>. QED BY <1>1 DEF UsedBy

\* No item up to a definition uses it.
LEMMA NotUsedYet ==
  ASSUME NEW d, NEW x, NEW n \in Nat, NEW a \in Nat, a >= n
  PROVE  ~UsedBy(d, x, a, n)
<1>. SUFFICES ASSUME NEW i \in 1..n, Definitions(d, x, i) # {}, Resolve(d, x, i) = a
              PROVE  FALSE
  BY DEF UsedBy
<1>1. i \in Nat \ {0} OBVIOUS
<1>2. a \in 0..(i - 1) BY <1>1, ResolveBefore
<1>. QED BY <1>2

\* The names an expression uses are variables.
LEMMA UsesAreNames ==
  ASSUME NEW e \in Expr
  PROVE  Uses(e) \subseteq Vars
<1>. SUFFICES ASSUME NEW u \in UsePoints(e) PROVE u[2] \in Vars
  BY DEF Uses
<1>. DEFINE a == e.atoms[1]
<1>1. Inferred(e) BY DEF UsePoints
<1>2. a \in Atom BY <1>1, FirstAtom
<1>. HIDE DEF a
<1>3. CASE a.kind = "ident"
  <2>1. u = <<0, a.val>> BY <1>1, <1>3 DEF UsePoints, a
  <2>. QED BY <1>2, <1>3, <2>1 DEF Atom
<1>4. CASE a.kind = "call"
  <2>1. PICK k \in DOMAIN a.args : a.args[k].kind = "ident" /\ u = <<k, a.args[k].val>>
    BY <1>1, <1>4 DEF UsePoints, a
  <2>2. a.args \in Seq(Leaf) BY <1>2, <1>4 DEF Atom
  <2>3. a.args[k] \in Leaf BY <2>1, <2>2
  <2>. QED BY <2>1, <2>3 DEF Leaf
<1>5. CASE a.kind \notin {"ident", "call"}
  BY <1>1, <1>5 DEF UsePoints, a
<1>. QED BY <1>3, <1>4, <1>5

-----------------------------------------------------------------------------
(* The bindings behind a statement.                                         *)

\* A binding of the stack is the one a lookup finds exactly if the name refers
\* to its definition: the definitions of two levels differ.
LEMMA HomeOfDefinition ==
  ASSUME NEW s \in Seq(ScopeSet), NEW d, NEW n \in Nat, Mirrors(s, d, n), NEW x \in Vars,
         NEW l \in 1..Len(s), s[l].binds[x] # Absent
  PROVE  /\ Bound(s, x) /\ Definitions(d, x, n + 1) # {}
         /\ Home(s, x) = l <=> Resolve(d, x, n + 1) = s[l].binds[x].at
<1>. DEFINE h == Home(s, x)
<1>1. Bound(s, x) BY DEF Bound, Homes
<1>2. /\ Definitions(d, x, n + 1) # {}
      /\ s[h].binds[x].at = Resolve(d, x, n + 1)
  BY <1>1, LookupIsLatest DEF Lookup, Resolve
<1>3. h \in 1..Len(s) /\ s[h].binds[x] # Absent BY <1>1, HomeIsInnermost
<1>. HIDE DEF h
<1>4. ASSUME NEW k \in 1..Len(s), s[k].binds[x] # Absent
      PROVE  ForDepth(d.body, s[k].binds[x].at) = k - 1
  <2>1. Latest(s[k].binds[x], d, x, DefinedAt(d, x, n, k)) BY DEF Mirrors
  <2>2. s[k].binds[x].at \in DefinedAt(d, x, n, k) BY <1>4, <2>1 DEF Latest
  <2>. QED BY <2>2 DEF DefinedAt
<1>5. ForDepth(d.body, s[h].binds[x].at) = h - 1 /\ ForDepth(d.body, s[l].binds[x].at) = l - 1
  BY <1>3, <1>4
<1>6. s[h].binds[x].at = s[l].binds[x].at => h = l
  BY <1>3, <1>5
<1>. QED BY <1>1, <1>2, <1>6 DEF h

\* Marking as moved: the owned bindings that the lookups of e find.
LEMMA ConsumeMarks ==
  ASSUME scopes \in Seq(ScopeSet), NEW e \in Expr, NEW l \in 1..Len(scopes), NEW x \in Vars
  PROVE  LET b == scopes[l].binds[x]
             c == Consume(e)[l].binds[x]
             taken == x \in Taken(e) /\ Home(scopes, x) = l
         IN  /\ c # Absent => b # Absent /\ c.at = b.at /\ c.type = b.type
             /\ c # Absent => (c.moved <=> b.moved \/ taken)
<1>. DEFINE b == scopes[l].binds[x]
            c == Consume(e)[l].binds[x]
            at == {y \in Taken(e) : Home(scopes, y) = l}
<1>1. /\ scopes[l] \in ScopeSet /\ b \in Binding \cup {Absent}
  BY ScopeFields
<1>2. c = IF x \in at THEN [b EXCEPT !.moved = TRUE] ELSE b
  <2>1. Consume(e)[l] = [scopes[l] EXCEPT !.binds = MovedIn(@, at)]
    BY DEF Consume
  <2>2. Consume(e)[l].binds = MovedIn(scopes[l].binds, at)
    <3>. HIDE DEF at
    <3>. QED BY <1>1, <2>1 DEF ScopeSet
  <2>. HIDE DEF at
  <2>. QED BY <2>2 DEF MovedIn
<1>4. x \in at <=> x \in Taken(e) /\ Home(scopes, x) = l OBVIOUS
<1>5. CASE x \in at
  <2>1. b # Absent
    BY <1>5, HomeIsInnermost DEF Taken
  <2>2. b \in Binding BY <1>1, <2>1
  <2>3. c.at = b.at /\ c.type = b.type /\ c.moved
    <3>. HIDE DEF b, c, at
    <3>. QED BY <1>2, <1>5, <2>2 DEF Binding
  <2>. HIDE DEF b, c, at
  <2>4. c.moved <=> b.moved \/ (x \in Taken(e) /\ Home(scopes, x) = l)
    BY <1>4, <1>5, <2>3, Zenon
  <2>. QED BY <2>1, <2>3, <2>4, Zenon DEF b, c
<1>6. CASE x \notin at
  <2>. HIDE DEF b, c, at
  <2>1. c = b BY <1>2, <1>6
  <2>2. c.moved <=> b.moved \/ (x \in Taken(e) /\ Home(scopes, x) = l)
    BY <1>4, <1>6, <2>1, Zenon
  <2>. QED BY <2>1, <2>2, Zenon DEF b, c
<1>. QED BY <1>5, <1>6

\* A statement whose expression is inferred marks what it uses.
LEMMA ConsumedCarries ==
  ASSUME scopes \in Seq(ScopeSet), NEW d, NEW n \in Nat, Mirrors(scopes, d, n),
         Carries(scopes, d, n), Inferring(d, n + 1), d.body[n + 1].expr \in Expr
  PROVE  Carries(Consume(d.body[n + 1].expr), d, n + 1)
<1>. DEFINE e == d.body[n + 1].expr
            s == Consume(e)
<1>1. Len(s) = Len(scopes) BY ConsumeTyped
<1>2. ASSUME NEW l \in 1..Len(scopes), NEW x \in Vars, s[l].binds[x] # Absent
      PROVE  Faithful(s[l].binds[x], d, x, n + 1)
  <2>. DEFINE b == scopes[l].binds[x]
              c == s[l].binds[x]
  <2>1. /\ b # Absent /\ c.at = b.at /\ c.type = b.type
        /\ c.moved <=> b.moved \/ (x \in Taken(e) /\ Home(scopes, x) = l)
    <3>1. e \in Expr OBVIOUS
    <3>. HIDE DEF e
    <3>2. /\ c # Absent => b # Absent /\ c.at = b.at /\ c.type = b.type
          /\ c # Absent => (c.moved <=> b.moved \/ (x \in Taken(e) /\ Home(scopes, x) = l))
      BY <3>1, ConsumeMarks
    <3>. QED BY <1>2, <3>2, Zenon
  <2>2. /\ b.type = TypeOfDef(d, x, b.at)
        /\ b.moved <=> IsOwned(b.type) /\ UsedBy(d, x, b.at, n)
    <3>1. Faithful(b, d, x, n) BY DEF Carries
    <3>. QED BY <2>1, <3>1, Zenon DEF Faithful
  <2>3. /\ Bound(scopes, x) /\ Definitions(d, x, n + 1) # {}
        /\ Home(scopes, x) = l <=> Resolve(d, x, n + 1) = b.at
    BY <2>1, HomeOfDefinition
  <2>4. x \in Taken(e) /\ Home(scopes, x) = l <=>
          x \in Uses(e) /\ IsOwned(b.type) /\ Home(scopes, x) = l
    BY <2>3, Zenon DEF Taken, Lookup
  <2>5. UsedBy(d, x, b.at, n + 1) <=>
          UsedBy(d, x, b.at, n) \/ (x \in Uses(e) /\ Home(scopes, x) = l)
    BY <2>3, UsedStep, Zenon
  <2>. HIDE DEF b, c, e
  <2>6. c.moved <=> IsOwned(c.type) /\ UsedBy(d, x, c.at, n + 1)
    BY <2>1, <2>2, <2>4, <2>5, Zenon
  <2>7. c.type = TypeOfDef(d, x, c.at) BY <2>1, <2>2, Zenon
  <2>. QED BY <2>6, <2>7, Zenon DEF Faithful, c
<1>3. \A l \in 1..Len(scopes), x \in Vars : Faithful(s[l].binds[x], d, x, n + 1)
  BY <1>2 DEF Faithful
<1>. HIDE DEF s
<1>4. Carries(s, d, n + 1) BY <1>1, <1>3 DEF Carries
<1>. QED BY <1>4 DEF s

\* An item whose expression is not inferred marks nothing.
LEMMA SkippedCarries ==
  ASSUME NEW s, NEW d, NEW n \in Nat, Carries(s, d, n), ~Inferring(d, n + 1)
  PROVE  Carries(s, d, n + 1)
<1>1. \A x, a : UsedBy(d, x, a, n + 1) <=> UsedBy(d, x, a, n)
  BY UsedStep, Zenon
<1>2. \A b, x : Faithful(b, d, x, n) => Faithful(b, d, x, n + 1)
  BY <1>1, Zenon DEF Faithful
<1>. QED BY <1>2 DEF Carries

\* A definition is fresh.
LEMMA DefinedCarries ==
  ASSUME NEW s \in Seq(ScopeSet), Len(s) # 0, NEW d, NEW n \in Nat, Carries(s, d, n), n # 0,
         NEW y, NEW b \in Binding, b.at = n, b.moved = FALSE, b.type = DefTypes(d)[n]
  PROVE  Carries(Define(s, y, b), d, n)
<1>1. Len(Define(s, y, b)) = Len(s) BY DefineTyped
<1>2. ASSUME NEW l \in 1..Len(s), NEW x \in Vars
      PROVE  Faithful(Define(s, y, b)[l].binds[x], d, x, n)
  <2>1. Faithful(s[l].binds[x], d, x, n) BY DEF Carries
  <2>2. Faithful(b, d, x, n)
    <3>1. ~UsedBy(d, x, n, n) BY NotUsedYet
    <3>2. b.type = TypeOfDef(d, x, b.at) BY DEF TypeOfDef
    <3>. QED BY <3>1, <3>2, Zenon DEF Faithful
  <2>3. Define(s, y, b)[l].binds[x] = IF l = Len(s) /\ x = y THEN b ELSE s[l].binds[x]
    BY DefineIs
  <2>. QED BY <2>1, <2>2, <2>3
<1>. QED BY <1>1, <1>2 DEF Carries

\* A scope is opened, and one is left.
LEMMA OpenedCarries ==
  ASSUME NEW s \in Seq(ScopeSet), NEW d, NEW n \in Nat, Carries(s, d, n),
         NEW new \in ScopeSet, \A x \in Vars : new.binds[x] = Absent
  PROVE  Carries(Append(s, new), d, n)
<1>1. /\ Len(Append(s, new)) = Len(s) + 1
      /\ \A l \in 1..Len(Append(s, new)) :
           \/ l \in 1..Len(s) /\ Append(s, new)[l] = s[l]
           \/ Append(s, new)[l] = new
  OBVIOUS
<1>2. \A x \in Vars : Faithful(new.binds[x], d, x, n) BY DEF Faithful
<1>. QED BY <1>1, <1>2 DEF Carries

\* And so does popping the innermost scope, of what the others bind.
LEMMA LeftCarries ==
  ASSUME NEW s \in Seq(ScopeSet), NEW d, NEW n \in Nat, Carries(s, d, n), Len(s) >= 2
  PROVE  Carries(SubSeq(s, 1, Len(s) - 1), d, n)
<1>1. Len(s) - 1 \in Nat /\ Len(s) - 1 <= Len(s) OBVIOUS
<1>2. /\ Len(SubSeq(s, 1, Len(s) - 1)) = Len(s) - 1
      /\ \A l \in 1..(Len(s) - 1) : l \in 1..Len(s) /\ SubSeq(s, 1, Len(s) - 1)[l] = s[l]
  BY <1>1
<1>. QED BY <1>2 DEF Carries

\* The parameters have their types, and none is moved.
LEMMA BegunCarries ==
  ASSUME NEW d
  PROVE  Carries(<<FnScope(d)>>, d, 0)
<1>1. ASSUME NEW x \in Vars PROVE Faithful(FnScope(d).binds[x], d, x, 0)
  <2>. DEFINE named == {k \in DOMAIN d.params : d.params[k].name = x}
              last == CHOOSE k \in named : \A l \in named : l <= k
              b == NewBinding(d.params[last].type, d.params[last].mutable, 0)
  <2>1. FnScope(d).binds[x] = IF named = {} THEN Absent ELSE b
    BY DEF FnScope
  <2>2. b.at = 0 /\ b.type = d.params[last].type /\ b.moved = FALSE
    <3>. HIDE DEF last
    <3>. QED BY DEF NewBinding
  <2>3. TypeOfDef(d, x, 0) = d.params[last].type
    BY DEF TypeOfDef, ParamOf, MaxOf
  <2>4. ~UsedBy(d, x, 0, 0) BY NotUsedYet
  <2>. HIDE DEF b, last, named
  <2>5. Faithful(b, d, x, 0) BY <2>2, <2>3, <2>4, Zenon DEF Faithful
  <2>6. Faithful(Absent, d, x, 0) BY DEF Faithful
  <2>. QED BY <2>1, <2>5, <2>6
<1>2. Len(<<FnScope(d)>>) = 1 /\ <<FnScope(d)>>[1] = FnScope(d) /\ 1..1 = {1} OBVIOUS
<1>. QED BY <1>1, <1>2 DEF Carries

-----------------------------------------------------------------------------
(* Inference agrees with the types of the program.                          *)

\* TypeEnv::current_return_type finds the return type of the function.
LEMMA ReturnFound ==
  ASSUME NEW s \in Seq(ScopeSet), Len(s) >= 1, NEW d \in Decl, Returns(s, d)
  PROVE  CurrentReturn(s) = IF d.ret = "unit" THEN NoType ELSE d.ret
<1>. DEFINE has == {i \in DOMAIN s : s[i].ret # NoType}
<1>1. DOMAIN s = 1..Len(s) /\ 1 \in 1..Len(s) OBVIOUS
<1>2. d.ret # NoType BY DEF Decl, Types, NoType
<1>3. has = IF d.ret = "unit" THEN {} ELSE {1}
  BY <1>1, <1>2 DEF Returns
<1>4. (CHOOSE i \in {1} : \A j \in {1} : j <= i) = 1 OBVIOUS
<1>. HIDE DEF has
<1>5. CurrentReturn(s) = IF has = {} THEN NoType ELSE s[CHOOSE i \in has : \A j \in has : j <= i].ret
  BY DEF CurrentReturn, has
<1>6. CASE d.ret = "unit" BY <1>3, <1>5, <1>6
<1>7. CASE d.ret # "unit"
  <2>1. CurrentReturn(s) = s[CHOOSE i \in {1} : \A j \in {1} : j <= i].ret
    BY <1>3, <1>5, <1>7
  <2>2. CurrentReturn(s) = s[1].ret BY <1>4, <2>1
  <2>. QED BY <1>1, <1>7, <2>2 DEF Returns
<1>. QED BY <1>6, <1>7

\* What infer() answers is the type the program gives the expression.
LEMMA InferIs ==
  ASSUME TypeOK, NEW d \in Decl, NEW n \in Nat, Mirrors(scopes, d, n),
         Carries(scopes, d, n), Returns(scopes, d), NEW e \in Expr
  PROVE  Infer(e) = RefType(d, e, n + 1, DefTypes(d))
<1>. DEFINE a == e.atoms[1]
            t == InferAtom(a)
            T == DefTypes(d)
<1>0. scopes \in Seq(ScopeSet) /\ Len(scopes) >= 1
  <2>1. ForDepth(d.body, n) \in Nat /\ Len(scopes) = 1 + ForDepth(d.body, n) BY DEF Mirrors
  <2>. QED BY <2>1 DEF TypeOK
<1>1. ASSUME Inferred(e) PROVE t \in Types /\ t = RefAtomType(d, a, n + 1, T)
  <2>1. a \in Atom BY <1>1, FirstAtom
  <2>. HIDE DEF a, T
  <2>2. t \in Types BY <2>1, InferAtomTyped
  <2>3. CASE a.kind = "ident"
    <3>1. a.val \in Vars BY <2>1, <2>3 DEF Atom
    <3>2. /\ Bound(scopes, a.val) <=> Definitions(d, a.val, n + 1) # {}
          /\ Bound(scopes, a.val) => Lookup(scopes, a.val).at = Resolve(d, a.val, n + 1)
      BY <1>0, <3>1, LookupIsLatest DEF Resolve
    <3>3. Bound(scopes, a.val) =>
            Lookup(scopes, a.val).type = TypeOfDef(d, a.val, Lookup(scopes, a.val).at)
      <4>. SUFFICES ASSUME Bound(scopes, a.val)
                    PROVE  Lookup(scopes, a.val).type = TypeOfDef(d, a.val, Lookup(scopes, a.val).at)
        OBVIOUS
      <4>1. /\ Home(scopes, a.val) \in 1..Len(scopes)
            /\ Lookup(scopes, a.val) # Absent
        BY <1>0, <3>1, HomeIsInnermost DEF Lookup
      <4>2. Faithful(Lookup(scopes, a.val), d, a.val, n)
        BY <3>1, <4>1 DEF Carries, Lookup
      <4>. QED BY <4>1, <4>2 DEF Faithful
    <3>4. t = IF Bound(scopes, a.val) THEN Lookup(scopes, a.val).type ELSE "unit"
      BY <2>3 DEF InferAtom
    <3>5. RefAtomType(d, a, n + 1, T) =
            IF Definitions(d, a.val, n + 1) = {} THEN "unit"
            ELSE TypeOfDef(d, a.val, Resolve(d, a.val, n + 1))
      BY <2>3 DEF RefAtomType, TypeOfDef, T
    <3>. HIDE DEF t
    <3>. QED BY <2>2, <3>2, <3>3, <3>4, <3>5
  <2>4. CASE a.kind # "ident"
    <3>1. t = RefAtomType(d, a, n + 1, T) BY <2>1, <2>4 DEF InferAtom, RefAtomType, Atom
    <3>. QED BY <2>2, <3>1
  <2>. QED BY <2>3, <2>4
<1>2. CurrentReturn(scopes) = IF d.ret = "unit" THEN NoType ELSE d.ret
  BY <1>0, ReturnFound
<1>3. (CurrentReturn(scopes) \in ResultTypes <=> d.ret \in ResultTypes)
      /\ (d.ret \in ResultTypes => CurrentReturn(scopes) = d.ret)
  BY <1>2 DEF ResultTypes, NoType
<1>4. CASE e.wrap = "none"
  BY <1>1, <1>4 DEF Infer, RefType, Inferred
<1>5. CASE e.wrap \in {"ok", "err"}
  <2>1. t \in Types /\ t = RefAtomType(d, a, n + 1, T) BY <1>1, <1>5 DEF Inferred
  <2>2. KindOf(t) = KindOf("agtE") <=> t = "agtE" BY <2>1 DEF KindOf, Types
  <2>. DEFINE fits == /\ d.ret \in ResultTypes
                      /\ IF e.wrap = "ok" THEN KindOf(t) = KindOf(OkOf(d.ret)) ELSE t = "agtE"
  <2>3. Infer(e) = InferReturn(e.wrap, t) BY <1>5 DEF Infer
  <2>4. RefType(d, e, n + 1, T) = IF fits THEN d.ret ELSE t
    BY <1>5, <2>1 DEF RefType
  <2>. HIDE DEF t, a, T
  <2>5. InferReturn(e.wrap, t) = IF fits THEN d.ret ELSE t
    BY <1>3, <1>5, <2>2 DEF InferReturn, IsAssignable
  <2>6. Infer(e) = RefType(d, e, n + 1, T) BY <2>3, <2>4, <2>5
  <2>. QED BY <2>6 DEF T
<1>6. CASE e.wrap \notin {"none", "ok", "err"}
  BY <1>6 DEF Infer, RefType
<1>. QED BY <1>4, <1>5, <1>6

-----------------------------------------------------------------------------
(* The return type in the stack.                                            *)

\* A move marks bindings and leaves the return types alone.
LEMMA ConsumeReturns ==
  ASSUME scopes \in Seq(ScopeSet), NEW e \in Expr, NEW d, Returns(scopes, d)
  PROVE  Returns(Consume(e), d)
<1>1. Len(Consume(e)) = Len(scopes) /\ DOMAIN scopes = 1..Len(scopes) BY ConsumeTyped
<1>2. ASSUME NEW l \in 1..Len(scopes) PROVE Consume(e)[l].ret = scopes[l].ret
  <2>. DEFINE at == {y \in Taken(e) : Home(scopes, y) = l}
  <2>1. Consume(e)[l] = [scopes[l] EXCEPT !.binds = MovedIn(@, at)]
    BY <1>1 DEF Consume
  <2>2. scopes[l] \in ScopeSet OBVIOUS
  <2>. HIDE DEF at
  <2>. QED BY <2>1, <2>2 DEF ScopeSet
<1>. QED BY <1>1, <1>2 DEF Returns

\* So does a definition.
LEMMA DefineReturns ==
  ASSUME NEW s \in Seq(ScopeSet), Len(s) # 0, NEW d, Returns(s, d), NEW y, NEW b \in Binding
  PROVE  Returns(Define(s, y, b), d)
<1>1. Len(Define(s, y, b)) = Len(s) /\ DOMAIN s = 1..Len(s) BY DefineTyped
<1>2. ASSUME NEW l \in 1..Len(s) PROVE Define(s, y, b)[l].ret = s[l].ret
  <2>1. s[l] \in ScopeSet OBVIOUS
  <2>2. Define(s, y, b)[l] = IF l = Len(s) THEN [s[l] EXCEPT !.binds[y] = b] ELSE s[l]
    BY <1>1 DEF Define
  <2>. QED BY <2>1, <2>2 DEF ScopeSet
<1>. QED BY <1>1, <1>2 DEF Returns

\* So does opening the scope of an @iter body.
LEMMA OpenedReturns ==
  ASSUME NEW s \in Seq(ScopeSet), Len(s) >= 1, NEW d, Returns(s, d),
         NEW new \in ScopeSet, new.ret = NoType
  PROVE  Returns(Append(s, new), d)
<1>1. /\ Len(Append(s, new)) = Len(s) + 1
      /\ \A l \in 1..Len(Append(s, new)) :
           \/ l \in 1..Len(s) /\ Append(s, new)[l] = s[l]
           \/ l # 1 /\ Append(s, new)[l] = new
  OBVIOUS
<1>. QED BY <1>1 DEF Returns

\* So does closing it.
LEMMA LeftReturns ==
  ASSUME NEW s \in Seq(ScopeSet), Len(s) >= 2, NEW d, Returns(s, d)
  PROVE  Returns(SubSeq(s, 1, Len(s) - 1), d)
<1>1. Len(s) - 1 \in Nat /\ Len(s) - 1 <= Len(s) OBVIOUS
<1>2. /\ Len(SubSeq(s, 1, Len(s) - 1)) = Len(s) - 1
      /\ \A l \in 1..(Len(s) - 1) : l \in 1..Len(s) /\ SubSeq(s, 1, Len(s) - 1)[l] = s[l]
  BY <1>1
<1>. QED BY <1>2 DEF Returns

\* The scope of a function begins with its return type.
LEMMA BegunReturns ==
  ASSUME NEW d
  PROVE  Returns(<<FnScope(d)>>, d)
<1>1. Len(<<FnScope(d)>>) = 1 /\ <<FnScope(d)>>[1] = FnScope(d) /\ 1..1 = {1} OBVIOUS
<1>2. FnScope(d).ret = IF d.ret = "unit" THEN NoType ELSE d.ret BY DEF FnScope
<1>. QED BY <1>1, <1>2 DEF Returns

-----------------------------------------------------------------------------
(* Every step.                                                              *)

\* The types of the definitions depend on the program only, which is fixed.
LEMMA StableTypes ==
  ASSUME prog' = prog, NEW d
  PROVE  DefTypes(d)' = DefTypes(d)
BY DEF DefTypes, TypeGiven, RefType, RefAtomType, Registered, FnReg

\* What the stack holds behind a step.
LEMMA StackBehind ==
  ASSUME prog' = prog, NEW s, s = scopes', NEW d, d = decl', NEW n, n = pc' - 1,
         Carries(s, d, n), Returns(s, d)
  PROVE  MoveInv'
<1>1. DefTypes(d)' = DefTypes(d) BY StableTypes
<1>. QED BY <1>1 DEF MoveInv, Carries, Faithful, TypeOfDef, Returns

\* Where a statement is checked, and what of the stack is known there.
LEMMA AtStack ==
  ASSUME TypeOK, ScopeInv, MoveInv, NEW ops, At(ops)
  PROVE  /\ scopes \in Seq(ScopeSet) /\ Len(scopes) >= 1
         /\ Mirrors(scopes, decl, pc - 1) /\ Carries(scopes, decl, pc - 1)
         /\ Returns(scopes, decl)
         /\ Carries(scopes', decl, pc) /\ Returns(scopes', decl) => MoveInv'
<1>1. pc - 1 \in Nat /\ pc > 0 /\ Mirrors(scopes, decl, pc - 1) BY AtItem
<1>2. ForDepth(decl.body, pc - 1) \in Nat /\ Len(scopes) = 1 + ForDepth(decl.body, pc - 1)
  BY <1>1 DEF Mirrors
<1>3. pc' - 1 = pc /\ decl' = decl /\ prog' = prog
  <2>1. pc \in Nat BY DEF TypeOK
  <2>. QED BY <2>1 DEF At, decl
<1>4. Carries(scopes', decl, pc) /\ Returns(scopes', decl) => MoveInv'
  BY <1>3, StackBehind
<1>. QED BY <1>1, <1>2, <1>4 DEF MoveInv, TypeOK

\* Behind a statement whose expression is inferred: what it marks, before it
\* defines anything.
LEMMA BehindExpr ==
  ASSUME TypeOK, ScopeInv, MoveInv, NEW ops, At(ops), Inferring(decl, pc)
  PROVE  LET s == Consume(item.expr)
         IN  /\ s \in Seq(ScopeSet) /\ Len(s) >= 1
             /\ Carries(s, decl, pc) /\ Returns(s, decl)
             /\ Infer(item.expr) = RefType(decl, item.expr, pc, DefTypes(decl))
<1>. DEFINE n == pc - 1
<1>1. /\ n \in Nat /\ n + 1 = pc /\ item = decl.body[n + 1] /\ item.expr \in Expr
      /\ decl \in Decl
  BY AtItem
<1>2. /\ scopes \in Seq(ScopeSet) /\ Len(scopes) >= 1 /\ Mirrors(scopes, decl, n)
      /\ Carries(scopes, decl, n) /\ Returns(scopes, decl)
  BY AtStack
<1>. HIDE DEF n
<1>3. Consume(item.expr) \in Seq(ScopeSet) /\ Len(Consume(item.expr)) = Len(scopes)
  BY <1>1, <1>2, ConsumeTyped
<1>4. Carries(Consume(decl.body[n + 1].expr), decl, n + 1)
  <2>1. Inferring(decl, n + 1) /\ decl.body[n + 1].expr \in Expr BY <1>1
  <2>. QED BY <1>1, <1>2, <2>1, ConsumedCarries
<1>5. Returns(Consume(item.expr), decl) BY <1>1, <1>2, ConsumeReturns
<1>6. Infer(item.expr) = RefType(decl, item.expr, n + 1, DefTypes(decl))
  BY <1>1, <1>2, InferIs
<1>. QED BY <1>1, <1>2, <1>3, <1>4, <1>5, <1>6

\* Every step keeps what the bindings hold.
THEOREM MovesPreserved == TypeOK /\ Balanced /\ ScopeInv /\ MoveInv /\ [Next]_vars => MoveInv'
<1>. SUFFICES ASSUME TypeOK, Balanced, ScopeInv, MoveInv, [Next]_vars
              PROVE  MoveInv'
  OBVIOUS
<1>0. scopes \in Seq(ScopeSet) /\ pc \in Nat BY DEF TypeOK
<1>1. CASE BeginFn
  <2>1. scopes = <<>>
    <3>1. pc = 0 BY <1>1 DEF BeginFn
    <3>2. Len(scopes) = 0 BY <3>1 DEF Balanced, ScopesBalanced
    <3>. QED BY <1>0, <3>2
  <2>2. scopes' = <<FnScope(decl)>> BY <1>1, <2>1 DEF BeginFn
  <2>3. pc' - 1 = 0 /\ decl' = decl /\ prog' = prog BY <1>1 DEF BeginFn, decl
  <2>4. Carries(scopes', decl, 0) /\ Returns(scopes', decl)
    BY <2>2, BegunCarries, BegunReturns
  <2>. QED BY <2>3, <2>4, StackBehind
<1>2. CASE FinishFn
  BY <1>2 DEF FinishFn, MoveInv
<1>3. CASE CheckBinding
  <2>1. At({"let", "mut"}) BY <1>3 DEF CheckBinding
  <2>. DEFINE s == Consume(item.expr)
              type == IF item.type = NoType THEN Infer(item.expr) ELSE item.type
              b == NewBinding(type, item.op = "mut", pc)
  <2>2. scopes' = Define(s, item.name, b) BY <1>3 DEF CheckBinding
  <2>3. item.op \in {"let", "mut"} /\ pc > 0 /\ item = decl.body[pc] /\ decl \in Decl BY <2>1, AtItem
  <2>4. /\ s \in Seq(ScopeSet) /\ Len(s) # 0 /\ Carries(s, decl, pc) /\ Returns(s, decl)
        /\ Infer(item.expr) = RefType(decl, item.expr, pc, DefTypes(decl))
    <3>1. Inferring(decl, pc) BY <2>3 DEF Inferring
    <3>. HIDE DEF s
    <3>2. Len(s) >= 1 /\ s \in Seq(ScopeSet) => Len(s) # 0 OBVIOUS
    <3>. QED BY <2>1, <3>1, <3>2, BehindExpr DEF s
  <2>5. b \in Binding /\ b.at = pc /\ b.moved = FALSE /\ b.type = type
    <3>1. type \in Types BY <2>1, AtItem, InferTyped DEF Item
    <3>. HIDE DEF type
    <3>2. b \in Binding BY <1>0, <3>1, NewBindingTyped
    <3>. QED BY <3>2 DEF NewBinding
  <2>6. b.type = DefTypes(decl)[pc]
    <3>1. decl.body \in Seq(Item) /\ pc \in DOMAIN decl.body
      BY <2>1, ItemTyped DEF At
    <3>2. DefTypes(decl)[pc] = TypeGiven(decl, pc, DefTypes(decl)) BY <3>1, DefTypesEquation
    <3>. HIDE DEF b
    <3>. QED BY <2>3, <2>4, <2>5, <3>2 DEF TypeGiven
  <2>. HIDE DEF b, s
  <2>7. Carries(Define(s, item.name, b), decl, pc)
    <3>1. pc # 0 BY <1>0, <2>3
    <3>. QED BY <1>0, <2>4, <2>5, <2>6, <3>1, DefinedCarries
  <2>8. Returns(Define(s, item.name, b), decl)
    BY <2>4, <2>5, DefineReturns
  <2>. QED BY <2>1, <2>2, <2>7, <2>8, AtStack
<1>4. CASE CheckAssign \/ CheckExpr \/ CheckTail \/ CheckIf
  <2>1. PICK ops \in SUBSET {"assign", "expr", "match", "tail", "if"} : At(ops)
    BY <1>4 DEF CheckAssign, CheckExpr, CheckTail, CheckIf
  <2>2. scopes' = Consume(item.expr)
    BY <1>4 DEF CheckAssign, CheckExpr, CheckTail, CheckIf
  <2>3. Inferring(decl, pc) BY <2>1, AtItem DEF Inferring
  <2>4. Carries(scopes', decl, pc) /\ Returns(scopes', decl)
    BY <2>1, <2>2, <2>3, BehindExpr
  <2>. QED BY <2>1, <2>4, AtStack
<1>5. CASE SkipLocalInfer \/ CheckElse \/ CheckEndIf
  <2>1. PICK ops \in SUBSET {"walrus", "else", "endif"} : At(ops)
    BY <1>5 DEF SkipLocalInfer, CheckElse, CheckEndIf
  <2>2. scopes' = scopes
    BY <1>5 DEF SkipLocalInfer, CheckElse, CheckEndIf
  <2>3. pc - 1 \in Nat /\ (pc - 1) + 1 = pc /\ ~Inferring(decl, (pc - 1) + 1)
    BY <2>1, AtItem DEF Inferring
  <2>4. Carries(scopes, decl, pc - 1) /\ Returns(scopes, decl) BY <2>1, AtStack
  <2>5. Carries(scopes, decl, (pc - 1) + 1) BY <2>3, <2>4, SkippedCarries
  <2>. QED BY <2>1, <2>2, <2>3, <2>4, <2>5, AtStack
<1>6. CASE CheckForIn
  <2>1. At({"for"}) BY <1>6 DEF CheckForIn
  <2>. DEFINE s == Consume(item.expr)
              b == NewBinding("unit", FALSE, pc)
              new == NewScope(NoType, 0)
              t == Append(s, new)
  <2>2. scopes' = Define(t, item.name, b) BY <1>6 DEF CheckForIn
  <2>3. b \in Binding /\ b.at = pc /\ b.moved = FALSE /\ b.type = "unit"
    <3>1. b \in Binding BY <1>0, NewBindingTyped DEF Types
    <3>. QED BY <3>1 DEF NewBinding
  <2>4. new \in ScopeSet /\ new.ret = NoType /\ \A x \in Vars : new.binds[x] = Absent
    <3>1. new \in ScopeSet BY NewScopeTyped
    <3>. QED BY <3>1 DEF NewScope
  <2>5. item.op = "for" /\ pc > 0 /\ item = decl.body[pc] BY <2>1, AtItem
  <2>6. s \in Seq(ScopeSet) /\ Len(s) >= 1 /\ Carries(s, decl, pc) /\ Returns(s, decl)
    <3>1. Inferring(decl, pc) BY <2>5 DEF Inferring
    <3>. QED BY <2>1, <3>1, BehindExpr
  <2>7. b.type = DefTypes(decl)[pc]
    <3>1. decl.body \in Seq(Item) /\ pc \in DOMAIN decl.body
      BY <2>1, ItemTyped DEF At
    <3>2. DefTypes(decl)[pc] = TypeGiven(decl, pc, DefTypes(decl)) BY <3>1, DefTypesEquation
    <3>. HIDE DEF b
    <3>. QED BY <2>3, <2>5, <3>2 DEF TypeGiven
  <2>. HIDE DEF b, new, s
  <2>8. t \in Seq(ScopeSet) /\ Len(t) # 0 BY <2>4, <2>6
  <2>9. Carries(t, decl, pc) /\ Returns(t, decl)
    BY <1>0, <2>4, <2>6, OpenedCarries, OpenedReturns
  <2>. HIDE DEF t
  <2>10. Carries(Define(t, item.name, b), decl, pc)
    <3>1. pc # 0 BY <1>0, <2>5
    <3>. QED BY <1>0, <2>3, <2>7, <2>8, <2>9, <3>1, DefinedCarries
  <2>11. Returns(Define(t, item.name, b), decl)
    BY <2>3, <2>8, <2>9, DefineReturns
  <2>. QED BY <2>1, <2>2, <2>10, <2>11, AtStack
<1>7. CASE CheckEndFor
  <2>1. /\ At({"endfor"}) /\ scopes' = SubSeq(scopes, 1, Len(scopes) - 1)
    BY <1>7 DEF CheckEndFor
  <2>2. Len(scopes) >= 2 BY <1>7, LoopScope
  <2>3. pc - 1 \in Nat /\ (pc - 1) + 1 = pc /\ ~Inferring(decl, (pc - 1) + 1)
    BY <2>1, AtItem DEF Inferring
  <2>4. Carries(scopes, decl, pc - 1) /\ Returns(scopes, decl) BY <2>1, AtStack
  <2>5. Carries(scopes, decl, (pc - 1) + 1) BY <2>3, <2>4, SkippedCarries
  <2>6. Carries(scopes', decl, pc) /\ Returns(scopes', decl)
    BY <1>0, <2>1, <2>2, <2>3, <2>4, <2>5, LeftCarries, LeftReturns
  <2>. QED BY <2>1, <2>6, AtStack
<1>8. CASE UNCHANGED vars
  <2>1. prog' = prog /\ scopes' = scopes /\ decl' = decl /\ pc' = pc BY <1>8 DEF vars, decl
  <2>2. CASE pc > 0 BY <2>1, <2>2, StackBehind DEF MoveInv
  <2>3. CASE ~(pc > 0) BY <2>1, <2>3 DEF MoveInv
  <2>. QED BY <2>2, <2>3
<1>. QED BY <1>1, <1>2, <1>3, <1>4, <1>5, <1>6, <1>7, <1>8 DEF Next, Step, Terminating

\* For every program the stack holds at every step what the program makes it.
LEMMA StackHolds == Spec => [](TypeOK /\ ScopeInv /\ MoveInv)
<1>1. Init => MoveInv BY DEF Init, MoveInv
<1>2. TypeOK /\ Balanced /\ ScopeInv /\ MoveInv /\ [Next]_vars => MoveInv'
  BY MovesPreserved
<1>. QED BY <1>1, <1>2, ScopingHolds, PTL DEF Spec

\* What a lookup finds has the type of the definition the name refers to, and is
\* moved if it is owned and a statement before uses that definition.
LEMMA LookupFaithful ==
  ASSUME NEW s \in Seq(ScopeSet), NEW d, NEW n \in Nat, Mirrors(s, d, n), Carries(s, d, n),
         NEW x \in Vars
  PROVE  LET a == Resolve(d, x, n + 1)
         IN  /\ Bound(s, x) <=> Definitions(d, x, n + 1) # {}
             /\ Bound(s, x) => Lookup(s, x).type = TypeOfDef(d, x, a)
             /\ Bound(s, x) => (Lookup(s, x).moved
                                  <=> IsOwned(TypeOfDef(d, x, a)) /\ UsedBy(d, x, a, n))
<1>1. /\ Bound(s, x) <=> Definitions(d, x, n + 1) # {}
      /\ Bound(s, x) => Lookup(s, x).at = Resolve(d, x, n + 1)
  BY LookupIsLatest DEF Resolve
<1>2. ASSUME Bound(s, x)
      PROVE  Lookup(s, x) # Absent /\ Faithful(Lookup(s, x), d, x, n)
  <2>1. Home(s, x) \in 1..Len(s) /\ Lookup(s, x) # Absent
    BY <1>2, HomeIsInnermost DEF Lookup
  <2>. QED BY <2>1 DEF Carries, Lookup
<1>. QED BY <1>1, <1>2, Zenon DEF Faithful

\* For every program: the type a lookup finds is the one of the definition the
\* name refers to, written or inferred along those it depends on (TypesInferred;
\* check_binding, infer_ident).
THEOREM TypesAreInferred == Spec => []TypesInferred
<1>1. TypeOK /\ ScopeInv /\ MoveInv => TypesInferred
  <2>. SUFFICES ASSUME TypeOK, ScopeInv, MoveInv, pc > 0, NEW x \in Vars, Bound(scopes, x)
                PROVE  Lookup(scopes, x).type = TypeOfDef(decl, x, Resolve(decl, x, pc))
    BY DEF TypesInferred
  <2>1. scopes \in Seq(ScopeSet) /\ pc - 1 \in Nat /\ (pc - 1) + 1 = pc
    <3>1. pc \in Nat BY DEF TypeOK
    <3>. QED BY <3>1 DEF TypeOK
  <2>2. Mirrors(scopes, decl, pc - 1) /\ Carries(scopes, decl, pc - 1)
    BY DEF ScopeInv, MoveInv
  <2>. QED BY <2>1, <2>2, LookupFaithful
<1>. QED BY <1>1, StackHolds, PTL

-----------------------------------------------------------------------------
(* What is reported when a statement is checked.                            *)

Inference == CheckBinding \/ CheckAssign \/ CheckExpr \/ CheckIf \/ CheckForIn \/ CheckTail

\* An item newly walked was checked by one of the actions that infer.
LEMMA InferenceStep ==
  ASSUME TypeOK, [Next]_vars, cur \in DOMAIN prog, pc \in DOMAIN decl.body,
         NEW c, c = cur, pc \in Walked(c)'
  PROVE  Inference
<1>1. cur \in Nat /\ pc \in Nat /\ pc # 0 /\ Len(decl.body) \in Nat /\ pc # Len(decl.body) + 1
  <2>1. decl.body \in Seq(Item) BY ItemTyped
  <2>. QED BY <2>1 DEF TypeOK
<1>2. ~(cur' = cur /\ pc' = pc) BY <1>1 DEF Walked
<1>3. ~UNCHANGED vars /\ ~Terminating BY <1>2 DEF Terminating, vars
<1>4. ~BeginFn /\ ~FinishFn BY <1>1 DEF BeginFn, FinishFn
<1>5. \A ops : At(ops) => ops \cap {"walrus", "else", "endif", "endfor"} # ops \/ ops = {}
  <2>. SUFFICES ASSUME NEW ops, At(ops), ops \subseteq {"walrus", "else", "endif", "endfor"}
                PROVE  FALSE
    OBVIOUS
  <2>1. decl.body[pc].op \in ops /\ prog' = prog BY DEF At, item
  <2>2. decl.body[pc].op \notin {"walrus", "else", "endif", "endfor"}
    BY <2>1 DEF Walked, decl
  <2>. QED BY <2>1, <2>2
<1>6. /\ ~At({"walrus"}) /\ ~At({"else"}) /\ ~At({"endif"}) /\ ~At({"endfor"})
  <2>1. \A op : op \in {"walrus", "else", "endif", "endfor"} => ~At({op})
    BY <1>5
  <2>. QED BY <2>1
<1>7. ~SkipLocalInfer /\ ~CheckElse /\ ~CheckEndIf /\ ~CheckEndFor
  BY <1>6 DEF SkipLocalInfer, CheckElse, CheckEndIf, CheckEndFor
<1>. QED BY <1>3, <1>4, <1>7 DEF Next, Step, Inference

\* Where inference takes place, and what it reports.
LEMMA InferenceReports ==
  ASSUME TypeOK, ScopeInv, MoveInv, Inference
  PROVE  /\ pc \in Nat \ {0} /\ pc - 1 \in Nat /\ (pc - 1) + 1 = pc
         /\ cur \in DOMAIN prog /\ pc \in DOMAIN decl.body
         /\ cur' = cur /\ pc' = pc + 1 /\ prog' = prog
         /\ item = decl.body[pc] /\ item.expr \in Expr /\ Inferring(decl, pc)
         /\ scopes \in Seq(ScopeSet)
         /\ Mirrors(scopes, decl, pc - 1) /\ Carries(scopes, decl, pc - 1)
         /\ Infer(item.expr) = RefType(decl, item.expr, pc, DefTypes(decl))
         /\ \A code \in InferErrors(item.expr) : [code |-> code, decl |-> cur, at |-> pc] \in errors'
<1>1. PICK ops : /\ At(ops)
                 /\ ops \subseteq {"let", "mut", "assign", "expr", "match", "if", "for", "tail"}
  BY DEF Inference, CheckBinding, CheckAssign, CheckExpr, CheckIf, CheckForIn, CheckTail
<1>2. \A code \in InferErrors(item.expr) : [code |-> code, decl |-> cur, at |-> pc] \in errors'
  BY DEF Inference, CheckBinding, CheckAssign, CheckExpr, CheckIf, CheckForIn, CheckTail, Report
<1>3. /\ pc - 1 \in Nat /\ (pc - 1) + 1 = pc /\ pc > 0 /\ item = decl.body[pc] /\ item.op \in ops
      /\ item.expr \in Expr
  BY <1>1, AtItem
<1>4. Inferring(decl, pc) BY <1>1, <1>3 DEF Inferring
<1>5. /\ scopes \in Seq(ScopeSet) /\ Mirrors(scopes, decl, pc - 1) /\ Carries(scopes, decl, pc - 1)
  BY <1>1, AtStack
<1>6. Infer(item.expr) = RefType(decl, item.expr, pc, DefTypes(decl))
  BY <1>1, <1>4, BehindExpr
<1>7. /\ cur \in DOMAIN prog /\ pc \in DOMAIN decl.body
      /\ cur' = cur /\ pc' = pc + 1 /\ prog' = prog
  BY <1>1 DEF At
<1>8. pc \in Nat \ {0} BY <1>3 DEF TypeOK
<1>. QED BY <1>2, <1>3, <1>4, <1>5, <1>6, <1>7, <1>8

\* A use of a definition that a statement before used is reported.
LEMMA MoveReported ==
  ASSUME TypeOK, ScopeInv, MoveInv, Inference, NEW x \in Vars, UsesAgain(decl, x, pc)
  PROVE  [code |-> "E204", decl |-> cur, at |-> pc] \in errors'
<1>. DEFINE n == pc - 1
<1>1. /\ n \in Nat /\ n + 1 = pc /\ item = decl.body[pc] /\ scopes \in Seq(ScopeSet)
      /\ Mirrors(scopes, decl, n) /\ Carries(scopes, decl, n)
  BY InferenceReports
<1>2. /\ x \in Uses(item.expr) /\ Definitions(decl, x, n + 1) # {}
      /\ IsOwned(TypeOfDef(decl, x, Resolve(decl, x, n + 1)))
      /\ UsedBy(decl, x, Resolve(decl, x, n + 1), n)
  BY <1>1 DEF UsesAgain
<1>. HIDE DEF n
<1>3. Bound(scopes, x) /\ Lookup(scopes, x).moved
  BY <1>1, <1>2, LookupFaithful
<1>4. UsesMoved(item.expr) BY <1>2, <1>3 DEF UsesMoved
<1>5. "E204" \in InferErrors(item.expr) BY <1>4 DEF InferErrors
<1>. QED BY <1>5, InferenceReports

\* A store of what is not trusted in what is trusted is reported.
LEMMA DistrustStep ==
  ASSUME TypeOK, ScopeInv, MoveInv, Inference, Distrusted(decl, pc)
  PROVE  errors' # {}
<1>. DEFINE n == pc - 1
            rhs == Infer(item.expr)
            it == decl.body[pc]
            target == IF it.op \in {"let", "mut"} THEN it.type
                      ELSE IF it.op = "assign"
                      THEN TypeOfDef(decl, it.name, Resolve(decl, it.name, pc))
                      ELSE NoType
<1>1. /\ n \in Nat /\ n + 1 = pc /\ item = it /\ scopes \in Seq(ScopeSet)
      /\ Mirrors(scopes, decl, n) /\ Carries(scopes, decl, n)
      /\ rhs = RefType(decl, item.expr, pc, DefTypes(decl))
  BY InferenceReports
<1>2. target = "tru" /\ rhs = "utr" BY <1>1 DEF Distrusted
<1>3. TrustErrors(rhs, "tru") = {"E301-Trust"}
  <2>. HIDE DEF rhs
  <2>. QED BY <1>2 DEF TrustErrors
<1>. HIDE DEF n
<1>4. CASE CheckBinding
  <2>1. item.op \in {"let", "mut"} BY <1>4 DEF CheckBinding, At
  <2>2. item.type = "tru" BY <1>1, <1>2, <2>1
  <2>3. [code |-> "E301-Trust", decl |-> cur, at |-> pc] \in errors'
    BY <1>3, <1>4, <2>2 DEF CheckBinding, Report
  <2>. QED BY <2>3
<1>5. CASE CheckAssign
  <2>. DEFINE x == item.name
  <2>1. At({"assign"}) /\ item.op = "assign" BY <1>5 DEF CheckAssign, At
  <2>2. TypeOfDef(decl, x, Resolve(decl, x, n + 1)) = "tru" BY <1>1, <1>2, <2>1
  <2>3. x \in Vars BY <2>1, AtItem DEF Item
  <2>4. CASE ~Bound(scopes, x)
    <3>1. [code |-> "E209-Scope", decl |-> cur, at |-> pc] \in errors'
      BY <1>5, <2>4 DEF CheckAssign, Report
    <3>. QED BY <3>1
  <2>5. CASE Bound(scopes, x)
    <3>1. Lookup(scopes, x).type = "tru" BY <1>1, <2>2, <2>3, <2>5, LookupFaithful
    <3>2. [code |-> "E301-Trust", decl |-> cur, at |-> pc] \in errors'
      BY <1>3, <1>5, <2>5, <3>1 DEF CheckAssign, Report
    <3>. QED BY <3>2
  <2>. QED BY <2>4, <2>5
<1>6. CASE CheckExpr \/ CheckIf \/ CheckForIn \/ CheckTail
  <2>1. item.op \in {"expr", "match", "if", "for", "tail"}
    BY <1>6 DEF CheckExpr, CheckIf, CheckForIn, CheckTail, At
  <2>. QED BY <1>1, <1>2, <2>1 DEF NoType
<1>. QED BY <1>4, <1>5, <1>6 DEF Inference

\* What has been reported stays so, and what is checked now is reported.
LEMMA ReportsPreserved ==
  TypeOK /\ ScopeInv /\ MoveInv /\ MovesReported /\ DistrustReported /\ [Next]_vars
    => MovesReported' /\ DistrustReported'
<1>. SUFFICES ASSUME TypeOK, ScopeInv, MoveInv, MovesReported, DistrustReported, [Next]_vars
              PROVE  MovesReported' /\ DistrustReported'
  OBVIOUS
<1>1. prog' = prog /\ errors \subseteq errors' BY StepWalks
<1>2. \A d : DefTypes(d)' = DefTypes(d) BY <1>1, StableTypes
<1>3. \A d, x, j : UsesAgain(d, x, j)' <=> UsesAgain(d, x, j)
  BY <1>2 DEF UsesAgain, TypeOfDef
<1>4. \A d, e, j, T : RefType(d, e, j, T)' = RefType(d, e, j, T)
  BY <1>1 DEF RefType, RefAtomType, Registered, FnReg
<1>5. \A d, i : Distrusted(d, i)' <=> Distrusted(d, i)
  BY <1>2, <1>4 DEF Distrusted, TypeOfDef
<1>6. ASSUME NEW c \in DOMAIN prog, NEW j, j \in Walked(c)', j \notin Walked(c)
      PROVE  /\ c = cur /\ j = pc /\ Inference
  <2>1. c = cur /\ j = pc /\ pc \in DOMAIN decl.body BY <1>6, StepWalks
  <2>2. pc \in Walked(c)' BY <1>6, <2>1
  <2>. QED BY <1>6, <2>1, <2>2, InferenceStep
<1>7. MovesReported'
  <2>. SUFFICES ASSUME NEW c \in DOMAIN prog, NEW j \in Walked(c)', NEW x \in Vars,
                       UsesAgain(prog[c], x, j)
                PROVE  [code |-> "E204", decl |-> c, at |-> j] \in errors'
    BY <1>1, <1>3 DEF MovesReported, Error
  <2>1. CASE j \in Walked(c)
    BY <1>1, <2>1 DEF MovesReported, Error
  <2>2. CASE j \notin Walked(c)
    <3>1. c = cur /\ j = pc /\ Inference BY <1>6, <2>2
    <3>2. UsesAgain(decl, x, pc) BY <3>1 DEF decl
    <3>. QED BY <3>1, <3>2, MoveReported
  <2>. QED BY <2>1, <2>2
<1>8. DistrustReported'
  <2>. SUFFICES ASSUME NEW c \in DOMAIN prog, NEW j \in Walked(c)', Distrusted(prog[c], j)
                PROVE  errors' # {}
    BY <1>1, <1>5 DEF DistrustReported
  <2>1. CASE j \in Walked(c)
    BY <1>1, <2>1 DEF DistrustReported
  <2>2. CASE j \notin Walked(c)
    <3>1. c = cur /\ j = pc /\ Inference BY <1>6, <2>2
    <3>2. Distrusted(decl, pc) BY <3>1 DEF decl
    <3>. QED BY <3>1, <3>2, DistrustStep
  <2>. QED BY <2>1, <2>2
<1>. QED BY <1>7, <1>8

\* At the start nothing is walked.
LEMMA NothingWalked ==
  ASSUME Init, NEW c \in DOMAIN prog
  PROVE  Walked(c) = {}
<1>. SUFFICES ASSUME NEW i \in Walked(c) PROVE FALSE OBVIOUS
<1>1. TypeOK /\ cur = 1 /\ pc = 0 BY InitTyped DEF Init
<1>2. i \in DOMAIN prog[c].body BY DEF Walked
<1>3. c \in Nat \ {0} /\ i \in Nat BY <1>1, <1>2, BodyTyped
<1>. QED BY <1>1, <1>3 DEF Walked

\* The moves and the distrust of the statements walked are reported in every state.
LEMMA ReportsHold == Spec => [](TypeOK /\ MovesReported /\ DistrustReported)
<1>1. Init => MovesReported /\ DistrustReported
  BY NothingWalked DEF MovesReported, DistrustReported
<1>. QED BY <1>1, ReportsPreserved, StackHolds, PTL DEF Spec

-----------------------------------------------------------------------------
(* The move rule and the trust rule.                                        *)

\* For every program: of two uses of one owned definition the later in source
\* order is reported E204, however the name was shadowed and redefined in
\* between (NoUseAfterMove; infer_ident, mark_moved, check_not_moved).
THEOREM MovesAreFinal == Spec => []NoUseAfterMove
<1>1. TypeOK /\ MovesReported => NoUseAfterMove
  <2>. SUFFICES ASSUME TypeOK, MovesReported,
                       NEW c \in DOMAIN prog, NEW i \in Walked(c), NEW j \in Walked(c), i < j,
                       NEW x, x \in Uses(prog[c].body[i].expr) \cap Uses(prog[c].body[j].expr),
                       Definitions(prog[c], x, i) # {}, Definitions(prog[c], x, j) # {},
                       MaxOf(Definitions(prog[c], x, i)) = MaxOf(Definitions(prog[c], x, j)),
                       IsOwned(TypeOfDef(prog[c], x, MaxOf(Definitions(prog[c], x, j))))
                PROVE  Error("E204", c, j)
    BY DEF NoUseAfterMove
  <2>1. /\ prog[c].body \in Seq(Item) /\ i \in DOMAIN prog[c].body /\ j \in DOMAIN prog[c].body
        /\ Inferring(prog[c], i)
    BY BodyTyped DEF Walked, Inferring
  <2>2. i \in 1..(j - 1) BY <2>1
  <2>3. x \in Vars
    <3>1. prog[c].body[i] \in Item BY <2>1
    <3>. QED BY <3>1, UsesAreNames DEF Item
  <2>4. UsedBy(prog[c], x, Resolve(prog[c], x, j), j - 1)
    BY <2>1, <2>2 DEF UsedBy, Resolve
  <2>5. UsesAgain(prog[c], x, j) BY <2>4 DEF UsesAgain, Resolve
  <2>. QED BY <2>3, <2>5 DEF MovesReported
<1>. QED BY <1>1, ReportsHold, PTL

\* E204 has a cause in the program when it is reported.
LEMMA MoveJustified ==
  ASSUME TypeOK, ScopeInv, MoveInv, Inference, UsesMoved(item.expr)
  PROVE  \E x \in Uses(item.expr) :
           /\ Definitions(decl, x, pc) # {}
           /\ IsOwned(TypeOfDef(decl, x, Resolve(decl, x, pc)))
           /\ \/ UsesTwice(item.expr, x)
              \/ UsedBy(decl, x, Resolve(decl, x, pc), pc - 1)
<1>. DEFINE n == pc - 1
<1>1. /\ n \in Nat /\ n + 1 = pc /\ item.expr \in Expr /\ scopes \in Seq(ScopeSet)
      /\ Mirrors(scopes, decl, n) /\ Carries(scopes, decl, n)
  BY InferenceReports
<1>2. PICK x \in Uses(item.expr) :
        /\ Bound(scopes, x)
        /\ \/ Lookup(scopes, x).moved
           \/ IsOwned(Lookup(scopes, x).type) /\ UsesTwice(item.expr, x)
  BY DEF UsesMoved
<1>3. x \in Vars BY <1>1, <1>2, UsesAreNames
<1>. HIDE DEF n
<1>4. /\ Definitions(decl, x, n + 1) # {}
      /\ Lookup(scopes, x).type = TypeOfDef(decl, x, Resolve(decl, x, n + 1))
      /\ Lookup(scopes, x).moved => /\ IsOwned(TypeOfDef(decl, x, Resolve(decl, x, n + 1)))
                                    /\ UsedBy(decl, x, Resolve(decl, x, n + 1), n)
  BY <1>1, <1>2, <1>3, LookupFaithful
<1>. QED BY <1>1, <1>2, <1>4 DEF n

\* A step walks more items, never less.
LEMMA WalkedStays ==
  ASSUME TypeOK, [Next]_vars, NEW c \in DOMAIN prog
  PROVE  Walked(c) \subseteq Walked(c)'
<1>. SUFFICES ASSUME NEW i \in Walked(c) PROVE i \in Walked(c)'
  OBVIOUS
<1>0. i \in Nat /\ c \in Nat
  <2>1. i \in DOMAIN prog[c].body BY DEF Walked
  <2>. QED BY <2>1, BodyTyped
<1>1. prog' = prog BY StepWalks
<1>2. c < cur \/ (c = cur /\ i < pc) BY DEF Walked
<1>3. \/ cur' = cur /\ (pc' = pc \/ pc' = pc + 1)
      \/ cur' = cur + 1
  <2>1. CASE BeginFn \/ FinishFn BY <2>1 DEF BeginFn, FinishFn
  <2>2. CASE \E ops : At(ops) BY <2>2 DEF At
  <2>3. CASE UNCHANGED vars BY <2>3 DEF vars
  <2>. QED BY <2>1, <2>2, <2>3 DEF Next, Step, Terminating, CheckBinding, CheckAssign, CheckExpr,
           SkipLocalInfer, CheckIf, CheckElse, CheckEndIf, CheckForIn, CheckEndFor, CheckTail
<1>4. cur \in Nat /\ pc \in Nat BY DEF TypeOK
<1>5. c < cur' \/ (c = cur' /\ i < pc') BY <1>0, <1>2, <1>3, <1>4
<1>. QED BY <1>1, <1>5 DEF Walked

\* E204 is reported by inference, of what is moved.
LEMMA MoveCode ==
  ASSUME TypeOK, [Next]_vars, NEW e \in errors', e \notin errors, e.code = "E204"
  PROVE  Inference /\ e.decl = cur /\ e.at = pc /\ UsesMoved(item.expr)
<1>1. \A t, u : "E204" \notin TrustErrors(t, u) BY DEF TrustErrors
<1>2. \A x : "E204" \in InferErrors(x) => UsesMoved(x)
  BY DEF InferErrors, CallErrors, MissingCap
<1>3. ASSUME NEW codes, Report(codes)
      PROVE  "E204" \in codes /\ e.decl = cur /\ e.at = pc
  BY <1>3 DEF Report
<1>4. ~BeginFn /\ ~FinishFn
  <2>1. \A d : "E204" \notin HeaderErrors(d) BY DEF HeaderErrors
  <2>2. \A d : "E204" \notin EffectErrors(d) BY DEF EffectErrors
  <2>. QED BY <1>3, <2>1, <2>2 DEF BeginFn, FinishFn
<1>5. Inference
  <2>1. errors' # errors OBVIOUS
  <2>2. /\ ~UNCHANGED vars /\ ~Terminating /\ ~SkipLocalInfer /\ ~CheckElse
        /\ ~CheckEndIf /\ ~CheckEndFor
    BY <2>1 DEF vars, Terminating, SkipLocalInfer, CheckElse, CheckEndIf, CheckEndFor
  <2>. QED BY <1>4, <2>2 DEF Next, Step, Inference
<1>6. CASE CheckBinding BY <1>1, <1>2, <1>3, <1>5, <1>6 DEF CheckBinding
<1>7. CASE CheckAssign BY <1>1, <1>2, <1>3, <1>5, <1>7 DEF CheckAssign
<1>8. CASE CheckExpr \/ CheckIf \/ CheckForIn
  <2>1. Report(InferErrors(item.expr)) BY <1>8 DEF CheckExpr, CheckIf, CheckForIn
  <2>. QED BY <1>2, <1>3, <1>5, <2>1
<1>9. CASE CheckTail
  <2>1. PICK codes \in {{}, {"E301-Return"}} : Report(InferErrors(item.expr) \cup codes)
    BY <1>9 DEF CheckTail
  <2>. QED BY <1>2, <1>3, <1>5, <2>1
<1>. QED BY <1>5, <1>6, <1>7, <1>8, <1>9 DEF Inference

\* E204 is reported in the declarations of the program.
MoveErrorsPlaced == \A e \in errors : e.code = "E204" => e.decl \in DOMAIN prog

\* For every program: E204 is reported only where an owned definition is used
\* that was used before, or is used twice (MoveErrorsJustified).
THEOREM MoveErrorsHaveCauses == Spec => []MoveErrorsJustified
<1>1. Init => MoveErrorsJustified /\ MoveErrorsPlaced
  BY DEF Init, MoveErrorsJustified, MoveErrorsPlaced
<1>2. TypeOK /\ ScopeInv /\ MoveInv /\ MoveErrorsJustified /\ MoveErrorsPlaced /\ [Next]_vars
        => MoveErrorsJustified' /\ MoveErrorsPlaced'
  <2>. DEFINE Cause(c, j, before, x) ==
                /\ x \in Uses(prog[c].body[j].expr)
                /\ Definitions(prog[c], x, j) # {}
                /\ IsOwned(TypeOfDef(prog[c], x, Resolve(prog[c], x, j)))
                /\ \/ UsesTwice(prog[c].body[j].expr, x)
                   \/ \E i \in before :
                        /\ i < j /\ x \in Uses(prog[c].body[i].expr)
                        /\ Definitions(prog[c], x, i) # {}
                        /\ Resolve(prog[c], x, i) = Resolve(prog[c], x, j)
  <2>. SUFFICES ASSUME TypeOK, ScopeInv, MoveInv, MoveErrorsJustified, MoveErrorsPlaced, [Next]_vars
                PROVE  MoveErrorsJustified' /\ MoveErrorsPlaced'
    OBVIOUS
  <2>0. prog' = prog /\ \A d : DefTypes(d)' = DefTypes(d) BY StepWalks, StableTypes
  <2>. SUFFICES ASSUME NEW e \in errors', e.code = "E204"
                PROVE  e.decl \in DOMAIN prog /\ \E x : Cause(e.decl, e.at, Walked(e.decl)', x)
    BY <2>0 DEF MoveErrorsJustified, TypeOfDef, MoveErrorsPlaced
  <2>1. CASE e \in errors
    <3>1. PICK x : Cause(e.decl, e.at, Walked(e.decl), x) BY <2>1 DEF MoveErrorsJustified
    <3>2. e.decl \in DOMAIN prog BY <2>1 DEF MoveErrorsPlaced
    <3>3. \A c \in DOMAIN prog : Walked(c) \subseteq Walked(c)' BY WalkedStays
    <3>4. \A c \in DOMAIN prog : c = e.decl => Walked(c) \subseteq Walked(e.decl)'
      BY <3>3
    <3>. QED BY <3>1, <3>2, <3>4
  <2>2. CASE e \notin errors
    <3>1. /\ Inference /\ e.decl = cur /\ e.at = pc /\ UsesMoved(item.expr)
      BY <2>2, MoveCode
    <3>2. /\ pc \in Nat \ {0} /\ pc - 1 \in Nat /\ cur \in DOMAIN prog /\ pc \in DOMAIN decl.body
          /\ cur' = cur /\ pc' = pc + 1 /\ prog' = prog /\ item = decl.body[pc]
      BY <3>1, InferenceReports
    <3>3. PICK x \in Uses(item.expr) :
            /\ Definitions(decl, x, pc) # {}
            /\ IsOwned(TypeOfDef(decl, x, Resolve(decl, x, pc)))
            /\ \/ UsesTwice(item.expr, x)
               \/ UsedBy(decl, x, Resolve(decl, x, pc), pc - 1)
      BY <3>1, MoveJustified
    <3>4. ASSUME NEW i \in 1..(pc - 1), Inferring(decl, i) PROVE i \in Walked(e.decl)' /\ i < pc
      <4>1. decl.body \in Seq(Item) BY <3>2, ItemTyped
      <4>2. i \in DOMAIN decl.body /\ i < pc /\ i < pc' BY <3>2, <4>1
      <4>. QED BY <3>1, <3>2, <3>4, <4>2 DEF Walked, Inferring, decl
    <3>. QED BY <3>1, <3>2, <3>3, <3>4 DEF UsedBy, decl
  <2>. QED BY <2>1, <2>2
<1>. QED BY <1>1, <1>2, StackHolds, PTL DEF Spec

\* For every program: if it is accepted, no untrusted value is stored in a
\* trusted variable, directly or through variables whose type was inferred
\* (TrustedStores; enforce_trust in check_binding and in the Assign case).
THEOREM TrustIsKept == Spec => []TrustedStores
<1>1. DistrustReported => TrustedStores
  BY DEF DistrustReported, Distrusted, TrustedStores, Accepted
<1>. QED BY <1>1, ReportsHold, PTL

-----------------------------------------------------------------------------
(* The blocks of what was walked nest.                                      *)

\* The kinds of the blocks open behind an item of kind op, s being those before it.
NestedBy(s, op) ==
  CASE op = "if"  -> Append(s, "then")
    [] op = "for" -> Append(s, "for")
    [] op = "else" -> Append(SubSeq(s, 1, Len(s) - 1), "else")
    [] op \in {"endif", "endfor"} -> SubSeq(s, 1, Len(s) - 1)
    [] OTHER -> s
\* The item ends a block of its kind.
Fits(s, op) ==
  /\ op \in {"else", "endif", "endfor"} => s # <<>>
  /\ op = "else" => s[Len(s)] = "then"
  /\ op = "endif" => s[Len(s)] # "for"
  /\ op = "endfor" => s[Len(s)] = "for"
\* st[k] are the blocks open behind the k-th of the first n items.
Nests(body, n, st) ==
  /\ n \in Nat /\ st \in [0 .. n -> Seq(Blocks)] /\ st[0] = <<>>
  /\ \A k \in 1 .. n : Fits(st[k - 1], body[k].op) /\ st[k] = NestedBy(st[k - 1], body[k].op)

\* Every body that was walked nests, and so do the items walked of the current one.
NestInv ==
  /\ \A c \in DOMAIN prog : c < cur => \E st : Nests(prog[c].body, Len(prog[c].body), st)
  /\ IF pc = 0 THEN open = <<>> ELSE \E st : Nests(decl.body, pc - 1, st) /\ st[pc - 1] = open

\* The blocks open behind an item.
LEMMA NestedTyped ==
  ASSUME NEW s \in Seq(Blocks), NEW op, Fits(s, op)
  PROVE  /\ NestedBy(s, op) \in Seq(Blocks)
         /\ Len(NestedBy(s, op)) = CASE op \in {"if", "for"} -> Len(s) + 1
                                     [] op \in {"endif", "endfor"} -> Len(s) - 1
                                     [] OTHER -> Len(s)
         /\ \A i \in 1 .. Len(s) :
              i <= Len(NestedBy(s, op)) /\ (op = "else" => i # Len(s)) => NestedBy(s, op)[i] = s[i]
<1>. DEFINE n == Len(s)
            f == SubSeq(s, 1, n - 1)
<1>1. n \in Nat /\ DOMAIN s = 1 .. n /\ \A i \in 1 .. n : s[i] \in Blocks
  BY LenProperties, ElementOfSeq
<1>2. ASSUME NEW e \in Blocks, NEW t \in Seq(Blocks)
      PROVE  /\ Append(t, e) \in Seq(Blocks) /\ Len(Append(t, e)) = Len(t) + 1
             /\ \A i \in 1 .. Len(t) : Append(t, e)[i] = t[i]
  BY AppendProperties
<1>3. CASE op \in {"if", "for"}
  <2>1. \E e \in Blocks : NestedBy(s, op) = Append(s, e) BY <1>3 DEF NestedBy, Blocks
  <2>. QED BY <1>1, <1>2, <1>3, <2>1
<1>4. CASE op \in {"else", "endif", "endfor"}
  <2>1. s # <<>> BY <1>4 DEF Fits
  <2>2. n \in Nat \ {0} BY <2>1, EmptySeq
  <2>3. f \in Seq(Blocks) /\ Len(f) = n - 1 /\ \A i \in 1 .. n - 1 : f[i] = s[i]
    <3>1. \A i \in 1 .. n - 1 : s[i] \in Blocks BY <1>1
    <3>2. n - 1 \in Int /\ 1 \in Int /\ (n - 1) - 1 + 1 = n - 1 BY <1>1
    <3>3. /\ f \in Seq(Blocks) /\ Len(f) = IF 1 <= n - 1 THEN n - 1 - 1 + 1 ELSE 0
          /\ \A i \in 1 .. n - 1 - 1 + 1 : f[i] = s[1 + i - 1]
      BY <3>1, <3>2, SubSeqProperties
    <3>4. \A i \in 1 .. n - 1 : 1 + i - 1 = i OBVIOUS
    <3>5. \A i \in 1 .. n - 1 : i \in 1 .. n - 1 - 1 + 1 BY <2>2
    <3>. HIDE DEF f, n
    <3>. QED BY <2>2, <3>3, <3>4, <3>5
  <2>. HIDE DEF f, n
  <2>4. CASE op = "else"
    <3>1. NestedBy(s, op) = Append(f, "else") BY <2>4 DEF NestedBy, f, n
    <3>2. "else" \in Blocks BY DEF Blocks
    <3>3. /\ NestedBy(s, op) \in Seq(Blocks) /\ Len(NestedBy(s, op)) = n - 1 + 1
          /\ \A i \in 1 .. n - 1 : NestedBy(s, op)[i] = s[i]
      BY <1>2, <2>3, <3>1, <3>2
    <3>. QED BY <2>2, <2>4, <3>3 DEF n
  <2>5. CASE op # "else"
    <3>1. NestedBy(s, op) = f BY <1>4, <2>5, SMTT(30) DEF NestedBy, f, n
    <3>. QED BY <1>4, <2>2, <2>3, <2>5, <3>1 DEF n
  <2>. QED BY <2>4, <2>5
<1>5. CASE op \notin {"if", "for", "else", "endif", "endfor"}
  <2>1. NestedBy(s, op) = s BY <1>5 DEF NestedBy
  <2>. QED BY <1>1, <1>5, <2>1
<1>. QED BY <1>3, <1>4, <1>5

\* One more item that fits.
LEMMA NestMore ==
  ASSUME NEW body, NEW n, NEW st, Nests(body, n, st), Fits(st[n], body[n + 1].op)
  PROVE  \E t : Nests(body, n + 1, t) /\ t[n + 1] = NestedBy(st[n], body[n + 1].op)
<1>. DEFINE next == NestedBy(st[n], body[n + 1].op)
            t == [k \in 0 .. n + 1 |-> IF k = n + 1 THEN next ELSE st[k]]
<1>1. n \in Nat /\ st \in [0 .. n -> Seq(Blocks)] /\ st[0] = <<>> BY DEF Nests
<1>2. next \in Seq(Blocks)
  <2>1. n \in 0 .. n BY <1>1
  <2>. QED BY <1>1, <2>1, NestedTyped
<1>. HIDE DEF next
<1>3. \A k \in 0 .. n + 1 : k = n + 1 \/ (k \in 0 .. n /\ k # n + 1) BY <1>1
<1>4. t \in [0 .. n + 1 -> Seq(Blocks)] BY <1>1, <1>2, <1>3
<1>5. t[0] = <<>> BY <1>1
<1>6. ASSUME NEW k \in 1 .. n + 1
      PROVE  Fits(t[k - 1], body[k].op) /\ t[k] = NestedBy(t[k - 1], body[k].op)
  <2>1. k \in 0 .. n + 1 /\ k - 1 \in 0 .. n + 1 /\ k - 1 # n + 1 BY <1>1
  <2>2. t[k - 1] = st[k - 1] BY <2>1
  <2>3. CASE k = n + 1
    <3>1. k - 1 = n /\ t[k] = next BY <1>1, <2>1, <2>3
    <3>. QED BY <2>2, <2>3, <3>1 DEF next
  <2>4. CASE k # n + 1
    <3>1. k \in 1 .. n /\ t[k] = st[k] BY <1>1, <2>1, <2>4
    <3>2. Fits(st[k - 1], body[k].op) /\ st[k] = NestedBy(st[k - 1], body[k].op)
      BY <3>1 DEF Nests
    <3>. QED BY <2>2, <3>1, <3>2
  <2>. QED BY <2>3, <2>4
<1>7. n + 1 \in Nat /\ n + 1 \in 0 .. n + 1 BY <1>1
<1>8. t[n + 1] = next BY <1>7
<1>. HIDE DEF t
<1>9. Nests(body, n + 1, t) BY <1>4, <1>5, <1>6, <1>7 DEF Nests
<1>. QED BY <1>8, <1>9 DEF next

\* Every step of the checker keeps that.
LEMMA NestKept == TypeOK /\ NestInv /\ [Next]_vars => NestInv'
<1>. SUFFICES ASSUME TypeOK, NestInv, [Next]_vars PROVE NestInv' OBVIOUS
<1>1. ASSUME NEW ops, At(ops), Fits(open, item.op), open' = NestedBy(open, item.op)
      PROVE  NestInv'
  <2>1. /\ cur \in DOMAIN prog /\ pc \in DOMAIN decl.body /\ item = decl.body[pc]
        /\ pc' = pc + 1 /\ prog' = prog /\ cur' = cur
    BY <1>1 DEF At, item
  <2>2. pc \in Nat /\ pc # 0
    <3>1. decl.body \in Seq(Item) BY <2>1, ItemTyped
    <3>. QED BY <2>1, <3>1, LenProperties
  <2>3. PICK st : Nests(decl.body, pc - 1, st) /\ st[pc - 1] = open BY <2>2 DEF NestInv
  <2>4. (pc - 1) + 1 = pc /\ pc' # 0 /\ pc' - 1 = pc BY <2>1, <2>2
  <2>5. PICK t : Nests(decl.body, pc, t) /\ t[pc] = NestedBy(open, item.op)
    <3>1. Fits(st[pc - 1], decl.body[(pc - 1) + 1].op) BY <1>1, <2>1, <2>3, <2>4
    <3>. HIDE DEF decl
    <3>2. \E t : /\ Nests(decl.body, (pc - 1) + 1, t)
                 /\ t[(pc - 1) + 1] = NestedBy(st[pc - 1], decl.body[(pc - 1) + 1].op)
      BY <2>3, <3>1, NestMore
    <3>. QED BY <2>1, <2>3, <2>4, <3>2
  <2>6. decl' = decl BY <2>1 DEF decl
  <2>. QED BY <1>1, <2>1, <2>4, <2>5, <2>6 DEF NestInv
<1>2. CASE BeginFn
  <2>1. /\ cur \in DOMAIN prog /\ pc = 0 /\ pc' = 1 /\ prog' = prog /\ cur' = cur /\ open' = open
    BY <1>2 DEF BeginFn
  <2>2. open = <<>> BY <2>1 DEF NestInv
  <2>. DEFINE st == [k \in 0 .. 0 |-> <<>>]
  <2>3. st \in [0 .. 0 -> Seq(Blocks)] /\ st[0] = <<>> /\ 1 .. 0 = {}
    <3>1. <<>> \in Seq(Blocks) /\ 0 \in 0 .. 0 BY EmptySeq
    <3>. QED BY <3>1
  <2>. HIDE DEF st
  <2>4. Nests(decl'.body, 0, st) BY <2>3 DEF Nests
  <2>5. pc' - 1 = 0 /\ pc' # 0 BY <2>1
  <2>. QED BY <2>1, <2>2, <2>3, <2>4, <2>5 DEF NestInv
<1>3. CASE FinishFn
  <2>1. /\ cur \in DOMAIN prog /\ pc = Len(decl.body) + 1 /\ open = <<>>
        /\ prog' = prog /\ cur' = cur + 1 /\ pc' = 0 /\ open' = open
    BY <1>3 DEF FinishFn
  <2>2. Len(decl.body) \in Nat BY <2>1, ItemTyped
  <2>3. pc # 0 /\ pc - 1 = Len(decl.body) BY <2>1, <2>2
  <2>4. \E st : Nests(prog[cur].body, Len(prog[cur].body), st) BY <2>3 DEF NestInv, decl
  <2>5. ASSUME NEW c \in DOMAIN prog, c < cur + 1
        PROVE  \E st : Nests(prog[c].body, Len(prog[c].body), st)
    <3>1. c \in Nat /\ cur \in Nat BY <2>1, BodyTyped
    <3>2. c < cur \/ c = cur BY <2>5, <3>1
    <3>. QED BY <2>4, <3>2 DEF NestInv
  <2>. QED BY <2>1, <2>5 DEF NestInv
<1>4. ASSUME NEW ops, At(ops), ops \cap {"if", "for", "else", "endif", "endfor"} = {}, open' = open
      PROVE  NestInv'
  <2>1. item.op \notin {"if", "for", "else", "endif", "endfor"} BY <1>4 DEF At
  <2>2. Fits(open, item.op) /\ NestedBy(open, item.op) = open BY <2>1 DEF Fits, NestedBy
  <2>. QED BY <1>1, <1>4, <2>2
<1>5. CASE CheckBinding BY <1>4, <1>5 DEF CheckBinding
<1>6. CASE CheckAssign BY <1>4, <1>6 DEF CheckAssign
<1>7. CASE CheckExpr BY <1>4, <1>7 DEF CheckExpr
<1>8. CASE SkipLocalInfer BY <1>4, <1>8 DEF SkipLocalInfer
<1>9. CASE CheckTail BY <1>4, <1>9 DEF CheckTail
<1>10. CASE CheckIf \/ CheckForIn
  <2>1. \E op \in {"if", "for"} : At({op}) /\ item.op = op /\ open' = NestedBy(open, op)
    BY <1>10 DEF CheckIf, CheckForIn, At, NestedBy
  <2>. QED BY <1>1, <2>1 DEF Fits
<1>11. CASE CheckElse \/ CheckEndIf \/ CheckEndFor
  <2>1. \E op \in {"else", "endif", "endfor"} :
          /\ At({op}) /\ item.op = op /\ Innermost # "none" /\ open' = NestedBy(open, op)
          /\ op = "else" => Innermost = "then"
          /\ op = "endif" => Innermost # "for"
          /\ op = "endfor" => Innermost = "for"
    BY <1>11 DEF CheckElse, CheckEndIf, CheckEndFor, At, NestedBy, Outer
  <2>. QED BY <1>1, <2>1 DEF Fits, Innermost
<1>12. CASE UNCHANGED vars BY <1>12 DEF vars, NestInv, decl
<1>. QED BY <1>2, <1>3, <1>5, <1>6, <1>7, <1>8, <1>9, <1>10, <1>11, <1>12 DEF Next, Step, Terminating

\* So it holds in every state.
LEMMA NestHolds == Spec => []NestInv
<1>1. Init => NestInv
  <2>. SUFFICES ASSUME Init PROVE NestInv OBVIOUS
  <2>1. cur = 1 /\ pc = 0 /\ open = <<>> /\ prog \in Seq(Decl)
    BY ProgramsAssumption DEF Init, ProgramsAssumption
  <2>2. \A c \in DOMAIN prog : ~(c < cur)
    <3>1. DOMAIN prog = 1 .. Len(prog) /\ Len(prog) \in Nat BY <2>1, LenProperties
    <3>. QED BY <2>1, <3>1
  <2>. QED BY <2>1, <2>2 DEF NestInv
<1>2. TypeOK /\ NestInv /\ [Next]_vars => NestInv' BY NestKept
<1>. QED BY <1>1, <1>2, TypeCorrect, PTL DEF Spec

=============================================================================
