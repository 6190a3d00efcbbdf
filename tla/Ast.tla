--------------------------------- MODULE Ast ---------------------------------
(***************************************************************************)
(* The abstract syntax the parser hands to the type checker and the code   *)
(* generator (parser/ast.hpp), reduced to what the two later passes branch *)
(* on.                                                                      *)
(*                                                                          *)
(* A function body is a tree of blocks; here it is the sequence of its     *)
(* statements in source order, and the nesting is kept by the marker items *)
(* "else", "endif" and "endfor".  An expression is a wrapper around atoms: *)
(* an atom is a literal, an identifier or a call whose arguments are       *)
(* literals or identifiers, each possibly followed by the propagation      *)
(* operator `?'.  The wrapper is the enclosing node, if there is one.      *)
(***************************************************************************)
EXTENDS Naturals, Sequences, FiniteSets

CONSTANTS
  Vars,      \* names of bindings, parameters and iteration variables
  FnNames,   \* names of called and declared functions, stdlib ones included
  Programs   \* the ASTs under consideration, each a sequence of declarations

(***************************************************************************)
(* Types: one name per TypeNode::Kind that a rule looks at.  "str" is an   *)
(* unbounded Str and "strN" a Str<N>; "res" is `()?AgtE', "resI" is        *)
(* `i32?AgtE' and "agtR" is AgtResult.  The payload of Tru, Utr and Own is *)
(* always Str<N>.                                                           *)
(***************************************************************************)
Types == {"unit", "i32", "u32", "bool", "str", "strN", "utr", "tru", "own",
          "res", "resI", "agtR", "agtE"}
NoType == "none"            \* a binding without annotation: bind_type == nullptr
NoName == ""

\* TypeNode::kind; types_equal compares kinds, names and params but neither
\* str_bound nor ok_type and err_type.
KindOf(t) == CASE t \in {"str", "strN"} -> "Str"
               [] t \in {"res", "resI"} -> "Result"
               [] OTHER -> t

\* ok_type of a Result and params[0] of an AgtResult.
ResultTypes == {"res", "resI", "agtR"}
OkOf(t) == IF t = "resI" THEN "i32" ELSE "unit"

(***************************************************************************)
(* Expressions.                                                             *)
(***************************************************************************)
Wraps == {"none",       \* the atom itself
          "ok", "err",  \* ^(e) and ^!(e)
          "arith", "compare",   \* + - and < > <= >= == !=
          "not", "par", "method",
          "at",         \* @snd, @rcv
          "spawn", "sync", "mem", "budget"}

Leaf == [kind : {"lit"}, val : Types] \cup [kind : {"ident"}, val : Vars]
Atom == [kind : {"lit"},   val : Types,   args : {<<>>},    prop : BOOLEAN]
   \cup [kind : {"ident"}, val : Vars,    args : {<<>>},    prop : BOOLEAN]
   \cup [kind : {"call"},  val : FnNames, args : Seq(Leaf), prop : BOOLEAN]
Expr == {e \in [wrap : Wraps, atoms : Seq(Atom)] :
           /\ e.wrap \in {"none", "ok", "err"}  => Len(e.atoms) = 1
           /\ e.wrap \in {"arith", "compare"} => Len(e.atoms) = 2}
NoExpr == [wrap |-> "par", atoms |-> <<>>]

Lit(t)       == [kind |-> "lit", val |-> t, args |-> <<>>, prop |-> FALSE]
Ident(x)     == [kind |-> "ident", val |-> x, args |-> <<>>, prop |-> FALSE]
Call(f, as)  == [kind |-> "call", val |-> f, args |-> as, prop |-> FALSE]
Propagate(a) == [a EXCEPT !.prop = TRUE]
LitArg(t)    == [kind |-> "lit", val |-> t]
IdentArg(x)  == [kind |-> "ident", val |-> x]
Plain(a)     == [wrap |-> "none", atoms |-> <<a>>]
Wrapped(w, as) == [wrap |-> w, atoms |-> as]

(***************************************************************************)
(* Statements (StmtNode), linearised.                                       *)
(***************************************************************************)
Ops == {"let", "mut", "walrus", "assign", "expr", "if", "else", "endif",
        "for", "endfor", "match", "tail"}
Item == {i \in [op : Ops, name : Vars \cup {NoName}, type : Types \cup {NoType},
                expr : Expr] :
           i.op \in {"let", "mut", "walrus", "assign", "for"} => i.name \in Vars}

Stmt(o, x, t, e) == [op |-> o, name |-> x, type |-> t, expr |-> e]
Let(x, t, e)  == Stmt("let", x, t, e)           \* $ x: t = e;
Mut(x, t, e)  == Stmt("mut", x, t, e)           \* ~ x: t = e;
Walrus(x, e)  == Stmt("walrus", x, NoType, e)   \* $ x := e;
Assign(x, e)  == Stmt("assign", x, NoType, e)   \* x = e;
Do(e)         == Stmt("expr", NoName, NoType, e)
If(e)         == Stmt("if", NoName, NoType, e)  \* ?(e) {
ElseMark      == Stmt("else", NoName, NoType, NoExpr)
IfEnd         == Stmt("endif", NoName, NoType, NoExpr)
For(x, e)     == Stmt("for", x, NoType, e)      \* @iter(x <- e) {
ForEnd        == Stmt("endfor", NoName, NoType, NoExpr)
Match(e)      == Stmt("match", NoName, NoType, e)
Return(e)     == Stmt("tail", NoName, NoType, e) \* ^(e) or ^!(e) ending a block

(***************************************************************************)
(* Declarations that hold code: functions, external functions and the run  *)
(* function of an agent (FnNode, AgtNode) with their annotation block.     *)
(***************************************************************************)
Effects == {"io", "net", "mem", "sys", "agt", "llm"}
Caps    == {"fs", "net", "llm", "agt", "sys"}
Costs   == {"io", "net", "mem", "agt", "llm"}
Param   == [name : Vars, type : Types, mutable : BOOLEAN]
Decl    == [kind : {"fn", "extern", "agent"}, name : FnNames,
            intent : BOOLEAN,               \* #>"..." present
            effects : SUBSET (Effects \cup {"none"}),  \* #!(...)
            caps : SUBSET Caps,             \* #&(...)
            costs : SUBSET Costs,           \* the keys of #$(...)
            llm : Nat,                      \* N of #$(llm:N)
            overconf : BOOLEAN,             \* #?(N) with N > 1.0
            params : Seq(Param), ret : Types, body : Seq(Item)]

\* The ASTs are well formed.
ProgramsAssumption == Programs \subseteq Seq(Decl)
ASSUME ProgramsAssumption

(***************************************************************************)
(* The block structure of a body: how deep position k is inside @iter      *)
(* bodies, and inside any block.                                            *)
(***************************************************************************)
Count(body, k, ops) == Cardinality({i \in 1..k : body[i].op \in ops})

\* Number of @iter bodies open after the first k items.
ForDepth(body, k) == Count(body, k, {"for"}) - Count(body, k, {"endfor"})

\* The items of block_stmts of the outermost block: estimate_block_cost counts
\* these and nothing below them.
TopLevel(body) ==
  {i \in DOMAIN body :
     /\ body[i].op \notin {"tail", "else", "endif", "endfor"}
     /\ Count(body, i - 1, {"if", "for"})
          = Count(body, i - 1, {"endif", "endfor"})}

\* The item that ends the construct item k opens, the else mark included.
Depth(body, k) == Count(body, k, {"if", "for"}) - Count(body, k, {"endif", "endfor"})
Closes(body, k, j) ==
  body[j].op \in {"endif", "endfor"} /\ Depth(body, j) + 1 = Depth(body, k)
CloseOf(body, k) ==
  CHOOSE j \in (k + 1)..Len(body) :
    Closes(body, k, j) /\ \A i \in (k + 1)..(j - 1) : ~Closes(body, k, i)

\* A body is the linear form of a tree: every construct that is opened is closed.
NestingAssumption ==
  \A p \in Programs : \A c \in DOMAIN p : \A k \in DOMAIN p[c].body :
    p[c].body[k].op \in {"if", "for", "else"} =>
      \E j \in (k + 1)..Len(p[c].body) : Closes(p[c].body, k, j)
ASSUME NestingAssumption

-----------------------------------------------------------------------------
(* Which definition a name refers to, stated over the body alone: scopes are *)
(* those of @iter bodies, and the blocks of an if share the scope around.    *)

\* Item i of d (0: the parameters) defines x.
Defines(d, i, x) ==
  IF i = 0 THEN \E k \in DOMAIN d.params : d.params[k].name = x
  ELSE d.body[i].op \in {"let", "mut", "for"} /\ d.body[i].name = x

\* The definitions of x still in scope before item j: no @iter body that
\* contains the definition has ended in between.
Definitions(d, x, j) ==
  {i \in 0..(j - 1) :
     /\ Defines(d, i, x)
     /\ \A k \in i..(j - 1) : ForDepth(d.body, k) >= ForDepth(d.body, i)}
MaxOf(S) == CHOOSE m \in S : \A n \in S : n <= m
Resolve(d, x, j) == MaxOf(Definitions(d, x, j))

ParamOf(d, x) == d.params[MaxOf({k \in DOMAIN d.params : d.params[k].name = x})]

==============================================================================
