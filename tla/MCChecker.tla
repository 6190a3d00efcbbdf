------------------------------ MODULE MCChecker ------------------------------
(***************************************************************************)
(* The type checker on every short body over three alphabets: two about     *)
(* names, on definitions, shadowing, assignment and moves, and on trust,    *)
(* each in and around ifs and @iter loops; and one about annotations, over  *)
(* two declarations with every combination of a few of them: capabilities,  *)
(* effects, costs, calls between functions.                                 *)
(***************************************************************************)
EXTENDS TypeChecker

CONSTANTS NameLength, RuleLength   \* of the bodies

Gen == INSTANCE AstGen WITH Programs <- {}

MCVars    == {"x", "y"}
MCFnNames == {"main", "mk", "help", "io::rd", "val::tru", "net::get", "ctx::infer", "io::ex"}

Fn(kind, name, params, ret) ==
  [kind |-> kind, name |-> name, intent |-> TRUE, effects |-> {"io"},
   caps |-> {"fs"}, costs |-> {}, llm |-> 0, overconf |-> FALSE,
   params |-> params, ret |-> ret, body |-> <<>>]

-----------------------------------------------------------------------------
(* Names and trust.                                                         *)

Blocks == {If(Plain(Ident("x"))), ElseMark, IfEnd, For("x", Plain(Ident("x"))), ForEnd}

\* x is an owned parameter that the body may shadow; mk gives an owned value.
Names ==
  Blocks \cup
  {For("y", Plain(Call("mk", <<>>))),
   Mut("x", NoType, Plain(Call("mk", <<>>))),
   Let("x", "own", Plain(Ident("x"))),
   Assign("x", Plain(Call("mk", <<>>))),
   Do(Plain(Call("mk", <<IdentArg("x"), IdentArg("x")>>)))}

\* io::rd gives an untrusted value, val::tru a trusted one.
Trust ==
  Blocks \cup
  {Let("x", NoType, Plain(Propagate(Call("io::rd", <<LitArg("strN")>>)))),
   Mut("y", NoType, Plain(Ident("x"))),
   Let("x", "tru", Plain(Ident("y"))),
   Mut("y", "tru", Wrapped("arith", <<Ident("x"), Ident("x")>>)),
   Assign("y", Plain(Ident("x")))}

Mk == Fn("extern", "mk", <<>>, "own")

Take(type) ==
  Fn("fn", "main", <<[name |-> "x", type |-> type, mutable |-> FALSE]>>, "unit")

NamePrograms ==
  Gen!ProgramsOf(
    [type \in {"own", "utr"} |->
       [prog |-> <<Mk, Take(type)>>, at |-> 2,
        items |-> IF type = "own" THEN Names ELSE Trust, length |-> NameLength]])

-----------------------------------------------------------------------------
(* Annotations.                                                             *)

Read == Propagate(Call("io::rd", <<LitArg("strN")>>))
Statements ==
  {Let("x", NoType, Plain(Read)),
   Do(Plain(Call("ctx::infer", <<IdentArg("x")>>))),
   Do(Wrapped("arith", <<Read, Lit("i32")>>)),
   Do(Plain(Call("help", <<>>))),
   Walrus("x", Plain(Call("net::get", <<>>))),
   Do(Wrapped("spawn", <<>>)),
   If(Plain(Call("net::get", <<LitArg("strN")>>))), IfEnd,
   For("x", Plain(Call("io::ex", <<>>))), ForEnd,
   Match(Plain(Ident("x"))),
   Return(Wrapped("ok", <<Read>>)), Return(Wrapped("err", <<Call("help", <<>>)>>))}

Main(ret, caps) == [Fn("fn", "main", <<>>, ret) EXCEPT !.caps = caps]
\* The callee: a function with annotations that conflict in all the ways the
\* checker knows, or an agent, whose run function is not registered.
Helps == <<[Fn("fn", "help", <<>>, "agtE") EXCEPT !.effects = {"none"}, !.intent = FALSE,
              !.costs = Costs, !.caps = {}, !.overconf = TRUE, !.llm = 70],
           [Fn("fn", "help", <<>>, "agtE") EXCEPT !.costs = {"llm"}, !.caps = {"llm"}, !.llm = 12],
           [Fn("fn", "help", <<>>, "agtE") EXCEPT !.costs = {"llm"}, !.caps = {"llm"}, !.llm = 10],
           Fn("agent", "help", <<>>, "agtE"),
           [Fn("fn", "help", <<>>, "agtE") EXCEPT !.costs = {"llm"}, !.llm = 64 * 64]>>

\* The agent is declared before and after the function whose body varies, which
\* is longer in that case; the function whose cost is too large for std::stoul is
\* declared after it.
RulePrograms ==
  Gen!ProgramsOf(
    [k \in [help : 1..6, ret : {"unit", "res"}, caps : {{}, {"fs", "llm"}, {"net"}}] |->
       IF k.help <= 4
       THEN [prog |-> <<Helps[k.help], Main(k.ret, k.caps)>>, at |-> 2,
             items |-> Statements, length |-> 2]
       ELSE [prog |-> <<Main(k.ret, k.caps), Helps[k.help - 1]>>, at |-> 1,
             items |-> Statements, length |-> IF k.help = 5 THEN RuleLength ELSE 2]])

\* Filtered sets are sorted by TLC, so that their union is not quadratic.
MCPrograms == {p \in NamePrograms : TRUE} \cup {p \in RulePrograms : TRUE}
=============================================================================
