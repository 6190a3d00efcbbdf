------------------------------ MODULE MCAgentC -------------------------------
(***************************************************************************)
(* Whole compilations: a function that leaves slots behind, and run_agent  *)
(* with every body of at most BodyLength statements.                        *)
(***************************************************************************)
EXTENDS AgentC

CONSTANT BodyLength

Bodies == INSTANCE AstGen WITH Programs <- {}

MCVars    == {"x", "y"}
MCFnNames == {"run_agent", "help", "io::rd", "val::tru", "net::get", "std::panic"}

Read(x)  == Propagate(Call("io::rd", <<IdentArg(x)>>))
Fetch    == Propagate(Call("net::get", <<LitArg("strN")>>))
\* Shadowing, assignment, branches, loops and early returns.
Statements ==
  {Let("y", "utr", Plain(Read("x"))), Let("x", NoType, Plain(Ident("y"))),
   Mut("x", "strN", Plain(Lit("strN"))), Assign("x", Plain(Ident("y"))),
   Do(Plain(Propagate(Call("help", <<IdentArg("x"), IdentArg("y")>>)))),
   If(Wrapped("compare", <<Lit("i32"), Fetch>>)), ElseMark, IfEnd,
   For("y", Plain(Ident("x"))), ForEnd}
\* Everything the checker accepts and the generator leaves out or rejects.
Corners ==
  {Walrus("y", Plain(Fetch)), Match(Plain(Ident("x"))), Do(Wrapped("not", <<Ident("y")>>)),
   Do(Wrapped("par", <<Fetch>>)), Let("y", "strN", Wrapped("ok", <<Ident("x")>>)),
   Let("y", "strN", Wrapped("err", <<Ident("x")>>)), Assign("y", Wrapped("ok", <<Ident("x")>>)),
   Mut("y", NoType, Wrapped("arith", <<Ident("x"), Lit("i32")>>)),
   Do(Plain(Call("std::panic", <<IdentArg("x")>>))), Do(Plain(Fetch)),
   Do(Plain(Call("help", <<IdentArg("x")>>))), If(Plain(Ident("x"))), IfEnd,
   Return(Wrapped("ok", <<Fetch>>))}

Fn(name, caps, params, ret, body) ==
  [kind |-> "fn", name |-> name, intent |-> TRUE, effects |-> {"io", "net"}, caps |-> caps,
   costs |-> {}, llm |-> 0, overconf |-> FALSE, params |-> params, ret |-> ret, body |-> body]
Str(x) == [name |-> x, type |-> "strN", mutable |-> TRUE]
Help == Fn("help", {"fs"}, <<Str("x"), Str("y")>>, "res", <<Do(Plain(Read("y")))>>)
Costly == [Help EXCEPT !.costs = {"llm"}, !.llm = 64 * 64]
Agent == [Fn("help", {}, <<>>, "unit", <<>>) EXCEPT !.kind = "agent"]

RunAgent(caps, ret) == Fn("run_agent", caps, <<Str("x")>>, ret, <<>>)
MCPrograms ==
  Bodies!ProgramsOf(
    [k \in [help : 1..4, caps : {{"fs"}, {"net"}}, ret : {"unit", "res"}] |->
       IF k.help = 4
       THEN [prog |-> <<Help, RunAgent({"fs", "net"}, "res")>>, at |-> 2,
             items |-> Statements, length |-> BodyLength]
       ELSE [prog |-> <<RunAgent(k.caps, k.ret), <<Help, Agent, Costly>>[k.help]>>, at |-> 1,
             items |-> Corners, length |-> 2]])

==============================================================================
