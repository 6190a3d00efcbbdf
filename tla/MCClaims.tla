------------------------------ MODULE MCClaims -------------------------------
(***************************************************************************)
(* Programs like those under examples/: run_agent with a header of each    *)
(* kind and every body of at most BodyLength statements.                    *)
(***************************************************************************)
EXTENDS Claims

CONSTANT BodyLength

Bodies == INSTANCE AstGen WITH Programs <- {}

MCVars    == {"x", "y"}
MCFnNames == {"run_agent", "io::wr", "net::get", "val::tru"}

Fetch == Propagate(Call("net::get", <<LitArg("strN")>>))
Statements ==
  {Let("x", "utr", Plain(Fetch)),
   Do(Plain(Propagate(Call("io::wr", <<LitArg("strN"), IdentArg("x")>>)))),
   Walrus("y", Plain(Lit("i32"))),
   Do(Wrapped("par", <<Fetch>>)),
   Do(Wrapped("compare", <<Fetch, Lit("i32")>>)),
   If(Wrapped("compare", <<Fetch, Lit("i32")>>)), IfEnd,
   Return(Wrapped("ok", <<Lit("unit")>>))}

MCPrograms ==
  Bodies!ProgramsOf(
    [k \in [effects : {{"none"}, {"net", "io"}}, caps : {{"fs"}, {"net", "fs"}}] |->
       [prog |-> <<[kind |-> "fn", name |-> "run_agent", intent |-> TRUE,
                    effects |-> k.effects, caps |-> k.caps, costs |-> {}, llm |-> 0,
                    overconf |-> FALSE, params |-> <<>>, ret |-> "res", body |-> <<>>]>>,
        at |-> 1, items |-> Statements, length |-> BodyLength]])

==============================================================================
