------------------------------ MODULE MCCodeGen ------------------------------
(***************************************************************************)
(* The back end alone, on programs the type checker need not accept (as    *)
(* tests/codegen_tests.cpp uses it): every body of at most BodyLength      *)
(* statements, after a function that leaves a slot behind.                  *)
(***************************************************************************)
EXTENDS CodeGen

CONSTANTS BodyLength, ControlLength

Gen1 == INSTANCE AstGen WITH Programs <- {}

MCVars    == {"x", "y"}
MCFnNames == {"main", "run_agent", "other", "io::rd", "io::wr", "no::fn"}

Read == Propagate(Call("io::rd", <<IdentArg("x")>>))
Statements ==
  {Let("y", NoType, Plain(Read)),
   Mut("x", "i32", Wrapped("arith", <<Lit("i32"), Propagate(Call("other", <<IdentArg("x")>>))>>)),
   Let("x", NoType, Wrapped("ok", <<Ident("y")>>)),
   Assign("y", Plain(Ident("x"))),
   Assign("x", Wrapped("err", <<Lit("i32")>>)),
   Do(Plain(Call("io::wr", <<IdentArg("x"), IdentArg("y")>>))),
   Do(Plain(Call("no::fn", <<LitArg("i32")>>))),
   Walrus("y", Plain(Ident("x"))), Match(Plain(Ident("x"))),
   If(Wrapped("compare", <<Ident("x"), Lit("i32")>>)), If(Plain(Read)), ElseMark, IfEnd,
   For("y", Plain(Ident("x"))), ForEnd,
   Return(Wrapped("ok", <<Ident("x")>>))}

\* Longer bodies of the statements that make blocks.
Control ==
  {Let("y", "str", Plain(Read)), If(Plain(Propagate(Call("other", <<IdentArg("x"), IdentArg("y")>>)))),
   ElseMark, IfEnd, Assign("y", Plain(Ident("x")))}

Fn(kind, name, params, ret, body) ==
  [kind |-> kind, name |-> name, intent |-> TRUE, effects |-> {"io"}, caps |-> {"fs"},
   costs |-> {}, llm |-> 0, overconf |-> FALSE, params |-> params, ret |-> ret, body |-> body]
Str(x) == [name |-> x, type |-> "str", mutable |-> FALSE]

\* The first function leaves a slot of y behind, the second is generated after it.
First(name) == Fn("fn", name, <<Str("x"), Str("y")>>, "res", <<Do(Plain(Read))>>)
Agent(ret) == Fn("fn", "run_agent", <<Str("x")>>, ret, <<>>)
\* An external function, an agent and a main.
Entry == <<Fn("extern", "other", <<Str("x")>>, "i32", <<>>),
           Fn("agent", "run_agent", <<>>, "res", <<>>),
           Fn("fn", "main", <<Str("x")>>, "i32", <<>>)>>

MCPrograms ==
  Gen1!ProgramsOf(
    [k \in {"unit", "i32", "res", "control", "entry"} |->
       CASE k = "control" -> [prog |-> <<First("other"), Agent("res")>>, at |-> 2,
                              items |-> Control, length |-> ControlLength]
         [] k = "entry"   -> [prog |-> Entry, at |-> 3, length |-> 1,
                              items |-> {Do(Plain(Call("other", <<IdentArg("x")>>)))}]
         [] OTHER         -> [prog |-> <<First("other"), Agent(k)>>, at |-> 2,
                              items |-> Statements, length |-> BodyLength]])

==============================================================================
