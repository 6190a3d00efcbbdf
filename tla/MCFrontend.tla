----------------------------- MODULE MCFrontend -----------------------------
(***************************************************************************)
(* Programs written by the grammar, and the same with one slip of the pen. *)
(***************************************************************************)
EXTENDS Frontend, Grammar

MCNames == {"f", "g", "x", "y", "User", "Ok", "net", "io", "trc", "full", "AgtR", "inspect", "_"}

-----------------------------------------------------------------------------
\* Every form of expression, and the operators over each other.
X == Word("x")
One == Word("1i")
Simple  == {X, One, Called(Word("f"), <<X>>), Not(X)}
Small   == Simple \cup {Called(Word("f"), <<>>), Called(InModule("net", "g"), <<X, One>>),
                        Asked(X), Asked(Called(Word("f"), <<X>>)), Asked(Not(X)),
                        Dotted(X, "y"), Word("1b"), Word("text"), Word("1u")}
Sums    == {Operated(a, op, b) : a \in Small, op \in {<<"+">>, <<"-">>}, b \in {X, Asked(X)}}
LongSums == {Operated(a, op, b) : a \in Sums, op \in {<<"+">>, <<"-">>}, b \in {One}}
Compared == {Operated(a, op, b) : a \in {X, Operated(X, <<"+">>, One)},
                                  op \in {<<"<">>, <<">", "=">>},
                                  b \in {One, Operated(X, <<"-">>, Asked(X))}}
Equals   == {Operated(a, op, b) : a \in Compared \cup {X}, op \in {<<"=", "=">>, <<"!", "=">>},
                                  b \in Compared \cup {One}}
Exprs == Small \cup Sums \cup LongSums \cup Compared \cup Equals

\* Every form of statement.
I32 == Word("i32")
Correction == Form(<<"@correct", "{", "x", "}", "(", "y", ":", "x", ")", ";">>, <<"@correct">>)
Acts == {Binding("$", "x", Result(BoundedBy("1i"), Word("Ok")), X),
         Binding("~", "y", Generic("Map", <<I32, Generic("Tru", <<Word("Str")>>)>>), One),
         Inferred("~", "x", One), Assigned("x", One), FieldAssigned("x", "y", One),
         Branch(X, Block(<<Done(X)>>)),
         BranchElse(X, Block(<<Ending(Lifted(<<"^", "!">>, X))>>), Block(<<>>)),
         Loop("y", X, Block(<<Assigned("y", X)>>)),
         Matched(X, <<"Ok", "_">>, <<Block(<<Done(X)>>), Block(<<>>)>>),
         Done(Parallel(<<"x", "y">>, <<One, X>>)),
         Done(Messaged("@snd", <<X, One>>)), Done(Messaged("@rcv", <<X>>)),
         Done(Selecting("@budget", "inspect")), Done(Selecting("@mem", "x")),
         Form(<<"@spn", "User", ";">>, <<"@spn", "User">>),
         Form(<<"@syn", "!", ";">>, <<"@syn", "!">>),
         Correction}

\* Every form of annotation and declaration.
Head1 == Annotated(<<Intent, Flagged("!", <<"io", "net">>), Flagged("&", <<"net">>), Costing("g", "1i")>>)
Head2 == Annotated(<<Verified("x", Operated(X, <<">">>, One)), Confident("1f"), Retried("1i", "1i"),
                     Aimed, Foreign, Keyed("trc", "full"), Trusting("x")>>)
Bare  == Form(<<>>, <<>>)
Plain1 == Function(Bare, Signature("g", <<>>, UnitType), Block(<<Ending(Lifted(<<"^">>, X))>>))
Decls == {Plain1,
          Function(Head1, Signature("f", <<Param("$", "x", I32), Param("~", "y", Generic("Ch", <<Word("Ok")>>))>>,
                                    Result(UnitType, Word("Ok"))), Block(<<Done(X)>>)),
          External(Head2, Signature("f", <<Param("", "x", Generic("AgtR", <<Result(I32, Word("Ok"))>>))>>, I32)),
          Agent(Head1, "User", Function(Head2, Signature("g", <<>>, I32), Block(<<>>))),
          Struct("User", <<Param("", "x", I32), Param("", "y", BoundedBy("1i"))>>),
          Enum("Ok", <<Word("x"), Variant("y", I32), Word("g")>>)}

InF(ss) == Program(<<>>, <<Function(Bare, Signature("f", <<>>, I32), Block(ss))>>)
Programs ==
  {InF(<<Inferred("$", "y", e)>>) : e \in Exprs}
    \cup {InF(<<s, t, s>>) : s \in Acts, t \in {Assigned("x", One), Done(X)}}
    \cup {Program(<<>>, <<d, e>>) : d, e \in Decls}
    \cup {Program(ModuleImport("io", "g") \o PackageImport, <<Plain1>>)}

-----------------------------------------------------------------------------
\* Slips: a piece left out, put in or replaced.
Slips(s) ==
  {SubSeq(s, 1, k - 1) \o SubSeq(s, k + 1, Len(s)) : k \in DOMAIN s}
    \cup {SubSeq(s, 1, k - 1) \o <<p>> \o SubSeq(s, k, Len(s)) : k \in DOMAIN s, p \in {"{", "}", "fn"}}
    \cup {SubSeq(s, 1, k - 1) \o <<p>> \o SubSeq(s, k + 1, Len(s)) : k \in DOMAIN s, p \in {"}", ")", "ni"}}

Slipped ==
  {Program(<<>>, <<Function(Annotated(<<Intent, Flagged("&", <<"net">>)>>),
                            Signature("f", <<Param("", "x", I32)>>, Result(I32, Word("Ok"))),
                            Block(<<Inferred("$", "y", Asked(X)), Correction>>)), Plain1>>).text,
   Program(<<>>, <<Struct("User", <<Param("", "x", I32)>>), Enum("Ok", <<Word("x"), Variant("y", I32)>>),
                   Function(Bare, Signature("f", <<>>, I32),
                            Block(<<Matched(X, <<"Ok">>, <<Block(<<>>)>>)>>)), Plain1>>).text,
   Program(<<>>, <<Agent(Bare, "User", Function(Bare, Signature("g", <<>>, I32),
              Block(<<Done(Parallel(<<"x">>, <<One>>)), Form(<<"@correct", "{", "x", "}">>, <<>>)>>))),
                   Plain1>>).text}

Mistyped == UNION {Slips(s) : s \in Slipped}
Garbled  == {<<"fn", "%", "f", "(", ")", "/", "/", "x", "newline", "%">>, <<"fn", "%", ">">>,
             Annotated(<<Confident("x")>>).text \o Plain1.text,
             <<"@trace">> \o Annotated(<<Intent, Word(","), Word("f"), Word("g")>>).text \o Plain1.text,
             <<"@trace">> \o Intent.text \o Plain1.text}
MCSources == Programs \cup {[text |-> s, tree |-> <<>>] : s \in Mistyped \cup Garbled}

\* One source is enough to see what an import returns.
Importing == {Program(ModuleImport("io", "g") \o PackageImport, <<Plain1>>)}
=============================================================================
