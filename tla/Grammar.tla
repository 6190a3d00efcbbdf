------------------------------- MODULE Grammar -------------------------------
(***************************************************************************)
(* The language as its texts are written: each operator writes one form of *)
(* the language from its parts, and says which tree it stands for.  An     *)
(* operator groups by what its operands are, so the parts of a form must   *)
(* be of a kind that binds at least as tightly.                             *)
(***************************************************************************)
EXTENDS Sequences, SequencesExt

Form(text, tree) == [text |-> text, tree |-> tree]
Word(w) == Form(<<w>>, <<w>>)
Texts(fs) == FlattenSeq([i \in DOMAIN fs |-> fs[i].text])
Trees(fs) == FlattenSeq([i \in DOMAIN fs |-> fs[i].tree])

\* The forms one after the other, with the separator between their texts.
Listed(fs, sep) ==
  Form(FlattenSeq([i \in DOMAIN fs |-> IF i = 1 THEN fs[i].text ELSE sep \o fs[i].text]),
       Trees(fs))

-----------------------------------------------------------------------------
(* Expressions, from those that bind most tightly.                          *)

Called(f, args)    == Form(f.text \o <<"(">> \o Listed(args, <<",">>).text \o <<")">>,
                           f.tree \o Trees(args) \o <<"call">>)
InModule(m, f)     == Form(<<m, ":", ":", f>>, <<m, "::", f>>)
Not(e)             == Form(<<"!">> \o e.text, Append(e.tree, "!"))
Asked(e)           == Form(Append(e.text, "?"), Append(e.tree, "?"))
Dotted(e, m)       == Form(e.text \o <<".", m, "(", ")">>, e.tree \o <<m, ".">>)
\* = and == are the same operator.
Named(op) == IF Len(op) = 1 THEN op[1] ELSE IF op = <<"=", "=">> THEN "=" ELSE op[1] \o op[2]
Operated(a, op, b) == Form(a.text \o op \o b.text, Append(a.tree \o b.tree, Named(op)))
Lifted(up, e)      == Form(up \o <<"(">> \o e.text \o <<")">>,
                           Append(e.tree, IF Len(up) = 2 THEN "^!" ELSE "^"))
Messaged(word, es) == Form(<<word, "(">> \o Listed(es, <<",">>).text \o <<")">>,
                           Append(Trees(es), word))
Selecting(word, w) == Form(<<word, "(", w, ")">>, <<word, w>>)
Parallel(names, es) ==
  LET field(i) == Form(<<names[i], ":">> \o es[i].text, <<names[i]>> \o es[i].tree)
      fields == Listed([i \in DOMAIN es |-> field(i)], <<",">>)
  IN  Form(<<"@par", "{">> \o fields.text \o <<"}">>, <<"@par">> \o fields.tree)

-----------------------------------------------------------------------------
(* Types.  The closing brackets of nested types are kept apart.             *)

BoundedBy(n)      == Form(<<"Str", "<", n, ">", " ">>, <<"Str", n>>)
Generic(g, ts)    == Form(<<g, "<">> \o Listed(ts, <<",">>).text \o <<">", " ">>,
                          <<g>> \o Trees(ts))
Result(ok, err)   == Form(ok.text \o <<"?">> \o err.text, ok.tree \o err.tree \o <<"result">>)
UnitType          == Form(<<"(", ")">>, <<"()">>)

-----------------------------------------------------------------------------
(* Statements.                                                              *)

Block(ss) == Form(<<"{">> \o Texts(ss) \o <<"}">>, <<"{">> \o Trees(ss) \o <<"}">>)
Binding(sigil, x, t, e) ==
  Form(<<sigil, x, ":">> \o t.text \o <<"=">> \o e.text \o <<";">>,
       <<sigil, x>> \o t.tree \o e.tree)
Inferred(sigil, x, e) == Form(<<sigil, x, ":", "=">> \o e.text \o <<";">>,
                              <<sigil, x, ":=">> \o e.tree)
Assigned(x, e)       == Form(<<x, "=">> \o e.text \o <<";">>, <<"assign", x>> \o e.tree)
FieldAssigned(x, m, e) == Form(<<x, ".", m, "=">> \o e.text \o <<";">>,
                               <<"assign", x, m>> \o e.tree)
Done(e)              == Form(Append(e.text, ";"), e.tree)
Branch(e, yes)       == Form(<<"?", "(">> \o e.text \o <<")">> \o yes.text,
                             <<"?">> \o e.tree \o yes.tree)
BranchElse(e, yes, no) ==
  Form(Branch(e, yes).text \o <<":">> \o no.text, Branch(e, yes).tree \o <<"else">> \o no.tree)
Loop(x, e, body)     == Form(<<"@", "(", x, "<", "-">> \o e.text \o <<")">> \o body.text,
                             <<"@(", x>> \o e.tree \o body.tree)
\* The parser drops the arms.
Matched(e, patterns, arms) ==
  LET arm(i) == <<patterns[i], "=", ">">> \o arms[i].text
  IN  Form(<<">", ">", "(">> \o e.text \o <<")", "{">>
             \o FlattenSeq([i \in DOMAIN arms |-> arm(i)]) \o <<"}">>,
           <<">>">> \o e.tree)
Ending(e)            == Form(Append(e.text, ";"), <<"tail">> \o e.tree)

-----------------------------------------------------------------------------
(* Annotations and declarations.                                            *)

Intent            == Form(<<"#", ">", "text">>, <<"#>", "text">>)
Flagged(c, flags) == LET ws == [i \in DOMAIN flags |-> Word(flags[i])]
                     IN  Form(<<"#", c, "(">> \o Listed(ws, <<"|">>).text \o <<")">>,
                              <<IF c = "!" THEN "#!" ELSE "#&">> \o flags)
Costing(k, n)     == Form(<<"#", "$", "(", k, ":", n, ")">>, <<"#$", k, n>>)
Trusting(w)       == Form(<<"#", "~", "(", w, ")">>, <<"#~">>)
Verified(w, e)    == Form(<<"#", "@", "(", w, ":">> \o e.text \o <<")">>,
                          <<"#@", w>> \o e.tree)
Confident(n)      == Form(<<"#", "?", "(", n, ")">>, <<"#?", n>>)
Retried(n, m)     == Form(<<"#", "*", "(", n, ":", m, ")">>, <<"#*", n, m>>)
Aimed             == Form(<<"#", "^", "(", "text", ")">>, <<"#^", "text">>)
Foreign           == Form(<<"@ffi", "(", "text", ")">>, <<"@ffi", "text">>)
Keyed(k, w)       == Form(<<k, ":", w>>, <<k, w>>)
Annotated(as)     == Form(<<"#", "[">> \o Texts(as) \o <<"]">>, Trees(as))

Param(sigil, x, t) == Form((IF sigil = "" THEN <<>> ELSE <<sigil>>) \o <<x, ":">> \o t.text,
                           (IF sigil = "~" THEN <<"~">> ELSE <<>>) \o <<x>> \o t.tree)
Signature(f, ps, ret) ==
  Form(<<"fn", f, "(">> \o Listed(ps, <<",">>).text \o <<")", "-", ">">> \o ret.text,
       <<"fn", f>> \o Trees(ps) \o ret.tree)
Function(as, sig, body) == Form(as.text \o sig.text \o body.text, as.tree \o sig.tree \o body.tree)
External(as, sig)       == Form(as.text \o sig.text \o <<";">>,
                                as.tree \o sig.tree \o <<"extern">>)
Agent(as, a, fn)        == Form(as.text \o <<"Agt", a, "{">> \o fn.text \o <<"}">>,
                                as.tree \o <<"Agt", a>> \o fn.tree)
Struct(s, ps)           == Form(<<"Dat", s, "{">> \o Listed(ps, <<";">>).text \o <<";", "}">>,
                                <<"Dat", s>> \o Trees(ps))
Enum(s, vs)             == Form(<<"Enm", s, "{">> \o Listed(vs, <<",">>).text \o <<"}">>,
                                <<"Enm", s>> \o Trees(vs))
Variant(v, t)           == Form(<<v, "(">> \o t.text \o <<")">>, <<v>> \o t.tree)

\* Programs are imports and declarations; only these have a tree.
ModuleImport(m, f) == <<"+", ">", m, ":", ":", f, ";">>
PackageImport      == <<"+", ">", "text", ";">>
Program(imports, ds) == [text |-> imports \o Texts(ds), tree |-> [i \in DOMAIN ds |-> ds[i].tree]]

==============================================================================
