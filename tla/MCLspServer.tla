----------------------------- MODULE MCLspServer -----------------------------
(***************************************************************************)
(* Two documents and the messages of a short session.                      *)
(***************************************************************************)
EXTENDS LspServer

MCDocs == {"a", "b"}

\* A word; a text with brackets; one that closes what was not opened, twice; an
\* escape; an import; an enum the parser does not get over; a cost out of range.
MCTexts == {<<"word">>, <<"open", "word", "close">>, <<"close", "close", "word">>,
            <<"control">>, <<"word", "import">>, <<"enum">>, <<"abort">>}

Plain(method) == [method |-> method, doc |-> NoDoc, text |-> NoText, at |-> 0, framed |-> TRUE]
About(method, d, t, n) ==
  [method |-> method, doc |-> d, text |-> t, at |-> n, framed |-> TRUE]

\* Changes and queries of the first document, with the second one beside it.
MCSayings ==
  {Plain(m) : m \in {"initialize", "shutdown", "exit"}}
    \cup {About("textDocument/didOpen", "a", t, 0) :
            t \in {<<"word">>, <<"close", "close", "word">>, <<"word", "import">>}}
    \cup {About("textDocument/didChange", "a", t, 0) :
            t \in MCTexts \ {<<"word">>, <<"word", "import">>}}
    \cup {About("textDocument/didOpen", "b", <<"word">>, 0),
          About("textDocument/hover", "a", NoText, 1),
          About("textDocument/completion", "a", NoText, 0),
          About("textDocument/hover", "b", NoText, 2),
          About("textDocument/didClose", "a", NoText, 0),
          About("textDocument/diagnostic", "a", NoText, 0),
          [Plain("shutdown") EXCEPT !.framed = FALSE]}

==============================================================================
