------------------------------ MODULE Protocol ------------------------------
(***************************************************************************)
(* The messages between an editor and the language server, and what the    *)
(* server's parser (lsp/protocol.cpp) makes of their parameters: it counts *)
(* brackets without looking whether they stand in a string, and undoes only*)
(* some of the escapes of JSON.                                             *)
(***************************************************************************)
EXTENDS Integers, Sequences, FiniteSets

CONSTANTS
  Docs,     \* documents
  Texts     \* the texts the editor may have, as sequences of pieces

NoDoc  == "no document"
NoText == <<"no text">>

\* What matters in a text: a word; an opening and a closing bracket ({ [ and
\* } ]); a character that JSON writes as \u00..; the import of a package; an enum
\* with a variant that is no identifier; a declaration on whose check the process
\* dies, like a cost #$(llm:N) whose N std::stoul cannot convert, or types that
\* contain each other; and the digits left of an escape.
Pieces == {"word", "open", "close", "control", "import", "enum", "abort", "digits"}

ASSUME ProtocolAssumption == NoDoc \notin Docs /\ Texts \subseteq Seq(Pieces)

-----------------------------------------------------------------------------
(* Messages.                                                                *)

Texted  == {"textDocument/didOpen", "textDocument/didChange"}
Queries == {"textDocument/completion", "textDocument/hover"}
Handled == Texted \cup Queries \cup {"initialize", "shutdown"}
Unheard == {"initialized", "textDocument/didClose", "textDocument/diagnostic"}
Methods == Handled \cup Unheard \cup {"exit"}

\* `at' is the position of a query, as the number of a piece; a message is framed
\* if its header names the length the way read_message looks for it.
Message == [method : Methods, doc : Docs \cup {NoDoc}, text : Texts \cup {NoText},
            at : Nat, framed : BOOLEAN]

\* A reply to the message with number `to': a response, or the diagnostics that
\* follow a text.  `text' is the text it was computed from, and `found' whether
\* there was anything to say.
Reply == [to : Nat \ {0}, doc : Docs \cup {NoDoc}, text : Seq(Pieces) \cup {NoText},
          found : BOOLEAN]

\* The messages among the first k of s that gave d a text, and the last of them.
TextSaid(s, k, d) == {i \in 1..k : s[i].method \in Texted /\ s[i].doc = d}
LastSaid(s, k, d) ==
  CHOOSE i \in TextSaid(s, k, d) : \A j \in TextSaid(s, k, d) : j <= i

-----------------------------------------------------------------------------
(* How a text reaches the server.                                           *)

Count(text, k, piece) == Cardinality({i \in 1..k : text[i] = piece})
Depth(text, k) == Count(text, k, "open") - Count(text, k, "close")

\* extract_json_field of an object or array in which the text stands `depth'
\* brackets deep: it ends where the brackets balance, strings or not.
Extracted(text, depth) ==
  LET ends == {k \in DOMAIN text : depth + Depth(text, k) = 0}
  IN  IF ends = {} THEN text
      ELSE SubSeq(text, 1, CHOOSE k \in ends : \A j \in ends : k <= j)

\* Mutant of Parsed: the brackets are counted from the text on.
ParsedBare(method, text) == Extracted(text, 0)

\* parse_request takes out the parameters, parse_did_open the document and
\* parse_did_change the list of changes in them.
Parsed(method, text) ==
  IF method = "textDocument/didOpen" THEN Extracted(Extracted(text, 2), 1)
                                     ELSE Extracted(Extracted(text, 3), 2)

\* The unescaping drops the backslash and the u of an escape it does not know.
Unescaped(text) ==
  [i \in DOMAIN text |-> IF text[i] = "control" THEN "digits" ELSE text[i]]

Received ==
  [method \in Texted |-> [text \in Texts |-> Unescaped(Parsed(method, text))]]

\* Texts that arrive as they are: no escape of that kind, and no bracket that
\* closes what was not opened.
Survives(text) ==
  /\ \A i \in DOMAIN text : text[i] # "control"
  /\ \A k \in DOMAIN text : Depth(text, k) >= 0

==============================================================================
