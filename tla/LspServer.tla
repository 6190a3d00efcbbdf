------------------------------ MODULE LspServer ------------------------------
(***************************************************************************)
(* The language server (lsp/lsp_server.cpp) between two pipes, and an      *)
(* editor at their other ends: it initializes first, changes and closes    *)
(* what it has opened, asks about any document, and says exit last.  A     *)
(* message is read, handled and answered before the next is read; the      *)
(* editor sends on without waiting.                                         *)
(***************************************************************************)
EXTENDS Protocol

CONSTANT MaxMessages   \* bound on the messages of the editor

ASSUME MaxMessagesAssumption == MaxMessages \in Nat

VARIABLES
  said,       \* everything the editor has written into std::cin
  heard,      \* how many messages of it the server has read
  closed,     \* the editor has closed its end: it is gone
  documents,  \* documents_; NoText for a document that is not in it
  output,     \* everything the server has written to std::cout
  shown,      \* how many messages of it the editor has read
  server,     \* serving, checking (a text, for ever) or stopped
  lost        \* the editor has met something that is no message

vars == <<said, heard, closed, documents, output, shown, server, lost>>
serverVars == <<heard, documents, output, server>>
editorVars == <<said, closed, shown, lost>>

\* A message of the server: a reply, and whether something else was printed into
\* the stream before its header.
Written == [reply : Reply, noisy : BOOLEAN]

-----------------------------------------------------------------------------
(* The editor (external: what the extension's LanguageClient does).         *)

Last(method, d) ==
  LET s == {i \in DOMAIN said : said[i].method \in method /\ said[i].doc = d}
  IN  IF s = {} THEN 0 ELSE CHOOSE i \in s : \A j \in s : j <= i

Opened(d) == Last({"textDocument/didOpen"}, d) > Last({"textDocument/didClose"}, d)
SaidSo(method) == \E i \in DOMAIN said : said[i].method = method
Initialized == \E i \in 1..shown : said[output[i].reply.to].method = "initialize"

\* What the editor may send next.  A query may be about a document that is open,
\* closed, or was never opened.
MaySay(m) ==
  /\ ~SaidSo("exit")
  /\ m.method = "initialize" => said = <<>>
  /\ m.method \notin {"initialize", "exit"} => Initialized /\ ~SaidSo("shutdown")
  /\ (m.doc = NoDoc) = (m.method \in {"initialize", "initialized", "shutdown", "exit"})
  /\ (m.text # NoText) = (m.method \in Texted)
  /\ m.at # 0 => m.method \in Queries
  /\ m.method = "textDocument/didOpen" => ~Opened(m.doc)
  /\ m.doc # NoDoc => Opened(m.doc) \/ m.method \in Queries \cup {"textDocument/didOpen"}

Say(m) ==
  /\ ~closed /\ ~lost /\ Len(said) < MaxMessages
  /\ MaySay(m)
  /\ said' = Append(said, m)
  /\ UNCHANGED <<closed, shown, lost, serverVars>>

\* The editor ends, or dies, at any time.
Close ==
  /\ ~closed
  /\ closed' = TRUE
  /\ UNCHANGED <<said, shown, lost, serverVars>>

\* The editor reads the next message of the server.  Noise before a header is
\* no header it knows, and it gives the connection up.
Receive ==
  /\ ~closed /\ ~lost /\ shown < Len(output)
  /\ shown' = shown + 1
  /\ lost' = output[shown + 1].noisy
  /\ UNCHANGED <<said, closed, serverVars>>

-----------------------------------------------------------------------------
(* The server.                                                              *)

\* LspServer::run and read_message: the next message, if it is framed.
Read(m) ==
  /\ server = "serving" /\ m.framed
  /\ heard' = heard + 1
  /\ UNCHANGED editorVars

\* Mutant of Send: the reply carries the id of the message before.
SendPrevious(m, text, found, noisy) ==
  output' = Append(output,
    [reply |-> [to |-> heard, doc |-> m.doc, text |-> text, found |-> found],
     noisy |-> noisy])

\* send_response and send_notification: written and flushed.
Send(m, text, found, noisy) ==
  output' = Append(output,
    [reply |-> [to |-> heard + 1, doc |-> m.doc, text |-> text, found |-> found],
     noisy |-> noisy])

HandleInitialize(m) ==
  /\ Read(m) /\ m.method = "initialize"
  /\ Send(m, NoText, TRUE, FALSE)
  /\ UNCHANGED <<documents, server>>

\* handle: `initialized' is a no-op, and a method it does not know is ignored,
\* be it a notification or a request.
IgnoreMessage(m) ==
  /\ Read(m) /\ m.method \in Unheard
  /\ UNCHANGED <<documents, output, server>>

\* DiagnosticsEngine::check lexes, parses and checks the text: the parser may
\* never end on an enum, the package manager that it calls for an import prints to
\* std::cout, and the checker may throw what nobody catches, or run out of stack.
Endless(text) == \E i \in DOMAIN text : text[i] = "enum"
Imports(text) == \E i \in DOMAIN text : text[i] = "import"
Aborts(text)  == \E i \in DOMAIN text : text[i] = "abort"

\* The process dies in the check: what it has printed, but not flushed, is lost.
DieChecking == server' = "stopped" /\ UNCHANGED output

\* Mutant of PublishDiagnostics: the text before the one that came in is checked.
PublishPrevious(m, text) ==
  \/ Endless(text) /\ server' = "checking" /\ UNCHANGED output
  \/ ~Endless(text) /\ Aborts(text) /\ DieChecking
  \/ /\ ~Endless(text)
     /\ Send(m, IF documents[m.doc] = NoText THEN text ELSE documents[m.doc],
             TRUE, Imports(text))
     /\ UNCHANGED server

\* publish_diagnostics.  An error elsewhere in the text may end the check before
\* it comes to the declaration that would have it die.
PublishDiagnostics(m, text) ==
  \/ Endless(text) /\ server' = "checking" /\ UNCHANGED output
  \/ ~Endless(text) /\ Aborts(text) /\ DieChecking
  \/ ~Endless(text) /\ Send(m, text, TRUE, Imports(text)) /\ UNCHANGED server

\* handle_did_open and handle_did_change.
HandleText(m) ==
  /\ Read(m) /\ m.method \in Texted
  /\ documents' = [documents EXCEPT ![m.doc] = Received[m.method][m.text]]
  /\ PublishDiagnostics(m, Received[m.method][m.text])

\* documents_[uri]: an empty text is entered for a document that is not there.
Source(d) == IF documents[d] = NoText THEN <<>> ELSE documents[d]

\* Whether the cursor stands on something hover knows: get_annotation_docs and
\* the other texts, "null" where there is none.
Hovers(text, at) == at \in DOMAIN text /\ text[at] = "word"

\* Mutant of HandleQuery: a hover that finds nothing sends nothing.
HandleQueryFound(m) ==
  /\ Read(m) /\ m.method \in Queries
  /\ documents' = [documents EXCEPT ![m.doc] = Source(m.doc)]
  /\ IF m.method = "textDocument/completion" \/ Hovers(Source(m.doc), m.at)
     THEN Send(m, Source(m.doc), TRUE, FALSE)
     ELSE UNCHANGED output
  /\ UNCHANGED server

\* handle_completion and handle_hover.
HandleQuery(m) ==
  /\ Read(m) /\ m.method \in Queries
  /\ documents' = [documents EXCEPT ![m.doc] = Source(m.doc)]
  /\ Send(m, Source(m.doc),
          m.method = "textDocument/completion" \/ Hovers(Source(m.doc), m.at), FALSE)
  /\ UNCHANGED server

\* Mutant of HandleShutdown: the server stops once it has answered.
HandleShutdownStop(m) ==
  /\ Read(m) /\ m.method = "shutdown"
  /\ Send(m, NoText, FALSE, FALSE)
  /\ server' = "stopped"
  /\ UNCHANGED documents

\* handle of `shutdown': the server answers, and keeps serving.
HandleShutdown(m) ==
  /\ Read(m) /\ m.method = "shutdown"
  /\ Send(m, NoText, FALSE, FALSE)
  /\ UNCHANGED <<documents, server>>

\* handle of `exit'.
HandleExit(m) ==
  /\ Read(m) /\ m.method = "exit"
  /\ server' = "stopped"
  /\ UNCHANGED <<documents, output>>

\* Mutant of StopReading: the end of the input is read again and again.
StopReadingUnframed ==
  /\ server = "serving"
  /\ IF heard < Len(said) THEN ~said[heard + 1].framed /\ server' = "stopped"
                          ELSE closed /\ UNCHANGED server
  /\ UNCHANGED <<heard, documents, output, editorVars>>

\* A header without a length, or the end of the input, reads as the empty
\* message, which ends the loop; a length that is no number ends the process.
StopReading ==
  /\ server = "serving"
  /\ IF heard < Len(said) THEN ~said[heard + 1].framed ELSE closed
  /\ server' = "stopped"
  /\ UNCHANGED <<heard, documents, output, editorVars>>

\* The parser that goes on reports the same error again and again, until memory
\* runs out.
RunOut ==
  /\ server = "checking"
  /\ server' = "stopped"
  /\ UNCHANGED <<heard, documents, output, editorVars>>

\* LspServer::handle.
Handle(m) == \/ HandleInitialize(m) \/ IgnoreMessage(m) \/ HandleText(m)
             \/ HandleQuery(m) \/ HandleShutdown(m) \/ HandleExit(m)

Serve == \/ heard < Len(said) /\ Handle(said[heard + 1])
         \/ StopReading \/ RunOut

-----------------------------------------------------------------------------
Init ==
  /\ said = <<>> /\ heard = 0 /\ closed = FALSE
  /\ documents = [d \in Docs |-> NoText]
  /\ output = <<>> /\ shown = 0
  /\ server = "serving" /\ lost = FALSE

CONSTANT Sayings   \* the messages the editor chooses from

ASSUME SayingsAssumption == Sayings \subseteq Message

Edit == \/ \E m \in Sayings : Say(m)
        \/ Close \/ Receive

\* Nobody is left.
Over == closed /\ server = "stopped" /\ UNCHANGED vars

Next == Edit \/ Serve \/ Over

Spec == Init /\ [][Next]_vars

\* The loop goes on as long as there is something to read, and the editor reads
\* what it is sent; that it sends anything, or ends, is up to it.
FairSpec == Spec /\ WF_vars(Serve) /\ WF_vars(Receive)

-----------------------------------------------------------------------------
(* Properties.                                                              *)

\* The types of the variables.
LspTypeOK ==
  /\ said \in Seq(Message) /\ Len(said) <= MaxMessages
  /\ heard \in 0..Len(said)
  /\ closed \in BOOLEAN /\ lost \in BOOLEAN
  /\ documents \in [Docs -> Seq(Pieces) \cup {NoText}]
  /\ output \in Seq(Written)
  /\ shown \in 0..Len(output)
  /\ server \in {"serving", "checking", "stopped"}

\* The conversation the editor sees: every reply is that of the next message
\* waiting for one, and about the text the editor had when it sent that message,
\* whatever it has typed, opened or closed meanwhile.  A closed document keeps its
\* last text, and one that never had a text is answered as an empty one.
C == INSTANCE Conversation WITH replies <- [i \in DOMAIN output |-> output[i].reply]
ConversationKept == C!Spec

\* When nothing is under way, the diagnostics an editor shows for a document are
\* those of its present text: no diagnostics of an older one came after them.
\* What they say of a text that does not survive the way is left open.
FreshWhenQuiet ==
  server = "serving" /\ heard = Len(said) /\ shown = Len(output) /\ ~lost =>
    \A d \in Docs : TextSaid(said, heard, d) # {} =>
      LET k == LastSaid(said, heard, d)
      IN  \E i \in 1..shown :
            /\ output[i].reply.to = k
            /\ Survives(said[k].text) => output[i].reply.text = said[k].text
            /\ \A j \in i + 1 .. shown : ~(/\ output[j].reply.doc = d
                                          /\ said[output[j].reply.to].method \in Texted)

\* The service ends for a reason only: the server stops when it is told to, when
\* the input is over or not framed, or on a text whose check does not end or kills
\* the process (std::stoul of rules.cpp:49 throws on a number out of its range, and
\* neither check nor publish_diagnostics nor the loop catches it); and the editor
\* loses it over a text with an import only.
EndsForAReason ==
  /\ server = "stopped" =>
       \/ closed
       \/ heard < Len(said) /\ ~said[heard + 1].framed
       \/ heard > 0 /\ said[heard].method = "exit"
       \/ /\ heard > 0 /\ said[heard].method \in Texted
          /\ Endless(said[heard].text) \/ Aborts(said[heard].text)
  /\ lost => said[output[shown].reply.to].method \in Texted
                /\ Imports(said[output[shown].reply.to].text)

\* Every message that calls for a reply gets one, and the editor reads it, unless
\* one of the two has ended the conversation: also a hover over nothing, a query
\* for a document that is closed or was never opened, and a request sent before an
\* earlier one is answered.
\* (Requests of methods the server does not know are not among them.)
RepliesArrive ==
  \A k \in 1..MaxMessages :
    (k <= Len(said) /\ said[k].method \in Handled)
      ~> \/ \E i \in 1..shown : output[i].reply.to = k
         \/ closed \/ lost
         \/ server = "stopped" /\ \A i \in DOMAIN output : output[i].reply.to < k

\* A server whose editor is gone ends too, whatever was left in the pipe.
NoOrphan == closed ~> server = "stopped"

==============================================================================
