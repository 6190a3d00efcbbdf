---------------------------- MODULE Conversation ----------------------------
(***************************************************************************)
(* What the language server promises an editor, without documents, loop or *)
(* pipes: the messages that call for a reply get theirs in order, none     *)
(* left out and none twice, and a reply about a document is about the text *)
(* the editor had when it sent the message.                                *)
(***************************************************************************)
EXTENDS Protocol

VARIABLES
  said,     \* everything the editor has written, in order
  replies   \* everything the server has replied, in order

LastAnswered == IF replies = <<>> THEN 0 ELSE replies[Len(replies)].to

\* r replies to the first message that waits for a reply, and is about the last
\* text its document was given, or about the empty text where it was given none.
\* Texts the parser of the messages cannot bring over are left open.
Answers(r) ==
  /\ r.to \in LastAnswered + 1 .. Len(said)
  /\ said[r.to].method \in Handled
  /\ \A i \in LastAnswered + 1 .. r.to - 1 : said[i].method \notin Handled
  /\ r.doc = said[r.to].doc
  /\ said[r.to].method \in Texted \cup Queries /\ TextSaid(said, r.to, r.doc) # {} =>
       LET text == said[LastSaid(said, r.to, r.doc)].text
       IN  Survives(text) => r.text = text
  /\ said[r.to].method \in Queries /\ TextSaid(said, r.to, r.doc) = {} => r.text = <<>>

Init == said = <<>> /\ replies = <<>>

Say == /\ Len(said') = Len(said) + 1
       /\ said' = Append(said, said'[Len(said')])
       /\ UNCHANGED replies

Answer == /\ Len(replies') = Len(replies) + 1
          /\ replies' = Append(replies, replies'[Len(replies')])
          /\ Answers(replies'[Len(replies')])
          /\ UNCHANGED said

Next == Say \/ Answer

Spec == Init /\ [][Next]_<<said, replies>>

==============================================================================
