--------------------------- MODULE LspServerProofs ---------------------------
(***************************************************************************)
(* Proofs about the language server, for every set of documents and texts, *)
(* every choice of messages and every length of the session: its types,    *)
(* and that the conversation the editor sees is the one it is promised.     *)
(***************************************************************************)
EXTENDS LspServer, SetLemmas, TLAPS

-----------------------------------------------------------------------------
(* How a text reaches the server.                                           *)

\* The brackets in the beginning of a text are counted by natural numbers.
LEMMA CountNat ==
  ASSUME NEW text, NEW k \in Nat, NEW piece
  PROVE  Count(text, k, piece) \in Nat
<1> DEFINE S == {i \in 1..k : text[i] = piece}
<1>1. IsFiniteSet(1..k) /\ S \in SUBSET (1..k)
  BY FS_Interval
<1>2. IsFiniteSet(S)
  BY <1>1, FS_Subset
<1> QED BY <1>2, FS_CardinalityType DEF Count

\* What is taken out of a text is a text.
LEMMA ExtractedText ==
  ASSUME NEW text \in Seq(Pieces), NEW depth
  PROVE  Extracted(text, depth) \in Seq(Pieces)
<1> DEFINE ends == {k \in DOMAIN text : depth + Depth(text, k) = 0}
           end  == CHOOSE k \in ends : \A j \in ends : k <= j
<1>1. CASE ends = {}
  BY <1>1 DEF Extracted
<1>2. CASE ends # {}
  <2>1. Len(text) \in Nat /\ ends \in SUBSET (1..Len(text))
    OBVIOUS
  <2>2. end \in ends
    <3> HIDE DEF ends
    <3> QED BY <1>2, <2>1, LeastPosition
  <2>3. end \in 1..Len(text)
    BY <2>1, <2>2
  <2>4. SubSeq(text, 1, end) \in Seq(Pieces)
    <3> HIDE DEF end, ends
    <3> QED BY <2>3
  <2> QED BY <1>2, <2>4 DEF Extracted
<1> QED BY <1>1, <1>2

\* Whatever the parser of the messages makes of a text, it is a text.
LEMMA ReceivedText ==
  ASSUME NEW method \in Texted, NEW text \in Texts
  PROVE  Received[method][text] \in Seq(Pieces)
<1>1. text \in Seq(Pieces)
  BY ProtocolAssumption
<1>2. Parsed(method, text) \in Seq(Pieces)
  BY <1>1, ExtractedText DEF Parsed
<1>3. ASSUME NEW t \in Seq(Pieces)
      PROVE  Unescaped(t) \in Seq(Pieces)
  <2>1. \A i \in 1..Len(t) : t[i] \in Pieces
    OBVIOUS
  <2>2. Unescaped(t) = [i \in 1..Len(t) |-> IF t[i] = "control" THEN "digits" ELSE t[i]]
    BY DEF Unescaped
  <2>3. Unescaped(t) \in [1..Len(t) -> Pieces]
    BY <2>1, <2>2 DEF Pieces
  <2> QED BY <2>3
<1> QED BY <1>2, <1>3 DEF Received

\* A text without an escape of that kind and without a bracket that closes what
\* was not opened arrives as it is.
LEMMA SurvivesArrives ==
  ASSUME NEW method \in Texted, NEW text \in Texts, Survives(text)
  PROVE  Received[method][text] = text
<1>1. text \in Seq(Pieces)
  BY ProtocolAssumption
<1>2. ASSUME NEW depth \in Nat \ {0}
      PROVE  Extracted(text, depth) = text
  <2>1. ASSUME NEW k \in DOMAIN text
        PROVE  depth + Depth(text, k) # 0
    <3>1. k \in Nat
      BY <1>1
    <3>2. Depth(text, k) >= 0
      BY DEF Survives
    <3>3. Count(text, k, "open") \in Nat /\ Count(text, k, "close") \in Nat
      BY <3>1, CountNat
    <3>4. Depth(text, k) \in Int
      BY <3>3 DEF Depth
    <3> QED BY <3>2, <3>4
  <2> QED BY <2>1 DEF Extracted
<1>3. Parsed(method, text) = text
  BY <1>2 DEF Parsed
<1>4. Unescaped(text) = text
  <2>1. text = [i \in DOMAIN text |-> text[i]]
    BY <1>1
  <2>2. \A i \in DOMAIN text : text[i] # "control"
    BY DEF Survives
  <2> QED BY <2>1, <2>2 DEF Unescaped
<1> QED BY <1>3, <1>4 DEF Received

-----------------------------------------------------------------------------
(* The texts a conversation gave a document.                                *)

\* What is said later does not change what was heard.
LEMMA TextSaidAppend ==
  ASSUME NEW s \in Seq(Message), NEW m \in Message, NEW k \in 0..Len(s), NEW d
  PROVE  /\ TextSaid(Append(s, m), k, d) = TextSaid(s, k, d)
         /\ LastSaid(Append(s, m), k, d) = LastSaid(s, k, d)
<1>1. \A i \in 1..k : Append(s, m)[i] = s[i]
  OBVIOUS
<1>2. TextSaid(Append(s, m), k, d) = TextSaid(s, k, d)
  BY <1>1 DEF TextSaid
<1> QED BY <1>2 DEF LastSaid

\* The last text of a document is one of them, and the last.
LEMMA LastSaidIs ==
  ASSUME NEW s \in Seq(Message), NEW k \in 0..Len(s), NEW d, TextSaid(s, k, d) # {}
  PROVE  /\ LastSaid(s, k, d) \in TextSaid(s, k, d)
         /\ LastSaid(s, k, d) \in 1..k
         /\ \A j \in TextSaid(s, k, d) : j <= LastSaid(s, k, d)
<1>1. k \in Nat /\ TextSaid(s, k, d) \in SUBSET (1..k)
  BY DEF TextSaid
<1>2. /\ LastSaid(s, k, d) \in TextSaid(s, k, d)
      /\ \A j \in TextSaid(s, k, d) : j <= LastSaid(s, k, d)
  BY <1>1, GreatestPosition DEF LastSaid
<1> QED BY <1>1, <1>2

\* A message that gives d no text leaves its texts as they were.
LEMMA TextSaidOther ==
  ASSUME NEW s \in Seq(Message), NEW k \in 0..Len(s), k < Len(s), NEW d,
         ~(s[k + 1].method \in Texted /\ s[k + 1].doc = d)
  PROVE  /\ TextSaid(s, k + 1, d) = TextSaid(s, k, d)
         /\ LastSaid(s, k + 1, d) = LastSaid(s, k, d)
<1>1. 1..(k + 1) = (1..k) \cup {k + 1}
  OBVIOUS
<1>2. TextSaid(s, k + 1, d) = TextSaid(s, k, d)
  BY <1>1 DEF TextSaid
<1> QED BY <1>2 DEF LastSaid

\* A message that gives d a text is the last one that does.
LEMMA TextSaidSame ==
  ASSUME NEW s \in Seq(Message), NEW k \in 0..Len(s), k < Len(s), NEW d,
         s[k + 1].method \in Texted, s[k + 1].doc = d
  PROVE  /\ TextSaid(s, k + 1, d) # {}
         /\ LastSaid(s, k + 1, d) = k + 1
<1>1. k + 1 \in 0..Len(s) /\ k + 1 \in 1..(k + 1)
  OBVIOUS
<1>2. k + 1 \in TextSaid(s, k + 1, d)
  BY <1>1 DEF TextSaid
<1>3. LastSaid(s, k + 1, d) \in 1..(k + 1) /\ k + 1 <= LastSaid(s, k + 1, d)
  BY <1>1, <1>2, LastSaidIs
<1> QED BY <1>1, <1>2, <1>3

-----------------------------------------------------------------------------
(* The inductive invariant.                                                 *)

\* A message that gives a text, or asks about one, names a document.
WellSaid ==
  \A i \in DOMAIN said :
    /\ said[i].method \in Texted => said[i].text \in Texts
    /\ said[i].method \in Texted \cup Queries => said[i].doc \in Docs

\* The document table holds the last text heard of each document, and no text, or
\* the empty one, of a document that was given none.
DocumentsKept ==
  \A d \in Docs :
    /\ TextSaid(said, heard, d) # {} /\ Survives(said[LastSaid(said, heard, d)].text)
         => documents[d] = said[LastSaid(said, heard, d)].text
    /\ TextSaid(said, heard, d) = {} => documents[d] \in {NoText, <<>>}

\* Replies are in the order of the messages they answer, each about the document
\* and, for a text, about the text of its message.
RepliesOrdered ==
  /\ \A i, j \in DOMAIN output : i < j => output[i].reply.to < output[j].reply.to
  /\ \A i \in DOMAIN output :
       LET r == output[i].reply
       IN  /\ r.to <= heard
           /\ said[r.to].method \in Handled
           /\ r.doc = said[r.to].doc
           /\ said[r.to].method \in Texted /\ Survives(said[r.to].text)
                => r.text = said[r.to].text

\* As long as it serves, the server owes no reply.
NothingOwed ==
  server = "serving" =>
    \A k \in 1..heard : said[k].method \in Handled =>
      \E i \in DOMAIN output : output[i].reply.to = k

LspInv == LspTypeOK /\ WellSaid /\ DocumentsKept /\ RepliesOrdered /\ NothingOwed

\* The text NoText stands for none: it is no sequence of pieces.
LEMMA NoTextIsNone == NoText \notin Seq(Pieces)
<1>1. ASSUME NEW s \in Seq(Pieces), 1 \in 1..Len(s)
      PROVE  s[1] \in Pieces
  BY <1>1
<1>2. 1 \in 1..Len(NoText) /\ NoText[1] = "no text"
  BY DEF NoText
<1>3. "no text" \notin Pieces
  BY DEF Pieces
<1> QED BY <1>1, <1>2, <1>3

\* It holds before anything is said.
LEMMA LspInit == Init => LspInv
<1> SUFFICES ASSUME Init
             PROVE  LspInv
  OBVIOUS
<1>1. said = <<>> /\ Len(said) = 0 /\ DOMAIN said = {} /\ output = <<>> /\ DOMAIN output = {}
  BY DEF Init
<1>2. LspTypeOK
  <2>1. said \in Seq(Message) /\ output \in Seq(Written) /\ Len(output) = 0
    BY <1>1
  <2>2. documents \in [Docs -> Seq(Pieces) \cup {NoText}]
    BY DEF Init
  <2>3. Len(said) <= MaxMessages /\ heard \in 0..Len(said)
    BY <1>1, MaxMessagesAssumption DEF Init
  <2> QED BY <2>1, <2>2, <2>3 DEF Init, LspTypeOK
<1>3. WellSaid /\ RepliesOrdered
  BY <1>1 DEF WellSaid, RepliesOrdered
<1>4. \A d : TextSaid(said, heard, d) = {}
  BY DEF Init, TextSaid
<1>5. DocumentsKept
  BY <1>4 DEF Init, DocumentsKept
<1>6. NothingOwed
  BY DEF Init, NothingOwed
<1> QED BY <1>2, <1>3, <1>5, <1>6 DEF LspInv

\* The next message to read, and what the server knows of it.
LEMMA NextMessage ==
  ASSUME LspInv, heard < Len(said), NEW m, m = said[heard + 1]
  PROVE  /\ heard \in Nat /\ heard + 1 \in DOMAIN said /\ heard + 1 \in 0..Len(said)
         /\ m \in Message
         /\ m.method \in Texted => m.text \in Texts
         /\ m.method \in Texted \cup Queries => m.doc \in Docs
<1>1. heard \in Nat /\ heard + 1 \in 1..Len(said) /\ said \in Seq(Message)
  BY DEF LspInv, LspTypeOK
<1>2. m \in Message
  BY <1>1
<1> QED BY <1>1, <1>2 DEF LspInv, WellSaid

\* A step that reads a message and replies keeps the replies in order.
LEMMA ReplyKeeps ==
  ASSUME LspInv, heard < Len(said), NEW m, m = said[heard + 1], Read(m),
         m.method \in Handled,
         NEW text \in Seq(Pieces) \cup {NoText}, NEW found \in BOOLEAN,
         NEW noisy \in BOOLEAN, Send(m, text, found, noisy),
         m.method \in Texted /\ Survives(m.text) => text = m.text
  PROVE  /\ output' \in Seq(Written) /\ Len(output') = Len(output) + 1
         /\ RepliesOrdered' /\ NothingOwed'
<1> DEFINE r == [to |-> heard + 1, doc |-> m.doc, text |-> text, found |-> found]
           n == Len(output) + 1
<1>1. /\ heard \in Nat /\ m \in Message /\ heard' = heard + 1 /\ said' = said
      /\ output \in Seq(Written) /\ server = "serving"
  BY NextMessage DEF LspInv, LspTypeOK, Read, editorVars
<1>2. output' = Append(output, [reply |-> r, noisy |-> noisy])
  BY DEF Send
<1>3. [reply |-> r, noisy |-> noisy] \in Written
  <2>1. heard + 1 \in Nat \ {0} /\ m.doc \in Docs \cup {NoDoc}
    BY <1>1 DEF Message
  <2>2. r \in Reply
    BY <2>1 DEF Reply
  <2> HIDE DEF r
  <2> QED BY <2>2 DEF Written
<1>4. /\ output' \in Seq(Written) /\ Len(output') = n /\ n \in Nat
      /\ DOMAIN output' = (DOMAIN output) \cup {n} /\ DOMAIN output' \in SUBSET Nat
      /\ \A i \in DOMAIN output : output'[i] = output[i] /\ i < n
      /\ output'[n].reply = r
  <2> HIDE DEF r
  <2>1. output' \in Seq(Written) /\ Len(output') = n /\ n \in Nat
    BY <1>1, <1>2, <1>3
  <2>2. output'[n] = [reply |-> r, noisy |-> noisy]
    BY <1>1, <1>2
  <2>3. DOMAIN output' = 1..n /\ DOMAIN output = 1..Len(output)
    BY <2>1, <1>1
  <2>4. \A i \in 1..Len(output) : output'[i] = output[i] /\ i < n
    BY <1>1, <1>2
  <2> QED BY <1>1, <2>1, <2>2, <2>3, <2>4
<1>5. \A i \in DOMAIN output : output[i].reply.to <= heard /\ output[i].reply.to \in Nat
  <2>1. SUFFICES ASSUME NEW i \in DOMAIN output
                 PROVE  output[i].reply.to <= heard /\ output[i].reply.to \in Nat
    OBVIOUS
  <2>2. output[i].reply.to <= heard
    BY DEF LspInv, RepliesOrdered
  <2>3. output[i] \in Written
    BY <1>1
  <2> QED BY <2>2, <2>3 DEF Written, Reply
<1>6. RepliesOrdered'
  <2>1. ASSUME NEW i \in DOMAIN output', NEW j \in DOMAIN output', i < j
        PROVE  output'[i].reply.to < output'[j].reply.to
    <3>1. CASE j = n
      <4>1. i \in DOMAIN output
        BY <1>4, <2>1, <3>1
      <4> QED BY <1>1, <1>4, <1>5, <3>1, <4>1
    <3>2. CASE j # n
      <4>1. j \in DOMAIN output /\ i # n
        <5>1. j \in DOMAIN output
          BY <1>4, <3>2
        <5>2. j < n /\ i \in Nat /\ j \in Nat /\ n \in Nat
          BY <1>4, <5>1
        <5> QED BY <2>1, <5>1, <5>2
      <4>2. i \in DOMAIN output
        BY <1>4, <4>1
      <4> QED BY <1>4, <2>1, <4>1, <4>2 DEF LspInv, RepliesOrdered
    <3> QED BY <3>1, <3>2
  <2>2. ASSUME NEW i \in DOMAIN output'
        PROVE  LET q == output'[i].reply
               IN  /\ q.to <= heard'
                   /\ said'[q.to].method \in Handled
                   /\ q.doc = said'[q.to].doc
                   /\ said'[q.to].method \in Texted /\ Survives(said'[q.to].text)
                        => q.text = said'[q.to].text
    <3>1. CASE i = n
      BY <1>1, <1>4, <3>1
    <3>2. CASE i # n
      <4>1. i \in DOMAIN output /\ output'[i] = output[i]
        BY <1>4, <3>2
      <4>2. output[i].reply.to <= heard + 1
        BY <1>1, <1>5, <4>1
      <4> QED BY <1>1, <4>1, <4>2 DEF LspInv, RepliesOrdered
    <3> QED BY <3>1, <3>2
  <2> QED BY <2>1, <2>2 DEF RepliesOrdered
<1>7. NothingOwed'
  <2>1. SUFFICES ASSUME NEW k \in 1..(heard + 1), said[k].method \in Handled
                 PROVE  \E i \in DOMAIN output' : output'[i].reply.to = k
    BY <1>1 DEF NothingOwed
  <2>2. CASE k = heard + 1
    BY <1>4, <2>2
  <2>3. CASE k # heard + 1
    <3>1. k \in 1..heard
      BY <1>1, <2>3
    <3>2. PICK i \in DOMAIN output : output[i].reply.to = k
      BY <1>1, <2>1, <3>1 DEF LspInv, NothingOwed
    <3> QED BY <1>4, <3>2
  <2> QED BY <2>2, <2>3
<1> QED BY <1>4, <1>6, <1>7

\* A step that writes nothing, and reads a message that calls for nothing or
\* stops serving, keeps them too.
LEMMA SilenceKeeps ==
  ASSUME LspInv, heard < Len(said), NEW m, m = said[heard + 1], Read(m),
         UNCHANGED output, m.method \notin Handled \/ server' # "serving"
  PROVE  RepliesOrdered' /\ NothingOwed'
<1>1. /\ heard \in Nat /\ heard' = heard + 1 /\ said' = said /\ server = "serving"
      /\ output \in Seq(Written) /\ output' = output
  BY NextMessage DEF LspInv, LspTypeOK, Read, editorVars
<1>2. RepliesOrdered'
  <2>1. \A i \in DOMAIN output : output[i].reply.to <= heard + 1
    <3>1. SUFFICES ASSUME NEW i \in DOMAIN output
                   PROVE  output[i].reply.to <= heard + 1
      OBVIOUS
    <3>2. output[i].reply.to <= heard
      BY DEF LspInv, RepliesOrdered
    <3>3. output[i] \in Written
      BY <1>1
    <3>4. output[i].reply.to \in Nat
      BY <3>3 DEF Written, Reply
    <3> QED BY <1>1, <3>2, <3>4
  <2> QED BY <1>1, <2>1 DEF LspInv, RepliesOrdered
<1>3. NothingOwed'
  <2>1. SUFFICES ASSUME NEW k \in 1..(heard + 1), said[k].method \in Handled,
                        server' = "serving"
                 PROVE  \E i \in DOMAIN output : output[i].reply.to = k
    BY <1>1 DEF NothingOwed
  <2>2. k \in 1..heard
    BY <1>1, <2>1
  <2> QED BY <1>1, <2>1, <2>2 DEF LspInv, NothingOwed
<1> QED BY <1>2, <1>3

\* A text that is read becomes the text of its document, and of no other.
LEMMA TextKeepsDocuments ==
  ASSUME LspInv, heard < Len(said), NEW m, m = said[heard + 1], Read(m),
         m.method \in Texted,
         documents' = [documents EXCEPT ![m.doc] = Received[m.method][m.text]]
  PROVE  DocumentsKept' /\ documents' \in [Docs -> Seq(Pieces) \cup {NoText}]
<1>1. /\ heard \in 0..Len(said) /\ heard' = heard + 1 /\ said' = said
      /\ said \in Seq(Message) /\ m.text \in Texts /\ m.doc \in Docs
      /\ documents \in [Docs -> Seq(Pieces) \cup {NoText}]
  BY NextMessage DEF LspInv, LspTypeOK, Read, editorVars
<1>2. Received[m.method][m.text] \in Seq(Pieces)
  BY <1>1, ReceivedText
<1>3. ASSUME NEW d \in Docs, TextSaid(said, heard + 1, d) # {},
             Survives(said[LastSaid(said, heard + 1, d)].text)
      PROVE  documents'[d] = said[LastSaid(said, heard + 1, d)].text
  <2>1. CASE d = m.doc
    <3>1. LastSaid(said, heard + 1, d) = heard + 1
      BY <1>1, <2>1, TextSaidSame
    <3>2. Received[m.method][m.text] = m.text
      BY <1>1, <1>3, <3>1, SurvivesArrives
    <3> QED BY <1>1, <2>1, <3>1, <3>2
  <2>2. CASE d # m.doc
    <3>1. /\ TextSaid(said, heard + 1, d) = TextSaid(said, heard, d)
          /\ LastSaid(said, heard + 1, d) = LastSaid(said, heard, d)
      BY <1>1, <2>2, TextSaidOther
    <3>2. documents'[d] = documents[d]
      BY <1>1, <2>2
    <3> QED BY <1>3, <3>1, <3>2 DEF LspInv, DocumentsKept
  <2> QED BY <2>1, <2>2
<1>4. ASSUME NEW d \in Docs, TextSaid(said, heard + 1, d) = {}
      PROVE  documents'[d] \in {NoText, <<>>}
  <2>1. d # m.doc
    BY <1>1, <1>4, TextSaidSame
  <2>2. TextSaid(said, heard, d) = {}
    BY <1>1, <1>4, <2>1, TextSaidOther
  <2>3. documents'[d] = documents[d]
    BY <1>1, <2>1
  <2> QED BY <2>2, <2>3 DEF LspInv, DocumentsKept
<1>5. DocumentsKept'
  BY <1>1, <1>3, <1>4 DEF DocumentsKept
<1> QED BY <1>1, <1>2, <1>5

\* The text a query finds: that of the document, if there is one.
LEMMA SourceText ==
  ASSUME LspInv, NEW d \in Docs
  PROVE  /\ Source(d) \in Seq(Pieces)
         /\ documents[d] # NoText => Source(d) = documents[d]
<1>1. documents[d] \in Seq(Pieces) \cup {NoText}
  BY DEF LspInv, LspTypeOK
<1> QED BY <1>1 DEF Source

\* A query changes the text of no document that has one.
LEMMA QueryKeepsDocuments ==
  ASSUME LspInv, heard < Len(said), NEW m, m = said[heard + 1], Read(m),
         m.method \in Queries,
         documents' = [documents EXCEPT ![m.doc] = Source(m.doc)]
  PROVE  DocumentsKept' /\ documents' \in [Docs -> Seq(Pieces) \cup {NoText}]
<1>1. /\ heard \in 0..Len(said) /\ heard' = heard + 1 /\ said' = said
      /\ said \in Seq(Message) /\ m.doc \in Docs /\ m.method \notin Texted
      /\ documents \in [Docs -> Seq(Pieces) \cup {NoText}]
  BY NextMessage DEF LspInv, LspTypeOK, Read, editorVars, Queries, Texted
<1>2. Source(m.doc) \in Seq(Pieces)
  BY <1>1, SourceText
<1>3. ASSUME NEW d \in Docs, TextSaid(said, heard + 1, d) # {},
             Survives(said[LastSaid(said, heard + 1, d)].text)
      PROVE  documents'[d] = said[LastSaid(said, heard + 1, d)].text
  <2>1. /\ TextSaid(said, heard + 1, d) = TextSaid(said, heard, d)
        /\ LastSaid(said, heard + 1, d) = LastSaid(said, heard, d)
    BY <1>1, TextSaidOther
  <2> DEFINE k == LastSaid(said, heard, d)
  <2>2. documents[d] = said[k].text
    BY <1>3, <2>1 DEF LspInv, DocumentsKept
  <2>3. said[k].text \in Seq(Pieces)
    <3>1. k \in TextSaid(said, heard, d) /\ k \in 1..heard
      BY <1>1, <1>3, <2>1, LastSaidIs
    <3>2. k \in DOMAIN said /\ said[k].method \in Texted
      BY <1>1, <3>1 DEF TextSaid
    <3>3. said[k].text \in Texts
      BY <3>2 DEF LspInv, WellSaid
    <3> QED BY <3>3, ProtocolAssumption
  <2>4. Source(d) = documents[d]
    BY <2>2, <2>3, NoTextIsNone, SourceText
  <2> HIDE DEF k
  <2> QED BY <1>1, <2>1, <2>2, <2>4 DEF k
<1>4. ASSUME NEW d \in Docs, TextSaid(said, heard + 1, d) = {}
      PROVE  documents'[d] \in {NoText, <<>>}
  <2>1. TextSaid(said, heard, d) = {}
    BY <1>1, <1>4, TextSaidOther
  <2>2. documents[d] \in {NoText, <<>>}
    BY <2>1 DEF LspInv, DocumentsKept
  <2>3. documents'[d] \in {documents[d], Source(d)}
    BY <1>1
  <2> QED BY <2>2, <2>3 DEF Source
<1>5. DocumentsKept'
  BY <1>1, <1>3, <1>4 DEF DocumentsKept
<1> QED BY <1>1, <1>2, <1>5

\* Nor does a message that leaves the table alone and brings no text.
LEMMA OtherKeepsDocuments ==
  ASSUME LspInv, heard < Len(said), NEW m, m = said[heard + 1], Read(m),
         m.method \notin Texted, UNCHANGED documents
  PROVE  DocumentsKept'
<1>1. /\ heard \in 0..Len(said) /\ heard' = heard + 1 /\ said' = said
      /\ said \in Seq(Message)
  BY DEF LspInv, LspTypeOK, Read, editorVars
<1>2. ASSUME NEW d \in Docs
      PROVE  /\ TextSaid(said, heard + 1, d) = TextSaid(said, heard, d)
             /\ LastSaid(said, heard + 1, d) = LastSaid(said, heard, d)
  BY <1>1, TextSaidOther
<1> QED BY <1>1, <1>2 DEF LspInv, DocumentsKept

-----------------------------------------------------------------------------
(* Every step keeps the invariant.                                          *)

\* What a step that reads a message does to the types.
LEMMA ReadTypes ==
  ASSUME LspInv, heard < Len(said), NEW m, m = said[heard + 1], Read(m),
         documents' \in [Docs -> Seq(Pieces) \cup {NoText}],
         output' \in Seq(Written), Len(output') >= Len(output),
         server' \in {"serving", "checking", "stopped"}
  PROVE  LspTypeOK' /\ WellSaid'
<1>1. /\ heard' = heard + 1 /\ said' = said /\ closed' = closed /\ lost' = lost
      /\ shown' = shown /\ LspTypeOK /\ WellSaid
  BY DEF LspInv, Read, editorVars
<1>2. heard' \in 0..Len(said) /\ shown \in 0..Len(output')
  BY <1>1 DEF LspTypeOK
<1> QED BY <1>1, <1>2 DEF LspTypeOK, WellSaid

\* The handlers keep it, whatever the message that was read.
LEMMA HandleKeeps ==
  ASSUME LspInv, heard < Len(said), NEW m, m = said[heard + 1], Handle(m)
  PROVE  LspInv'
<1>0. /\ m \in Message /\ LspTypeOK /\ output \in Seq(Written)
      /\ documents \in [Docs -> Seq(Pieces) \cup {NoText}]
      /\ server \in {"serving", "checking", "stopped"} /\ Len(output) >= Len(output)
      /\ m.method \in Texted => m.text \in Texts
      /\ m.method \in Texted \cup Queries => m.doc \in Docs
  BY NextMessage DEF LspInv, LspTypeOK
<1>1. CASE HandleInitialize(m) \/ HandleShutdown(m)
  <2>1. /\ Read(m) /\ m.method \in Handled /\ m.method \notin Texted
        /\ UNCHANGED <<documents, server>>
        /\ \E found \in BOOLEAN : Send(m, NoText, found, FALSE)
    BY <1>1 DEF HandleInitialize, HandleShutdown, Handled, Texted
  <2>2. /\ output' \in Seq(Written) /\ Len(output') = Len(output) + 1
        /\ RepliesOrdered' /\ NothingOwed'
    BY <2>1, ReplyKeeps
  <2>3. LspTypeOK' /\ WellSaid'
    BY <1>0, <2>1, <2>2, ReadTypes
  <2> QED BY <2>1, <2>2, <2>3, OtherKeepsDocuments DEF LspInv
<1>2. CASE IgnoreMessage(m) \/ HandleExit(m)
  <2>1. /\ Read(m) /\ m.method \notin Texted /\ m.method \notin Handled
        /\ UNCHANGED <<documents, output>> /\ server' \in {server, "stopped"}
    BY <1>2 DEF IgnoreMessage, HandleExit, Handled, Texted, Queries, Unheard
  <2>2. RepliesOrdered' /\ NothingOwed'
    BY <2>1, SilenceKeeps
  <2>3. LspTypeOK' /\ WellSaid'
    BY <1>0, <2>1, ReadTypes
  <2> QED BY <2>1, <2>2, <2>3, OtherKeepsDocuments DEF LspInv
<1>3. CASE HandleText(m)
  <2> DEFINE text == Received[m.method][m.text]
  <2>1. /\ Read(m) /\ m.method \in Texted /\ m.method \in Handled
        /\ documents' = [documents EXCEPT ![m.doc] = text]
        /\ PublishDiagnostics(m, text)
    BY <1>3 DEF HandleText, Handled
  <2>2. text \in Seq(Pieces) /\ (Survives(m.text) => text = m.text)
    BY <1>0, <2>1, ReceivedText, SurvivesArrives, SMTT(30)
  <2>3. DocumentsKept' /\ documents' \in [Docs -> Seq(Pieces) \cup {NoText}]
    BY <2>1, TextKeepsDocuments
  <2>4. /\ RepliesOrdered' /\ NothingOwed' /\ output' \in Seq(Written)
        /\ Len(output') >= Len(output) /\ server' \in {"serving", "checking", "stopped"}
    <3> HIDE DEF text
    <3>1. CASE Endless(text)
      <4>1. server' = "checking" /\ UNCHANGED output
        BY <2>1, <3>1 DEF PublishDiagnostics
      <4> QED BY <1>0, <2>1, <4>1, SilenceKeeps
    <3>2. CASE DieChecking
      <4>1. server' = "stopped" /\ UNCHANGED output
        BY <3>2 DEF DieChecking
      <4> QED BY <1>0, <2>1, <4>1, SilenceKeeps
    <3>3. CASE Send(m, text, TRUE, Imports(text)) /\ UNCHANGED server
      <4>1. Send(m, text, TRUE, Imports(text)) /\ UNCHANGED server
        BY <3>3
      <4>2. Imports(text) \in BOOLEAN /\ text \in Seq(Pieces) \cup {NoText}
        BY <2>2 DEF Imports
      <4>3. /\ output' \in Seq(Written) /\ Len(output') = Len(output) + 1
            /\ RepliesOrdered' /\ NothingOwed'
        BY <2>1, <2>2, <4>1, <4>2, ReplyKeeps
      <4> QED BY <1>0, <4>1, <4>3
    <3> QED BY <2>1, <3>1, <3>2, <3>3 DEF PublishDiagnostics
  <2>5. LspTypeOK' /\ WellSaid'
    BY <2>1, <2>3, <2>4, ReadTypes
  <2> QED BY <2>3, <2>4, <2>5 DEF LspInv
<1>4. CASE HandleQuery(m)
  <2> DEFINE found == m.method = "textDocument/completion" \/ Hovers(Source(m.doc), m.at)
  <2>1. /\ Read(m) /\ m.method \in Queries /\ m.method \in Handled /\ m.method \notin Texted
        /\ documents' = [documents EXCEPT ![m.doc] = Source(m.doc)]
        /\ Send(m, Source(m.doc), found, FALSE) /\ UNCHANGED server
    BY <1>4 DEF HandleQuery, Handled, Queries, Texted
  <2>2. Source(m.doc) \in Seq(Pieces) \cup {NoText} /\ found \in BOOLEAN
    BY <1>0, <2>1, SourceText DEF Hovers
  <2>3. DocumentsKept' /\ documents' \in [Docs -> Seq(Pieces) \cup {NoText}]
    BY <2>1, QueryKeepsDocuments
  <2>4. /\ output' \in Seq(Written) /\ Len(output') = Len(output) + 1
        /\ RepliesOrdered' /\ NothingOwed'
    <3> HIDE DEF found
    <3> QED BY <2>1, <2>2, ReplyKeeps
  <2>5. LspTypeOK' /\ WellSaid'
    BY <1>0, <2>1, <2>3, <2>4, ReadTypes
  <2> QED BY <2>3, <2>4, <2>5 DEF LspInv
<1> QED BY <1>1, <1>2, <1>3, <1>4 DEF Handle

\* What the editor says is heard later: nothing the server has done depends on it.
LEMMA SayKeeps ==
  ASSUME LspInv, NEW m \in Sayings, Say(m)
  PROVE  LspInv'
<1>1. /\ m \in Message /\ said \in Seq(Message) /\ heard \in 0..Len(said)
      /\ said' = Append(said, m) /\ Len(said') = Len(said) + 1
      /\ Len(said) < MaxMessages /\ Len(said) \in Nat
      /\ UNCHANGED <<closed, shown, lost, heard, documents, output, server>>
  BY SayingsAssumption DEF LspInv, LspTypeOK, Say, serverVars
<1>2. /\ \A i \in DOMAIN said : said'[i] = said[i]
      /\ DOMAIN said' = (DOMAIN said) \cup {Len(said) + 1}
      /\ said'[Len(said) + 1] = m
  BY <1>1
<1>3. LspTypeOK'
  <2>1. said' \in Seq(Message) /\ Len(said') <= MaxMessages /\ heard' \in 0..Len(said')
    BY <1>1, MaxMessagesAssumption
  <2> QED BY <1>1, <2>1 DEF LspInv, LspTypeOK
<1>4. WellSaid'
  <2>1. m.method \in Texted => m.text \in Texts
    <3>1. m.text \in Texts \cup {NoText}
      BY <1>1 DEF Message
    <3> QED BY <3>1 DEF Say, MaySay
  <2>2. m.method \in Texted \cup Queries => m.doc \in Docs
    <3>1. m.doc \in Docs \cup {NoDoc}
      BY <1>1 DEF Message
    <3> QED BY <3>1 DEF Say, MaySay, Texted, Queries
  <2> QED BY <1>2, <2>1, <2>2 DEF LspInv, WellSaid
<1>5. DocumentsKept'
  <2>1. SUFFICES ASSUME NEW d \in Docs
                 PROVE  /\ (/\ TextSaid(said', heard, d) # {}
                            /\ Survives(said'[LastSaid(said', heard, d)].text))
                             => documents[d] = said'[LastSaid(said', heard, d)].text
                        /\ TextSaid(said', heard, d) = {} => documents[d] \in {NoText, <<>>}
    BY <1>1 DEF DocumentsKept
  <2>2. /\ TextSaid(said', heard, d) = TextSaid(said, heard, d)
        /\ LastSaid(said', heard, d) = LastSaid(said, heard, d)
    BY <1>1, TextSaidAppend
  <2>3. ASSUME TextSaid(said, heard, d) # {}
        PROVE  said'[LastSaid(said, heard, d)] = said[LastSaid(said, heard, d)]
    <3>1. LastSaid(said, heard, d) \in DOMAIN said
      BY <1>1, <2>3, LastSaidIs
    <3> QED BY <1>2, <3>1
  <2> QED BY <2>2, <2>3 DEF LspInv, DocumentsKept
<1>6. RepliesOrdered'
  <2>1. \A i \in DOMAIN output : output[i].reply.to \in DOMAIN said
    <3>1. SUFFICES ASSUME NEW i \in DOMAIN output
                   PROVE  output[i].reply.to \in DOMAIN said
      OBVIOUS
    <3>2. output[i] \in Written /\ output[i].reply.to <= heard
      BY DEF LspInv, LspTypeOK, RepliesOrdered
    <3>3. output[i].reply.to \in Nat \ {0}
      BY <3>2 DEF Written, Reply
    <3> QED BY <1>1, <3>2, <3>3
  <2> QED BY <1>1, <1>2, <2>1 DEF LspInv, RepliesOrdered
<1>7. NothingOwed'
  <2>1. \A k \in 1..heard : k \in DOMAIN said
    BY <1>1
  <2> QED BY <1>1, <1>2, <2>1 DEF LspInv, NothingOwed
<1> QED BY <1>3, <1>4, <1>5, <1>6, <1>7 DEF LspInv

\* The other steps change neither what was said nor what was answered.
LEMMA QuietKeeps ==
  ASSUME LspInv, UNCHANGED <<said, heard, documents, output>>,
         closed' \in BOOLEAN, lost' \in BOOLEAN, shown' \in 0..Len(output),
         server' \in {"serving", "checking", "stopped"}, server' # server => server' # "serving"
  PROVE  LspInv'
<1>1. LspTypeOK'
  BY DEF LspInv, LspTypeOK
<1>2. WellSaid' /\ DocumentsKept' /\ RepliesOrdered' /\ NothingOwed'
  BY DEF LspInv, WellSaid, DocumentsKept, RepliesOrdered, NothingOwed
<1> QED BY <1>1, <1>2 DEF LspInv

\* Every step keeps the invariant.
LEMMA LspStep == LspInv /\ [Next]_vars => LspInv'
<1> SUFFICES ASSUME LspInv, [Next]_vars
             PROVE  LspInv'
  OBVIOUS
<1>0. /\ closed \in BOOLEAN /\ lost \in BOOLEAN /\ shown \in 0..Len(output)
      /\ output \in Seq(Written) /\ server \in {"serving", "checking", "stopped"}
  BY DEF LspInv, LspTypeOK
<1>1. CASE \E m \in Sayings : Say(m)
  BY <1>1, SayKeeps
<1>2. CASE Close
  <2>1. closed' = TRUE /\ UNCHANGED <<said, heard, documents, output, shown, lost, server>>
    BY <1>2 DEF Close, serverVars
  <2> QED BY <1>0, <2>1, QuietKeeps
<1>3. CASE Receive
  <2>1. /\ shown < Len(output) /\ shown' = shown + 1 /\ lost' = output[shown + 1].noisy
        /\ UNCHANGED <<said, heard, documents, output, closed, server>>
    BY <1>3 DEF Receive, serverVars
  <2>2. shown + 1 \in 1..Len(output)
    BY <1>0, <2>1
  <2>3. output[shown + 1] \in Written
    BY <1>0, <2>2
  <2>4. lost' \in BOOLEAN /\ shown' \in 0..Len(output)
    BY <2>1, <2>2, <2>3 DEF Written
  <2> QED BY <1>0, <2>1, <2>4, QuietKeeps
<1>4. CASE heard < Len(said) /\ Handle(said[heard + 1])
  BY <1>4, HandleKeeps
<1>5. CASE StopReading \/ RunOut
  <2>1. server' = "stopped" /\ UNCHANGED <<said, heard, documents, output, closed, shown, lost>>
    BY <1>5 DEF StopReading, RunOut, editorVars
  <2> QED BY <1>0, <2>1, QuietKeeps
<1>6. CASE UNCHANGED vars
  BY <1>0, <1>6, QuietKeeps DEF vars
<1> QED BY <1>1, <1>2, <1>3, <1>4, <1>5, <1>6 DEF Next, Edit, Serve, Over

\* For every set of documents and texts, every set of messages the editor chooses
\* from and every length of the session, the state is well typed: each reply is to
\* a message that was read, and about a text.
THEOREM LspTypeCorrect == Spec => []LspTypeOK
<1>1. LspInv => LspTypeOK
  BY DEF LspInv
<1> QED BY <1>1, LspInit, LspStep, PTL DEF Spec

-----------------------------------------------------------------------------
(* The conversation.                                                        *)

\* What the conversation sees of the output.
replies == [i \in DOMAIN output |-> output[i].reply]

\* The definitions of the abstract conversation are those of this one.
LEMMA SameWords ==
  /\ \A s, k, d : C!TextSaid(s, k, d) = TextSaid(s, k, d)
  /\ \A s, k, d : C!LastSaid(s, k, d) = LastSaid(s, k, d)
  /\ \A t : C!Survives(t) <=> Survives(t)
  /\ C!Handled = Handled /\ C!Texted = Texted /\ C!Queries = Queries
<1>1. \A s, k, d : C!TextSaid(s, k, d) = TextSaid(s, k, d)
  BY DEF C!TextSaid, TextSaid, C!Texted, Texted
<1>2. \A s, k, d : C!LastSaid(s, k, d) = LastSaid(s, k, d)
  BY <1>1 DEF C!LastSaid, LastSaid
<1>3. \A t, k, p : C!Count(t, k, p) = Count(t, k, p)
  <2>1. \A S : C!Cardinality(S) = Cardinality(S)
    BY DEF C!Cardinality, Cardinality
  <2> QED BY <2>1 DEF C!Count, Count
<1>4. \A t, k : C!Depth(t, k) = Depth(t, k)
  BY <1>3 DEF C!Depth, Depth
<1>5. \A t : C!Survives(t) <=> Survives(t)
  BY <1>4 DEF C!Survives, Survives
<1> QED BY <1>1, <1>2, <1>5 DEF C!Handled, Handled, C!Texted, Texted, C!Queries, Queries

\* Append, as a function.
LEMMA AppendIs ==
  ASSUME NEW S, NEW s \in Seq(S), NEW e
  PROVE  Append(s, e) = [i \in 1..(Len(s) + 1) |-> IF i \in 1..Len(s) THEN s[i] ELSE e]
<1>1. s \in Seq(S \cup {e})
  OBVIOUS
<1>2. /\ Len(Append(s, e)) = Len(s) + 1 /\ Append(s, e) \in Seq(S \cup {e})
      /\ Append(s, e)[Len(s) + 1] = e /\ \A i \in 1..Len(s) : Append(s, e)[i] = s[i]
  BY <1>1
<1>3. ASSUME NEW U, NEW t \in Seq(U)
      PROVE  t = [i \in 1..Len(t) |-> t[i]]
  OBVIOUS
<1>4. Append(s, e) = [i \in 1..(Len(s) + 1) |-> Append(s, e)[i]]
  <2> DEFINE t == Append(s, e)
  <2>1. t \in Seq(S \cup {e}) /\ Len(t) = Len(s) + 1
    BY <1>2
  <2> HIDE DEF t
  <2>2. t = [i \in 1..Len(t) |-> t[i]]
    BY <1>3, <2>1
  <2> QED BY <2>1, <2>2 DEF t
<1>5. \A i \in 1..(Len(s) + 1) :
        Append(s, e)[i] = IF i \in 1..Len(s) THEN s[i] ELSE e
  <2>1. \A i \in 1..(Len(s) + 1) : i \notin 1..Len(s) => i = Len(s) + 1
    OBVIOUS
  <2> QED BY <1>2, <2>1
<1> QED BY <1>4, <1>5

\* A reply of the server is the answer the conversation waits for.
LEMMA ReplyAnswers ==
  ASSUME LspInv, heard < Len(said), NEW m, m = said[heard + 1], Read(m),
         m.method \in Handled,
         NEW text \in Seq(Pieces) \cup {NoText}, NEW found \in BOOLEAN,
         NEW noisy \in BOOLEAN, Send(m, text, found, noisy),
         m.method \in Texted \cup Queries /\ TextSaid(said, heard + 1, m.doc) # {}
           => LET t == said[LastSaid(said, heard + 1, m.doc)].text
              IN  Survives(t) => text = t,
         m.method \in Queries /\ TextSaid(said, heard + 1, m.doc) = {} => text = <<>>
  PROVE  C!Next
<1> DEFINE r == [to |-> heard + 1, doc |-> m.doc, text |-> text, found |-> found]
           n == Len(output) + 1
<1>1. /\ heard \in Nat /\ heard + 1 \in 1..Len(said) /\ said' = said
      /\ output \in Seq(Written) /\ server = "serving"
  BY NextMessage DEF LspInv, LspTypeOK, Read, editorVars
<1>2. /\ replies \in Seq({output[i].reply : i \in DOMAIN output})
      /\ Len(replies) = Len(output)
      /\ \A i \in DOMAIN output : replies[i] = output[i].reply
  <2>1. DOMAIN output = 1..Len(output) /\ Len(output) \in Nat
    BY <1>1
  <2> QED BY <2>1 DEF replies
<1>3. replies' = Append(replies, r) /\ Len(replies') = n /\ replies'[n] = r
  <2> HIDE DEF r
  <2>1. output' = Append(output, [reply |-> r, noisy |-> noisy])
    BY DEF Send, r
  <2>2. DOMAIN output' = 1..n /\ DOMAIN output = 1..Len(output) /\ n \in Nat
    BY <1>1, <2>1
  <2>3. /\ \A i \in 1..Len(output) : output'[i] = output[i]
        /\ output'[n] = [reply |-> r, noisy |-> noisy]
    BY <1>1, <2>1
  <2>4. replies' = [i \in 1..n |-> output'[i].reply]
    BY <2>2 DEF replies
  <2>5. replies' = [i \in 1..n |-> IF i \in 1..Len(output) THEN replies[i] ELSE r]
    BY <1>1, <1>2, <2>2, <2>3, <2>4, SMTT(30)
  <2>6. Append(replies, r) = [i \in 1..n |-> IF i \in 1..Len(output) THEN replies[i] ELSE r]
    BY <1>2, AppendIs, SMTT(30)
  <2> QED BY <1>1, <1>2, <2>2, <2>5, <2>6
<1> DEFINE last == IF replies = <<>> THEN 0 ELSE replies[Len(replies)].to
<1>4. /\ last \in Nat /\ last <= heard
      /\ \A i \in DOMAIN output : output[i].reply.to <= last
  <2>1. CASE output = <<>>
    BY <1>1, <1>2, <2>1
  <2>2. CASE output # <<>>
    <3>1. Len(output) \in DOMAIN output /\ replies # <<>> /\ Len(output) \in Nat
      BY <1>1, <1>2, <2>2
    <3>2. last = output[Len(output)].reply.to
      BY <1>2, <3>1
    <3>3. \A i \in DOMAIN output : output[i].reply.to \in Nat
      <4>1. \A i \in DOMAIN output : output[i] \in Written
        BY <1>1
      <4> QED BY <4>1 DEF Written, Reply
    <3>4. ASSUME NEW i \in DOMAIN output
          PROVE  output[i].reply.to <= last
      <4>1. CASE i = Len(output)
        BY <3>1, <3>2, <3>3, <4>1
      <4>2. CASE i # Len(output)
        <5>1. i < Len(output)
          BY <1>1, <4>2
        <5>2. output[i].reply.to < output[Len(output)].reply.to
          BY <3>1, <5>1 DEF LspInv, RepliesOrdered
        <5> QED BY <3>1, <3>2, <3>3, <5>2
      <4> QED BY <4>1, <4>2
    <3> QED BY <3>1, <3>2, <3>3, <3>4 DEF LspInv, RepliesOrdered
  <2> QED BY <2>1, <2>2
<1>5. \A i \in last + 1 .. heard : said[i].method \notin Handled
  <2>1. SUFFICES ASSUME NEW i \in last + 1 .. heard, said[i].method \in Handled
                 PROVE  FALSE
    OBVIOUS
  <2>2. i \in 1..heard
    BY <1>1, <1>4
  <2>3. PICK j \in DOMAIN output : output[j].reply.to = i
    BY <1>1, <2>1, <2>2 DEF LspInv, NothingOwed
  <2> QED BY <1>4, <2>2, <2>3
<1>6. C!LastAnswered = last
  BY DEF C!LastAnswered, replies
<1>7. C!Answers(r)
  <2>1. r.to = heard + 1 /\ r.doc = m.doc /\ r.text = text
    OBVIOUS
  <2> HIDE DEF r, last, n
  <2>2. heard + 1 \in last + 1 .. Len(said) /\ (heard + 1) - 1 = heard
    <3>1. last + 1 \in Nat /\ last + 1 <= heard + 1
      BY <1>1, <1>4
    <3> QED BY <1>1, <3>1
  <2> QED BY <1>1, <1>5, <1>6, <2>1, <2>2, SameWords DEF C!Answers
<1>8. C!Answer
  <2> HIDE DEF r, n
  <2> QED BY <1>1, <1>2, <1>3, <1>7 DEF C!Answer, n, replies
<1> QED BY <1>8 DEF C!Next

\* What a message that is handled means for the conversation: the answer to it, or
\* nothing.
LEMMA HandleAnswers ==
  ASSUME LspInv, heard < Len(said), NEW m, m = said[heard + 1], Handle(m)
  PROVE  C!Next \/ UNCHANGED <<said, replies>>
<1>0. /\ said \in Seq(Message) /\ heard \in 0..Len(said)
      /\ m.method \in Texted => m.text \in Texts
      /\ m.method \in Texted \cup Queries => m.doc \in Docs
  BY NextMessage DEF LspInv, LspTypeOK
<1>1. CASE HandleInitialize(m) \/ HandleShutdown(m)
  <2>1. /\ Read(m) /\ m.method \in Handled /\ m.method \notin Texted \cup Queries
        /\ \E found \in BOOLEAN : Send(m, NoText, found, FALSE)
    BY <1>1 DEF HandleInitialize, HandleShutdown, Handled, Texted, Queries
  <2> QED BY <2>1, ReplyAnswers
<1>2. CASE IgnoreMessage(m) \/ HandleExit(m)
  BY <1>2 DEF IgnoreMessage, HandleExit, Read, editorVars, replies
<1>3. CASE HandleText(m)
  <2> DEFINE text == Received[m.method][m.text]
  <2>1. /\ Read(m) /\ m.method \in Texted /\ m.method \in Handled
        /\ m.method \notin Queries /\ PublishDiagnostics(m, text)
    BY <1>3 DEF HandleText, Handled, Texted, Queries
  <2>2. text \in Seq(Pieces) /\ (Survives(m.text) => text = m.text)
    BY <1>0, <2>1, ReceivedText, SurvivesArrives
  <2>3. LastSaid(said, heard + 1, m.doc) = heard + 1
    BY <1>0, <2>1, TextSaidSame
  <2> HIDE DEF text
  <2>4. CASE UNCHANGED output
    BY <2>1, <2>4 DEF Read, editorVars, replies
  <2>5. CASE Send(m, text, TRUE, Imports(text))
    <3>1. Send(m, text, TRUE, Imports(text))
      BY <2>5
    <3>2. Imports(text) \in BOOLEAN /\ text \in Seq(Pieces) \cup {NoText}
      BY <2>2 DEF Imports
    <3> QED BY <2>1, <2>2, <2>3, <3>1, <3>2, ReplyAnswers
  <2> QED BY <2>1, <2>4, <2>5 DEF PublishDiagnostics, DieChecking
<1>4. CASE HandleQuery(m)
  <2> DEFINE found == m.method = "textDocument/completion" \/ Hovers(Source(m.doc), m.at)
  <2>1. /\ Read(m) /\ m.method \in Queries /\ m.method \in Handled /\ m.method \notin Texted
        /\ Send(m, Source(m.doc), found, FALSE)
    BY <1>4 DEF HandleQuery, Handled, Queries, Texted
  <2>2. Source(m.doc) \in Seq(Pieces) \cup {NoText} /\ found \in BOOLEAN
    BY <1>0, <2>1, SourceText DEF Hovers
  <2>3. /\ TextSaid(said, heard + 1, m.doc) = TextSaid(said, heard, m.doc)
        /\ LastSaid(said, heard + 1, m.doc) = LastSaid(said, heard, m.doc)
    BY <1>0, <2>1, TextSaidOther
  <2>4. ASSUME TextSaid(said, heard, m.doc) # {},
               Survives(said[LastSaid(said, heard, m.doc)].text)
        PROVE  Source(m.doc) = said[LastSaid(said, heard, m.doc)].text
    <3> DEFINE k == LastSaid(said, heard, m.doc)
    <3>1. documents[m.doc] = said[k].text
      BY <1>0, <2>1, <2>4 DEF LspInv, DocumentsKept
    <3>2. k \in TextSaid(said, heard, m.doc) /\ k \in 1..heard
      BY <1>0, <2>4, LastSaidIs
    <3>3. k \in DOMAIN said /\ said[k].method \in Texted
      BY <1>0, <3>2 DEF TextSaid
    <3>4. said[k].text \in Seq(Pieces)
      BY <3>3, ProtocolAssumption DEF LspInv, WellSaid
    <3> QED BY <1>0, <2>1, <3>1, <3>4, NoTextIsNone, SourceText
  <2>5. TextSaid(said, heard + 1, m.doc) # {}
          => LET t == said[LastSaid(said, heard + 1, m.doc)].text
             IN  Survives(t) => Source(m.doc) = t
    BY <2>3, <2>4
  <2>6. TextSaid(said, heard + 1, m.doc) = {} => Source(m.doc) = <<>>
    <3>1. TextSaid(said, heard, m.doc) = {} => documents[m.doc] \in {NoText, <<>>}
      BY <1>0, <2>1 DEF LspInv, DocumentsKept
    <3> QED BY <2>3, <3>1 DEF Source
  <2> HIDE DEF found
  <2> QED BY <2>1, <2>2, <2>5, <2>6, ReplyAnswers
<1> QED BY <1>1, <1>2, <1>3, <1>4 DEF Handle

\* The server implements the conversation: whatever the editor sends, and however
\* far ahead of the server it is, each reply is that of the next message waiting
\* for one and, about a document, about its text at that message: the empty one if
\* it was given none.
THEOREM ConversationImplemented == Spec => ConversationKept
<1>1. Init => C!Init
  <2>1. output = <<>> => replies = <<>>
    BY DEF replies
  <2> QED BY <2>1 DEF Init, C!Init, replies
<1>2. LspInv /\ [Next]_vars => [C!Next]_<<said, replies>>
  <2> SUFFICES ASSUME LspInv, [Next]_vars
               PROVE  C!Next \/ UNCHANGED <<said, replies>>
    OBVIOUS
  <2>1. CASE \E m \in Sayings : Say(m)
    <3>1. PICK m \in Sayings : Say(m)
      BY <2>1
    <3>2. /\ said \in Seq(Message) /\ m \in Message /\ said' = Append(said, m)
          /\ UNCHANGED output
      BY <3>1, SayingsAssumption DEF LspInv, LspTypeOK, Say, serverVars
    <3>3. Len(said') = Len(said) + 1 /\ said'[Len(said')] = m
      BY <3>2
    <3>4. C!Say
      BY <3>2, <3>3 DEF C!Say
    <3> QED BY <3>4 DEF C!Next
  <2>2. CASE heard < Len(said) /\ Handle(said[heard + 1])
    BY <2>2, HandleAnswers
  <2>3. CASE Close \/ Receive \/ StopReading \/ RunOut \/ UNCHANGED vars
    BY <2>3 DEF Close, Receive, StopReading, RunOut, serverVars, editorVars, vars, replies
  <2> QED BY <2>1, <2>2, <2>3 DEF Next, Edit, Serve, Over
<1>3. ConversationKept <=> C!Init /\ [][C!Next]_<<said, replies>>
  BY DEF ConversationKept, C!Spec, replies
<1> QED BY <1>1, <1>2, <1>3, LspInit, LspStep, PTL DEF Spec

-----------------------------------------------------------------------------
(* Diagnostics.                                                             *)

\* Once everything is read, what an editor shows of a document is the check of its
\* present text: no reply about an older text came after it.  Of a text that the
\* parser of the messages cuts or garbles it says which check it is, not of what.
THEOREM DiagnosticsFresh == Spec => []FreshWhenQuiet
<1>1. LspInv => FreshWhenQuiet
  <2> SUFFICES ASSUME LspInv, server = "serving", shown = Len(output),
                      NEW d \in Docs, TextSaid(said, heard, d) # {}
               PROVE  LET k == LastSaid(said, heard, d)
                      IN  \E i \in 1..shown :
                            /\ output[i].reply.to = k
                            /\ Survives(said[k].text) => output[i].reply.text = said[k].text
                            /\ \A j \in i + 1 .. shown :
                                 ~(/\ output[j].reply.doc = d
                                   /\ said[output[j].reply.to].method \in Texted)
    BY DEF FreshWhenQuiet
  <2> DEFINE k == LastSaid(said, heard, d)
  <2>1. /\ said \in Seq(Message) /\ heard \in 0..Len(said) /\ output \in Seq(Written)
        /\ DOMAIN output = 1..shown /\ shown \in Nat
    BY DEF LspInv, LspTypeOK
  <2>2. /\ k \in 1..heard /\ k \in TextSaid(said, heard, d)
        /\ \A j \in TextSaid(said, heard, d) : j <= k
    BY <2>1, LastSaidIs
  <2>3. said[k].method \in Texted /\ said[k].method \in Handled
    BY <2>2 DEF TextSaid, Handled
  <2> HIDE DEF k
  <2>4. PICK i \in DOMAIN output : output[i].reply.to = k
    BY <2>2, <2>3 DEF LspInv, NothingOwed
  <2>5. Survives(said[k].text) => output[i].reply.text = said[k].text
    BY <2>3, <2>4 DEF LspInv, RepliesOrdered
  <2>6. ASSUME NEW j \in i + 1 .. shown, output[j].reply.doc = d,
               said[output[j].reply.to].method \in Texted
        PROVE  FALSE
    <3>1. j \in DOMAIN output /\ i < j
      BY <2>1, <2>4
    <3>2. k < output[j].reply.to /\ output[j].reply.to <= heard
      BY <2>4, <3>1 DEF LspInv, RepliesOrdered
    <3>3. output[j] \in Written
      BY <2>1, <3>1
    <3>4. output[j].reply.to \in 1..heard
      BY <2>1, <3>2, <3>3 DEF Written, Reply
    <3>5. said[output[j].reply.to].doc = d
      BY <2>6, <3>1 DEF LspInv, RepliesOrdered
    <3>6. output[j].reply.to \in TextSaid(said, heard, d)
      BY <2>6, <3>4, <3>5 DEF TextSaid
    <3> QED BY <2>2, <3>2, <3>4, <3>6
  <2> QED BY <2>1, <2>4, <2>5, <2>6 DEF k
<1> QED BY <1>1, LspInit, LspStep, PTL DEF Spec

-----------------------------------------------------------------------------
(* The end of the service.                                                  *)

\* A received text has no pieces that its text has not, but for escapes.
LEMMA NothingAdded ==
  ASSUME NEW method \in Texted, NEW text \in Texts
  PROVE  /\ Endless(Received[method][text]) => Endless(text)
         /\ Imports(Received[method][text]) => Imports(text)
         /\ Aborts(Received[method][text]) => Aborts(text)
<1>1. text \in Seq(Pieces)
  BY ProtocolAssumption
<1>2. ASSUME NEW t \in Seq(Pieces), NEW depth
      PROVE  \A i \in DOMAIN Extracted(t, depth) :
               i \in DOMAIN t /\ Extracted(t, depth)[i] = t[i]
  <2> DEFINE ends == {k \in DOMAIN t : depth + Depth(t, k) = 0}
             end  == CHOOSE k \in ends : \A j \in ends : k <= j
  <2>1. CASE ends = {}
    BY <2>1 DEF Extracted
  <2>2. CASE ends # {}
    <3>1. Len(t) \in Nat /\ ends \in SUBSET (1..Len(t))
      OBVIOUS
    <3>2. end \in ends
      <4> HIDE DEF ends
      <4> QED BY <2>2, <3>1, LeastPosition
    <3>3. end \in 1..Len(t)
      BY <3>1, <3>2
    <3>4. \A i \in DOMAIN SubSeq(t, 1, end) : i \in DOMAIN t /\ SubSeq(t, 1, end)[i] = t[i]
      <4> HIDE DEF end, ends
      <4> QED BY <3>3
    <3> QED BY <2>2, <3>4 DEF Extracted
  <2> QED BY <2>1, <2>2
<1>3. \A i \in DOMAIN Parsed(method, text) :
        i \in DOMAIN text /\ Parsed(method, text)[i] = text[i]
  BY <1>1, <1>2, ExtractedText DEF Parsed
<1>4. ASSUME NEW i \in DOMAIN Received[method][text]
      PROVE  /\ i \in DOMAIN text
             /\ Received[method][text][i] \in {"enum", "import", "abort"}
                  => Received[method][text][i] = text[i]
  <2> DEFINE t == Parsed(method, text)
  <2>1. Received[method][text] = [j \in DOMAIN t |-> IF t[j] = "control" THEN "digits" ELSE t[j]]
    BY DEF Received, Unescaped
  <2> HIDE DEF t
  <2>2. i \in DOMAIN t
    BY <1>4, <2>1
  <2>3. Received[method][text][i] = IF t[i] = "control" THEN "digits" ELSE t[i]
    BY <2>1, <2>2
  <2>4. i \in DOMAIN text /\ t[i] = text[i]
    BY <1>3, <2>2 DEF t
  <2> QED BY <2>3, <2>4
<1> QED BY <1>4 DEF Endless, Imports, Aborts

\* Why the server stopped, and over what it could not get or printed noise.
EndInv ==
  /\ server = "stopped" =>
       \/ closed
       \/ heard < Len(said) /\ ~said[heard + 1].framed
       \/ heard > 0 /\ said[heard].method = "exit"
       \/ /\ heard > 0 /\ said[heard].method \in Texted
          /\ Endless(said[heard].text) \/ Aborts(said[heard].text)
  /\ server = "checking" =>
       heard > 0 /\ said[heard].method \in Texted /\ Endless(said[heard].text)
  /\ \A i \in DOMAIN output : output[i].noisy =>
       /\ said[output[i].reply.to].method \in Texted
       /\ Imports(said[output[i].reply.to].text)
  /\ lost => shown \in DOMAIN output /\ output[shown].noisy

\* A reply that follows no noise, or the noise of an import, keeps it.
LEMMA ReplyEnds ==
  ASSUME LspInv, EndInv, heard < Len(said), NEW m, m = said[heard + 1], Read(m),
         NEW text, NEW found, NEW noisy, Send(m, text, found, noisy), UNCHANGED server,
         noisy => m.method \in Texted /\ Imports(m.text)
  PROVE  EndInv'
<1>1. /\ heard \in Nat /\ said' = said /\ server = "serving" /\ lost' = lost /\ shown' = shown
      /\ output \in Seq(Written)
  BY NextMessage DEF LspInv, LspTypeOK, Read, editorVars
<1> DEFINE w == [reply |-> [to |-> heard + 1, doc |-> m.doc, text |-> text, found |-> found],
                 noisy |-> noisy]
<1>2. output' = Append(output, w) /\ w.noisy = noisy /\ w.reply.to = heard + 1
  BY DEF Send
<1> HIDE DEF w
<1>3. /\ DOMAIN output' = 1..(Len(output) + 1) /\ DOMAIN output = 1..Len(output)
      /\ \A i \in 1..(Len(output) + 1) :
           output'[i] = IF i \in 1..Len(output) THEN output[i] ELSE w
  <2>1. Append(output, w) = [i \in 1..(Len(output) + 1) |->
                               IF i \in 1..Len(output) THEN output[i] ELSE w]
    BY <1>1, AppendIs
  <2> QED BY <1>1, <1>2, <2>1
<1>4. \A i \in DOMAIN output' : output'[i].noisy =>
        /\ said[output'[i].reply.to].method \in Texted
        /\ Imports(said[output'[i].reply.to].text)
  BY <1>2, <1>3 DEF EndInv
<1>5. lost => shown \in DOMAIN output' /\ output'[shown].noisy
  <2>1. shown \in 1..Len(output) => shown \in 1..(Len(output) + 1)
    BY <1>1
  <2> QED BY <1>3, <2>1 DEF EndInv
<1> QED BY <1>1, <1>4, <1>5 DEF EndInv

\* Every step of the editor, the server and the pipe keeps the reasons for an end.
LEMMA EndStep == LspInv /\ EndInv /\ [Next]_vars => EndInv'
<1> SUFFICES ASSUME LspInv, EndInv, [Next]_vars
             PROVE  EndInv'
  OBVIOUS
<1>0. /\ said \in Seq(Message) /\ heard \in 0..Len(said) /\ output \in Seq(Written)
      /\ shown \in 0..Len(output) /\ DOMAIN output = 1..Len(output)
  BY DEF LspInv, LspTypeOK
<1>1. CASE \E m \in Sayings : Say(m)
  <2>1. PICK m \in Sayings : Say(m)
    BY <1>1
  <2>2. /\ said' = Append(said, m) /\ m \in Message
        /\ UNCHANGED <<closed, shown, lost, heard, documents, output, server>>
    BY <2>1, SayingsAssumption DEF Say, serverVars
  <2>3. \A i \in 1..Len(said) : said'[i] = said[i]
    BY <1>0, <2>2
  <2>4. Len(said') = Len(said) + 1 /\ Len(said) \in Nat
    BY <1>0, <2>2
  <2>5. \A i \in DOMAIN output : output[i].reply.to \in 1..Len(said)
    <3>1. \A i \in DOMAIN output : output[i] \in Written /\ output[i].reply.to <= heard
      BY <1>0 DEF LspInv, RepliesOrdered
    <3>2. \A i \in DOMAIN output : output[i].reply.to \in Nat \ {0}
      BY <3>1 DEF Written, Reply
    <3> QED BY <1>0, <3>1, <3>2
  <2>6. server = "stopped" =>
          \/ closed
          \/ heard < Len(said') /\ ~said'[heard + 1].framed
          \/ heard > 0 /\ said'[heard].method = "exit"
          \/ /\ heard > 0 /\ said'[heard].method \in Texted
             /\ Endless(said'[heard].text) \/ Aborts(said'[heard].text)
    <3>1. heard < Len(said) => heard + 1 \in 1..Len(said) /\ heard < Len(said')
      BY <1>0, <2>4
    <3>2. heard > 0 => heard \in 1..Len(said)
      BY <1>0
    <3> QED BY <2>3, <3>1, <3>2 DEF EndInv
  <2>7. server = "checking" =>
          heard > 0 /\ said'[heard].method \in Texted /\ Endless(said'[heard].text)
    <3>1. heard > 0 => heard \in 1..Len(said)
      BY <1>0
    <3> QED BY <2>3, <3>1 DEF EndInv
  <2> QED BY <2>2, <2>3, <2>5, <2>6, <2>7 DEF EndInv
<1>2. CASE Close \/ Over \/ UNCHANGED vars
  BY <1>2 DEF Close, Over, vars, serverVars, EndInv
<1>3. CASE Receive
  <2>1. /\ ~lost /\ shown' = shown + 1 /\ lost' = output[shown + 1].noisy
        /\ shown < Len(output)
        /\ UNCHANGED <<said, heard, output, closed, server>>
    BY <1>3 DEF Receive, serverVars
  <2>2. shown + 1 \in DOMAIN output
    BY <1>0, <2>1
  <2> QED BY <2>1, <2>2 DEF EndInv
<1>4. CASE heard < Len(said) /\ Handle(said[heard + 1])
  <2> DEFINE m == said[heard + 1]
  <2>1. heard < Len(said) /\ Handle(m)
    BY <1>4
  <2>2. /\ heard \in Nat /\ heard + 1 > 0
        /\ m.method \in Texted => m.text \in Texts
    BY <2>1, NextMessage
  <2>3. CASE HandleInitialize(m) \/ HandleShutdown(m)
    <3>1. Read(m) /\ UNCHANGED server /\ \E found \in BOOLEAN : Send(m, NoText, found, FALSE)
      BY <2>3 DEF HandleInitialize, HandleShutdown
    <3> HIDE DEF m
    <3> QED BY <2>1, <3>1, ReplyEnds DEF m
  <2>4. CASE IgnoreMessage(m)
    BY <2>4 DEF IgnoreMessage, Read, editorVars, EndInv
  <2>5. CASE HandleExit(m)
    BY <2>2, <2>5 DEF HandleExit, Read, editorVars, EndInv
  <2>6. CASE HandleQuery(m)
    <3>1. /\ Read(m) /\ UNCHANGED server
          /\ \E found \in {m.method = "textDocument/completion"
                             \/ Hovers(Source(m.doc), m.at)} :
               Send(m, Source(m.doc), found, FALSE)
      BY <2>6 DEF HandleQuery
    <3> HIDE DEF m
    <3> QED BY <2>1, <3>1, ReplyEnds DEF m
  <2>7. CASE HandleText(m)
    <3> DEFINE text == Received[m.method][m.text]
    <3>1. Read(m) /\ m.method \in Texted /\ PublishDiagnostics(m, text)
      BY <2>7 DEF HandleText
    <3>2. /\ Endless(text) => Endless(m.text)
          /\ Imports(text) => Imports(m.text)
          /\ Aborts(text) => Aborts(m.text)
      BY <2>2, <3>1, NothingAdded
    <3> HIDE DEF text
    <3>3. CASE Endless(text) /\ server' = "checking" /\ UNCHANGED output
      <4>1. /\ server' = "checking" /\ UNCHANGED output /\ heard' = heard + 1
            /\ UNCHANGED <<said, closed, shown, lost>> /\ server = "serving"
        BY <3>1, <3>3 DEF Read, editorVars
      <4> QED BY <2>2, <3>1, <3>2, <3>3, <4>1 DEF EndInv
    <3>4. CASE Aborts(text) /\ DieChecking
      <4>1. /\ server' = "stopped" /\ UNCHANGED output /\ heard' = heard + 1
            /\ UNCHANGED <<said, closed, shown, lost>> /\ server = "serving"
        BY <3>1, <3>4 DEF DieChecking, Read, editorVars
      <4> QED BY <2>2, <3>1, <3>2, <3>4, <4>1 DEF EndInv
    <3>5. CASE UNCHANGED server /\ Send(m, text, TRUE, Imports(text))
      <4>1. UNCHANGED server /\ Send(m, text, TRUE, Imports(text))
        BY <3>5
      <4> HIDE DEF m
      <4> QED BY <2>1, <3>1, <3>2, <4>1, ReplyEnds DEF m
    <3> QED BY <3>1, <3>3, <3>4, <3>5 DEF PublishDiagnostics
  <2> QED BY <2>1, <2>3, <2>4, <2>5, <2>6, <2>7 DEF Handle
<1>5. CASE StopReading
  BY <1>0, <1>5 DEF StopReading, editorVars, EndInv
<1>6. CASE RunOut
  BY <1>6 DEF RunOut, editorVars, EndInv
<1> QED BY <1>1, <1>2, <1>3, <1>4, <1>5, <1>6 DEF Next, Edit, Serve

\* The server ends for one of the reasons the protocol knows, over an enum the
\* parser does not get through, or over a declaration that kills the process when
\* it is checked; the editor gives it up over an import only.
THEOREM ServiceEndsForAReason == Spec => []EndsForAReason
<1>1. Init => EndInv
  <2>1. output = <<>> => DOMAIN output = {}
    OBVIOUS
  <2> QED BY <2>1 DEF Init, EndInv
<1>2. EndInv => EndsForAReason
  BY DEF EndInv, EndsForAReason
<1> QED BY <1>1, <1>2, LspInit, LspStep, EndStep, PTL DEF Spec

==============================================================================
