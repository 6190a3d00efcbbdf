----------------------------- MODULE CodeGenProofs -----------------------------
(***************************************************************************)
(* What the code generator builds, for every program: the graphs of blocks *)
(* (none is forgotten or written after its end, every branch leads to one, *)
(* none leads back), then what is inside the blocks, then what follows an   *)
(* allocation.                                                              *)
(***************************************************************************)
EXTENDS CodeGen, SetLemmas, SequenceTheorems, TLAPS

\* A sequence of whatever it holds.
IsList(s) == s \in Seq({s[i] : i \in DOMAIN s})

\* A record with the fields of a block.
IsBlock(b) == DOMAIN b = {"code", "term", "type", "succ"}

\* The branches lead to blocks of the function, never to the entry block.
Targets(blocks) ==
  \A b \in DOMAIN blocks : \A k \in DOMAIN blocks[b].succ :
    blocks[b].succ[k] \in 2 .. Len(blocks)
\* The blocks end in an order no branch goes back in: there is a rank below m for
\* each that has ended, m for the others, and branches lead to greater ranks.
Ranks(blocks, r, m) ==
  \A b \in DOMAIN blocks :
    /\ blocks[b].term = "none" => r[b] = m
    /\ blocks[b].term # "none" => r[b] < m
    /\ \A k \in DOMAIN blocks[b].succ : r[b] < r[blocks[b].succ[k]]
\* There are such ranks.
Ranked(blocks) == \E m \in Nat : \E r \in [DOMAIN blocks -> Nat] : Ranks(blocks, r, m)

\* A function under construction: its current block has not ended.
Live(g) ==
  /\ DOMAIN g = {"blocks", "cur", "val", "unknown"}
  /\ IsList(g.blocks) /\ \A b \in DOMAIN g.blocks : IsBlock(g.blocks[b])
  /\ g.cur \in DOMAIN g.blocks /\ Open(g)
  /\ Targets(g.blocks) /\ Ranked(g.blocks)

\* The other blocks that have not ended.
Others(g) == {b \in DOMAIN g.blocks : b # g.cur /\ g.blocks[b].term = "none"}

\* Those of the new blocks behind n others, but for the k-th.
Left(n, new, k) == {n + i : i \in {j \in DOMAIN new : j # k /\ new[j].term = "none"}}

\* The current block of g may end, and the blocks new follow, the k-th being current.
Follows(g, term, succ, new, k) ==
  /\ Live(g) /\ term # "none"
  /\ IsList(new) /\ k \in DOMAIN new /\ new[k].term = "none"
  /\ \A i \in DOMAIN new : IsBlock(new[i]) /\ new[i].succ = <<>>
  /\ \A i \in DOMAIN succ : succ[i] \in Len(g.blocks) + 1 .. Len(g.blocks) + Len(new)

\* What generating an expression does: the current block grows, or ends and is
\* followed by blocks of which one is current and the others have ended.
Grown(g, h) ==
  /\ Live(h) /\ Len(h.blocks) >= Len(g.blocks)
  /\ Others(h) = Others(g)
\* The same, without a new block.
Kept(g, h) == Grown(g, h) /\ Len(h.blocks) = Len(g.blocks)

-----------------------------------------------------------------------------
\* A sequence over any set is a list.
LEMMA ListOfSeq ==
  ASSUME NEW S, NEW s \in Seq(S)
  PROVE  IsList(s) /\ Len(s) \in Nat /\ DOMAIN s = 1 .. Len(s)
<1>1. Len(s) \in Nat /\ DOMAIN s = 1 .. Len(s) /\ s \in [1 .. Len(s) -> S]
  BY LenProperties, SMTT(30)
<1>2. s \in [1 .. Len(s) -> {s[i] : i \in DOMAIN s}]
  BY <1>1, SMTT(30)
<1>3. s \in UNION {[1 .. n -> {s[i] : i \in DOMAIN s}] : n \in Nat}
  BY <1>1, <1>2
<1>. QED BY <1>1, <1>3, SeqDef DEF IsList

\* A list has a length.
LEMMA ListLen ==
  ASSUME NEW s, IsList(s)
  PROVE  Len(s) \in Nat /\ DOMAIN s = 1 .. Len(s)
BY LenProperties DEF IsList

\* Replacing an element of a list.
LEMMA ListExcept ==
  ASSUME NEW s, IsList(s), NEW i \in DOMAIN s, NEW x
  PROVE  /\ IsList([s EXCEPT ![i] = x])
         /\ Len([s EXCEPT ![i] = x]) = Len(s)
         /\ \A j \in DOMAIN s : [s EXCEPT ![i] = x][j] = IF j = i THEN x ELSE s[j]
<1>. DEFINE S == {s[j] : j \in DOMAIN s}
            T == S \cup {x}
<1>1. s \in Seq(T)
  BY SeqMonotonic, S \subseteq T DEF IsList
<1>2. i \in 1 .. Len(s) /\ x \in T
  BY ListLen
<1>3. DOMAIN s = 1 .. Len(s) BY ListLen
<1>. HIDE DEF T
<1>. QED BY <1>1, <1>2, <1>3, ExceptSeq, ListOfSeq

\* Two lists, one behind the other.
LEMMA ListConcat ==
  ASSUME NEW s, IsList(s), NEW t, IsList(t)
  PROVE  /\ IsList(s \o t)
         /\ Len(s \o t) = Len(s) + Len(t)
         /\ \A j \in 1 .. Len(s) + Len(t) :
              (s \o t)[j] = IF j <= Len(s) THEN s[j] ELSE t[j - Len(s)]
<1>. DEFINE S == {s[j] : j \in DOMAIN s}
            T == S \cup {t[j] : j \in DOMAIN t}
<1>1. s \in Seq(T) /\ t \in Seq(T)
  BY SeqMonotonic, S \subseteq T, {t[j] : j \in DOMAIN t} \subseteq T DEF IsList
<1>. HIDE DEF T
<1>. QED BY <1>1, ConcatProperties, ListOfSeq

\* One, two and three new blocks, and none.
LEMMA Lists ==
  ASSUME NEW x, NEW y, NEW z
  PROVE  /\ IsList(<<x>>) /\ IsList(<<x, y>>) /\ IsList(<<x, y, z>>) /\ IsList(<<>>)
         /\ Len(<<x>>) = 1 /\ Len(<<x, y>>) = 2 /\ Len(<<x, y, z>>) = 3
<1>1. <<x>> \in Seq({x, y, z}) /\ <<x, y>> \in Seq({x, y, z}) /\ <<x, y, z>> \in Seq({x, y, z})
  OBVIOUS
<1>2. <<>> \in Seq({x}) OBVIOUS
<1>. QED BY <1>1, <1>2, ListOfSeq

-----------------------------------------------------------------------------
\* Generating one thing after the other.
LEMMA GrownAgain ==
  ASSUME NEW g, NEW h, NEW i, Live(g), Grown(g, h), Grown(h, i)
  PROVE  Grown(g, i)
<1>1. Len(g.blocks) \in Nat /\ Len(h.blocks) \in Nat /\ Len(i.blocks) \in Nat
  BY ListLen DEF Live, Grown
<1>. QED BY <1>1 DEF Grown

\* What changes no more than the value, the names reported and the instructions
\* of the current block leaves the graph as it is.
LEMMA SameGraph ==
  ASSUME NEW g, Live(g), NEW c, NEW v, NEW u
  PROVE  /\ Kept(g, [g EXCEPT !.blocks[g.cur].code = c])
         /\ Kept(g, [g EXCEPT !.blocks[g.cur].code = c, !.unknown = u])
         /\ Kept(g, [g EXCEPT !.val = v])
         /\ Kept(g, [g EXCEPT !.unknown = u])
<1>. DEFINE b == [g.blocks[g.cur] EXCEPT !.code = c]
            bs == [g.blocks EXCEPT ![g.cur] = b]
<1>0. Len(g.blocks) \in Nat /\ DOMAIN g.blocks = 1 .. Len(g.blocks)
  BY ListLen DEF Live
<1>1. IsBlock(b) /\ b.term = g.blocks[g.cur].term /\ b.succ = g.blocks[g.cur].succ
  BY DEF Live, IsBlock
<1>2. /\ IsList(bs) /\ Len(bs) = Len(g.blocks)
      /\ \A j \in DOMAIN g.blocks : bs[j] = IF j = g.cur THEN b ELSE g.blocks[j]
  BY ListExcept DEF Live
<1>3. DOMAIN bs = DOMAIN g.blocks OBVIOUS
<1>. HIDE DEF b, bs
<1>4. ASSUME NEW h, DOMAIN h = DOMAIN g, h.blocks = bs \/ h.blocks = g.blocks, h.cur = g.cur
      PROVE  Kept(g, h)
  <2>1. /\ IsList(h.blocks) /\ DOMAIN h.blocks = DOMAIN g.blocks
        /\ Len(h.blocks) = Len(g.blocks)
        /\ \A j \in DOMAIN g.blocks : /\ IsBlock(h.blocks[j])
                                      /\ h.blocks[j].term = g.blocks[j].term
                                      /\ h.blocks[j].succ = g.blocks[j].succ
    BY <1>1, <1>2, <1>3, <1>4 DEF Live
  <2>4. Ranked(h.blocks)
    <3>1. PICK m \in Nat, r \in [DOMAIN g.blocks -> Nat] : Ranks(g.blocks, r, m)
      BY DEF Live, Ranked
    <3>2. Ranks(h.blocks, r, m) BY <2>1, <3>1 DEF Ranks
    <3>3. r \in [DOMAIN h.blocks -> Nat] BY <2>1
    <3>. QED BY <3>2, <3>3 DEF Ranked
  <2>2. Live(h) BY <2>1, <2>4, <1>4 DEF Live, Open, Targets
  <2>3. Others(h) = Others(g) BY <2>1, <1>4 DEF Others
  <2>. QED BY <2>1, <2>2, <2>3, <1>0 DEF Grown, Kept
<1>5. DEFINE h1 == [g EXCEPT !.blocks[g.cur].code = c]
             h2 == [g EXCEPT !.blocks[g.cur].code = c, !.unknown = u]
             h3 == [g EXCEPT !.val = v]
             h4 == [g EXCEPT !.unknown = u]
<1>6. DOMAIN h1 = DOMAIN g /\ h1.blocks = bs /\ h1.cur = g.cur
  BY DEF Live, bs, b
<1>7. DOMAIN h2 = DOMAIN g /\ h2.blocks = bs /\ h2.cur = g.cur
  BY DEF Live, bs, b
<1>8. DOMAIN h3 = DOMAIN g /\ h3.blocks = g.blocks /\ h3.cur = g.cur
  BY DEF Live
<1>9. DOMAIN h4 = DOMAIN g /\ h4.blocks = g.blocks /\ h4.cur = g.cur
  BY DEF Live
<1>. HIDE DEF h1, h2, h3, h4
<1>10. Kept(g, h1) /\ Kept(g, h2) /\ Kept(g, h3) /\ Kept(g, h4)
  BY <1>4, <1>6, <1>7, <1>8, <1>9
<1>. QED BY <1>10 DEF h1, h2, h3, h4

\* The steps expressions are made of keep the graph.
LEMMA Small ==
  ASSUME NEW g, Live(g)
  PROVE  /\ \A op, name, slot : Kept(g, Emit(g, op, name, slot))
         /\ \A ty : Kept(g, Value(g, ty))
         /\ Kept(g, Bad(g)) /\ Kept(g, Poison(g))
         /\ \A wrong : Kept(g, BadIf(g, wrong))
<1>1. \A op, name, slot : Kept(g, Emit(g, op, name, slot))
  BY SameGraph DEF Emit
<1>2. \A ty : Kept(g, Value(g, ty))
  BY SameGraph DEF Value
<1>3. Kept(g, g)
  <2>1. Len(g.blocks) \in Nat BY ListLen DEF Live
  <2>. QED BY <2>1, SMTT(30) DEF Kept, Grown
<1>. QED BY <1>1, <1>2, <1>3, SMTT(30) DEF Bad, Poison, BadIf

\* What is kept twice is kept, and keeping is growing.
LEMMA KeptAgain ==
  ASSUME NEW g, NEW h, NEW i, Live(g), Kept(g, h), Kept(h, i)
  PROVE  Kept(g, i)
BY GrownAgain DEF Kept

\* The blocks of a function h whose current block has ended as b: the n it had,
\* and the l new ones behind them.
EndsIn(g, term, succ, new, k, h, b, n, l) ==
  /\ n \in Nat /\ l \in Nat /\ DOMAIN g.blocks = 1 .. n /\ DOMAIN new = 1 .. l
  /\ IsBlock(b) /\ b.term = term /\ b.succ = succ /\ b.code = g.blocks[g.cur].code
  /\ h.cur = n + k /\ DOMAIN h = {"blocks", "cur", "val", "unknown"}
  /\ IsList(h.blocks) /\ Len(h.blocks) = n + l /\ DOMAIN h.blocks = 1 .. n + l
  /\ \A j \in 1 .. n : h.blocks[j] = IF j = g.cur THEN b ELSE g.blocks[j]
  /\ \A j \in 1 .. l : h.blocks[n + j] = new[j]
  /\ \A j \in DOMAIN h.blocks : j \in 1 .. n \/ \E i \in 1 .. l : j = n + i

\* Ending the current block and adding others gives these blocks.
LEMMA EndedBlocks ==
  ASSUME NEW g, NEW term, NEW type, NEW succ, NEW new, NEW k,
         Follows(g, term, succ, new, k)
  PROVE  EndsIn(g, term, succ, new, k,
                Fresh(End(g, term, type, succ), new, Len(g.blocks) + k),
                [g.blocks[g.cur] EXCEPT !.term = term, !.type = type, !.succ = succ],
                Len(g.blocks), Len(new))
<1>. DEFINE h == Fresh(End(g, term, type, succ), new, Len(g.blocks) + k)
            b == [g.blocks[g.cur] EXCEPT !.term = term, !.type = type, !.succ = succ]
            n == Len(g.blocks)
            l == Len(new)
<1>. DEFINE bs == [g.blocks EXCEPT ![g.cur] = b]
<1>20. /\ Live(g) /\ term # "none"
       /\ IsList(new) /\ k \in DOMAIN new /\ new[k].term = "none"
       /\ \A i \in DOMAIN new : IsBlock(new[i]) /\ new[i].succ = <<>>
       /\ \A i \in DOMAIN succ : succ[i] \in Len(g.blocks) + 1 .. Len(g.blocks) + Len(new)
  BY DEF Follows
<1>. USE <1>20
<1>1. n \in Nat /\ DOMAIN g.blocks = 1 .. n /\ Len(new) \in Nat /\ DOMAIN new = 1 .. Len(new)
  BY ListLen DEF Live
<1>2. IsBlock(b) /\ b.term = term /\ b.succ = succ /\ b.code = g.blocks[g.cur].code
  BY DEF Live, IsBlock
<1>3. /\ IsList(bs) /\ Len(bs) = n
      /\ \A j \in 1 .. n : bs[j] = IF j = g.cur THEN b ELSE g.blocks[j]
  BY <1>1, ListExcept DEF Live
<1>4. h.blocks = bs \o new /\ h.cur = n + k /\ DOMAIN h = {"blocks", "cur", "val", "unknown"}
  <2>1. End(g, term, type, succ).blocks = bs
    BY DEF Live, End
  <2>2. DOMAIN End(g, term, type, succ) = {"blocks", "cur", "val", "unknown"}
    BY DEF Live, End
  <2>. QED BY <2>1, <2>2 DEF Fresh
<1>. HIDE DEF h, b, bs
<1>5. /\ IsList(h.blocks) /\ Len(h.blocks) = n + l
      /\ DOMAIN h.blocks = 1 .. n + l
      /\ \A j \in 1 .. n : h.blocks[j] = IF j = g.cur THEN b ELSE g.blocks[j]
      /\ \A j \in 1 .. l : h.blocks[n + j] = new[j]
  <2>0. /\ IsList(bs \o new) /\ Len(bs \o new) = Len(bs) + Len(new)
        /\ \A j \in 1 .. Len(bs) + Len(new) :
             (bs \o new)[j] = IF j <= Len(bs) THEN bs[j] ELSE new[j - Len(bs)]
    <3>1. IsList(bs) /\ IsList(new) BY <1>3
    <3>. QED BY <3>1, ListConcat
  <2>1. IsList(h.blocks) /\ Len(h.blocks) = n + l
    BY <1>3, <1>4, <2>0
  <2>2. DOMAIN h.blocks = 1 .. n + l
    BY <2>1, ListLen
  <2>3. \A j \in 1 .. n + l : h.blocks[j] = IF j <= n THEN bs[j] ELSE new[j - n]
    BY <1>3, <1>4, <2>0
  <2>4. n \in Nat /\ l \in Nat BY <1>1
  <2>5. ASSUME NEW j \in 1 .. l PROVE h.blocks[n + j] = new[j]
    <3>. DEFINE m == n + j
    <3>1. m \in 1 .. n + l /\ ~(m <= n) /\ m - n = j BY <2>4
    <3>. HIDE DEF m
    <3>2. h.blocks[m] = new[m - n] BY <3>1, <2>3
    <3>3. h.blocks[m] = new[j] BY <3>1, <3>2
    <3>. QED BY <3>3 DEF m
  <2>6. \A j \in 1 .. n : h.blocks[j] = bs[j] BY <2>3, <2>4
  <2>. QED BY <1>3, <2>1, <2>2, <2>5, <2>6
<1>0. n \in Nat /\ l \in Nat BY <1>1
<1>10. DOMAIN g.blocks = 1 .. n /\ DOMAIN new = 1 .. l BY <1>1
<1>6. \A j \in DOMAIN h.blocks : j \in 1 .. n \/ \E i \in 1 .. l : j = n + i
  <2>1. ASSUME NEW j \in 1 .. n + l, j \notin 1 .. n
        PROVE  j - n \in 1 .. l /\ j = n + (j - n)
    BY <1>0, <2>1
  <2>. QED BY <1>5, <2>1
<1>7. EndsIn(g, term, succ, new, k, h, b, n, l)
  BY <1>0, <1>2, <1>4, <1>5, <1>6, <1>10 DEF EndsIn
<1>. QED BY <1>7 DEF h, b

\* The current block ends, and new blocks follow of which the k-th is current.
LEMMA Ended ==
  ASSUME NEW g, NEW term, NEW type, NEW succ, NEW new, NEW k,
         Follows(g, term, succ, new, k)
  PROVE  LET h == Fresh(End(g, term, type, succ), new, Len(g.blocks) + k)
         IN  /\ Live(h) /\ Len(h.blocks) = Len(g.blocks) + Len(new)
             /\ Others(h) = Others(g) \cup
                  Left(Len(g.blocks), new, k)
<1>. DEFINE h == Fresh(End(g, term, type, succ), new, Len(g.blocks) + k)
            n == Len(g.blocks)
            l == Len(new)
            b == [g.blocks[g.cur] EXCEPT !.term = term, !.type = type, !.succ = succ]
<1>22. EndsIn(g, term, succ, new, k, h, b, n, l)
  BY EndedBlocks, Zenon
<1>. HIDE DEF b, h, n, l
<1>21. /\ n \in Nat /\ l \in Nat /\ DOMAIN g.blocks = 1 .. n /\ DOMAIN new = 1 .. l
       /\ IsBlock(b) /\ b.term = term /\ b.succ = succ
       /\ h.cur = n + k /\ DOMAIN h = {"blocks", "cur", "val", "unknown"}
       /\ IsList(h.blocks) /\ Len(h.blocks) = n + l /\ DOMAIN h.blocks = 1 .. n + l
       /\ \A j \in 1 .. n : h.blocks[j] = IF j = g.cur THEN b ELSE g.blocks[j]
       /\ \A j \in 1 .. l : h.blocks[n + j] = new[j]
       /\ \A j \in DOMAIN h.blocks : j \in 1 .. n \/ \E i \in 1 .. l : j = n + i
  BY ONLY <1>22 DEF EndsIn
<1>20. /\ Live(g) /\ term # "none"
       /\ IsList(new) /\ k \in DOMAIN new /\ new[k].term = "none"
       /\ \A i \in DOMAIN new : IsBlock(new[i]) /\ new[i].succ = <<>>
       /\ \A i \in DOMAIN succ : succ[i] \in Len(g.blocks) + 1 .. Len(g.blocks) + Len(new)
  BY DEF Follows
<1>. USE <1>20 DEF n, l
<1>2. IsBlock(b) /\ b.term = term /\ b.succ = succ BY <1>21
<1>5. /\ IsList(h.blocks) /\ Len(h.blocks) = n + l
      /\ DOMAIN h.blocks = 1 .. n + l
      /\ \A j \in 1 .. n : h.blocks[j] = IF j = g.cur THEN b ELSE g.blocks[j]
      /\ \A j \in 1 .. l : h.blocks[n + j] = new[j]
  BY <1>21
<1>1. n \in Nat /\ l \in Nat /\ DOMAIN g.blocks = 1 .. n /\ DOMAIN new = 1 .. l BY <1>21
<1>4. h.cur = n + k BY <1>21
<1>0. n \in Nat /\ l \in Nat BY <1>1
<1>10. DOMAIN g.blocks = 1 .. n /\ DOMAIN new = 1 .. l BY <1>1
<1>11. h.cur = n + k /\ k \in 1 .. l BY <1>1, <1>4
<1>12. DOMAIN h = {"blocks", "cur", "val", "unknown"} BY <1>21
<1>6. \A j \in DOMAIN h.blocks : j \in 1 .. n \/ \E i \in 1 .. l : j = n + i BY <1>21
<1>. HIDE DEF n, l
<1>7. Targets(h.blocks)
  <2>1. ASSUME NEW j \in 1 .. n, NEW m \in DOMAIN h.blocks[j].succ
        PROVE  h.blocks[j].succ[m] \in 2 .. n + l
    <3>1. CASE j = g.cur
      <4>1. h.blocks[j].succ = succ BY <3>1, <1>2, <1>5
      <4>2. h.blocks[j].succ[m] \in n + 1 .. n + l BY <4>1, <2>1 DEF n, l
      <4>. QED BY <4>2, <2>1, <1>0
    <3>2. CASE j # g.cur
      <4>1. h.blocks[j] = g.blocks[j] BY <3>2, <1>5
      <4>2. g.blocks[j].succ[m] \in 2 .. n BY <4>1, <1>10, <2>1 DEF Live, Targets, n
      <4>. QED BY <4>1, <4>2, <1>0
    <3>. QED BY <3>1, <3>2
  <2>2. ASSUME NEW j \in 1 .. l PROVE DOMAIN h.blocks[n + j].succ = {}
    BY <1>5, <1>10
  <2>. QED BY <2>1, <2>2, <1>5, <1>6 DEF Targets
<1>13. Ranked(h.blocks)
  <2>1. PICK m \in Nat, r \in [DOMAIN g.blocks -> Nat] : Ranks(g.blocks, r, m)
    BY DEF Live, Ranked
  <2>. DEFINE q == [j \in DOMAIN h.blocks |->
                      IF h.blocks[j].term = "none" THEN m + 2
                      ELSE IF j \in 1 .. n /\ j # g.cur THEN r[j]
                      ELSE IF j = g.cur THEN m ELSE m + 1]
  <2>2. g.cur \in 1 .. n /\ r[g.cur] = m BY <2>1, <1>10 DEF Ranks, Live, Open
  <2>3. \A j \in 1 .. n : r[j] \in Nat BY <1>10
  <2>4. q \in [DOMAIN h.blocks -> Nat] BY <2>3
  <2>5. ASSUME NEW j \in 1 .. n, j # g.cur
        PROVE  /\ h.blocks[j] = g.blocks[j] /\ j \in DOMAIN h.blocks /\ r[j] \in Nat
               /\ h.blocks[j].term = "none" => r[j] = m /\ q[j] = m + 2
               /\ h.blocks[j].term # "none" => r[j] < m /\ q[j] = r[j]
               /\ \A e \in DOMAIN h.blocks[j].succ : r[j] < r[h.blocks[j].succ[e]]
    <3>1. h.blocks[j] = g.blocks[j] /\ j \in DOMAIN h.blocks /\ j \in DOMAIN g.blocks
      BY <2>5, <1>0, <1>5, <1>10, SMTT(30)
    <3>. QED BY <3>1, <2>1, <2>3, <2>5 DEF Ranks
  <2>6. g.cur \in DOMAIN h.blocks /\ h.blocks[g.cur] = b /\ q[g.cur] = m
    BY <2>2, <1>0, <1>2, <1>5, <1>10, SMTT(30)
  <2>7. ASSUME NEW i \in 1 .. l
        PROVE  /\ n + i \in DOMAIN h.blocks /\ h.blocks[n + i] = new[i]
               /\ n + i \notin 1 .. n /\ n + i # g.cur
               /\ q[n + i] = IF new[i].term = "none" THEN m + 2 ELSE m + 1
    <3>. DEFINE j == n + i
    <3>1. j \in 1 .. n + l /\ ~(j \in 1 .. n) /\ j # g.cur BY <1>0, <2>2
    <3>2. h.blocks[j] = new[i] BY <1>5
    <3>. HIDE DEF j
    <3>3. q[j] = IF new[i].term = "none" THEN m + 2 ELSE m + 1 BY <3>1, <3>2, <1>5
    <3>. QED BY <3>1, <3>2, <3>3, <1>5 DEF j
  <2>. HIDE DEF q
  <2>8. ASSUME NEW j \in 1 .. n
        PROVE  /\ h.blocks[j].term = "none" => q[j] = m + 2
               /\ h.blocks[j].term # "none" => q[j] < m + 2
               /\ \A e \in DOMAIN h.blocks[j].succ : q[j] < q[h.blocks[j].succ[e]]
    <3>1. CASE j = g.cur
      <4>1. h.blocks[j].term # "none" /\ h.blocks[j].succ = succ /\ q[j] = m
        BY <3>1, <2>6, <1>2
      <4>2. ASSUME NEW e \in DOMAIN succ PROVE m < q[succ[e]]
        <5>1. succ[e] \in n + 1 .. n + l BY <4>2 DEF n, l
        <5>2. succ[e] - n \in 1 .. l /\ succ[e] = n + (succ[e] - n) BY <5>1, <1>0
        <5>. QED BY <5>2, <2>7
      <4>. QED BY <4>1, <4>2
    <3>2. CASE j # g.cur
      <4>1. ASSUME NEW e \in DOMAIN h.blocks[j].succ
            PROVE  q[j] < q[h.blocks[j].succ[e]]
        <5>. DEFINE t == h.blocks[j].succ[e]
        <5>1. t \in 1 .. n /\ r[j] < r[t]
          <6>1. g.blocks[j].succ[e] \in 2 .. n
            BY <3>2, <4>1, <2>5, <1>10 DEF Live, Targets, n
          <6>. QED BY <6>1, <3>2, <2>5, <1>0
        <5>. HIDE DEF t
        <5>2. r[t] \in Nat /\ r[j] \in Nat BY <5>1, <2>3
        <5>3. r[t] <= m /\ q[t] >= r[t]
          <6>1. CASE t = g.cur BY <6>1, <2>2, <2>6
          <6>2. CASE t # g.cur BY <6>2, <5>1, <5>2, <2>5
          <6>. QED BY <6>1, <6>2
        <5>4. q[j] = r[j]
          <6>1. h.blocks[j].term # "none" BY <5>1, <5>2, <5>3, <3>2, <2>5
          <6>. QED BY <6>1, <3>2, <2>5
        <5>5. q[t] \in Nat BY <5>1, <2>4, <1>0, <1>5
        <5>. QED BY <5>1, <5>2, <5>3, <5>4, <5>5 DEF t
      <4>. QED BY <3>2, <4>1, <2>5
    <3>. QED BY <3>1, <3>2
  <2>9. ASSUME NEW i \in 1 .. l
        PROVE  /\ h.blocks[n + i].term = "none" => q[n + i] = m + 2
               /\ h.blocks[n + i].term # "none" => q[n + i] < m + 2
               /\ DOMAIN h.blocks[n + i].succ = {}
    <3>1. DOMAIN new[i].succ = {} BY <1>10
    <3>. QED BY <3>1, <2>7
  <2>10. Ranks(h.blocks, q, m + 2) BY <1>6, <2>8, <2>9 DEF Ranks
  <2>11. m + 2 \in Nat OBVIOUS
  <2>. QED BY <2>4, <2>10, <2>11 DEF Ranked
<1>8. Live(h)
  <2>1. \A j \in 1 .. n : IsBlock(h.blocks[j])
    BY <1>2, <1>5, <1>10 DEF Live
  <2>2. \A j \in 1 .. l : IsBlock(h.blocks[n + j])
    BY <1>5, <1>10
  <2>3. h.cur \in DOMAIN h.blocks /\ Open(h)
    BY <1>0, <1>5, <1>10, <1>11 DEF Open
  <2>. QED BY <2>1, <2>2, <2>3, <1>12, <1>5, <1>6, <1>7, <1>13 DEF Live
<1>9. Others(h) = Others(g) \cup Left(n, new, k)
  <2>1. ASSUME NEW j \in 1 .. n PROVE j \in Others(h) <=> j \in Others(g)
    <3>1. j \in DOMAIN h.blocks /\ j # h.cur BY <1>0, <1>5, <1>10, <1>11
    <3>. QED BY <3>1, <1>2, <1>5, <1>10 DEF Others
  <2>2. ASSUME NEW i \in 1 .. l
        PROVE  n + i \in Others(h) <=> i # k /\ new[i].term = "none"
    <3>1. n + i \in DOMAIN h.blocks /\ h.blocks[n + i] = new[i] BY <1>0, <1>5
    <3>2. i # k => n + i # n + k BY <1>0, <1>11
    <3>3. CASE i = k BY <3>1, <3>3, <1>11 DEF Others
    <3>4. CASE i # k BY <3>1, <3>2, <3>4, <1>11 DEF Others
    <3>. QED BY <3>3, <3>4
  <2>3. Others(h) \subseteq DOMAIN h.blocks /\ Others(g) \subseteq 1 .. n
    BY <1>10 DEF Others
  <2>4. \A i \in 1 .. l : n + i \notin 1 .. n BY <1>0
  <2>. QED BY <1>6, <1>10, <2>1, <2>2, <2>3, <2>4 DEF Left
<1>. QED BY <1>5, <1>8, <1>9 DEF n, l, h

-----------------------------------------------------------------------------
(* Expressions.                                                             *)

\* Literals, identifiers and calls keep the graph, whatever they push into the
\* current block.
LEMMA LeavesKeep ==
  ASSUME NEW g, Live(g)
  PROVE  /\ \A t : Kept(g, GenLiteral(g, t))
         /\ \A x : Kept(g, GenIdent(g, x))
         /\ \A f, args : Kept(g, GenCall(g, f, args))
<1>1. \A n : Kept(g, Unknown(g, n))
  <2>. TAKE n
  <2>1. Kept(g, [g EXCEPT !.unknown = @ \cup {n}])
    BY SameGraph
  <2>. DEFINE h == [g EXCEPT !.unknown = @ \cup {n}]
  <2>2. Live(h) BY <2>1 DEF Kept, Grown
  <2>. HIDE DEF h
  <2>3. Kept(h, Poison(h)) BY <2>2, Small
  <2>4. Kept(g, Poison(h)) BY <2>1, <2>3, KeptAgain DEF h
  <2>. QED BY <2>4 DEF Unknown, h
<1>2. \A op, name, slot, ty : Kept(g, Value(Emit(g, op, name, slot), ty))
  <2>. TAKE op, name, slot, ty
  <2>1. Kept(g, Emit(g, op, name, slot)) BY Small
  <2>2. Live(Emit(g, op, name, slot)) BY <2>1 DEF Kept, Grown
  <2>3. Kept(Emit(g, op, name, slot), Value(Emit(g, op, name, slot), ty)) BY <2>2, Small
  <2>. QED BY <2>1, <2>3, KeptAgain
<1>3. \A t : Kept(g, GenLiteral(g, t))
  BY Small DEF GenLiteral
<1>4. \A x : Kept(g, GenIdent(g, x))
  BY <1>1, <1>2 DEF GenIdent
<1>5. ASSUME NEW f, NEW args PROVE Kept(g, GenCall(g, f, args))
  <2>. DEFINE done == [g EXCEPT !.blocks[g.cur].code = @ \o ArgumentCode(f, args),
                                !.unknown = @ \cup UNION {Passed(f, args[k], k).unknown : k \in DOMAIN args}]
              called == BadIf(done, Len(args) # Len(Signature(f).params))
              result == Value(Emit(called, "call", f, Here), Signature(f).ret)
  <2>1. Kept(g, done) BY SameGraph
  <2>2. GenCall(g, f, args) = IF ~HasFunction(f) THEN Unknown(g, f) ELSE result
    BY DEF GenCall
  <2>. HIDE DEF done
  <2>3. Live(done) /\ Kept(done, called) BY <2>1, Small DEF Kept, Grown
  <2>. HIDE DEF called
  <2>4. Kept(g, called) /\ Live(called) BY <2>1, <2>3, KeptAgain DEF Kept, Grown
  <2>5. Kept(called, Emit(called, "call", f, Here)) BY <2>4, Small
  <2>6. Live(Emit(called, "call", f, Here)) BY <2>5 DEF Kept, Grown
  <2>7. Kept(Emit(called, "call", f, Here), result) BY <2>6, Small
  <2>8. Kept(g, result) BY <2>4, <2>5, <2>7, KeptAgain
  <2>. HIDE DEF result
  <2>. QED BY <1>1, <2>2, <2>8
<1>. QED BY <1>3, <1>4, <1>5

\* `?' ends the current block; of the two new ones the error path has ended.
LEMMA PropagateGrows ==
  ASSUME NEW g, Live(g)
  PROVE  Grown(g, GenPropagate(g))
<1>. DEFINE n   == Len(g.blocks)
            b   == BadIf(g, g.val # "res")
            err == [NewBlock EXCEPT !.term = "ret_err", !.type = "res"]
            new == <<NewBlock, err>>
            h   == Fresh(End(b, "prop", "void", <<n + 1, n + 2>>), new, n + 1)
<1>1. n \in Nat \ {0}
  <2>1. n \in Nat /\ g.cur \in 1 .. n BY ListLen DEF Live
  <2>. QED BY <2>1
<1>2. Kept(g, b) /\ Live(b) /\ Len(b.blocks) = n BY Small DEF Kept, Grown
<1>3. IsList(new) /\ DOMAIN new = 1 .. 2 /\ Len(new) = 2
  BY Lists, ListLen
<1>0. IsBlock(NewBlock) /\ NewBlock.succ = <<>> /\ NewBlock.term = "none"
  BY DEF NewBlock, IsBlock
<1>4. IsBlock(err) /\ err.succ = <<>> /\ err.term = "ret_err"
  BY <1>0 DEF IsBlock
<1>5. new[1] = NewBlock /\ new[2] = err
  OBVIOUS
<1>6. GenPropagate(g) = Poison(h)
  BY DEF GenPropagate
<1>7. \A i \in DOMAIN <<n + 1, n + 2>> : <<n + 1, n + 2>>[i] \in n + 1 .. n + 2
  BY <1>1
<1>. HIDE DEF b, err, new
<1>12. \A i \in DOMAIN new : IsBlock(new[i]) /\ new[i].succ = <<>>
  BY <1>0, <1>3, <1>4, <1>5
<1>13. h = Fresh(End(b, "prop", "void", <<n + 1, n + 2>>), new, Len(b.blocks) + 1)
  BY <1>2
<1>14. \A i \in DOMAIN <<n + 1, n + 2>> : <<n + 1, n + 2>>[i] \in Len(b.blocks) + 1 .. Len(b.blocks) + Len(new)
  BY <1>2, <1>3, <1>7
<1>. HIDE DEF h
<1>8. /\ Live(h) /\ Len(h.blocks) = n + 2
      /\ Others(h) = Others(b) \cup Left(Len(b.blocks), new, 1)
  <2>1. 1 \in DOMAIN new /\ new[1].term = "none" BY <1>0, <1>3, <1>5
  <2>2. "prop" # "none" OBVIOUS
  <2>. DEFINE succ == <<n + 1, n + 2>>
              f == Fresh(End(b, "prop", "void", succ), new, Len(b.blocks) + 1)
  <2>3. \A i \in DOMAIN succ : succ[i] \in Len(b.blocks) + 1 .. Len(b.blocks) + Len(new) BY <1>14
  <2>4. h = f BY <1>13
  <2>. HIDE DEF succ
  <2>5. /\ Live(f) /\ Len(f.blocks) = Len(b.blocks) + Len(new)
        /\ Others(f) = Others(b) \cup Left(Len(b.blocks), new, 1)
    <3>1. Follows(b, "prop", succ, new, 1)
      BY <1>2, <1>3, <1>12, <2>1, <2>2, <2>3 DEF Follows
    <3>. HIDE DEF f
    <3>2. LET e == Fresh(End(b, "prop", "void", succ), new, Len(b.blocks) + 1)
          IN  /\ Live(e) /\ Len(e.blocks) = Len(b.blocks) + Len(new)
              /\ Others(e) = Others(b) \cup Left(Len(b.blocks), new, 1)
      BY <3>1, Ended
    <3>. QED BY <3>2 DEF f
  <2>. HIDE DEF f
  <2>. QED BY <1>2, <1>3, <2>4, <2>5
<1>9. Others(h) = Others(b)
  <2>1. {j \in DOMAIN new : j # 1 /\ new[j].term = "none"} = {} BY <1>3, <1>4, <1>5
  <2>. QED BY <1>8, <2>1 DEF Left
<1>10. Grown(g, h)
  BY <1>1, <1>2, <1>8, <1>9 DEF Grown, Kept
<1>11. Kept(h, Poison(h)) BY <1>8, Small
<1>. QED BY <1>6, <1>10, <1>11, GrownAgain DEF Kept

\* A return ends the current block; what follows is generated into a new one.
LEMMA DeadGrows ==
  ASSUME NEW g, NEW v, Live(g), Grown(g, v), NEW term, term # "none", NEW type,
         NEW b, Kept(v, b)
  PROVE  Grown(g, Dead(End(b, term, type, <<>>)))
<1>. DEFINE n == Len(b.blocks)
            e == End(b, term, type, <<>>)
            new == <<NewBlock>>
            h == Fresh(e, new, n + 1)
<1>1. Live(v) /\ Live(b) BY DEF Kept, Grown
<1>2. n \in Nat BY <1>1, ListLen DEF Live
<1>3. Len(e.blocks) = n
  BY <1>1, ListExcept DEF Live, End
<1>4. IsList(new) /\ DOMAIN new = 1 .. 1 /\ Len(new) = 1 BY Lists, ListLen
<1>5. IsBlock(new[1]) /\ new[1].succ = <<>> /\ new[1].term = "none" BY DEF NewBlock, IsBlock
<1>6. Dead(e) = Value(h, "null") BY <1>3 DEF Dead
<1>. HIDE DEF new
<1>12. \A i \in DOMAIN new : IsBlock(new[i]) /\ new[i].succ = <<>>
  BY <1>4, <1>5
<1>13. DOMAIN <<>> = {} OBVIOUS
<1>14. h = Fresh(End(b, term, type, <<>>), new, Len(b.blocks) + 1)
  OBVIOUS
<1>. HIDE DEF h
<1>7. /\ Live(h) /\ Len(h.blocks) = n + 1
      /\ Others(h) = Others(b) \cup Left(Len(b.blocks), new, 1)
  <2>1. 1 \in DOMAIN new BY <1>4
  <2>2. \A i \in DOMAIN <<>> : <<>>[i] \in Len(b.blocks) + 1 .. Len(b.blocks) + Len(new) BY <1>13
  <2>. DEFINE f == Fresh(End(b, term, type, <<>>), new, Len(b.blocks) + 1)
  <2>3. h = f BY <1>14
  <2>4. /\ Live(f) /\ Len(f.blocks) = Len(b.blocks) + Len(new)
        /\ Others(f) = Others(b) \cup Left(Len(b.blocks), new, 1)
    <3>1. Follows(b, term, <<>>, new, 1)
      BY <1>1, <1>4, <1>5, <1>12, <2>1, <2>2 DEF Follows
    <3>2. LET e2 == Fresh(End(b, term, type, <<>>), new, Len(b.blocks) + 1)
          IN  /\ Live(e2) /\ Len(e2.blocks) = Len(b.blocks) + Len(new)
              /\ Others(e2) = Others(b) \cup Left(Len(b.blocks), new, 1)
      BY <3>1, Ended
    <3>. QED BY <3>2 DEF f
  <2>. HIDE DEF f
  <2>. QED BY <1>4, <2>3, <2>4
<1>8. Others(h) = Others(b)
  <2>1. {j \in DOMAIN new : j # 1 /\ new[j].term = "none"} = {} BY <1>4
  <2>. QED BY <1>7, <2>1 DEF Left
<1>9. Grown(b, h) BY <1>2, <1>7, <1>8 DEF Grown
<1>10. Grown(g, h) BY <1>1, <1>9, GrownAgain DEF Kept
<1>11. Kept(h, Value(h, "null")) BY <1>7, Small
<1>15. Grown(g, Value(h, "null")) BY <1>7, <1>10, <1>11, GrownAgain DEF Kept
<1>. QED BY <1>6, <1>15

\* An expression grows the graph, whatever it is.
LEMMA ExprGrows ==
  ASSUME NEW g, Live(g), NEW e
  PROVE  Grown(g, GenExpr(g, e))
<1>1. ASSUME NEW h, Live(h), NEW a PROVE Grown(h, GenAtom(h, a))
  <2>. DEFINE v == CASE a.kind = "lit"   -> GenLiteral(h, a.val)
                     [] a.kind = "ident" -> GenIdent(h, a.val)
                     [] OTHER            -> GenCall(h, a.val, a.args)
  <2>1. Kept(h, v) BY <1>1, LeavesKeep
  <2>. HIDE DEF v
  <2>2. Live(v) /\ Grown(h, v) BY <2>1 DEF Kept, Grown
  <2>3. Grown(h, GenPropagate(v)) BY <1>1, <2>2, PropagateGrows, GrownAgain
  <2>4. GenAtom(h, a) = IF a.prop THEN GenPropagate(v) ELSE v BY DEF GenAtom, v
  <2>. QED BY <2>2, <2>3, <2>4
<1>2. ASSUME NEW wrap, NEW a, NEW b PROVE Grown(g, GenBinary(g, wrap, a, b))
  <2>. DEFINE l == GenAtom(g, a)
              r == GenAtom(l, b)
              ints == Width(l.val) > 0 /\ Width(r.val) > 0
              i == BadIf(r, ~ints)
              wide == IF Width(l.val) < Width(r.val) THEN r.val ELSE l.val
              ty == IF wrap = "compare" THEN "i1" ELSE wide
  <2>1. GenBinary(g, wrap, a, b) = Value(i, ty) BY DEF GenBinary, Combine
  <2>. HIDE DEF ty
  <2>2. Grown(g, l) /\ Live(l) BY <1>1 DEF Grown
  <2>3. Grown(l, r) BY <1>1, <2>2
  <2>. HIDE DEF l, r
  <2>4. Grown(g, r) /\ Live(r) BY <2>2, <2>3, GrownAgain DEF Grown
  <2>5. Kept(r, i) BY <2>4, Small
  <2>. HIDE DEF i
  <2>6. Grown(g, i) /\ Live(i) BY <2>4, <2>5, GrownAgain DEF Kept, Grown
  <2>7. Kept(i, Value(i, ty)) BY <2>6, Small
  <2>. QED BY <2>1, <2>6, <2>7, GrownAgain DEF Kept
<1>3. ASSUME NEW a PROVE Grown(g, GenReturnOk(g, a))
  <2>. DEFINE v == GenAtom(g, a)
              b == BadIf(v, v.val \in {"void", "res"})
              ret == LlvmOf(gdecl.ret)
  <2>1. Grown(g, v) /\ Live(v) BY <1>1 DEF Grown
  <2>. HIDE DEF v, ret
  <2>2. Kept(v, b) /\ Kept(v, v) 
    <3>1. Len(v.blocks) \in Nat BY <2>1, ListLen DEF Live
    <3>. QED BY <2>1, <3>1, Small DEF Kept, Grown
  <2>. HIDE DEF b
  <2>3. GenReturnOk(g, a) = Dead(ReturnOf(v, ret)) BY DEF GenReturnOk, v, ret
  <2>4. ReturnOf(v, ret) \in {End(v, "ret_ok", "void", <<>>), End(b, "ret_ok", "res", <<>>),
                              End(v, "ret_ok", v.val, <<>>)}
    BY DEF ReturnOf, b
  <2>5. /\ Grown(g, Dead(End(v, "ret_ok", "void", <<>>)))
        /\ Grown(g, Dead(End(b, "ret_ok", "res", <<>>)))
        /\ Grown(g, Dead(End(v, "ret_ok", v.val, <<>>)))
    BY <2>1, <2>2, DeadGrows
  <2>. QED BY <2>3, <2>4, <2>5
<1>4. Grown(g, GenReturnErr(g))
  <2>1. Len(g.blocks) \in Nat BY ListLen DEF Live
  <2>2. Kept(g, g) BY <2>1, SMTT(30) DEF Kept, Grown
  <2>. QED BY <2>2, DeadGrows DEF GenReturnErr, Kept
<1>5. Grown(g, Poison(g)) BY Small DEF Kept
<1>. QED BY <1>1, <1>2, <1>3, <1>4, <1>5 DEF GenExpr

-----------------------------------------------------------------------------
(* Statements.                                                              *)

OpenIf == [orelse : Nat, merge : Nat, within : {"then", "else"}]

\* The blocks of the open ifs were made in the order of the ifs.
IfsOK ==
  /\ ifs \in Seq(OpenIf)
  /\ \A k \in DOMAIN ifs :
       /\ 1 < ifs[k].orelse /\ ifs[k].orelse < ifs[k].merge
       /\ ifs[k].merge <= Len(fn.blocks)
  /\ \A j, k \in DOMAIN ifs : j < k => ifs[j].merge < ifs[k].orelse

\* Of the function under construction.
BodyInv == gpc # 0 => Live(fn) /\ IfsOK /\ Others(fn) = Waiting

\* The blocks of a function that was emitted are ranked: there is no way round.
Acyclic(blocks) ==
  \E r \in [DOMAIN blocks -> Nat] :
    \A b \in DOMAIN blocks : \A k \in DOMAIN blocks[b].succ : r[b] < r[blocks[b].succ[k]]
\* Of every function that was emitted.
EmittedRanked == \A f \in DOMAIN emitted : Acyclic(emitted[f].blocks)

\* The inductive invariant of the graphs.
GraphInv ==
  /\ prog \in Programs
  /\ BodyInv
  /\ IsList(emitted) /\ EmittedClosed /\ EmittedRanked

\* The current block ends with a branch to an existing one, and another that has
\* not ended becomes current.
LEMMA Went ==
  ASSUME NEW g, Live(g), NEW merge \in Others(g), merge # 1, NEW cur \in Others(g)
  PROVE  /\ Live(Goto(g, merge, cur))
         /\ Len(Goto(g, merge, cur).blocks) = Len(g.blocks)
         /\ Others(Goto(g, merge, cur)) = Others(g) \ {cur}
<1>. DEFINE h == Goto(g, merge, cur)
            b == [g.blocks[g.cur] EXCEPT !.term = "br", !.type = "void", !.succ = <<merge>>]
            bs == [g.blocks EXCEPT ![g.cur] = b]
<1>1. IsBlock(b) /\ b.term = "br" /\ b.succ = <<merge>>
  BY DEF Live, IsBlock
<1>2. /\ IsList(bs) /\ Len(bs) = Len(g.blocks) /\ DOMAIN bs = DOMAIN g.blocks
      /\ \A j \in DOMAIN g.blocks : bs[j] = IF j = g.cur THEN b ELSE g.blocks[j]
  BY ListExcept DEF Live
<1>3. h.blocks = bs /\ h.cur = cur /\ DOMAIN h = {"blocks", "cur", "val", "unknown"}
  BY DEF Live, Goto, End
<1>4. cur \in DOMAIN g.blocks /\ cur # g.cur /\ g.blocks[cur].term = "none"
  BY DEF Others
<1>8. DOMAIN g.blocks = 1 .. Len(g.blocks) /\ Len(g.blocks) \in Nat BY ListLen DEF Live
<1>9. merge \in 2 .. Len(g.blocks) /\ merge # g.cur /\ g.blocks[merge].term = "none"
  BY <1>8 DEF Others
<1>. HIDE DEF b, bs, h
<1>10. Ranked(h.blocks)
  <2>1. PICK m \in Nat, r \in [DOMAIN g.blocks -> Nat] : Ranks(g.blocks, r, m)
    BY DEF Live, Ranked
  <2>. DEFINE q == [j \in DOMAIN h.blocks |->
                      IF h.blocks[j].term = "none" THEN m + 1 ELSE r[j]]
  <2>2. DOMAIN h.blocks = DOMAIN g.blocks /\ \A j \in DOMAIN g.blocks : r[j] \in Nat
    BY <1>2, <1>3
  <2>3. q \in [DOMAIN h.blocks -> Nat] BY <2>2
  <2>4. g.cur \in DOMAIN g.blocks /\ r[g.cur] = m BY <2>1 DEF Ranks, Live, Open
  <2>5. /\ h.blocks[g.cur].term = "br" /\ h.blocks[g.cur].succ = <<merge>> /\ q[g.cur] = m
    BY <1>1, <1>2, <1>3, <2>2, <2>4
  <2>6. ASSUME NEW j \in DOMAIN g.blocks, j # g.cur
        PROVE  /\ h.blocks[j] = g.blocks[j]
               /\ h.blocks[j].term = "none" => r[j] = m /\ q[j] = m + 1
               /\ h.blocks[j].term # "none" => r[j] < m /\ q[j] = r[j]
               /\ \A k \in DOMAIN h.blocks[j].succ : r[j] < r[h.blocks[j].succ[k]]
    <3>1. h.blocks[j] = g.blocks[j] BY <2>6, <1>2, <1>3
    <3>. QED BY <3>1, <2>1, <2>2 DEF Ranks
  <2>. HIDE DEF q
  <2>7. ASSUME NEW j \in DOMAIN g.blocks, j # g.cur, NEW k \in DOMAIN h.blocks[j].succ
        PROVE  q[j] < q[h.blocks[j].succ[k]]
    <3>. DEFINE t == h.blocks[j].succ[k]
    <3>1. t \in DOMAIN g.blocks /\ r[j] < r[t]
      <4>1. g.blocks[j].succ[k] \in 2 .. Len(g.blocks) BY <2>6, <2>7 DEF Live, Targets
      <4>. QED BY <4>1, <2>6, <2>7, <1>8
    <3>. HIDE DEF t
    <3>2. r[t] \in Nat /\ r[j] \in Nat /\ q[t] \in Nat BY <3>1, <2>2, <2>3
    <3>3. r[t] <= m /\ q[t] >= r[t]
      <4>1. CASE t = g.cur BY <4>1, <2>4, <2>5
      <4>2. CASE t # g.cur BY <4>2, <3>1, <3>2, <2>6
      <4>. QED BY <4>1, <4>2
    <3>4. h.blocks[j].term # "none" BY <3>1, <3>2, <3>3, <2>6, <2>7
    <3>5. q[j] = r[j] BY <3>4, <2>6, <2>7
    <3>. QED BY <3>1, <3>2, <3>3, <3>5 DEF t
  <2>8. q[merge] = m + 1 /\ m < m + 1
    <3>1. merge \in DOMAIN g.blocks /\ h.blocks[merge].term = "none" BY <1>9, <1>2, <1>3, <1>8
    <3>. QED BY <3>1, <2>6, <1>9
  <2>9. \A k \in DOMAIN h.blocks[g.cur].succ : q[g.cur] < q[h.blocks[g.cur].succ[k]]
    BY <2>5, <2>8
  <2>10. \A j \in DOMAIN g.blocks : j # g.cur /\ h.blocks[j].term # "none" => q[j] < m + 1
    BY <2>2, <2>6
  <2>11. Ranks(h.blocks, q, m + 1)
    BY <2>2, <2>5, <2>6, <2>7, <2>8, <2>9, <2>10 DEF Ranks
  <2>12. m + 1 \in Nat OBVIOUS
  <2>. QED BY <2>3, <2>11, <2>12 DEF Ranked
<1>5. Targets(h.blocks)
  <2>. SUFFICES ASSUME NEW j \in DOMAIN g.blocks, NEW k \in DOMAIN h.blocks[j].succ
                PROVE  h.blocks[j].succ[k] \in 2 .. Len(g.blocks)
    BY <1>2, <1>3 DEF Targets
  <2>1. CASE j = g.cur
    <3>1. h.blocks[j].succ = <<merge>> BY <2>1, <1>1, <1>2, <1>3
    <3>. QED BY <3>1, <1>9
  <2>2. CASE j # g.cur
    <3>1. h.blocks[j] = g.blocks[j] BY <2>2, <1>2, <1>3
    <3>. QED BY <3>1 DEF Live, Targets
  <2>. QED BY <2>1, <2>2
<1>6. Live(h)
  BY <1>1, <1>2, <1>3, <1>4, <1>5, <1>10 DEF Live, Open
<1>7. Others(h) = Others(g) \ {cur}
  BY <1>1, <1>2, <1>3, <1>4 DEF Others
<1>. QED BY <1>2, <1>3, <1>6, <1>7 DEF h

\* The open ifs are numbered, and their blocks are numbers.
LEMMA IfsTyped ==
  ASSUME IfsOK
  PROVE  /\ Len(ifs) \in Nat /\ DOMAIN ifs = 1 .. Len(ifs)
         /\ \A k \in DOMAIN ifs : ifs[k] \in OpenIf
BY LenProperties, ElementOfSeq DEF IfsOK

\* A statement that is no if leaves the open ifs with their blocks.
LEMMA PlainStatement ==
  ASSUME BodyInv, gpc # 0, Grown(fn, fn'), ifs' = ifs
  PROVE  BodyInv'
<1>1. Len(fn.blocks) \in Nat /\ Len(fn'.blocks) \in Nat /\ Len(fn'.blocks) >= Len(fn.blocks)
  BY ListLen DEF BodyInv, Live, Grown
<1>2. \A k \in DOMAIN ifs : ifs[k].merge \in Nat
  BY IfsTyped DEF BodyInv, OpenIf
<1>3. IfsOK'
  BY <1>1, <1>2 DEF BodyInv, IfsOK
<1>4. Waiting' = Waiting
  BY DEF Waiting
<1>5. Live(fn') /\ Others(fn') = Waiting
  BY DEF Grown, BodyInv
<1>. QED BY <1>3, <1>4, <1>5 DEF BodyInv

\* An if ends the block of its condition and waits for two of its three blocks.
LEMMA IfStatement ==
  ASSUME BodyInv, gpc # 0, NEW v, Grown(fn, v), IfOn(v, <<1, 2>>)
  PROVE  BodyInv'
<1>. DEFINE n   == Len(v.blocks)
            b   == BadIf(v, Width(v.val) = 0)
            new == <<NewBlock, NewBlock, NewBlock>>
            succ == <<n + 1, n + 2>>
            h   == Fresh(End(b, "if", "void", succ), new, Len(b.blocks) + 1)
            i   == [orelse |-> n + 2, merge |-> n + 3, within |-> "then"]
<1>1. Live(fn) /\ IfsOK /\ Others(fn) = Waiting
  BY DEF BodyInv
<1>2. Live(v) /\ Others(v) = Others(fn) /\ Len(fn.blocks) <= n
  BY DEF Grown
<1>3. Len(fn.blocks) \in Nat /\ n \in Nat /\ Len(fn.blocks) >= 1
  <2>1. Len(fn.blocks) \in Nat /\ n \in Nat /\ DOMAIN fn.blocks = 1 .. Len(fn.blocks)
    BY <1>1, <1>2, ListLen DEF Live
  <2>2. fn.cur \in 1 .. Len(fn.blocks) BY <1>1, <2>1 DEF Live
  <2>. QED BY <2>1, <2>2
<1>4. CASE v.val = "null"
  <2>1. fn' = fn /\ ifs' = ifs BY <1>4 DEF IfOn
  <2>2. Grown(fn, fn) BY <1>1, <1>3 DEF Grown
  <2>. QED BY <2>1, <2>2, PlainStatement
<1>5. CASE v.val # "null"
  <2>1. Live(b) /\ Len(b.blocks) = n /\ Others(b) = Others(v)
    BY <1>2, Small DEF Kept, Grown
  <2>2. fn' = h /\ ifs' = Append(ifs, i)
    BY <1>5, <2>1 DEF IfOn
  <2>3. IsList(new) /\ DOMAIN new = 1 .. 3 /\ Len(new) = 3 BY Lists, ListLen
  <2>4. new[1] = NewBlock /\ new[2] = NewBlock /\ new[3] = NewBlock OBVIOUS
  <2>5. IsBlock(NewBlock) /\ NewBlock.succ = <<>> /\ NewBlock.term = "none"
    BY DEF NewBlock, IsBlock
  <2>6. \A k \in DOMAIN succ : succ[k] \in n + 1 .. n + 3
    <3>1. DOMAIN succ = {1, 2} /\ succ[1] = n + 1 /\ succ[2] = n + 2 OBVIOUS
    <3>. HIDE DEF succ, n
    <3>2. n \in Nat /\ n >= 1 BY <1>2, <1>3 DEF n
    <3>3. n + 1 \in n + 1 .. n + 3 /\ n + 2 \in n + 1 .. n + 3 BY <3>2
    <3>. QED BY <3>1, <3>3
  <2>. HIDE DEF b, new, succ
  <2>7. Follows(b, "if", succ, new, 1)
    BY <2>1, <2>3, <2>4, <2>5, <2>6 DEF Follows
  <2>8. /\ Live(h) /\ Len(h.blocks) = Len(b.blocks) + Len(new)
        /\ Others(h) = Others(b) \cup Left(Len(b.blocks), new, 1)
    BY <2>7, Ended
  <2>9. Left(n, new, 1) = {n + 2, n + 3}
    <3>1. {j \in DOMAIN new : j # 1 /\ new[j].term = "none"} = {2, 3}
      BY <2>3, <2>4, <2>5
    <3>. QED BY <3>1 DEF Left
  <2>10. Live(fn') /\ Len(fn'.blocks) = n + 3 /\ Others(fn') = Waiting \cup {n + 2, n + 3}
    BY <1>1, <1>2, <2>1, <2>2, <2>3, <2>8, <2>9
  <2>. HIDE DEF h, n
  <2>11. i \in OpenIf BY <1>3 DEF OpenIf
  <2>. DEFINE m == Len(ifs)
  <2>12. m \in Nat /\ DOMAIN ifs = 1 .. m /\ \A k \in 1 .. m : ifs[k] \in OpenIf
    BY <1>1, IfsTyped
  <2>13. /\ ifs' \in Seq(OpenIf) /\ DOMAIN ifs' = 1 .. m + 1
         /\ \A k \in 1 .. m : ifs'[k] = ifs[k]
         /\ ifs'[m + 1] = i
    BY <1>1, <2>2, <2>11, <2>12, AppendProperties, LenProperties DEF IfsOK
  <2>14. \A k \in 1 .. m : /\ ifs[k].orelse \in Nat /\ ifs[k].merge \in Nat
                            /\ 1 < ifs[k].orelse /\ ifs[k].orelse < ifs[k].merge
                            /\ ifs[k].merge <= Len(fn.blocks)
    BY <1>1, <2>12 DEF IfsOK, OpenIf
  <2>15. i.orelse = n + 2 /\ i.merge = n + 3 /\ i.within = "then" OBVIOUS
  <2>. HIDE DEF i, m
  <2>16. \A k \in DOMAIN ifs' : k \in 1 .. m \/ k = m + 1 BY <2>12, <2>13
  <2>17. m + 1 \in DOMAIN ifs' /\ \A k \in 1 .. m : k \in DOMAIN ifs' /\ k # m + 1
    BY <2>12, <2>13
  <2>18. IfsOK'
    <3>1. \A k \in DOMAIN ifs' : /\ 1 < ifs'[k].orelse /\ ifs'[k].orelse < ifs'[k].merge
                                  /\ ifs'[k].merge <= Len(fn'.blocks)
      <4>1. n \in Nat /\ n >= 1 /\ Len(fn.blocks) \in Nat /\ Len(fn.blocks) <= n
        BY <1>2, <1>3 DEF n
      <4>2. Len(fn'.blocks) = n + 3 BY <2>10
      <4>. HIDE DEF n
      <4>. TAKE k \in DOMAIN ifs'
      <4>3. CASE k \in 1 .. m
        <5>1. ifs'[k] = ifs[k] BY <4>3, <2>13
        <5>2. /\ ifs[k].orelse \in Nat /\ ifs[k].merge \in Nat
              /\ 1 < ifs[k].orelse /\ ifs[k].orelse < ifs[k].merge
              /\ ifs[k].merge <= Len(fn.blocks)
          BY <4>3, <2>14
        <5>3. ifs[k].merge <= n + 3 BY <4>1, <5>2
        <5>. QED BY <5>1, <5>2, <5>3, <4>2
      <4>4. CASE k = m + 1
        <5>1. ifs'[k].orelse = n + 2 /\ ifs'[k].merge = n + 3 BY <4>4, <2>13, <2>15
        <5>2. 1 < n + 2 /\ n + 2 < n + 3 /\ n + 3 <= n + 3 BY <4>1
        <5>. QED BY <5>1, <5>2, <4>2
      <4>. QED BY <4>3, <4>4, <2>16
    <3>2. ASSUME NEW j \in DOMAIN ifs', NEW k \in DOMAIN ifs', j < k
          PROVE  ifs'[j].merge < ifs'[k].orelse
      <4>1. j \in 1 .. m BY <3>2, <2>12, <2>13
      <4>2. CASE k \in 1 .. m BY <4>1, <4>2, <3>2, <1>1, <2>12, <2>13 DEF IfsOK
      <4>3. CASE k = m + 1
        <5>1. ifs'[k].orelse = n + 2 BY <4>3, <2>13, <2>15
        <5>2. ifs'[j].merge <= Len(fn.blocks) /\ ifs'[j].merge \in Nat BY <4>1, <2>13, <2>14
        <5>. QED BY <5>1, <5>2, <1>2, <1>3
      <4>. QED BY <4>2, <4>3, <2>16
    <3>. QED BY <2>13, <3>1, <3>2 DEF IfsOK
  <2>19. Waiting' = Waiting \cup {n + 2, n + 3}
    BY <2>12, <2>13, <2>15, <2>16, <2>17, SMTT(30) DEF Waiting
  <2>. QED BY <2>10, <2>18, <2>19 DEF BodyInv
<1>. QED BY <1>4, <1>5

\* The blocks of the innermost if are not those of another.
LEMMA InnermostOpen ==
  ASSUME Live(fn), IfsOK, ifs # <<>>
  PROVE  /\ Len(ifs) \in DOMAIN ifs /\ InnermostIf \in OpenIf
         /\ InnermostIf.orelse \in 2 .. Len(fn.blocks) /\ InnermostIf.merge \in 2 .. Len(fn.blocks)
         /\ InnermostIf.merge # InnermostIf.orelse
         /\ \A k \in DOMAIN ifs : k # Len(ifs) =>
              /\ ifs[k].merge \notin {InnermostIf.merge, InnermostIf.orelse}
              /\ ifs[k].orelse \notin {InnermostIf.merge, InnermostIf.orelse}
<1>. DEFINE m == Len(ifs)
<1>1. m \in Nat /\ DOMAIN ifs = 1 .. m /\ \A k \in 1 .. m : ifs[k] \in OpenIf
  BY IfsTyped
<1>2. m # 0
  BY EmptySeq DEF IfsOK
<1>3. m \in 1 .. m BY <1>1, <1>2
<1>4. \A k \in 1 .. m : ifs[k].orelse \in Nat /\ ifs[k].merge \in Nat
  BY <1>1 DEF OpenIf
<1>5. ASSUME NEW k \in 1 .. m, k # m
      PROVE  /\ ifs[k].merge < ifs[m].orelse /\ ifs[k].orelse < ifs[k].merge
             /\ ifs[m].orelse < ifs[m].merge
  <2>1. k < m
    <3>. HIDE DEF m
    <3>. QED BY <1>1, <1>5
  <2>. QED BY <2>1, <1>1, <1>3 DEF IfsOK
<1>6. /\ 1 < ifs[m].orelse /\ ifs[m].orelse < ifs[m].merge /\ ifs[m].merge <= Len(fn.blocks)
  BY <1>1, <1>3 DEF IfsOK
<1>7. ifs[m].orelse \in Nat /\ ifs[m].merge \in Nat BY <1>3, <1>4
<1>8. InnermostIf = ifs[m] BY DEF InnermostIf
<1>. HIDE DEF m
<1>9. Len(fn.blocks) \in Nat
  BY ListLen DEF Live
<1>10. /\ ifs[m].orelse \in 2 .. Len(fn.blocks) /\ ifs[m].merge \in 2 .. Len(fn.blocks)
       /\ ifs[m].merge # ifs[m].orelse
  BY <1>6, <1>7, <1>9
<1>11. ASSUME NEW k \in 1 .. m, k # m
       PROVE  /\ ifs[k].merge \notin {ifs[m].merge, ifs[m].orelse}
              /\ ifs[k].orelse \notin {ifs[m].merge, ifs[m].orelse}
  <2>1. ifs[k].orelse \in Nat /\ ifs[k].merge \in Nat BY <1>4
  <2>. QED BY <2>1, <1>5, <1>7, <1>11, SMTT(30)
<1>. QED BY <1>1, <1>3, <1>8, <1>10, <1>11 DEF m

\* Where an else branch follows, its block becomes current, and only the merge
\* block still waits.
LEMMA ElseStatement ==
  ASSUME BodyInv, gpc # 0, GenElse
  PROVE  BodyInv'
<1>. DEFINE m == Len(ifs)
            i == InnermostIf
<1>1. /\ Live(fn) /\ IfsOK /\ Others(fn) = Waiting
      /\ ifs # <<>> /\ i.within = "then"
      /\ fn' = Goto(fn, i.merge, i.orelse)
      /\ ifs' = [ifs EXCEPT ![m].within = "else"]
  BY DEF BodyInv, GenElse
<1>2. m \in Nat /\ DOMAIN ifs = 1 .. m /\ \A k \in 1 .. m : ifs[k] \in OpenIf
  BY <1>1, IfsTyped
<1>3. m \in DOMAIN ifs /\ i = ifs[m] /\ i \in OpenIf
  BY <1>1, InnermostOpen DEF InnermostIf
<1>4. i.orelse \in Others(fn) /\ i.merge \in Others(fn) /\ i.merge # 1
  BY <1>1, <1>3, InnermostOpen DEF Waiting
<1>5. /\ Live(fn') /\ Len(fn'.blocks) = Len(fn.blocks)
      /\ Others(fn') = Waiting \ {i.orelse}
  BY <1>1, <1>4, Went
<1>6. /\ ifs' \in Seq(OpenIf) /\ DOMAIN ifs' = DOMAIN ifs
      /\ \A k \in DOMAIN ifs : /\ ifs'[k].merge = ifs[k].merge /\ ifs'[k].orelse = ifs[k].orelse
                                /\ ifs'[k].within = IF k = m THEN "else" ELSE ifs[k].within
  <2>. DEFINE j == [ifs[m] EXCEPT !.within = "else"]
  <2>1. ifs' = [ifs EXCEPT ![m] = j] BY <1>1
  <2>2. j \in OpenIf /\ j.merge = ifs[m].merge /\ j.orelse = ifs[m].orelse /\ j.within = "else"
    BY <1>3 DEF OpenIf
  <2>. HIDE DEF j, m
  <2>3. ifs \in Seq(OpenIf) BY <1>1 DEF IfsOK
  <2>4. ifs' \in Seq(OpenIf) BY <2>1, <2>2, <2>3, <1>2, <1>3, ExceptSeq DEF m
  <2>. QED BY <2>1, <2>2, <2>4
<1>7. IfsOK'
  BY <1>1, <1>5, <1>6 DEF IfsOK
<1>8. Waiting' = Waiting \ {i.orelse}
  <2>1. /\ i.merge # i.orelse
        /\ \A k \in DOMAIN ifs : k # m => ifs[k].merge # i.orelse /\ ifs[k].orelse # i.orelse
    BY <1>1, InnermostOpen
  <2>. HIDE DEF i, m
  <2>. QED BY <1>3, <1>6, <2>1 DEF Waiting
<1>. QED BY <1>5, <1>7, <1>8 DEF BodyInv

\* At the end of an if its merge block becomes current, and neither of its blocks
\* waits any longer.
LEMMA EndIfStatement ==
  ASSUME BodyInv, gpc # 0, GenEndIf
  PROVE  BodyInv'
<1>. DEFINE m == Len(ifs)
            i == InnermostIf
            g == IF i.within = "then" THEN Goto(fn, i.merge, i.orelse) ELSE fn
<1>1. /\ Live(fn) /\ IfsOK /\ Others(fn) = Waiting
      /\ ifs # <<>>
      /\ fn' = Goto(g, i.merge, i.merge)
      /\ ifs' = SubSeq(ifs, 1, m - 1)
  BY DEF BodyInv, GenEndIf
<1>2. m \in Nat /\ DOMAIN ifs = 1 .. m /\ \A k \in 1 .. m : ifs[k] \in OpenIf
  BY <1>1, IfsTyped
<1>3. m \in DOMAIN ifs /\ i = ifs[m] /\ i \in OpenIf
  BY <1>1, InnermostOpen DEF InnermostIf
<1>4. /\ i.merge # i.orelse
      /\ \A k \in DOMAIN ifs : k # m =>
           /\ ifs[k].merge \notin {i.merge, i.orelse} /\ ifs[k].orelse \notin {i.merge, i.orelse}
  BY <1>1, InnermostOpen
<1>5. i.merge \in Waiting /\ (i.within = "then" => i.orelse \in Waiting)
  BY <1>3 DEF Waiting
<1>6. i.within # "then" => i.orelse \notin Waiting
  <2>. HIDE DEF i, m
  <2>. QED BY <1>3, <1>4 DEF Waiting
<1>12. i.merge # 1 BY <1>1, InnermostOpen
<1>7. /\ Live(g) /\ Len(g.blocks) = Len(fn.blocks)
      /\ Others(g) = Waiting \ {i.orelse}
  <2>1. CASE i.within = "then" BY <2>1, <1>1, <1>5, <1>12, Went
  <2>2. CASE i.within # "then" BY <2>2, <1>1, <1>6
  <2>. QED BY <2>1, <2>2
<1>. HIDE DEF g
<1>8. /\ Live(fn') /\ Len(fn'.blocks) = Len(fn.blocks)
      /\ Others(fn') = Waiting \ {i.orelse, i.merge}
  <2>1. i.merge \in Others(g) BY <1>4, <1>5, <1>7
  <2>. QED BY <1>1, <1>7, <1>12, <2>1, Went
<1>9. /\ ifs' \in Seq(OpenIf) /\ DOMAIN ifs' = 1 .. m - 1
      /\ \A k \in 1 .. m - 1 : ifs'[k] = ifs[k] /\ k \in DOMAIN ifs /\ k # m
  <2>1. \A k \in 1 .. m - 1 : ifs[k] \in OpenIf /\ k \in DOMAIN ifs /\ k # m
    <3>. HIDE DEF m
    <3>1. \A k \in 1 .. m - 1 : k \in 1 .. m /\ k # m BY <1>2
    <3>. QED BY <3>1, <1>2
  <2>2. 1 \in Int /\ m - 1 \in Int BY <1>2
  <2>3. /\ SubSeq(ifs, 1, m - 1) \in Seq(OpenIf)
        /\ Len(SubSeq(ifs, 1, m - 1)) = IF 1 <= m - 1 THEN m - 1 - 1 + 1 ELSE 0
        /\ \A k \in 1 .. m - 1 - 1 + 1 : SubSeq(ifs, 1, m - 1)[k] = ifs[1 + k - 1]
    BY <2>1, <2>2, SubSeqProperties
  <2>4. m >= 1 BY <1>2, <1>3
  <2>5. Len(ifs') = m - 1 BY <1>1, <1>2, <2>3, <2>4
  <2>6. DOMAIN ifs' = 1 .. m - 1 BY <1>1, <2>3, <2>5, LenProperties
  <2>7. \A k \in 1 .. m - 1 : ifs'[k] = ifs[k]
    <3>. TAKE k \in 1 .. m - 1
    <3>1. k \in 1 .. m - 1 - 1 + 1 /\ 1 + k - 1 = k BY <1>2
    <3>. HIDE DEF m
    <3>. QED BY <3>1, <2>3, <1>1 DEF m
  <2>. QED BY <1>1, <2>1, <2>3, <2>6, <2>7
<1>10. IfsOK'
  BY <1>1, <1>8, <1>9, SMTT(30) DEF IfsOK
<1>11. Waiting' = Waiting \ {i.orelse, i.merge}
  <2>1. \A k \in DOMAIN ifs : k \in 1 .. m - 1 \/ k = m BY <1>2
  <2>. HIDE DEF i, m
  <2>. QED BY <1>3, <1>4, <1>9, <2>1 DEF Waiting
<1>. QED BY <1>8, <1>10, <1>11 DEF BodyInv

-----------------------------------------------------------------------------
(* Steps.                                                                   *)

\* A statement is generated inside a body.
LEMMA InBody ==
  ASSUME GraphInv
  PROVE  /\ \A ops : Gen(ops) => gpc # 0
         /\ FinishBody => gpc # 0
<1>1. Running => gdecl \in Decl
  <2>1. prog \in Seq(Decl) BY ProgramsAssumption DEF GraphInv, ProgramsAssumption
  <2>2. DOMAIN prog = 1 .. Len(prog) BY <2>1, LenProperties
  <2>. QED BY <2>1, <2>2, ElementOfSeq DEF Running, gdecl
<1>2. Running => gdecl.body \in Seq(Item)
  BY <1>1 DEF Decl
<1>3. Running => Len(gdecl.body) \in Nat /\ DOMAIN gdecl.body = 1 .. Len(gdecl.body)
  BY <1>2, LenProperties
<1>. QED BY <1>3 DEF Gen, FinishBody

\* A statement changes the function under construction only.
LEMMA Statements ==
  ASSUME GraphInv, GenBinding \/ GenAssign \/ GenExprStmt \/ GenNothing \/ GenIf
                     \/ GenElse \/ GenEndIf
  PROVE  BodyInv'
<1>1. BodyInv BY DEF GraphInv
<1>2. gpc # 0
  BY InBody DEF GenBinding, GenAssign, GenExprStmt, GenNothing, GenIf, GenElse, GenEndIf
<1>3. Live(fn) /\ Kept(fn, fn)
  <2>1. Live(fn) BY <1>1, <1>2 DEF BodyInv
  <2>2. Len(fn.blocks) \in Nat BY <2>1, ListLen DEF Live
  <2>. QED BY <2>1, <2>2 DEF Kept, Grown
<1>4. CASE GenBinding
  <2>. DEFINE v == GenExpr(fn, gitem.expr)
  <2>1. Bind(v, BindingType(v)) BY <1>4 DEF GenBinding
  <2>2. Grown(fn, v) /\ Live(v) BY <1>3, ExprGrows DEF Grown
  <2>. HIDE DEF v
  <2>. DEFINE slot == [decl |-> gcur, at |-> gpc, type |-> BindingType(v)]
              e == Emit(v, "alloca", gitem.name, slot)
              a == BadIf(e, BindingType(v) = "void")
              s == BadIf(a, Coerce(v.val, BindingType(v)) = "bad")
              f == Emit(s, "store", gitem.name, slot)
  <2>3. fn' \in {a, f} /\ ifs' = ifs BY <2>1 DEF Bind
  <2>. HIDE DEF slot
  <2>4. Kept(v, e) /\ Live(e)
    <3>1. Kept(v, e) BY <2>2, Small
    <3>. QED BY <3>1 DEF Kept, Grown
  <2>. HIDE DEF e
  <2>5. Kept(v, a) /\ Live(a)
    <3>1. Kept(v, a) BY <2>2, <2>4, Small, KeptAgain
    <3>. QED BY <3>1 DEF Kept, Grown
  <2>. HIDE DEF a
  <2>6. Kept(v, s) /\ Live(s)
    <3>1. Kept(v, s) BY <2>2, <2>5, Small, KeptAgain
    <3>. QED BY <3>1 DEF Kept, Grown
  <2>. HIDE DEF s
  <2>7. Kept(v, f) BY <2>2, <2>6, Small, KeptAgain
  <2>. HIDE DEF f
  <2>8. Grown(fn, fn') BY <1>3, <2>2, <2>3, <2>5, <2>7, GrownAgain DEF Kept
  <2>. QED BY <1>1, <1>2, <2>3, <2>8, PlainStatement
<1>5. CASE GenAssign
  <2>. DEFINE v == GenExpr(fn, gitem.expr)
              slot == values[gitem.name]
              b == BadIf(v, Coerce(v.val, slot.type) = "bad")
              f == Emit(b, "store", gitem.name, slot)
  <2>1. fn' \in {fn, f} /\ ifs' = ifs BY <1>5 DEF GenAssign, StoreTo
  <2>2. Grown(fn, v) /\ Live(v) BY <1>3, ExprGrows DEF Grown
  <2>. HIDE DEF v
  <2>3. Kept(v, b) /\ Live(b)
    <3>1. Kept(v, b) BY <2>2, Small
    <3>. QED BY <3>1 DEF Kept, Grown
  <2>. HIDE DEF b
  <2>4. Kept(v, f) BY <2>2, <2>3, Small, KeptAgain
  <2>. HIDE DEF f
  <2>5. Grown(fn, fn') BY <1>3, <2>1, <2>2, <2>4, GrownAgain DEF Kept
  <2>. QED BY <1>1, <1>2, <2>1, <2>5, PlainStatement
<1>6. CASE GenExprStmt
  <2>1. Grown(fn, fn') /\ ifs' = ifs BY <1>3, <1>6, ExprGrows DEF GenExprStmt
  <2>. QED BY <1>1, <1>2, <2>1, PlainStatement
<1>7. CASE GenNothing
  <2>1. Grown(fn, fn') /\ ifs' = ifs BY <1>3, <1>7 DEF GenNothing, Kept
  <2>. QED BY <1>1, <1>2, <2>1, PlainStatement
<1>8. CASE GenIf
  <2>1. Grown(fn, GenExpr(fn, gitem.expr)) BY <1>3, ExprGrows
  <2>. QED BY <1>1, <1>2, <1>8, <2>1, IfStatement DEF GenIf
<1>9. CASE GenElse BY <1>1, <1>2, <1>9, ElseStatement
<1>10. CASE GenEndIf BY <1>1, <1>2, <1>10, EndIfStatement
<1>. QED BY <1>4, <1>5, <1>6, <1>7, <1>8, <1>9, <1>10

\* At first there is no body and no function.
LEMMA GraphInitial ==
  ASSUME GenInit
  PROVE  GraphInv
<1>1. IsList(<<>>) BY Lists
<1>2. /\ prog \in Programs /\ gpc = 0 /\ emitted = <<>> /\ ifs = <<>>
  BY DEF GenInit, GenStart
<1>3. EmittedClosed /\ EmittedRanked BY <1>2 DEF EmittedClosed, EmittedRanked
<1>. QED BY <1>1, <1>2, <1>3 DEF GraphInv, BodyInv

\* A function is begun with one block, and ended when no block waits.
LEMMA GraphKept ==
  ASSUME GraphInv, [GenNext]_gvars
  PROVE  GraphInv'
<1>1. CASE GenBinding \/ GenAssign \/ GenExprStmt \/ GenNothing \/ GenIf \/ GenElse \/ GenEndIf
  <2>1. BodyInv' BY <1>1, Statements
  <2>2. UNCHANGED <<prog, emitted>>
    BY <1>1 DEF GenBinding, GenAssign, GenExprStmt, GenNothing, GenIf, GenElse, GenEndIf, Gen
  <2>. QED BY <2>1, <2>2 DEF GraphInv, EmittedClosed, EmittedRanked, IsList
<1>2. CASE SkipDecl \/ GenMain \/ GenTerminating \/ UNCHANGED gvars
  <2>1. UNCHANGED <<prog, gpc, fn, ifs, emitted>>
    BY <1>2 DEF SkipDecl, GenMain, GenTerminating, gvars
  <2>2. Waiting' = Waiting BY <2>1 DEF Waiting
  <2>. QED BY <2>1, <2>2 DEF GraphInv, BodyInv, EmittedClosed, EmittedRanked, IsList, IfsOK
<1>3. CASE BeginBody
  <2>1. PICK code : /\ fn' = [NewFunction EXCEPT !.blocks[1].code = code]
                    /\ ifs' = <<>> /\ UNCHANGED <<prog, emitted>>
    BY <1>3 DEF BeginBody
  <2>. DEFINE b == [NewBlock EXCEPT !.code = code]
  <2>2. IsBlock(b) /\ b.term = "none" /\ b.succ = <<>>
    BY DEF NewBlock, IsBlock
  <2>3. /\ DOMAIN fn' = {"blocks", "cur", "val", "unknown"}
        /\ fn'.blocks = [<<NewBlock>> EXCEPT ![1] = b] /\ fn'.cur = 1
    BY <2>1 DEF NewFunction
  <2>. HIDE DEF b
  <2>. DEFINE one == <<NewBlock>>
  <2>4. IsList(one) /\ DOMAIN one = {1}
    <3>1. IsList(one) BY Lists
    <3>. QED BY <3>1
  <2>5. /\ IsList(fn'.blocks) /\ DOMAIN fn'.blocks = {1} /\ fn'.blocks[1] = b
    <3>1. fn'.blocks = [one EXCEPT ![1] = b] BY <2>3
    <3>2. 1 \in DOMAIN one BY <2>4
    <3>3. DOMAIN [one EXCEPT ![1] = b] = DOMAIN one OBVIOUS
    <3>. DEFINE new == [one EXCEPT ![1] = b]
    <3>4. IsList(one) BY <2>4 DEF one
    <3>5. IsList(new) /\ new[1] = b BY <3>2, <3>4, ListExcept
    <3>. QED BY <2>4, <3>1, <3>3, <3>5
  <2>9. Ranked(fn'.blocks)
    <3>1. Ranks(fn'.blocks, [j \in {1} |-> 0], 0) BY <2>2, <2>5 DEF Ranks
    <3>2. 0 \in Nat /\ [j \in {1} |-> 0] \in [DOMAIN fn'.blocks -> Nat] BY <2>5
    <3>. QED BY <3>1, <3>2 DEF Ranked
  <2>6. Live(fn') /\ Others(fn') = {}
    BY <2>2, <2>3, <2>5, <2>9 DEF Live, Open, Others, Targets
  <2>7. IfsOK' /\ Waiting' = {}
    BY <2>1 DEF IfsOK, Waiting
  <2>8. BodyInv' BY <2>1, <2>6, <2>7 DEF BodyInv
  <2>. QED BY <2>1, <2>8 DEF GraphInv, EmittedClosed, EmittedRanked, IsList
<1>4. CASE FinishBody
  <2>. DEFINE ret  == LlvmOf(gdecl.ret)
              done == End(fn, "ret_end", ret, <<>>)
              f    == [decl |-> gcur, blocks |-> done.blocks]
  <2>1. gpc # 0 BY <1>4, InBody
  <2>2. Live(fn) /\ Others(fn) = Waiting /\ ifs = <<>>
    BY <1>4, <2>1 DEF GraphInv, BodyInv, FinishBody
  <2>3. \A b \in DOMAIN fn.blocks : b # fn.cur => fn.blocks[b].term # "none"
    BY <2>2 DEF Waiting, Others
  <2>4. /\ IsList(done.blocks) /\ Len(done.blocks) = Len(fn.blocks)
        /\ \A b \in DOMAIN fn.blocks :
             /\ done.blocks[b].term # "none"
             /\ done.blocks[b].succ = IF b = fn.cur THEN <<>> ELSE fn.blocks[b].succ
    <3>. DEFINE c == [fn.blocks[fn.cur] EXCEPT !.term = "ret_end", !.type = ret, !.succ = <<>>]
    <3>1. done.blocks = [fn.blocks EXCEPT ![fn.cur] = c] BY <2>2 DEF End, Live
    <3>2. c.term = "ret_end" /\ c.succ = <<>> BY <2>2 DEF Live, IsBlock
    <3>. HIDE DEF c, done
    <3>. QED BY <2>2, <2>3, <3>1, <3>2, ListExcept DEF Live
  <2>5. DOMAIN done.blocks = 1 .. Len(fn.blocks) /\ DOMAIN fn.blocks = 1 .. Len(fn.blocks)
    BY <2>2, <2>4, ListLen DEF Live
  <2>6. \A b \in DOMAIN f.blocks :
          /\ f.blocks[b].term # "none"
          /\ \A k \in DOMAIN f.blocks[b].succ : f.blocks[b].succ[k] \in DOMAIN f.blocks \ {1}
    BY <2>2, <2>4, <2>5 DEF Live, Targets
  <2>11. Acyclic(f.blocks)
    <3>1. PICK m \in Nat, r \in [DOMAIN fn.blocks -> Nat] : Ranks(fn.blocks, r, m)
      BY <2>2 DEF Live, Ranked
    <3>2. \A b \in DOMAIN fn.blocks : \A k \in DOMAIN done.blocks[b].succ :
            r[b] < r[done.blocks[b].succ[k]]
      BY <2>4, <3>1 DEF Ranks
    <3>. HIDE DEF done
    <3>. QED BY <2>5, <3>2 DEF Acyclic
  <2>7. \/ emitted' = Append(emitted, f) /\ gpc' = 0
        \/ UNCHANGED <<fn, emitted, gpc>>
    BY <1>4 DEF FinishBody
  <2>8. UNCHANGED <<prog, ifs>> BY <1>4 DEF FinishBody
  <2>. HIDE DEF f
  <2>9. CASE emitted' = Append(emitted, f) /\ gpc' = 0
    <3>. DEFINE S == {emitted[k] : k \in DOMAIN emitted} \cup {f}
    <3>1. emitted \in Seq(S)
      BY SeqMonotonic, {emitted[k] : k \in DOMAIN emitted} \subseteq S DEF GraphInv, IsList
    <3>2. f \in S OBVIOUS
    <3>. HIDE DEF S
    <3>3. /\ emitted' \in Seq(S) /\ Len(emitted') = Len(emitted) + 1
          /\ \A k \in 1 .. Len(emitted) : emitted'[k] = emitted[k]
          /\ emitted'[Len(emitted) + 1] = f
      BY <2>9, <3>1, <3>2, AppendProperties
    <3>4. IsList(emitted') /\ DOMAIN emitted' = 1 .. Len(emitted) + 1
      BY <3>3, ListOfSeq
    <3>5. Len(emitted) \in Nat /\ DOMAIN emitted = 1 .. Len(emitted) BY ListLen DEF GraphInv
    <3>6. \A k \in DOMAIN emitted' : k \in DOMAIN emitted \/ emitted'[k] = f
      BY <3>3, <3>4, <3>5
    <3>7. EmittedClosed'
      BY <2>6, <3>3, <3>5, <3>6 DEF GraphInv, EmittedClosed
    <3>8. EmittedRanked'
      BY <2>11, <3>3, <3>5, <3>6 DEF GraphInv, EmittedRanked
    <3>. QED BY <2>8, <2>9, <3>4, <3>7, <3>8 DEF GraphInv, BodyInv, IsList
  <2>10. CASE UNCHANGED <<fn, emitted, gpc>>
    <3>1. Waiting' = Waiting BY <2>8 DEF Waiting
    <3>. QED BY <2>8, <2>10, <3>1 DEF GraphInv, BodyInv, EmittedClosed, EmittedRanked, IsList, IfsOK
  <2>. QED BY <2>7, <2>9, <2>10
<1>. QED BY <1>1, <1>2, <1>3, <1>4 DEF GenNext, GenStep

-----------------------------------------------------------------------------
\* For every program: while a body is generated, no block has been forgotten and
\* none is written after its end (BlocksPending; gen_block and gen_if of
\* codegen.cpp).
THEOREM NoBlockForgotten == GenSpec => []BlocksPending
<1>1. GenInit => GraphInv BY GraphInitial
<1>2. GraphInv /\ [GenNext]_gvars => GraphInv' BY GraphKept
<1>3. GraphInv => BlocksPending
  <2>. SUFFICES ASSUME GraphInv, gpc > 0
                PROVE  /\ {b \in DOMAIN fn.blocks : fn.blocks[b].term = "none"} = {fn.cur} \cup Waiting
                       /\ fn.cur \notin Waiting
    BY DEF BlocksPending
  <2>1. Live(fn) /\ Others(fn) = Waiting BY DEF GraphInv, BodyInv
  <2>. QED BY <2>1 DEF Others, Live, Open
<1>. QED BY <1>1, <1>2, <1>3, PTL DEF GenSpec

\* For every program: the blocks of every generated function end, and lead to
\* blocks of the function (EmittedClosed; gen_fn_body of codegen.cpp).
THEOREM GraphsClosed == GenSpec => []EmittedClosed
<1>1. GenInit => GraphInv BY GraphInitial
<1>2. GraphInv /\ [GenNext]_gvars => GraphInv' BY GraphKept
<1>3. GraphInv => EmittedClosed BY DEF GraphInv
<1>. QED BY <1>1, <1>2, <1>3, PTL DEF GenSpec

-----------------------------------------------------------------------------
(* What is inside the blocks: instructions from a set S, of which more is   *)
(* said below, and types.                                                   *)

Instrs == [op : {"alloca", "load", "store", "call", "bad"},
           name : Vars \cup FnNames \cup {NoName}, slot : Slot]
\* Blocks and functions whose instructions are in S.
BlockOf(S) == [code : Seq(S), term : Terms, type : LlvmTypes, succ : Seq(Nat)]
FnOf(S) == [blocks : Seq(BlockOf(S)), cur : Nat, val : LlvmTypes \cup {"null"},
            unknown : SUBSET (Vars \cup FnNames)]

\* A function under construction, and one whose last expression has a value.
Building(g, S) == g \in FnOf(S) /\ g.cur \in DOMAIN g.blocks
Valued(g, S) == Building(g, S) /\ g.val \in LlvmTypes

\* What every expression may add: an ill-typed instruction, and a load of a slot
\* that values_ holds.
Readable(S) ==
  /\ values \in [Vars -> Slot]
  /\ Instr("bad", NoName, NoSlot) \in S
  /\ \A x \in Vars : values[x] # NoSlot => Instr("load", x, values[x]) \in S

\* The current block of a function has code, and other code may take its place.
LEMMA CodeReplaced ==
  ASSUME NEW S, NEW g, Building(g, S), NEW c \in Seq(S)
  PROVE  /\ g.blocks[g.cur] \in BlockOf(S)
         /\ g.blocks[g.cur].code \in Seq(S)
         /\ LET h == [g EXCEPT !.blocks[g.cur].code = c]
            IN  Building(h, S) /\ h.val = g.val /\ h.cur = g.cur
<1>. DEFINE b  == [g.blocks[g.cur] EXCEPT !.code = c]
            bs == [g.blocks EXCEPT ![g.cur] = b]
            h  == [g EXCEPT !.blocks[g.cur].code = c]
            B  == BlockOf(S)
<1>1. g.blocks \in Seq(B) /\ g.cur \in DOMAIN g.blocks BY DEF Building, FnOf
<1>2. DOMAIN g.blocks = 1 .. Len(g.blocks) /\ Len(g.blocks) \in Nat
  BY <1>1, LenProperties
<1>3. g.blocks[g.cur] \in B
  <2>. HIDE DEF B
  <2>. QED BY <1>1, <1>2, ElementOfSeq
<1>4. b \in B BY <1>3 DEF BlockOf
<1>5. g.blocks[g.cur].code \in Seq(S) BY <1>3 DEF BlockOf
<1>6. h = [g EXCEPT !.blocks = bs] BY DEF Building, FnOf
<1>. HIDE DEF b, B
<1>7. bs \in Seq(B) /\ DOMAIN bs = DOMAIN g.blocks
  BY <1>1, <1>2, <1>4, ExceptSeq, LenProperties
<1>. HIDE DEF bs
<1>8. Building([g EXCEPT !.blocks = bs], S)
  BY <1>1, <1>7 DEF Building, FnOf, B
<1>9. [g EXCEPT !.blocks = bs].val = g.val /\ [g EXCEPT !.blocks = bs].cur = g.cur
  BY DEF Building, FnOf
<1>. QED BY <1>3, <1>5, <1>6, <1>8, <1>9 DEF B

\* An instruction is added.
LEMMA EmitTyped ==
  ASSUME NEW S, NEW g, Building(g, S), NEW op, NEW name, NEW slot,
         Instr(op, name, slot) \in S
  PROVE  /\ Building(Emit(g, op, name, slot), S)
         /\ Emit(g, op, name, slot).val = g.val
<1>1. <<>> \in Seq(S) OBVIOUS
<1>2. g.blocks[g.cur].code \in Seq(S) BY <1>1, CodeReplaced
<1>. DEFINE c == Append(g.blocks[g.cur].code, Instr(op, name, slot))
<1>3. c \in Seq(S) BY <1>2, AppendProperties
<1>4. Emit(g, op, name, slot) = [g EXCEPT !.blocks[g.cur].code = c] BY DEF Emit
<1>. HIDE DEF c
<1>. QED BY <1>3, <1>4, CodeReplaced

\* A value, an unknown name, and an ill-typed instruction.
LEMMA ValueTyped ==
  ASSUME NEW S, NEW g, Building(g, S)
  PROVE  /\ \A ty \in LlvmTypes : Valued(Value(g, ty), S)
         /\ Building(Value(g, "null"), S)
         /\ Valued(Poison(g), S)
         /\ \A n \in Vars \cup FnNames : Valued(Unknown(g, n), S)
<1>1. ASSUME NEW h, Building(h, S), NEW ty \in LlvmTypes PROVE Valued(Value(h, ty), S)
  BY <1>1 DEF Valued, Value, Building, FnOf
<1>2. Building(Value(g, "null"), S) BY DEF Value, Building, FnOf
<1>3. "i64" \in LlvmTypes BY DEF LlvmTypes
<1>4. ASSUME NEW n \in Vars \cup FnNames PROVE Building([g EXCEPT !.unknown = @ \cup {n}], S)
  BY DEF Building, FnOf
<1>. QED BY <1>1, <1>2, <1>3, <1>4 DEF Poison, Unknown

\* An instruction whose operand is wrong is marked, and the value that is at hand stays.
LEMMA BadTyped ==
  ASSUME NEW S, NEW g, Building(g, S), Instr("bad", NoName, NoSlot) \in S, NEW wrong
  PROVE  Building(BadIf(g, wrong), S) /\ BadIf(g, wrong).val = g.val
BY EmitTyped DEF BadIf, Bad

\* The type of every value that is no nullptr is one of LLVM's.
LEMMA LlvmTyped ==
  /\ \A t : LlvmOf(t) \in LlvmTypes
  /\ \A f : HasFunction(f) => Signature(f).ret \in LlvmTypes
<1>1. \A t : LlvmOf(t) \in LlvmTypes BY DEF LlvmOf, LlvmTypes
<1>2. ASSUME NEW f PROVE Signature(f).ret \in LlvmTypes
  <2>1. CASE f \in RuntimeNames
    BY <2>1 DEF Signature, Runtime, LlvmTypes
  <2>2. CASE f \notin RuntimeNames
    <3>1. Signature(f).ret = LlvmOf(DeclOf(f).ret) BY <2>2 DEF Signature
    <3>. QED BY <1>1, <3>1
  <2>. QED BY <2>1, <2>2
<1>. QED BY <1>1, <1>2

\* The current block ends, and others follow.
LEMMA EndTyped ==
  ASSUME NEW S, NEW g, Building(g, S), NEW term \in Terms, NEW type \in LlvmTypes,
         NEW succ \in Seq(Nat)
  PROVE  /\ Building(End(g, term, type, succ), S)
         /\ End(g, term, type, succ).val = g.val
         /\ End(g, term, type, succ).cur = g.cur
         /\ Len(End(g, term, type, succ).blocks) = Len(g.blocks)
<1>. DEFINE b  == [g.blocks[g.cur] EXCEPT !.term = term, !.type = type, !.succ = succ]
            bs == [g.blocks EXCEPT ![g.cur] = b]
            B  == BlockOf(S)
<1>1. g.blocks \in Seq(B) /\ g.cur \in DOMAIN g.blocks BY DEF Building, FnOf
<1>2. DOMAIN g.blocks = 1 .. Len(g.blocks) /\ Len(g.blocks) \in Nat
  BY <1>1, LenProperties
<1>3. g.blocks[g.cur] \in B
  <2>. HIDE DEF B
  <2>. QED BY <1>1, <1>2, ElementOfSeq
<1>4. b \in B BY <1>3 DEF BlockOf
<1>6. End(g, term, type, succ) = [g EXCEPT !.blocks = bs] BY DEF Building, FnOf, End
<1>. HIDE DEF b, B
<1>7. bs \in Seq(B) /\ DOMAIN bs = DOMAIN g.blocks /\ Len(bs) = Len(g.blocks)
  BY <1>1, <1>2, <1>4, ExceptSeq, LenProperties
<1>. HIDE DEF bs
<1>8. Building([g EXCEPT !.blocks = bs], S)
  BY <1>1, <1>7 DEF Building, FnOf, B
<1>9. /\ [g EXCEPT !.blocks = bs].val = g.val /\ [g EXCEPT !.blocks = bs].cur = g.cur
      /\ [g EXCEPT !.blocks = bs].blocks = bs
  BY DEF Building, FnOf
<1>. QED BY <1>6, <1>7, <1>8, <1>9

\* Blocks that are added behind those of the function keep it well formed.
LEMMA FreshTyped ==
  ASSUME NEW S, NEW g, Building(g, S), NEW new \in Seq(BlockOf(S)),
         NEW cur \in 1 .. Len(g.blocks) + Len(new)
  PROVE  Building(Fresh(g, new, cur), S) /\ Fresh(g, new, cur).val = g.val
<1>. DEFINE B  == BlockOf(S)
            bs == g.blocks \o new
<1>1. g.blocks \in Seq(B) BY DEF Building, FnOf
<1>. HIDE DEF B
<1>2. bs \in Seq(B) /\ Len(bs) = Len(g.blocks) + Len(new) /\ DOMAIN bs = 1 .. Len(bs)
      /\ Len(bs) \in Nat
  BY <1>1, ConcatProperties, LenProperties DEF B
<1>3. Fresh(g, new, cur) = [g EXCEPT !.blocks = bs, !.cur = cur] BY DEF Fresh
<1>. HIDE DEF bs
<1>4. cur \in DOMAIN bs /\ cur \in Nat BY <1>2
<1>5. Building([g EXCEPT !.blocks = bs, !.cur = cur], S) /\ [g EXCEPT !.blocks = bs, !.cur = cur].val = g.val
  BY <1>2, <1>4 DEF Building, FnOf, B
<1>. QED BY <1>3, <1>5

\* The empty function is one of any instructions.
LEMMA NewTyped ==
  ASSUME NEW S
  PROVE  /\ NewBlock \in BlockOf(S) /\ NewBlock.code = <<>>
         /\ Building(NewFunction, S) /\ NewFunction.cur = 1
<1>1. NewBlock \in BlockOf(S) /\ NewBlock.code = <<>>
  BY DEF NewBlock, BlockOf, Terms, LlvmTypes
<1>2. <<NewBlock>> \in Seq(BlockOf(S)) /\ DOMAIN <<NewBlock>> = {1} BY <1>1
<1>. QED BY <1>1, <1>2 DEF NewFunction, Building, FnOf, LlvmTypes

\* A literal or an identifier.
LEMMA LeafTyped ==
  ASSUME NEW S, Readable(S), NEW g, Building(g, S)
  PROVE  /\ \A t : Valued(GenLiteral(g, t), S)
         /\ \A x \in Vars : Valued(GenIdent(g, x), S)
         /\ \A leaf \in Leaf : Valued(GenLeaf(g, leaf), S)
<1>1. \A t : Valued(GenLiteral(g, t), S) BY LlvmTyped, ValueTyped DEF GenLiteral
<1>2. ASSUME NEW x \in Vars PROVE Valued(GenIdent(g, x), S)
  <2>1. CASE values[x] = NoSlot
    <3>1. Valued(Unknown(g, x), S) BY ValueTyped
    <3>. QED BY <2>1, <3>1 DEF GenIdent
  <2>2. CASE values[x] # NoSlot
    <3>1. Instr("load", x, values[x]) \in S BY <2>2 DEF Readable
    <3>2. Building(Emit(g, "load", x, values[x]), S) BY <3>1, EmitTyped
    <3>3. values[x].type \in LlvmTypes BY DEF Readable, Slot
    <3>4. Valued(Value(Emit(g, "load", x, values[x]), values[x].type), S)
      BY <3>2, <3>3, ValueTyped
    <3>. QED BY <2>2, <3>4 DEF GenIdent
  <2>. QED BY <2>1, <2>2
<1>3. ASSUME NEW leaf \in Leaf PROVE Valued(GenLeaf(g, leaf), S)
  <2>1. leaf.kind = "lit" \/ leaf.val \in Vars BY DEF Leaf
  <2>. QED BY <1>1, <1>2, <2>1 DEF GenLeaf
<1>. QED BY <1>1, <1>2, <1>3

\* The code of the arguments of a call, one after the other.
LEMMA ArgumentsTyped ==
  ASSUME NEW S, Readable(S), NEW f, NEW args \in Seq(Leaf)
  PROVE  /\ \A k \in DOMAIN args : Passed(f, args[k], k).unknown \subseteq Vars \cup FnNames
         /\ ArgumentCode(f, args) \in Seq(S)
<1>. DEFINE n == Len(args)
            code(k) == Passed(f, args[k], k).blocks[1].code
            Fold(h) == h = [k \in 0 .. n |-> IF k = 0 THEN <<>> ELSE h[k - 1] \o code(k)]
<1>1. n \in Nat /\ DOMAIN args = 1 .. n BY LenProperties
<1>2. ASSUME NEW k \in 1 .. n
      PROVE  /\ code(k) \in Seq(S)
             /\ Passed(f, args[k], k).unknown \subseteq Vars \cup FnNames
  <2>. DEFINE v == GenLeaf(NewFunction, args[k])
              p == Passed(f, args[k], k)
  <2>1. args[k] \in Leaf BY <1>1, ElementOfSeq
  <2>2. Building(v, S) BY <2>1, NewTyped, LeafTyped DEF Valued
  <2>3. \E wrong : p = BadIf(v, wrong) BY DEF Passed, Pass
  <2>4. v.cur = 1
    <3>1. NewFunction.cur = 1 /\ DOMAIN NewFunction = {"blocks", "cur", "val", "unknown"}
      BY DEF NewFunction
    <3>. QED BY <3>1 DEF GenLeaf, GenLiteral, GenIdent, Value, Unknown, Poison, Emit
  <2>5. \A wrong : BadIf(v, wrong).cur = v.cur
    <3>1. DOMAIN v = {"blocks", "cur", "val", "unknown"} BY <2>2 DEF Building, FnOf
    <3>. HIDE DEF v
    <3>. QED BY <3>1 DEF BadIf, Bad, Emit
  <2>. HIDE DEF v, p
  <2>6. Building(p, S) /\ p.cur = 1
    <3>1. PICK wrong : p = BadIf(v, wrong) BY <2>3
    <3>2. Instr("bad", NoName, NoSlot) \in S BY DEF Readable
    <3>. QED BY <2>2, <2>4, <2>5, <3>1, <3>2, BadTyped
  <2>7. p.blocks[1].code \in Seq(S)
    <3>1. <<>> \in Seq(S) OBVIOUS
    <3>. QED BY <2>6, <3>1, CodeReplaced
  <2>8. p.unknown \subseteq Vars \cup FnNames BY <2>6 DEF Building, FnOf
  <2>. QED BY <2>7, <2>8 DEF p
<1>. DEFINE add == [k \in 1 .. n |-> [s \in Seq(S) |-> s \o code(k)]]
<1>. HIDE DEF code
<1>3. add \in [1 .. n -> [Seq(S) -> Seq(S)]]
  <2>1. \A k \in 1 .. n, s \in Seq(S) : s \o code(k) \in Seq(S) BY <1>2, ConcatProperties
  <2>. QED BY <2>1
<1>4. \E h : Fold(h)
  <2>1. <<>> \in Seq(S) OBVIOUS
  <2>. DEFINE T == Seq(S)
  <2>0. <<>> \in T /\ add \in [1 .. n -> [T -> T]] /\ n \in Nat BY <1>1, <1>3, <2>1
  <2>. HIDE DEF add, n, T
  <2>2. PICK base \in T : base = <<>> BY <2>0
  <2>3. PICK h \in [0 .. n -> T] : h[0] = base /\ \A k \in 1 .. n : h[k] = add[k][h[k - 1]]
    <3>1. add \in [1 .. n -> [T -> T]] /\ n \in Nat BY <2>0
    <3>2. base \in T OBVIOUS
    <3>. QED BY ONLY <3>1, <3>2, FoldExists
  <2>4. ASSUME NEW k \in 1 .. n PROVE h[k] = h[k - 1] \o code(k)
    <3>1. k - 1 \in 0 .. n BY <2>0
    <3>2. h[k - 1] \in Seq(S) BY <3>1 DEF T
    <3>. QED BY <2>3, <3>2 DEF add
  <2>5. \A k \in 0 .. n : h[k] = IF k = 0 THEN <<>> ELSE h[k - 1] \o code(k)
    <3>. TAKE k \in 0 .. n
    <3>1. k = 0 \/ k \in 1 .. n BY <2>0
    <3>. QED BY <2>2, <2>3, <2>4, <3>1
  <2>6. h = [k \in 0 .. n |-> h[k]] BY <2>3
  <2>7. [k \in 0 .. n |-> h[k]] = [k \in 0 .. n |-> IF k = 0 THEN <<>> ELSE h[k - 1] \o code(k)]
    BY <2>5
  <2>. QED BY <2>6, <2>7
<1>5. ArgumentCode(f, args) = (CHOOSE h : Fold(h))[n]
  BY DEF ArgumentCode, code
<1>. DEFINE upTo == CHOOSE h : Fold(h)
<1>6. upTo = [k \in 0 .. n |-> IF k = 0 THEN <<>> ELSE upTo[k - 1] \o code(k)]
  <2>. HIDE DEF n
  <2>. QED BY <1>4
<1>. HIDE DEF upTo, n
<1>7. upTo[n] \in Seq(S)
  <2>. DEFINE P == {k \in 0 .. n : upTo[k] \in Seq(S)}
  <2>1. 0 \in P
    <3>1. 0 \in 0 .. n BY <1>1
    <3>2. upTo[0] = <<>> BY <1>6, <3>1
    <3>3. <<>> \in Seq(S) OBVIOUS
    <3>. QED BY <3>1, <3>2, <3>3
  <2>2. ASSUME NEW k \in 0 .. (n - 1), k \in P PROVE k + 1 \in P
    <3>1. k + 1 \in 1 .. n /\ k + 1 \in 0 .. n /\ k + 1 # 0 /\ (k + 1) - 1 = k BY <1>1
    <3>2. upTo[k + 1] = upTo[k] \o code(k + 1) BY <1>6, <3>1
    <3>3. upTo[k] \in Seq(S) /\ code(k + 1) \in Seq(S) BY <1>2, <2>2, <3>1 DEF code
    <3>4. upTo[k] \o code(k + 1) \in Seq(S) BY <3>3, ConcatProperties
    <3>. QED BY <3>1, <3>2, <3>4
  <2>3. n \in 0 .. n BY <1>1
  <2>4. \A k \in 0 .. n : k \in P
    <3>. HIDE DEF P
    <3>. QED BY <1>1, <2>1, <2>2, UpTo
  <2>. QED BY <2>3, <2>4
<1>. QED BY <1>1, <1>2, <1>5, <1>7 DEF upTo

\* A call, and an atom with its propagation.
LEMMA CallTyped ==
  ASSUME NEW S, Readable(S), NEW g, Building(g, S), NEW f \in FnNames, NEW args \in Seq(Leaf),
         Instr("call", f, Here) \in S
  PROVE  Valued(GenCall(g, f, args), S)
<1>1. CASE ~HasFunction(f)
  BY <1>1, ValueTyped DEF GenCall
<1>2. CASE HasFunction(f)
  <2>. DEFINE c == g.blocks[g.cur].code \o ArgumentCode(f, args)
              u == g.unknown \cup UNION {Passed(f, args[k], k).unknown : k \in DOMAIN args}
              coded == [g EXCEPT !.blocks[g.cur].code = c]
              done == [coded EXCEPT !.unknown = u]
              wrong == Len(args) # Len(Signature(f).params)
              called == BadIf(done, wrong)
  <2>1. <<>> \in Seq(S) OBVIOUS
  <2>2. c \in Seq(S) BY <2>1, CodeReplaced, ArgumentsTyped, ConcatProperties
  <2>3. u \subseteq Vars \cup FnNames
    <3>1. g.unknown \subseteq Vars \cup FnNames BY DEF Building, FnOf
    <3>2. \A k \in DOMAIN args : Passed(f, args[k], k).unknown \subseteq Vars \cup FnNames
      BY ArgumentsTyped
    <3>. QED BY <3>1, <3>2
  <2>4. GenCall(g, f, args) = Value(Emit(called, "call", f, Here), Signature(f).ret)
    <3>1. done = [g EXCEPT !.blocks[g.cur].code = @ \o ArgumentCode(f, args),
                           !.unknown = @ \cup UNION {Passed(f, args[k], k).unknown : k \in DOMAIN args}]
      BY DEF Building, FnOf
    <3>. HIDE DEF done
    <3>. QED BY <1>2, <3>1 DEF GenCall
  <2>. HIDE DEF c, u
  <2>5. Building(coded, S) BY <2>2, CodeReplaced
  <2>. HIDE DEF coded
  <2>6. Building(done, S) BY <2>3, <2>5 DEF Building, FnOf
  <2>. HIDE DEF done, wrong
  <2>7. Building(called, S) BY <2>6, BadTyped DEF Readable
  <2>. HIDE DEF called
  <2>8. Building(Emit(called, "call", f, Here), S) BY <2>7, EmitTyped
  <2>9. Signature(f).ret \in LlvmTypes BY <1>2, LlvmTyped
  <2>. QED BY <2>4, <2>8, <2>9, ValueTyped
<1>. QED BY <1>1, <1>2

\* ?: the value of a result, or the end of the function.
LEMMA PropagateTyped ==
  ASSUME NEW S, Readable(S), NEW g, Building(g, S)
  PROVE  Valued(GenPropagate(g), S)
<1>. DEFINE n == Len(g.blocks)
            b == BadIf(g, g.val # "res")
            err == [NewBlock EXCEPT !.term = "ret_err", !.type = "res"]
            new == <<NewBlock, err>>
            succ == <<n + 1, n + 2>>
            e == End(b, "prop", "void", succ)
            h == Fresh(e, new, n + 1)
<1>0. GenPropagate(g) = Poison(h) BY DEF GenPropagate
<1>1. Building(b, S) BY BadTyped DEF Readable
<1>2. n \in Nat /\ Len(b.blocks) = n
  <2>1. n \in Nat BY LenProperties DEF Building, FnOf
  <2>2. Len(b.blocks) = n
    <3>1. g.blocks \in Seq(BlockOf(S)) /\ g.cur \in DOMAIN g.blocks BY DEF Building, FnOf
    <3>2. b = g \/ b = Emit(g, "bad", NoName, NoSlot) BY DEF BadIf, Bad
    <3>3. \A x : Len([g.blocks EXCEPT ![g.cur] = x]) = Len(g.blocks)
      <4>1. IsList(g.blocks) BY <3>1, ListOfSeq
      <4>. QED BY <3>1, <4>1, ListExcept
    <3>4. \A x : [g EXCEPT !.blocks[g.cur].code = x].blocks
                   = [g.blocks EXCEPT ![g.cur] = [g.blocks[g.cur] EXCEPT !.code = x]]
      BY DEF Building, FnOf
    <3>5. Len(Emit(g, "bad", NoName, NoSlot).blocks) = n BY <3>3, <3>4 DEF Emit
    <3>. HIDE DEF b
    <3>. QED BY <3>2, <3>5
  <2>. QED BY <2>1, <2>2
<1>3. succ \in Seq(Nat) BY <1>2
<1>4. err \in BlockOf(S) BY NewTyped DEF BlockOf, Terms, LlvmTypes
<1>5. new \in Seq(BlockOf(S)) /\ Len(new) = 2 BY <1>4, NewTyped
<1>. HIDE DEF b, err, new, succ
<1>6. "prop" \in Terms /\ "void" \in LlvmTypes BY DEF Terms, LlvmTypes
<1>7. Building(e, S) /\ Len(e.blocks) = n BY <1>1, <1>2, <1>3, <1>6, EndTyped
<1>. HIDE DEF e
<1>8. n + 1 \in 1 .. Len(e.blocks) + Len(new) BY <1>2, <1>5, <1>7
<1>9. Building(h, S) BY <1>5, <1>7, <1>8, FreshTyped
<1>. HIDE DEF h
<1>. QED BY <1>0, <1>9, ValueTyped

\* Literals, names and calls.
LEMMA AtomTyped ==
  ASSUME NEW S, Readable(S), NEW g, Building(g, S), NEW a \in Atom,
         a.kind = "call" => Instr("call", a.val, Here) \in S
  PROVE  Valued(GenAtom(g, a), S)
<1>. DEFINE v == CASE a.kind = "lit"   -> GenLiteral(g, a.val)
                   [] a.kind = "ident" -> GenIdent(g, a.val)
                   [] OTHER            -> GenCall(g, a.val, a.args)
<1>1. \/ a.kind = "lit"
      \/ a.kind = "ident" /\ a.val \in Vars
      \/ a.kind = "call" /\ a.val \in FnNames /\ a.args \in Seq(Leaf)
  BY DEF Atom
<1>2. Valued(v, S) BY <1>1, LeafTyped, CallTyped
<1>3. GenAtom(g, a) = IF a.prop THEN GenPropagate(v) ELSE v BY DEF GenAtom
<1>. HIDE DEF v
<1>4. Valued(GenPropagate(v), S) BY <1>2, PropagateTyped DEF Valued
<1>. QED BY <1>2, <1>3, <1>4

\* The calls an expression makes are in S, with the place of the expression.
Placed(e, S) ==
  e.wrap \in {"none", "ok", "arith", "compare"} =>
    \A k \in DOMAIN e.atoms :
      e.atoms[k].kind = "call" => Instr("call", e.atoms[k].val, Here) \in S

\* A return ends the block, and leaves a nullptr.
LEMMA ReturnTyped ==
  ASSUME NEW S, NEW g, Building(g, S), NEW term \in Terms, NEW type \in LlvmTypes
  PROVE  Building(Dead(End(g, term, type, <<>>)), S)
<1>. DEFINE e == End(g, term, type, <<>>)
            new == <<NewBlock>>
            h == Fresh(e, new, Len(e.blocks) + 1)
<1>0. <<>> \in Seq(Nat) OBVIOUS
<1>1. Building(e, S) BY <1>0, EndTyped
<1>2. new \in Seq(BlockOf(S)) /\ Len(new) = 1 BY NewTyped
<1>3. Len(e.blocks) \in Nat BY <1>1, LenProperties DEF Building, FnOf
<1>4. Dead(e) = Value(h, "null") BY DEF Dead
<1>. HIDE DEF e, new
<1>5. Len(e.blocks) + 1 \in 1 .. Len(e.blocks) + Len(new) BY <1>2, <1>3
<1>6. Building(h, S) BY <1>1, <1>2, <1>5, FreshTyped
<1>. HIDE DEF h
<1>7. Building(Value(h, "null"), S) BY <1>6, ValueTyped
<1>. QED BY <1>4, <1>7 DEF e

\* An expression has the atoms its generation looks at.
LEMMA ExprAtoms ==
  ASSUME NEW e \in Expr
  PROVE  /\ e.wrap \in {"none", "ok"} => 1 \in DOMAIN e.atoms
         /\ e.wrap \in {"arith", "compare"} => 1 \in DOMAIN e.atoms /\ 2 \in DOMAIN e.atoms
<1>1. DOMAIN e.atoms = 1 .. Len(e.atoms)
  <2>1. e.atoms \in Seq(Atom) BY DEF Expr
  <2>. QED BY <2>1, LenProperties
<1>2. /\ e.wrap \in {"none", "ok", "err"} => Len(e.atoms) = 1
      /\ e.wrap \in {"arith", "compare"} => Len(e.atoms) = 2
  BY SMTT(30) DEF Expr
<1>3. ASSUME Len(e.atoms) = 1 PROVE 1 \in DOMAIN e.atoms
  BY ONLY <1>1, <1>3
<1>4. ASSUME Len(e.atoms) = 2 PROVE 1 \in DOMAIN e.atoms /\ 2 \in DOMAIN e.atoms
  BY ONLY <1>1, <1>4
<1>. QED BY <1>2, <1>3, <1>4, Zenon

\* An expression, whatever it is.
LEMMA ExprTyped ==
  ASSUME NEW S, Readable(S), NEW g, Building(g, S), NEW e \in Expr, Placed(e, S)
  PROVE  Building(GenExpr(g, e), S)
<1>1. e.atoms \in Seq(Atom) BY DEF Expr
<1>2. ASSUME NEW k \in DOMAIN e.atoms PROVE e.atoms[k] \in Atom
  BY <1>1, ElementOfSeq, LenProperties
<1>3. /\ e.wrap \in {"none", "ok"} => 1 \in DOMAIN e.atoms
      /\ e.wrap \in {"arith", "compare"} => 1 \in DOMAIN e.atoms /\ 2 \in DOMAIN e.atoms
  BY ExprAtoms
<1>4. ASSUME NEW h, Building(h, S), NEW k \in DOMAIN e.atoms,
             e.wrap \in {"none", "ok", "arith", "compare"}
      PROVE  Valued(GenAtom(h, e.atoms[k]), S)
  BY <1>2, <1>4, AtomTyped DEF Placed
<1>5. CASE e.wrap = "none"
  BY <1>3, <1>4, <1>5 DEF GenExpr, Valued
<1>6. CASE e.wrap \in {"arith", "compare"}
  <2>. DEFINE l == GenAtom(g, e.atoms[1])
              r == GenAtom(l, e.atoms[2])
              ints == Width(l.val) > 0 /\ Width(r.val) > 0
              i == BadIf(r, ~ints)
              wide == IF Width(l.val) < Width(r.val) THEN r.val ELSE l.val
              ty == IF e.wrap = "compare" THEN "i1" ELSE wide
  <2>1. GenExpr(g, e) = Value(i, ty) BY <1>6 DEF GenExpr, GenBinary, Combine
  <2>2. Valued(l, S) BY <1>3, <1>4, <1>6
  <2>. HIDE DEF l
  <2>3. Valued(r, S) BY <1>3, <1>4, <1>6, <2>2 DEF Valued
  <2>. HIDE DEF r
  <2>4. ty \in LlvmTypes
    <3>1. "i1" \in LlvmTypes BY DEF LlvmTypes
    <3>. QED BY <2>2, <2>3, <3>1 DEF Valued
  <2>. HIDE DEF ints, ty
  <2>5. Building(i, S) BY <2>3, BadTyped DEF Readable, Valued
  <2>. HIDE DEF i
  <2>. QED BY <2>1, <2>4, <2>5, ValueTyped DEF Valued
<1>7. CASE e.wrap = "ok"
  <2>. DEFINE v == GenAtom(g, e.atoms[1])
              ret == LlvmOf(gdecl.ret)
              b == BadIf(v, v.val \in {"void", "res"})
  <2>1. Valued(v, S) BY <1>3, <1>4, <1>7
  <2>2. GenExpr(g, e) = Dead(ReturnOf(v, ret)) BY <1>7 DEF GenExpr, GenReturnOk
  <2>. HIDE DEF v, ret
  <2>3. ReturnOf(v, ret) \in {End(v, "ret_ok", "void", <<>>), End(b, "ret_ok", "res", <<>>),
                              End(v, "ret_ok", v.val, <<>>)}
    BY DEF ReturnOf, b
  <2>4. Building(b, S) BY <2>1, BadTyped DEF Readable, Valued
  <2>. HIDE DEF b
  <2>5. "ret_ok" \in Terms /\ "void" \in LlvmTypes /\ "res" \in LlvmTypes /\ v.val \in LlvmTypes
    BY <2>1 DEF Terms, LlvmTypes, Valued
  <2>6. /\ Building(Dead(End(v, "ret_ok", "void", <<>>)), S)
        /\ Building(Dead(End(b, "ret_ok", "res", <<>>)), S)
        /\ Building(Dead(End(v, "ret_ok", v.val, <<>>)), S)
    BY <2>1, <2>4, <2>5, ReturnTyped DEF Valued
  <2>. QED BY <2>2, <2>3, <2>6
<1>8. CASE e.wrap = "err"
  <2>1. "ret_err" \in Terms /\ "res" \in LlvmTypes BY DEF Terms, LlvmTypes
  <2>. QED BY <1>8, <2>1, ReturnTyped DEF GenExpr, GenReturnErr
<1>9. CASE e.wrap \notin {"none", "arith", "compare", "ok", "err"}
  BY <1>9, ValueTyped DEF GenExpr, Valued
<1>. QED BY <1>5, <1>6, <1>7, <1>8, <1>9

-----------------------------------------------------------------------------
(* What a function of declaration c may contain: slots it allocates itself, *)
(* of the variables bound there, and calls that stand in its source.        *)

\* The slot of a binding is one of the variable it binds.
Named(x, slot) == slot.at > 0 => prog[slot.decl].body[slot.at].name = x

\* Item i of d makes a call of f.
Calls(d, i, f) ==
  /\ i \in DOMAIN d.body /\ d.body[i].op \in {"let", "mut", "assign", "expr", "if"}
  /\ d.body[i].expr.wrap \in {"none", "ok", "arith", "compare"}
  /\ \E k \in DOMAIN d.body[i].expr.atoms :
       d.body[i].expr.atoms[k].kind = "call" /\ d.body[i].expr.atoms[k].val = f
\* What a function of declaration c may hold.
Written(c) ==
  {w \in Instrs : /\ w.op = "alloca" => w.slot.decl = c
                  /\ w.op \in {"alloca", "load"} => Named(w.name, w.slot)
                  /\ w.op = "call" => Calls(prog[c], w.slot.at, w.name)}

\* The functions emitted hold nothing else, and were verified if nothing was
\* reported.
EmittedInv ==
  \A f \in DOMAIN emitted :
    /\ emitted[f].decl \in DOMAIN prog
    /\ emitted[f].blocks \in Seq(BlockOf(Written(emitted[f].decl)))
    /\ diags = {} => Verified(emitted[f].blocks, LlvmOf(prog[emitted[f].decl].ret))
\* values_ maps a name to a slot of that name.
ValuesNamed == \A x \in Vars : Named(x, values[x])
\* The function under construction holds nothing but what its declaration gives.
FnInv ==
  gpc # 0 => /\ gcur \in DOMAIN prog /\ prog[gcur].kind = "fn"
             /\ Building(fn, Written(gcur))
\* The inductive invariant of the instructions.
CodeInv == GenTypeOK /\ FnInv /\ EmittedInv /\ ValuesNamed

\* A function that holds some instructions holds instructions.
LEMMA WrittenTyped ==
  ASSUME NEW S, NEW T, S \subseteq T, NEW g, Building(g, S)
  PROVE  Building(g, T)
<1>1. Seq(S) \subseteq Seq(T) BY SeqMonotonic
<1>2. BlockOf(S) \subseteq BlockOf(T) BY <1>1 DEF BlockOf
<1>3. Seq(BlockOf(S)) \subseteq Seq(BlockOf(T)) BY <1>2, SeqMonotonic
<1>. QED BY <1>3 DEF Building, FnOf

\* The bodies are sequences of items.
LEMMA BodyItems ==
  ASSUME prog \in Seq(Decl), NEW c \in DOMAIN prog
  PROVE  /\ prog[c] \in Decl /\ prog[c].body \in Seq(Item)
         /\ \A i \in DOMAIN prog[c].body : /\ prog[c].body[i].expr \in Expr
                                           /\ prog[c].body[i].name \in Vars \cup {NoName}
<1>1. prog[c] \in Decl BY ElementOfSeq, LenProperties
<1>2. prog[c].body \in Seq(Item) BY <1>1 DEF Decl
<1>3. \A i \in DOMAIN prog[c].body : prog[c].body[i] \in Item
  BY <1>2, ElementOfSeq, LenProperties
<1>. QED BY <1>1, <1>2, <1>3 DEF Item

\* What the statements of a body may write.
LEMMA WrittenHere ==
  ASSUME CodeInv, gpc # 0, gpc \in DOMAIN gdecl.body
  PROVE  /\ Readable(Written(gcur))
         /\ gitem.expr \in Expr
         /\ gitem.op \in {"let", "mut", "assign", "expr", "if"} => Placed(gitem.expr, Written(gcur))
         /\ \A slot \in Slot : /\ Instr("store", gitem.name, slot) \in Written(gcur)
                               /\ slot.decl = gcur /\ slot.at = gpc =>
                                    Instr("alloca", gitem.name, slot) \in Written(gcur)
<1>1. gcur \in DOMAIN prog /\ prog \in Seq(Decl) /\ gpc \in Nat /\ gcur \in Nat
  BY DEF CodeInv, FnInv, GenTypeOK
<1>2. gitem.expr \in Expr /\ gitem.name \in Vars \cup {NoName}
  BY <1>1, BodyItems DEF gitem, gdecl
<1>3. NoSlot \in Slot /\ Here \in Slot BY <1>1 DEF NoSlot, Here, Slot, LlvmTypes
<1>4. Readable(Written(gcur))
  <2>1. values \in [Vars -> Slot] /\ \A x \in Vars : Named(x, values[x])
    BY DEF CodeInv, GenTypeOK, ValuesNamed
  <2>2. \A x \in Vars : values[x] \in Slot BY <2>1
  <2>. QED BY <1>3, <2>1, <2>2 DEF Readable, Written, Instrs, Instr
<1>5. \A slot \in Slot : /\ Instr("store", gitem.name, slot) \in Written(gcur)
                         /\ slot.decl = gcur /\ slot.at = gpc =>
                                    Instr("alloca", gitem.name, slot) \in Written(gcur)
  <2>1. \A slot : slot.at = gpc /\ slot.decl = gcur => Named(gitem.name, slot)
    BY DEF Named, gitem, gdecl
  <2>. QED BY <1>2, <2>1 DEF Written, Instrs, Instr
<1>6. ASSUME gitem.op \in {"let", "mut", "assign", "expr", "if"},
             gitem.expr.wrap \in {"none", "ok", "arith", "compare"},
             NEW k \in DOMAIN gitem.expr.atoms, gitem.expr.atoms[k].kind = "call"
      PROVE  Instr("call", gitem.expr.atoms[k].val, Here) \in Written(gcur)
  <2>. DEFINE a == gitem.expr.atoms[k]
  <2>1. a \in Atom BY <1>2, ElementOfSeq, LenProperties DEF Expr
  <2>2. a.val \in FnNames BY <1>6, <2>1, SMTT(30) DEF Atom
  <2>3. Calls(prog[gcur], gpc, a.val) BY <1>6 DEF Calls, gitem, gdecl
  <2>4. Here.at = gpc BY DEF Here
  <2>. HIDE DEF a
  <2>5. Instr("call", a.val, Here) \in Instrs BY <1>3, <2>2 DEF Instrs, Instr
  <2>6. Instr("call", a.val, Here) \in Written(gcur)
    BY <2>3, <2>4, <2>5 DEF Written, Instr
  <2>. QED BY <2>6 DEF a
<1>. QED BY <1>2, <1>4, <1>5, <1>6 DEF Placed

\* A statement that leaves a function of the instructions allowed, and changes no
\* more than the statements of a body change.
LEMMA StatementTyped ==
  ASSUME CodeInv, gpc # 0, gcur \in DOMAIN prog,
         UNCHANGED <<prog, gcur, emitted, diags, entry>>,
         gpc' \in Nat, Building(fn', Written(gcur)), values' \in [Vars -> Slot],
         values' = values \/ ValuesNamed',
         ifs' \in Seq(OpenIf), crashed' \in BOOLEAN
  PROVE  CodeInv'
<1>1. \A c : Written(c)' = Written(c)
  <2>1. prog' = prog OBVIOUS
  <2>. QED BY <2>1 DEF Written, Named
<1>2. FnInv' BY <1>1 DEF CodeInv, FnInv, Building
<1>3. EmittedInv'
  BY <1>1 DEF CodeInv, EmittedInv
<1>4. Building(fn', Instrs)
  <2>1. Written(gcur) \subseteq Instrs BY DEF Written
  <2>. QED BY <2>1, WrittenTyped
<1>5. GenTypeOK'
  BY <1>4 DEF CodeInv, GenTypeOK, Building, FnOf, BlockSet, BlockOf, Instrs, OpenIf
<1>6. ValuesNamed'
  <2>1. prog' = prog OBVIOUS
  <2>. QED BY <2>1 DEF CodeInv, ValuesNamed, Named
<1>. QED BY <1>2, <1>3, <1>5, <1>6 DEF CodeInv

\* The end of a loop is behind it.
LEMMA LoopCloses ==
  ASSUME prog \in Programs, NEW c \in DOMAIN prog, NEW k \in DOMAIN prog[c].body,
         prog[c].body[k].op = "for"
  PROVE  CloseOf(prog[c].body, k) \in (k + 1) .. Len(prog[c].body)
<1>. DEFINE body == prog[c].body
            n == Len(body)
            A == {j \in (k + 1) .. n : Closes(body, k, j)}
<1>1. prog \in Seq(Decl) BY ProgramsAssumption DEF ProgramsAssumption
<1>2. body \in Seq(Item) BY <1>1, BodyItems
<1>3. n \in Nat /\ k \in 1 .. n BY <1>2, LenProperties
<1>4. A # {} BY NestingAssumption DEF NestingAssumption
<1>5. A \in SUBSET (1 .. n) BY <1>3
<1>6. PICK j \in A : \A i \in A : j <= i
  <2>. HIDE DEF A
  <2>. QED BY <1>3, <1>4, <1>5, LeastPosition
<1>. HIDE DEF body, n
<1>7. \A i \in (k + 1) .. (j - 1) : ~Closes(body, k, i)
  <2>. SUFFICES ASSUME NEW i \in (k + 1) .. (j - 1), Closes(body, k, i) PROVE FALSE OBVIOUS
  <2>1. i \in (k + 1) .. n /\ ~(j <= i) BY <1>3
  <2>. QED BY <1>6, <2>1
<1>8. \E m \in (k + 1) .. n : Closes(body, k, m) /\ \A i \in (k + 1) .. (m - 1) : ~Closes(body, k, i)
  BY <1>6, <1>7
<1>. QED BY <1>8 DEF CloseOf, body, n

\* The statements of a body write what their expressions do, and their own slots.
LEMMA StatementsTyped ==
  ASSUME prog \in Programs, CodeInv, BodyInv, BodyInv', gpc # 0,
         GenBinding \/ GenAssign \/ GenExprStmt \/ GenNothing \/ GenIf \/ GenElse \/ GenEndIf
  PROVE  CodeInv'
<1>. DEFINE S == Written(gcur)
            v == GenExpr(fn, gitem.expr)
<1>1. /\ UNCHANGED <<prog, gcur, emitted, diags, entry>> /\ gpc \in DOMAIN gdecl.body
      /\ gcur \in DOMAIN prog
  BY DEF GenBinding, GenAssign, GenExprStmt, GenNothing, GenIf, GenElse, GenEndIf, Gen, Running
<1>2. /\ Readable(S) /\ gitem.expr \in Expr
      /\ gitem.op \in {"let", "mut", "assign", "expr", "if"} => Placed(gitem.expr, S)
      /\ \A slot \in Slot : /\ Instr("store", gitem.name, slot) \in S
                            /\ slot.decl = gcur /\ slot.at = gpc =>
                                 Instr("alloca", gitem.name, slot) \in S
  BY <1>1, WrittenHere
<1>3. /\ Building(fn, S) /\ values \in [Vars -> Slot] /\ ifs \in Seq(OpenIf)
      /\ gpc \in Nat /\ gcur \in Nat /\ crashed \in BOOLEAN
  BY DEF CodeInv, FnInv, GenTypeOK, OpenIf
<1>4. gitem.op \in {"let", "mut", "assign", "expr", "if"} => Building(v, S)
  BY <1>2, <1>3, ExprTyped
<1>. HIDE DEF S, v
<1>5. ASSUME NEW g, Building(g, S), NEW wrong PROVE Building(BadIf(g, wrong), S)
  BY <1>2, <1>5, BadTyped DEF Readable
<1>6. gpc + 1 \in Nat BY <1>3
<1>7. CASE GenBinding
  <2>1. gitem.op \in {"let", "mut"} BY <1>7 DEF GenBinding, Gen
  <2>. DEFINE type == BindingType(v)
              slot == [decl |-> gcur, at |-> gpc, type |-> type]
              al == Emit(v, "alloca", gitem.name, slot)
              a == BadIf(al, type = "void")
              s == BadIf(a, Coerce(v.val, type) = "bad")
  <2>2. Bind(v, type) BY <1>7 DEF GenBinding, v
  <2>3. Building(v, S) /\ v.val \in LlvmTypes \cup {"null"}
    BY <1>4, <2>1 DEF Building, FnOf
  <2>4. type \in LlvmTypes
    <3>1. "i64" \in LlvmTypes BY DEF LlvmTypes
    <3>. QED BY <2>3, <3>1, LlvmTyped DEF BindingType
  <2>5. slot \in Slot /\ slot.decl = gcur /\ slot.at = gpc BY <1>3, <2>4 DEF Slot
  <2>6. /\ fn' = IF v.val = "null" THEN a ELSE Emit(s, "store", gitem.name, slot)
        /\ values' = [values EXCEPT ![gitem.name] = slot]
        /\ gpc' = gpc + 1 /\ UNCHANGED <<ifs, crashed>>
    BY <2>2 DEF Bind
  <2>. HIDE DEF type, slot
  <2>7. Building(al, S)
    <3>1. Instr("alloca", gitem.name, slot) \in S BY <1>2, <2>5
    <3>. QED BY <2>3, <3>1, EmitTyped
  <2>. HIDE DEF al
  <2>8. Building(a, S) BY <1>5, <2>7
  <2>. HIDE DEF a
  <2>9. Building(s, S) BY <1>5, <2>8
  <2>. HIDE DEF s
  <2>10. Building(Emit(s, "store", gitem.name, slot), S)
    <3>1. Instr("store", gitem.name, slot) \in S BY <1>2, <2>5
    <3>. QED BY <2>9, <3>1, EmitTyped
  <2>11. Building(fn', S) BY <2>6, <2>8, <2>10
  <2>12. values' \in [Vars -> Slot] BY <1>3, <2>5, <2>6
  <2>13. ValuesNamed'
    <3>1. Named(gitem.name, slot) BY <2>5 DEF Named, gitem, gdecl
    <3>2. \A x \in Vars : values'[x] = values[x] \/ (x = gitem.name /\ values'[x] = slot)
      BY <1>3, <2>6
    <3>3. \A x \in Vars : Named(x, values'[x]) BY <3>1, <3>2 DEF CodeInv, ValuesNamed
    <3>4. prog' = prog BY <1>1
    <3>. QED BY <3>3, <3>4 DEF ValuesNamed, Named
  <2>. QED BY <1>1, <1>3, <1>6, <2>6, <2>11, <2>12, <2>13, StatementTyped DEF S
<1>8. CASE GenAssign
  <2>1. gitem.op = "assign" BY <1>8 DEF GenAssign, Gen
  <2>2. Building(v, S) BY <1>4, <2>1
  <2>3. \/ UNCHANGED <<fn, crashed>>
        \/ StoreTo(values[gitem.name], v)
    BY <1>8 DEF GenAssign, v
  <2>4. gpc' = gpc + 1 /\ UNCHANGED <<ifs, values>> BY <1>8 DEF GenAssign
  <2>5. gitem.name \in Vars
    <3>1. gitem \in Item
      <4>1. prog \in Seq(Decl) BY DEF CodeInv, GenTypeOK
      <4>2. gdecl.body \in Seq(Item) BY <1>1, <4>1, BodyItems DEF gdecl
      <4>. QED BY <1>1, <4>2, ElementOfSeq, LenProperties DEF gitem
    <3>. QED BY <2>1, <3>1 DEF Item
  <2>6. values[gitem.name] \in Slot BY <1>3, <2>5
  <2>7. Building(fn', S) /\ crashed' \in BOOLEAN
    <3>1. CASE UNCHANGED <<fn, crashed>> BY <1>3, <3>1
    <3>2. CASE StoreTo(values[gitem.name], v)
      <4>. DEFINE w == values[gitem.name]
                  b == BadIf(v, Coerce(v.val, w.type) = "bad")
      <4>1. Building(b, S) BY <1>5, <2>2
      <4>2. \/ fn' = fn /\ crashed' = TRUE
            \/ fn' = Emit(b, "store", gitem.name, w) /\ crashed' = crashed
        BY <3>2 DEF StoreTo
      <4>3. Instr("store", gitem.name, w) \in S BY <1>2, <2>6
      <4>. HIDE DEF b, w
      <4>4. Building(Emit(b, "store", gitem.name, w), S) BY <4>1, <4>3, EmitTyped
      <4>. QED BY <1>3, <4>2, <4>4
    <3>. QED BY <2>3, <3>1, <3>2
  <2>. QED BY <1>1, <1>3, <1>6, <2>4, <2>7, StatementTyped DEF S
<1>9. CASE GenExprStmt
  <2>1. gitem.op = "expr" /\ fn' = v /\ gpc' = gpc + 1 /\ UNCHANGED <<ifs, values, crashed>>
    BY <1>9 DEF GenExprStmt, Gen, v
  <2>2. Building(fn', S) BY <1>4, <2>1
  <2>. QED BY <1>1, <1>3, <1>6, <2>1, <2>2, StatementTyped DEF S
<1>10. CASE GenNothing
  <2>1. /\ gpc' = IF gitem.op = "for" THEN CloseOf(gdecl.body, gpc) + 1 ELSE gpc + 1
        /\ UNCHANGED <<fn, ifs, values, crashed>>
    BY <1>10 DEF GenNothing
  <2>2. gpc' \in Nat
    <3>1. CASE gitem.op = "for"
      <4>1. CloseOf(gdecl.body, gpc) \in (gpc + 1) .. Len(gdecl.body)
        BY <1>1, <3>1, LoopCloses DEF gitem, gdecl
      <4>. QED BY <1>3, <2>1, <3>1, <4>1
    <3>. QED BY <1>6, <2>1, <3>1
  <2>. QED BY <1>1, <1>3, <2>1, <2>2, StatementTyped DEF S
<1>11. CASE GenIf
  <2>1. gitem.op = "if" /\ IfOn(v, <<1, 2>>) /\ gpc' = gpc + 1 /\ UNCHANGED values
    BY <1>11 DEF GenIf, Gen, v
  <2>2. Building(v, S) BY <1>4, <2>1
  <2>. DEFINE n   == Len(v.blocks)
              b   == BadIf(v, Width(v.val) = 0)
              new == <<NewBlock, NewBlock, NewBlock>>
              succ == <<n + 1, n + 2>>
              e   == End(b, "if", "void", succ)
              i   == [orelse |-> n + 2, merge |-> n + 3, within |-> "then"]
  <2>3. n \in Nat BY <2>2, LenProperties DEF Building, FnOf
  <2>4. \/ UNCHANGED <<fn, ifs>> /\ crashed' = TRUE
        \/ fn' = Fresh(e, new, n + 1) /\ ifs' = Append(ifs, i) /\ UNCHANGED crashed
    BY <2>1 DEF IfOn
  <2>5. i \in OpenIf BY <2>3 DEF OpenIf
  <2>6. succ \in Seq(Nat) BY <2>3
  <2>7. "if" \in Terms /\ "void" \in LlvmTypes BY DEF Terms, LlvmTypes
  <2>8. new \in Seq(BlockOf(S)) /\ Len(new) = 3 BY NewTyped
  <2>9. Building(b, S) BY <1>5, <2>2
  <2>12. Len(b.blocks) = n
    <3>1. v.blocks \in Seq(BlockOf(S)) /\ v.cur \in DOMAIN v.blocks BY <2>2 DEF Building, FnOf
    <3>2. b = v \/ b = Emit(v, "bad", NoName, NoSlot) BY DEF BadIf, Bad
    <3>3. \A x : Len([v.blocks EXCEPT ![v.cur] = x]) = Len(v.blocks)
      <4>1. IsList(v.blocks) BY <3>1, ListOfSeq
      <4>. QED BY <3>1, <4>1, ListExcept
    <3>4. \A x : [v EXCEPT !.blocks[v.cur].code = x].blocks
                   = [v.blocks EXCEPT ![v.cur] = [v.blocks[v.cur] EXCEPT !.code = x]]
      BY <2>2 DEF Building, FnOf
    <3>5. Len(Emit(v, "bad", NoName, NoSlot).blocks) = n BY <3>3, <3>4 DEF Emit
    <3>. HIDE DEF b
    <3>. QED BY <3>2, <3>5
  <2>. HIDE DEF b, new, succ, i
  <2>10. Building(e, S) /\ Len(e.blocks) = n BY <2>6, <2>7, <2>9, <2>12, EndTyped
  <2>. HIDE DEF e, n
  <2>13. n + 1 \in 1 .. Len(e.blocks) + Len(new) BY <2>3, <2>8, <2>10
  <2>14. Building(Fresh(e, new, n + 1), S) BY <2>8, <2>10, <2>13, FreshTyped
  <2>15. Building(fn', S) /\ ifs' \in Seq(OpenIf) /\ crashed' \in BOOLEAN
    <3>1. Append(ifs, i) \in Seq(OpenIf) BY <1>3, <2>5, AppendProperties
    <3>. QED BY <1>3, <2>4, <2>14, <3>1
  <2>. QED BY <1>1, <1>3, <1>6, <2>1, <2>15, StatementTyped DEF S
<1>12. ASSUME NEW g, Building(g, S), NEW merge \in Nat, NEW cur \in Nat, cur \in DOMAIN g.blocks
       PROVE  /\ Building(Goto(g, merge, cur), S)
              /\ DOMAIN Goto(g, merge, cur).blocks = DOMAIN g.blocks
  <2>. DEFINE e == End(g, "br", "void", <<merge>>)
  <2>1. "br" \in Terms /\ "void" \in LlvmTypes /\ <<merge>> \in Seq(Nat) BY DEF Terms, LlvmTypes
  <2>2. Building(e, S) /\ Len(e.blocks) = Len(g.blocks) BY <1>12, <2>1, EndTyped
  <2>. HIDE DEF e
  <2>3. DOMAIN e.blocks = DOMAIN g.blocks
    BY <1>12, <2>2, LenProperties DEF Building, FnOf
  <2>4. Building([e EXCEPT !.cur = cur], S) /\ [e EXCEPT !.cur = cur].blocks = e.blocks
    BY <1>12, <2>2, <2>3 DEF Building, FnOf
  <2>. QED BY <2>3, <2>4 DEF Goto, e
<1>13. ASSUME ifs # <<>>, gpc # 0
       PROVE  /\ InnermostIf \in OpenIf /\ InnermostIf.merge \in Nat /\ InnermostIf.orelse \in Nat
              /\ InnermostIf.merge \in DOMAIN fn.blocks /\ InnermostIf.orelse \in DOMAIN fn.blocks
              /\ Len(ifs) \in DOMAIN ifs /\ Len(ifs) \in Nat
  <2>1. IfsOK BY <1>13 DEF BodyInv
  <2>2. Len(ifs) \in Nat /\ DOMAIN ifs = 1 .. Len(ifs) /\ Len(ifs) # 0
    BY <1>3, <1>13, LenProperties, EmptySeq
  <2>3. Len(ifs) \in DOMAIN ifs BY <2>2
  <2>4. InnermostIf \in OpenIf BY <1>3, <2>3, IfsTyped, <2>1 DEF InnermostIf
  <2>5. DOMAIN fn.blocks = 1 .. Len(fn.blocks) /\ Len(fn.blocks) \in Nat
    BY <1>3, LenProperties DEF Building, FnOf
  <2>6. /\ 1 < InnermostIf.orelse /\ InnermostIf.orelse < InnermostIf.merge
        /\ InnermostIf.merge <= Len(fn.blocks)
    BY <2>1, <2>3 DEF IfsOK, InnermostIf
  <2>7. InnermostIf.merge \in Nat /\ InnermostIf.orelse \in Nat BY <2>4 DEF OpenIf
  <2>. QED BY <2>2, <2>3, <2>4, <2>5, <2>6, <2>7
<1>14. CASE GenElse
  <2>1. /\ ifs # <<>> /\ fn' = Goto(fn, InnermostIf.merge, InnermostIf.orelse)
        /\ ifs' = [ifs EXCEPT ![Len(ifs)].within = "else"]
        /\ gpc' = gpc + 1 /\ UNCHANGED <<values, crashed>>
    BY <1>14 DEF GenElse
  <2>2. Building(fn', S) BY <1>3, <1>12, <1>13, <2>1
  <2>3. ifs' \in Seq(OpenIf)
    <3>. DEFINE i == [ifs[Len(ifs)] EXCEPT !.within = "else"]
    <3>1. i \in OpenIf BY <1>13, <2>1 DEF InnermostIf, OpenIf
    <3>2. ifs' = [ifs EXCEPT ![Len(ifs)] = i] BY <2>1
    <3>. HIDE DEF i
    <3>3. DOMAIN ifs = 1 .. Len(ifs) BY <1>3, LenProperties
    <3>. QED BY <1>3, <1>13, <2>1, <3>1, <3>2, <3>3, ExceptSeq
  <2>. QED BY <1>1, <1>3, <1>6, <2>1, <2>2, <2>3, StatementTyped DEF S
<1>15. CASE GenEndIf
  <2>. DEFINE g == IF InnermostIf.within = "then"
                   THEN Goto(fn, InnermostIf.merge, InnermostIf.orelse) ELSE fn
  <2>1. /\ ifs # <<>> /\ fn' = Goto(g, InnermostIf.merge, InnermostIf.merge)
        /\ ifs' = SubSeq(ifs, 1, Len(ifs) - 1)
        /\ gpc' = gpc + 1 /\ UNCHANGED <<values, crashed>>
    BY <1>15 DEF GenEndIf
  <2>2. Building(g, S) /\ DOMAIN g.blocks = DOMAIN fn.blocks
    <3>1. /\ Building(Goto(fn, InnermostIf.merge, InnermostIf.orelse), S)
          /\ DOMAIN Goto(fn, InnermostIf.merge, InnermostIf.orelse).blocks = DOMAIN fn.blocks
      BY <1>3, <1>12, <1>13, <2>1
    <3>. QED BY <1>3, <3>1
  <2>. HIDE DEF g
  <2>3. Building(fn', S) BY <1>12, <1>13, <2>1, <2>2
  <2>4. ifs' \in Seq(OpenIf)
    <3>1. Len(ifs) \in Nat /\ Len(ifs) - 1 <= Len(ifs) BY <1>13, <2>1
    <3>2. DOMAIN ifs = 1 .. Len(ifs) /\ \A k \in 1 .. Len(ifs) : ifs[k] \in OpenIf
      BY <1>3, LenProperties, ElementOfSeq
    <3>3. \A k \in 1 .. Len(ifs) - 1 : ifs[k] \in OpenIf BY <3>1, <3>2
    <3>. QED BY <1>3, <2>1, <3>1, <3>3, SubSeqProperties
  <2>. QED BY <1>1, <1>3, <1>6, <2>1, <2>3, <2>4, StatementTyped DEF S
<1>. QED BY <1>7, <1>8, <1>9, <1>10, <1>11, <1>14, <1>15

\* The parameters are slots of the function.
LEMMA BeginTyped ==
  ASSUME CodeInv, BeginBody
  PROVE  CodeInv'
<1>. DEFINE params == gdecl.params
            slot(k) == [decl |-> gcur, at |-> 0, type |-> LlvmOf(params[k].type)]
            op(k) == IF slot(k).type = "void" THEN "bad" ELSE "alloca"
            code == [k \in DOMAIN params |-> Instr(op(k), params[k].name, slot(k))]
            S == Written(gcur)
<1>1. /\ gcur \in DOMAIN prog /\ prog \in Seq(Decl) /\ gcur \in Nat
      /\ values \in [Vars -> Slot] /\ gpc' = 1 /\ ifs' = <<>>
      /\ UNCHANGED <<prog, gcur, emitted, diags, entry, crashed>>
  BY DEF BeginBody, Running, CodeInv, GenTypeOK
<1>2. gdecl \in Decl BY <1>1, BodyItems DEF gdecl
<1>3. params \in Seq(Param) BY <1>2 DEF Decl
<1>4. DOMAIN params = 1 .. Len(params) /\ Len(params) \in Nat /\ \A k \in DOMAIN params : params[k] \in Param
  BY <1>3, ElementOfSeq, LenProperties
<1>5. \A k : slot(k) \in Slot /\ slot(k).decl = gcur
  BY <1>1, LlvmTyped DEF Slot
<1>6. fn' = [NewFunction EXCEPT !.blocks[1].code = code] BY DEF BeginBody
<1>7. values' = [x \in Vars |-> IF {k \in DOMAIN params : params[k].name = x} = {} THEN values[x]
                                ELSE slot(MaxOf({k \in DOMAIN params : params[k].name = x}))]
  BY DEF BeginBody
<1>8. values' \in [Vars -> Slot]
  <2>. HIDE DEF slot
  <2>. QED BY <1>1, <1>5, <1>7
<1>9. code \in Seq(S)
  <2>1. ASSUME NEW k \in DOMAIN params PROVE Instr(op(k), params[k].name, slot(k)) \in S
    <3>1. params[k].name \in Vars BY <1>4, <2>1 DEF Param
    <3>2. op(k) \in {"bad", "alloca"} BY DEF op
    <3>3. Named(params[k].name, slot(k)) BY DEF Named
    <3>. HIDE DEF slot, op
    <3>. QED BY <1>5, <3>1, <3>2, <3>3 DEF Written, Instrs, Instr
  <2>. HIDE DEF op, slot, S
  <2>2. code \in [1 .. Len(params) -> S] BY <1>4, <2>1
  <2>. QED BY <1>4, <2>2, SeqDef
<1>. HIDE DEF code, S
<1>10. Building(fn', S)
  <2>1. Building(NewFunction, S) /\ NewFunction.cur = 1 BY NewTyped
  <2>2. Building([NewFunction EXCEPT !.blocks[NewFunction.cur].code = code], S)
    BY <1>9, <2>1, CodeReplaced
  <2>. QED BY <1>6, <2>1, <2>2
<1>11. \A c : Written(c)' = Written(c)
  <2>1. prog' = prog BY <1>1
  <2>. QED BY <2>1 DEF Written, Named
<1>12. FnInv' BY <1>1, <1>10, <1>11 DEF FnInv, S, Building, BeginBody, gdecl
<1>13. EmittedInv' BY <1>1, <1>11 DEF CodeInv, EmittedInv
<1>14. Building(fn', Instrs)
  <2>1. S \subseteq Instrs BY DEF Written, S
  <2>. QED BY <1>10, <2>1, WrittenTyped
<1>15. GenTypeOK'
  <2>1. <<>> \in Seq(OpenIf) OBVIOUS
  <2>. QED BY <1>1, <1>8, <1>14, <2>1
           DEF CodeInv, GenTypeOK, Building, FnOf, BlockSet, BlockOf, Instrs, OpenIf
<1>16. ValuesNamed'
  <2>1. \A x \in Vars : values'[x] = values[x] \/ \E k : values'[x] = slot(k)
    <3>. HIDE DEF slot
    <3>. QED BY <1>7
  <2>2. \A x, k : Named(x, slot(k)) BY DEF Named
  <2>. HIDE DEF slot
  <2>3. \A x \in Vars : Named(x, values'[x]) BY <2>1, <2>2 DEF CodeInv, ValuesNamed
  <2>4. prog' = prog BY <1>1
  <2>. QED BY <2>3, <2>4 DEF ValuesNamed, Named
<1>. QED BY <1>12, <1>13, <1>15, <1>16 DEF CodeInv

\* A function that is finished is emitted, verified unless that is reported.
LEMMA FinishTyped ==
  ASSUME CodeInv, FinishBody
  PROVE  CodeInv'
<1>. DEFINE S == Written(gcur)
            ret == LlvmOf(gdecl.ret)
            done == End(fn, "ret_end", ret, <<>>)
            fails == IF Verified(done.blocks, ret) THEN {} ELSE {"verify"}
            m == [decl |-> gcur, blocks |-> done.blocks]
<1>1. /\ gcur \in DOMAIN prog /\ prog \in Seq(Decl) /\ gcur \in Nat
      /\ gpc = Len(gdecl.body) + 1 /\ UNCHANGED <<prog, ifs, values, entry>>
  BY DEF FinishBody, Running, CodeInv, GenTypeOK
<1>2. gpc # 0
  <2>1. gdecl.body \in Seq(Item) BY <1>1, BodyItems DEF gdecl
  <2>2. Len(gdecl.body) \in Nat BY <2>1, LenProperties
  <2>. QED BY <1>1, <2>2
<1>3. Building(fn, S) BY <1>2 DEF CodeInv, FnInv
<1>4. \/ /\ fn' = done /\ emitted' = Append(emitted, m)
         /\ diags' = diags \cup done.unknown \cup fails
         /\ gcur' = gcur + 1 /\ gpc' = 0 /\ UNCHANGED crashed
      \/ crashed' = TRUE /\ UNCHANGED <<fn, emitted, diags, gcur, gpc>>
  BY DEF FinishBody
<1>5. Building(done, S)
  <2>1. "ret_end" \in Terms /\ ret \in LlvmTypes /\ <<>> \in Seq(Nat) BY LlvmTyped DEF Terms
  <2>. HIDE DEF S, ret
  <2>. QED BY <1>3, <2>1, EndTyped
<1>6. \A c : Written(c)' = Written(c)
  <2>1. prog' = prog BY <1>1
  <2>. QED BY <2>1 DEF Written, Named
<1>9. ValuesNamed'
  <2>1. prog' = prog /\ values' = values BY <1>1
  <2>. QED BY <2>1 DEF CodeInv, ValuesNamed, Named
<1>7. CASE crashed' = TRUE /\ UNCHANGED <<fn, emitted, diags, gcur, gpc>>
  <2>1. FnInv' BY <1>1, <1>6, <1>7 DEF CodeInv, FnInv, Building
  <2>2. EmittedInv' BY <1>1, <1>6, <1>7 DEF CodeInv, EmittedInv
  <2>3. GenTypeOK' BY <1>1, <1>7 DEF CodeInv, GenTypeOK
  <2>. QED BY <1>9, <2>1, <2>2, <2>3 DEF CodeInv
<1>8. CASE /\ fn' = done /\ emitted' = Append(emitted, m)
           /\ diags' = diags \cup done.unknown \cup fails
           /\ gcur' = gcur + 1 /\ gpc' = 0 /\ UNCHANGED crashed
  <2>. DEFINE M == [decl : Nat, blocks : Seq(BlockSet)]
              l == Len(emitted)
  <2>1. Building(done, Instrs)
    <3>1. S \subseteq Instrs BY DEF Written
    <3>. QED BY <1>5, <3>1, WrittenTyped
  <2>2. m \in M /\ m.decl = gcur /\ m.blocks = done.blocks /\ m.blocks \in Seq(BlockOf(S))
    <3>1. done.blocks \in Seq(BlockOf(S)) BY <1>5 DEF Building, FnOf
    <3>2. done.blocks \in Seq(BlockSet)
      BY <2>1 DEF Building, FnOf, BlockSet, BlockOf, Instrs
    <3>. QED BY <1>1, <3>1, <3>2
  <2>3. emitted \in Seq(M) BY DEF CodeInv, GenTypeOK
  <2>4. done.unknown \subseteq Vars \cup FnNames /\ fails \subseteq {"verify"}
    BY <1>5 DEF Building, FnOf
  <2>5. diags' = {} => diags = {} /\ Verified(m.blocks, LlvmOf(prog[m.decl].ret))
    <3>1. diags' = {} => diags = {} /\ fails = {} BY <1>8
    <3>2. LlvmOf(prog[m.decl].ret) = ret BY <2>2 DEF gdecl
    <3>3. fails = {} => Verified(m.blocks, ret) BY <2>2
    <3>. HIDE DEF fails
    <3>. QED BY <3>1, <3>2, <3>3
  <2>. HIDE DEF done, fails, m, M
  <2>6. /\ emitted' \in Seq(M) /\ l \in Nat /\ DOMAIN emitted = 1 .. l /\ DOMAIN emitted' = 1 .. l + 1
        /\ \A f \in 1 .. l : emitted'[f] = emitted[f]
        /\ emitted'[l + 1] = m
    BY <1>8, <2>2, <2>3, AppendProperties, LenProperties
  <2>. HIDE DEF l
  <2>7. \A f \in DOMAIN emitted' :
         (f \in DOMAIN emitted /\ emitted'[f] = emitted[f]) \/ emitted'[f] = m
    BY <2>6
  <2>8. EmittedInv'
    <3>. SUFFICES ASSUME NEW f \in DOMAIN emitted'
                  PROVE  /\ emitted'[f].decl \in DOMAIN prog
                         /\ emitted'[f].blocks \in Seq(BlockOf(Written(emitted'[f].decl)))
                         /\ diags' = {} => Verified(emitted'[f].blocks, LlvmOf(prog[emitted'[f].decl].ret))
      BY <1>1, <1>6 DEF EmittedInv
    <3>1. CASE f \in DOMAIN emitted /\ emitted'[f] = emitted[f]
      BY <3>1, <2>5 DEF CodeInv, EmittedInv
    <3>2. CASE emitted'[f] = m
      BY <1>1, <2>2, <2>5, <3>2
    <3>. QED BY <2>7, <3>1, <3>2
  <2>9. FnInv' BY <1>8 DEF FnInv
  <2>10. gcur' \in 1 .. Len(prog) + 2
    <3>1. gcur \in 1 .. Len(prog) BY <1>1, LenProperties
    <3>2. Len(prog) \in Nat BY <1>1, LenProperties
    <3>. QED BY <1>8, <3>1, <3>2
  <2>11. diags' \subseteq Vars \cup FnNames \cup {"verify"}
    BY <1>8, <2>4 DEF CodeInv, GenTypeOK
  <2>12. /\ fn'.blocks \in Seq(BlockSet) /\ fn'.cur \in DOMAIN fn'.blocks
         /\ fn'.val \in LlvmTypes \cup {"null"} /\ fn'.unknown \subseteq Vars \cup FnNames
    BY <1>8, <2>1 DEF Building, FnOf, BlockSet, BlockOf, Instrs
  <2>13. /\ prog' \in Seq(Decl) /\ gcur' \in 1 .. (Len(prog') + 2) /\ gpc' \in Nat
         /\ ifs' \in Seq([orelse : Nat, merge : Nat, within : {"then", "else"}])
         /\ values' \in [Vars -> Slot] /\ entry' \in {"none", "main", "run_agent", "empty"}
         /\ crashed' \in BOOLEAN
    BY <1>1, <1>8, <2>10 DEF CodeInv, GenTypeOK
  <2>14. GenTypeOK' BY <2>6, <2>11, <2>12, <2>13 DEF GenTypeOK, M
  <2>. QED BY <1>9, <2>8, <2>9, <2>14 DEF CodeInv
<1>. QED BY <1>4, <1>7, <1>8

\* The code generator starts with nothing.
LEMMA CodeInitial ==
  ASSUME GenInit
  PROVE  CodeInv
<1>1. /\ prog \in Seq(Decl) /\ gcur = 1 /\ gpc = 0 /\ fn = NewFunction /\ ifs = <<>>
      /\ values = [x \in Vars |-> NoSlot] /\ emitted = <<>> /\ diags = {}
      /\ entry = "none" /\ crashed = FALSE
  BY ProgramsAssumption DEF GenInit, GenStart, ProgramsAssumption
<1>2. Building(fn, Instrs) BY <1>1, NewTyped
<1>3. NoSlot \in Slot BY DEF NoSlot, Slot, LlvmTypes
<1>4. Len(prog) \in Nat BY <1>1, LenProperties
<1>5. emitted \in Seq([decl : Nat, blocks : Seq(BlockSet)]) /\ ifs \in Seq(OpenIf) BY <1>1
<1>6. GenTypeOK
  <2>1. /\ fn.blocks \in Seq(BlockSet) /\ fn.cur \in DOMAIN fn.blocks
        /\ fn.val \in LlvmTypes \cup {"null"} /\ fn.unknown \subseteq Vars \cup FnNames
    BY <1>2 DEF Building, FnOf, BlockSet, BlockOf, Instrs
  <2>2. gcur \in 1 .. (Len(prog) + 2) /\ gpc \in Nat BY <1>1, <1>4
  <2>3. values \in [Vars -> Slot] BY <1>1, <1>3
  <2>4. /\ diags \subseteq Vars \cup FnNames \cup {"verify"} /\ crashed \in BOOLEAN
        /\ entry \in {"none", "main", "run_agent", "empty"}
    BY <1>1
  <2>. QED BY <1>1, <1>5, <2>1, <2>2, <2>3, <2>4 DEF GenTypeOK, OpenIf
<1>7. EmittedInv BY <1>1 DEF EmittedInv
<1>8. ValuesNamed BY <1>1 DEF ValuesNamed, Named, NoSlot
<1>. QED BY <1>1, <1>6, <1>7, <1>8 DEF CodeInv, FnInv

\* Every step keeps what a function may contain.
LEMMA CodeKept ==
  ASSUME GraphInv, CodeInv, [GenNext]_gvars
  PROVE  CodeInv'
<1>1. GraphInv' BY GraphKept
<1>2. CASE GenBinding \/ GenAssign \/ GenExprStmt \/ GenNothing \/ GenIf \/ GenElse \/ GenEndIf
  <2>1. \E ops : Gen(ops)
    BY <1>2 DEF GenBinding, GenAssign, GenExprStmt, GenNothing, GenIf, GenElse, GenEndIf
  <2>2. gpc # 0 BY <2>1, InBody
  <2>. QED BY <1>1, <1>2, <2>2, StatementsTyped DEF GraphInv
<1>3. CASE BeginBody BY <1>3, BeginTyped
<1>4. CASE FinishBody BY <1>4, FinishTyped
<1>5. CASE SkipDecl \/ GenMain \/ GenTerminating \/ UNCHANGED gvars
  <2>1. /\ UNCHANGED <<prog, gpc, fn, ifs, values, emitted, diags, crashed>>
        /\ \/ gcur' = gcur
           \/ gcur' = gcur + 1 /\ gcur \in DOMAIN prog
           \/ gcur' = gcur + 1 /\ gcur = Len(prog) + 1
        /\ entry' = entry \/ entry' \in {"main", "run_agent", "empty"}
    BY <1>5 DEF SkipDecl, GenMain, GenTerminating, gvars, Running
  <2>2. \A c : Written(c)' = Written(c) BY <2>1 DEF Written, Named
  <2>3. EmittedInv' BY <2>1, <2>2 DEF CodeInv, EmittedInv
  <2>4. Len(prog) \in Nat /\ DOMAIN prog = 1 .. Len(prog)
    BY LenProperties DEF CodeInv, GenTypeOK
  <2>5. gcur' \in 1 .. Len(prog) + 2 BY <2>1, <2>4 DEF CodeInv, GenTypeOK
  <2>6. GenTypeOK' BY <2>1, <2>5 DEF CodeInv, GenTypeOK
  <2>7. FnInv'
    <3>1. CASE gcur' = gcur BY <2>1, <2>2, <3>1 DEF CodeInv, FnInv, Building
    <3>2. CASE gcur' # gcur
      <4>1. ~(gcur \in DOMAIN prog /\ prog[gcur].kind = "fn")
        BY <1>5, <2>4, <3>2 DEF SkipDecl, GenMain, GenTerminating, gvars, gdecl
      <4>2. gpc = 0 BY <4>1 DEF CodeInv, FnInv
      <4>. QED BY <2>1, <4>2 DEF FnInv
    <3>. QED BY <3>1, <3>2
  <2>8. ValuesNamed' BY <2>1 DEF CodeInv, ValuesNamed, Named
  <2>. QED BY <2>3, <2>6, <2>7, <2>8 DEF CodeInv
<1>. QED BY <1>2, <1>3, <1>4, <1>5 DEF GenNext, GenStep

\* So it holds in every state, with what is known of the blocks.
LEMMA CodeHolds == GenSpec => [](GraphInv /\ CodeInv)
<1>1. GenInit => GraphInv /\ CodeInv BY GraphInitial, CodeInitial
<1>2. GraphInv /\ CodeInv /\ [GenNext]_gvars => (GraphInv /\ CodeInv)' BY GraphKept, CodeKept
<1>. QED BY <1>1, <1>2, PTL DEF GenSpec

\* The variables of the generator keep their types: the instructions, the blocks
\* and the current block of a function being generated, the open ifs, the slots
\* values_ holds, what was emitted and what was reported.
THEOREM GenTypeCorrect == GenSpec => []GenTypeOK
<1>1. GraphInv /\ CodeInv => GenTypeOK BY DEF CodeInv
<1>. QED BY <1>1, CodeHolds, PTL

\* values_ outlives the function it was filled for, and a name that is not bound
\* anew still has the slot of another function; but such a slot is allocated in
\* no block of this one, so the verifier reports what is loaded from it or stored
\* to it, and nothing is built.
THEOREM SlotsAreOwn == GenSpec => []OwnSlots
<1>1. ASSUME CodeInv, Built, NEW f \in DOMAIN emitted,
             NEW b \in DOMAIN emitted[f].blocks, NEW k \in DOMAIN emitted[f].blocks[b].code,
             emitted[f].blocks[b].code[k].op \in {"load", "store"}
      PROVE  emitted[f].blocks[b].code[k].slot.decl = emitted[f].decl
  <2>. DEFINE blocks == emitted[f].blocks
              S == Written(emitted[f].decl)
              slot == blocks[b].code[k].slot
  <2>1. blocks \in Seq(BlockOf(S)) /\ Verified(blocks, LlvmOf(prog[emitted[f].decl].ret))
    BY <1>1 DEF CodeInv, EmittedInv, Built
  <2>2. Dominates(blocks, slot, b, k) BY <1>1, <2>1 DEF Verified
  <2>3. PICK c \in DOMAIN blocks : \E j \in DOMAIN blocks[c].code :
          blocks[c].code[j] = Instr("alloca", blocks[c].code[j].name, slot)
    BY <2>2 DEF Dominates
  <2>4. PICK j \in DOMAIN blocks[c].code :
          blocks[c].code[j] = Instr("alloca", blocks[c].code[j].name, slot)
    BY <2>3
  <2>5. blocks[c].code[j] \in S
    <3>. HIDE DEF blocks, S
    <3>1. blocks[c] \in BlockOf(S) BY <2>1, ElementOfSeq, LenProperties
    <3>2. blocks[c].code \in Seq(S) BY <3>1 DEF BlockOf
    <3>. QED BY <3>2, ElementOfSeq, LenProperties
  <2>. HIDE DEF blocks, slot
  <2>6. blocks[c].code[j].slot.decl = emitted[f].decl BY <2>4, <2>5 DEF Written, Instr
  <2>7. slot.decl = emitted[f].decl BY <2>4, <2>6 DEF Instr
  <2>. QED BY <2>7 DEF slot, blocks
<1>2. GraphInv /\ CodeInv => OwnSlots BY <1>1 DEF OwnSlots
<1>. QED BY <1>2, CodeHolds, PTL

-----------------------------------------------------------------------------
(* What an expression adds to a function, as far as the order of its        *)
(* instructions and the branches between its blocks go.                     *)

\* Code that goes on: what stood there stands there, and no slot is allocated.
Longer(s, t) ==
  /\ DOMAIN s \subseteq DOMAIN t
  /\ \A k \in DOMAIN t : IF k \in DOMAIN s THEN t[k] = s[k] ELSE t[k].op # "alloca"

\* What an expression adds to a function: instructions that are no allocations, and
\* branches to blocks it makes itself.
Continues(g, h) ==
  /\ DOMAIN g.blocks \subseteq DOMAIN h.blocks
  /\ \A b \in DOMAIN g.blocks : Longer(g.blocks[b].code, h.blocks[b].code)
  /\ \A b \in DOMAIN h.blocks \ DOMAIN g.blocks :
       \A k \in DOMAIN h.blocks[b].code : h.blocks[b].code[k].op # "alloca"
  /\ \A b \in DOMAIN h.blocks : \A k \in DOMAIN h.blocks[b].succ :
       \/ h.blocks[b].succ[k] \notin DOMAIN g.blocks
       \/ /\ b \in DOMAIN g.blocks /\ k \in DOMAIN g.blocks[b].succ
          /\ h.blocks[b].succ[k] = g.blocks[b].succ[k]

\* A block no branch leads to, not even one that an open if is going to make.
Orphan(blocks, b) ==
  b # 1 /\ \A c \in DOMAIN blocks : \A k \in DOMAIN blocks[c].succ : blocks[c].succ[k] # b

\* What goes on, goes on with what it went on with.
LEMMA ContinuesAgain ==
  ASSUME NEW g, NEW h, NEW i, Continues(g, h), Continues(h, i)
  PROVE  Continues(g, i)
<1>1. DOMAIN g.blocks \subseteq DOMAIN i.blocks BY DEF Continues
<1>2. ASSUME NEW b \in DOMAIN g.blocks PROVE Longer(g.blocks[b].code, i.blocks[b].code)
  <2>1. /\ Longer(g.blocks[b].code, h.blocks[b].code) /\ Longer(h.blocks[b].code, i.blocks[b].code)
    BY <1>2 DEF Continues
  <2>. DEFINE r == g.blocks[b].code
              s == h.blocks[b].code
              t == i.blocks[b].code
  <2>2. Longer(r, s) /\ Longer(s, t) BY <2>1
  <2>. HIDE DEF r, s, t
  <2>3. Longer(r, t) BY <2>2 DEF Longer
  <2>. QED BY <2>3 DEF r, t
<1>3. ASSUME NEW b \in DOMAIN i.blocks \ DOMAIN g.blocks, NEW k \in DOMAIN i.blocks[b].code
      PROVE  i.blocks[b].code[k].op # "alloca"
  <2>1. CASE b \in DOMAIN h.blocks
    <3>1. /\ Longer(h.blocks[b].code, i.blocks[b].code)
          /\ \A j \in DOMAIN h.blocks[b].code : h.blocks[b].code[j].op # "alloca"
      BY <1>3, <2>1 DEF Continues
    <3>. DEFINE s == h.blocks[b].code
                t == i.blocks[b].code
    <3>2. Longer(s, t) /\ k \in DOMAIN t /\ \A j \in DOMAIN s : s[j].op # "alloca" BY <1>3, <3>1
    <3>. HIDE DEF s, t
    <3>3. t[k].op # "alloca" BY <3>2 DEF Longer
    <3>. QED BY <3>3 DEF t
  <2>2. CASE b \notin DOMAIN h.blocks BY <1>3, <2>2 DEF Continues
  <2>. QED BY <2>1, <2>2
<1>4. ASSUME NEW b \in DOMAIN i.blocks, NEW k \in DOMAIN i.blocks[b].succ
      PROVE  \/ i.blocks[b].succ[k] \notin DOMAIN g.blocks
             \/ /\ b \in DOMAIN g.blocks /\ k \in DOMAIN g.blocks[b].succ
                /\ i.blocks[b].succ[k] = g.blocks[b].succ[k]
  <2>1. \/ i.blocks[b].succ[k] \notin DOMAIN h.blocks
        \/ /\ b \in DOMAIN h.blocks /\ k \in DOMAIN h.blocks[b].succ
           /\ i.blocks[b].succ[k] = h.blocks[b].succ[k]
    BY <1>4 DEF Continues
  <2>2. CASE i.blocks[b].succ[k] \notin DOMAIN h.blocks BY <2>2 DEF Continues
  <2>3. CASE /\ b \in DOMAIN h.blocks /\ k \in DOMAIN h.blocks[b].succ
             /\ i.blocks[b].succ[k] = h.blocks[b].succ[k]
    <3>1. \/ h.blocks[b].succ[k] \notin DOMAIN g.blocks
          \/ /\ b \in DOMAIN g.blocks /\ k \in DOMAIN g.blocks[b].succ
             /\ h.blocks[b].succ[k] = g.blocks[b].succ[k]
      BY <2>3 DEF Continues
    <3>. QED BY <2>3, <3>1
  <2>. QED BY <2>1, <2>2, <2>3
<1>. QED BY <1>1, <1>2, <1>3, <1>4 DEF Continues

\* A function under construction whose instructions are known.
Sound(g, S) == Live(g) /\ Building(g, S)

\* Nothing is added to the blocks.
LEMMA SameContinues ==
  ASSUME NEW g, NEW h, Live(g), h.blocks = g.blocks
  PROVE  Continues(g, h)
BY DEF Continues, Longer

\* The code of the current block goes on.
LEMMA CodeContinues ==
  ASSUME NEW g, NEW S, Sound(g, S), NEW c, Longer(g.blocks[g.cur].code, c),
         NEW h, h.blocks = [g.blocks EXCEPT ![g.cur] = [g.blocks[g.cur] EXCEPT !.code = c]]
  PROVE  Continues(g, h)
<1>. DEFINE b == [g.blocks[g.cur] EXCEPT !.code = c]
<1>1. b.code = c /\ b.succ = g.blocks[g.cur].succ BY DEF Sound, Live, IsBlock
<1>2. h.blocks = [g.blocks EXCEPT ![g.cur] = b] OBVIOUS
<1>. HIDE DEF b
<1>3. /\ DOMAIN h.blocks = DOMAIN g.blocks
      /\ \A j \in DOMAIN g.blocks : h.blocks[j] = IF j = g.cur THEN b ELSE g.blocks[j]
  BY <1>2 DEF Sound, Live
<1>4. \A s : Longer(s, s) BY DEF Longer
<1>. QED BY <1>1, <1>3, <1>4 DEF Continues

\* Instructions that are added behind others, none of them an allocation.
LEMMA LongerBy ==
  ASSUME NEW S, NEW s \in Seq(S), NEW t \in Seq(S), \A k \in DOMAIN t : t[k].op # "alloca"
  PROVE  Longer(s, s \o t)
<1>1. /\ s \o t \in Seq(S) /\ Len(s \o t) = Len(s) + Len(t)
      /\ \A k \in 1 .. Len(s) + Len(t) :
           (s \o t)[k] = IF k <= Len(s) THEN s[k] ELSE t[k - Len(s)]
  BY ConcatProperties
<1>2. /\ Len(s) \in Nat /\ Len(t) \in Nat /\ DOMAIN s = 1 .. Len(s) /\ DOMAIN t = 1 .. Len(t)
      /\ DOMAIN (s \o t) = 1 .. Len(s) + Len(t)
  BY <1>1, LenProperties
<1>. DEFINE m == Len(s)
            n == Len(t)
            u == s \o t
<1>3. /\ m \in Nat /\ n \in Nat /\ DOMAIN s = 1 .. m /\ DOMAIN t = 1 .. n /\ DOMAIN u = 1 .. m + n
      /\ \A k \in 1 .. m + n : u[k] = IF k <= m THEN s[k] ELSE t[k - m]
  BY <1>1, <1>2
<1>. HIDE DEF m, n, u
<1>4. ASSUME NEW k \in 1 .. m + n, k \notin 1 .. m PROVE u[k].op # "alloca"
  <2>1. ~(k <= m) /\ k - m \in 1 .. n BY <1>3, <1>4
  <2>. QED BY <1>3, <2>1
<1>5. \A k \in 1 .. m : u[k] = s[k] /\ k \in 1 .. m + n BY <1>3
<1>6. Longer(s, u) BY <1>3, <1>4, <1>5 DEF Longer
<1>. QED BY <1>6 DEF u

\* An instruction that is no allocation.
LEMMA EmitContinues ==
  ASSUME NEW S, NEW g, Sound(g, S), NEW op, op # "alloca", NEW name, NEW slot,
         Instr(op, name, slot) \in S
  PROVE  /\ Continues(g, Emit(g, op, name, slot)) /\ Sound(Emit(g, op, name, slot), S)
         /\ Emit(g, op, name, slot).val = g.val
<1>1. <<>> \in Seq(S) OBVIOUS
<1>2. g.blocks[g.cur].code \in Seq(S) BY <1>1, CodeReplaced DEF Sound
<1>. DEFINE s == g.blocks[g.cur].code
            w == Instr(op, name, slot)
            c == Append(s, w)
<1>3. c = s \o <<w>>
  <2>. HIDE DEF s, w
  <2>. QED BY <1>2, AppendIsConcat DEF s, w
<1>4. Emit(g, op, name, slot) = [g EXCEPT !.blocks[g.cur].code = c] BY DEF Emit
<1>5. w.op # "alloca" BY DEF Instr
<1>6. <<w>> \in Seq(S) /\ \A k \in DOMAIN <<w>> : <<w>>[k].op # "alloca" BY <1>5
<1>. HIDE DEF s, w, c
<1>7. Longer(s, c) BY <1>2, <1>3, <1>6, LongerBy DEF s
<1>. DEFINE h == Emit(g, op, name, slot)
<1>8. h.blocks = [g.blocks EXCEPT ![g.cur] = [g.blocks[g.cur] EXCEPT !.code = c]]
  BY <1>4 DEF Sound, Live
<1>11. Longer(g.blocks[g.cur].code, c) BY <1>7 DEF s
<1>. HIDE DEF h
<1>9. Continues(g, h)
  BY ONLY <1>8, <1>11, Sound(g, S), CodeContinues
<1>10. Live(Emit(g, op, name, slot)) BY Small DEF Sound, Kept, Grown
<1>. QED BY <1>9, <1>10, EmitTyped DEF Sound, h

\* A mark of ill-typed code, and a value.
LEMMA BadContinues ==
  ASSUME NEW S, NEW g, Sound(g, S), Instr("bad", NoName, NoSlot) \in S
  PROVE  /\ \A wrong : /\ Continues(g, BadIf(g, wrong)) /\ Sound(BadIf(g, wrong), S)
                       /\ BadIf(g, wrong).val = g.val
         /\ \A ty : Continues(g, Value(g, ty)) /\ Live(Value(g, ty))
         /\ \A n : Continues(g, Unknown(g, n)) /\ Live(Unknown(g, n))
<1>1. Continues(g, g) BY SameContinues DEF Sound
<1>2. Continues(g, Bad(g)) /\ Sound(Bad(g), S) /\ Bad(g).val = g.val BY EmitContinues DEF Bad
<1>3. ASSUME NEW ty PROVE Continues(g, Value(g, ty)) /\ Live(Value(g, ty))
  <2>1. Value(g, ty).blocks = g.blocks BY DEF Value, Sound, Live
  <2>. QED BY <2>1, SameContinues, Small DEF Sound, Kept, Grown
<1>4. ASSUME NEW n PROVE Continues(g, Unknown(g, n)) /\ Live(Unknown(g, n))
  <2>1. Unknown(g, n).blocks = g.blocks BY DEF Unknown, Poison, Value, Sound, Live
  <2>2. Live([g EXCEPT !.unknown = @ \cup {n}]) BY SameGraph DEF Sound, Kept, Grown
  <2>3. Live(Unknown(g, n)) BY <2>2, Small DEF Unknown, Kept, Grown
  <2>. QED BY <2>1, <2>3, SameContinues DEF Sound
<1>. QED BY <1>1, <1>2, <1>3, <1>4 DEF BadIf

\* A literal, a name and a call.
LEMMA LeafContinues ==
  ASSUME NEW S, Readable(S), NEW g, Sound(g, S)
  PROVE  /\ \A t : Continues(g, GenLiteral(g, t)) /\ Live(GenLiteral(g, t))
         /\ \A x \in Vars : Continues(g, GenIdent(g, x)) /\ Live(GenIdent(g, x))
<1>1. Instr("bad", NoName, NoSlot) \in S BY DEF Readable
<1>2. ASSUME NEW x \in Vars PROVE Continues(g, GenIdent(g, x)) /\ Live(GenIdent(g, x))
  <2>1. CASE values[x] = NoSlot BY <1>1, <2>1, BadContinues DEF GenIdent
  <2>2. CASE values[x] # NoSlot
    <3>. DEFINE e == Emit(g, "load", x, values[x])
                v == Value(e, values[x].type)
    <3>1. Instr("load", x, values[x]) \in S BY <2>2 DEF Readable
    <3>2. Continues(g, e) /\ Sound(e, S) BY <3>1, EmitContinues
    <3>3. GenIdent(g, x) = v BY <2>2 DEF GenIdent
    <3>. HIDE DEF e
    <3>4. Continues(e, v) /\ Live(v) BY <1>1, <3>2, BadContinues
    <3>. HIDE DEF v
    <3>. QED BY <3>2, <3>3, <3>4, ContinuesAgain
  <2>. QED BY <2>1, <2>2
<1>. QED BY <1>1, <1>2, BadContinues DEF GenLiteral

\* Instructions but for the allocations.
Unallocated(S) == {w \in S : w.op # "alloca"}

\* A call: the code of its arguments, and the call.
LEMMA CallContinues ==
  ASSUME NEW S, Readable(S), NEW g, Sound(g, S), NEW f \in FnNames, NEW args \in Seq(Leaf),
         Instr("call", f, Here) \in S
  PROVE  Continues(g, GenCall(g, f, args)) /\ Sound(GenCall(g, f, args), S)
<1>0. Instr("bad", NoName, NoSlot) \in S BY DEF Readable
<1>1. Sound(GenCall(g, f, args), S)
  BY LeavesKeep, CallTyped DEF Sound, Kept, Grown, Valued
<1>2. CASE ~HasFunction(f) BY <1>0, <1>1, <1>2, BadContinues DEF GenCall
<1>3. CASE HasFunction(f)
  <2>. DEFINE a == ArgumentCode(f, args)
              s == g.blocks[g.cur].code
              c == s \o a
              u == g.unknown \cup UNION {Passed(f, args[k], k).unknown : k \in DOMAIN args}
              done == [g EXCEPT !.blocks[g.cur].code = @ \o a,
                                !.unknown = @ \cup UNION {Passed(f, args[k], k).unknown : k \in DOMAIN args}]
              wrong == Len(args) # Len(Signature(f).params)
              called == BadIf(done, wrong)
              e == Emit(called, "call", f, Here)
              v == Value(e, Signature(f).ret)
  <2>1. GenCall(g, f, args) = v BY <1>3 DEF GenCall
  <2>2. Readable(Unallocated(S)) BY DEF Readable, Unallocated, Instr
  <2>3. a \in Seq(Unallocated(S)) BY <2>2, ArgumentsTyped
  <2>. HIDE DEF a
  <2>4. a \in Seq(S) /\ \A k \in DOMAIN a : a[k].op # "alloca"
    <3>1. Unallocated(S) \subseteq S BY DEF Unallocated
    <3>2. \A k \in DOMAIN a : a[k] \in Unallocated(S) BY <2>3, ElementOfSeq, LenProperties
    <3>3. \A k \in DOMAIN a : a[k].op # "alloca" BY <3>2 DEF Unallocated
    <3>. QED BY <2>3, <3>1, <3>3, SeqMonotonic
  <2>5. s \in Seq(S)
    <3>1. <<>> \in Seq(S) OBVIOUS
    <3>. QED BY <3>1, CodeReplaced DEF Sound
  <2>. HIDE DEF s
  <2>6. c \in Seq(S) /\ Longer(s, c) BY <2>4, <2>5, LongerBy, ConcatProperties
  <2>7. done.blocks = [g.blocks EXCEPT ![g.cur] = [g.blocks[g.cur] EXCEPT !.code = c]]
    BY DEF Sound, Live, s
  <2>. HIDE DEF c
  <2>8. Live(done) BY SameGraph DEF Sound, Kept, Grown
  <2>9. Building(done, S)
    <3>. DEFINE coded == [g EXCEPT !.blocks[g.cur].code = c]
    <3>1. Building(coded, S) BY <2>6, CodeReplaced DEF Sound
    <3>2. done = [coded EXCEPT !.unknown = u] BY DEF Sound, Building, FnOf, c, s
    <3>3. u \subseteq Vars \cup FnNames
      <4>1. g.unknown \subseteq Vars \cup FnNames BY DEF Sound, Building, FnOf
      <4>2. \A k \in DOMAIN args : Passed(f, args[k], k).unknown \subseteq Vars \cup FnNames
        BY ArgumentsTyped
      <4>. QED BY <4>1, <4>2
    <3>. HIDE DEF coded, u, done
    <3>. QED BY <3>1, <3>2, <3>3 DEF Building, FnOf
  <2>. HIDE DEF done, wrong
  <2>10. Continues(g, done) /\ Sound(done, S)
    <3>1. Longer(g.blocks[g.cur].code, c) BY <2>6 DEF s
    <3>2. Continues(g, done) BY ONLY <2>7, <3>1, Sound(g, S), CodeContinues
    <3>. QED BY <2>8, <2>9, <3>2 DEF Sound
  <2>11. Continues(done, called) /\ Sound(called, S) BY <1>0, <2>10, BadContinues
  <2>. HIDE DEF called
  <2>12. Continues(called, e) /\ Sound(e, S) BY <2>11, EmitContinues
  <2>. HIDE DEF e
  <2>13. Continues(e, v) BY <1>0, <2>12, BadContinues
  <2>. HIDE DEF v
  <2>14. Continues(g, v) BY <2>10, <2>11, <2>12, <2>13, ContinuesAgain
  <2>. QED BY <1>1, <2>1, <2>14
<1>. QED BY <1>2, <1>3

\* The current block ends and others follow: branches lead to the new ones, which
\* are empty, and nothing leads to another of them.
LEMMA EndContinues ==
  ASSUME NEW g, NEW term, NEW type, NEW succ, NEW new, NEW k,
         Follows(g, term, succ, new, k), \A i \in DOMAIN new : new[i].code = <<>>
  PROVE  LET h == Fresh(End(g, term, type, succ), new, Len(g.blocks) + k)
         IN  /\ Continues(g, h)
             /\ succ = <<>> => h.cur \notin DOMAIN g.blocks /\ Orphan(h.blocks, h.cur)
<1>. DEFINE h == Fresh(End(g, term, type, succ), new, Len(g.blocks) + k)
            b == [g.blocks[g.cur] EXCEPT !.term = term, !.type = type, !.succ = succ]
            n == Len(g.blocks)
            l == Len(new)
<1>1. EndsIn(g, term, succ, new, k, h, b, n, l) BY EndedBlocks, Zenon
<1>2. /\ Live(g) /\ k \in DOMAIN new /\ \A i \in DOMAIN new : new[i].succ = <<>>
      /\ \A i \in DOMAIN succ : succ[i] \in n + 1 .. n + l
  BY DEF Follows
<1>. HIDE DEF h, b, n, l
<1>3. /\ n \in Nat /\ l \in Nat /\ DOMAIN g.blocks = 1 .. n /\ DOMAIN new = 1 .. l
      /\ b.succ = succ /\ b.code = g.blocks[g.cur].code
      /\ h.cur = n + k /\ DOMAIN h.blocks = 1 .. n + l
      /\ \A j \in 1 .. n : h.blocks[j] = IF j = g.cur THEN b ELSE g.blocks[j]
      /\ \A j \in 1 .. l : h.blocks[n + j] = new[j]
      /\ \A j \in DOMAIN h.blocks : j \in 1 .. n \/ \E i \in 1 .. l : j = n + i
  BY <1>1 DEF EndsIn
<1>4. g.cur \in 1 .. n BY <1>2, <1>3 DEF Live
<1>5. n >= 1 BY <1>3, <1>4
<1>6. \A s : Longer(s, s) BY DEF Longer
<1>7. ASSUME NEW j \in 1 .. n PROVE Longer(g.blocks[j].code, h.blocks[j].code)
  BY <1>3, <1>6
<1>8. ASSUME NEW i \in 1 .. l
      PROVE  /\ DOMAIN h.blocks[n + i].code = {} /\ DOMAIN h.blocks[n + i].succ = {}
             /\ n + i \notin 1 .. n
  <2>1. h.blocks[n + i] = new[i] /\ i \in DOMAIN new BY <1>3
  <2>2. new[i].code = <<>> /\ new[i].succ = <<>> BY <1>2, <2>1
  <2>3. n + i \notin 1 .. n BY <1>3
  <2>. QED BY <2>1, <2>2, <2>3
<1>9. ASSUME NEW j \in 1 .. n, NEW e \in DOMAIN h.blocks[j].succ
      PROVE  \/ j = g.cur /\ h.blocks[j].succ[e] \in n + 1 .. n + l /\ succ # <<>>
             \/ j # g.cur /\ h.blocks[j] = g.blocks[j] /\ h.blocks[j].succ[e] \in 2 .. n
  <2>1. CASE j = g.cur
    <3>1. h.blocks[j].succ = succ BY <1>3, <2>1
    <3>. QED BY <1>2, <1>9, <2>1, <3>1
  <2>2. CASE j # g.cur
    <3>1. h.blocks[j] = g.blocks[j] BY <1>3, <2>2
    <3>2. g.blocks[j].succ[e] \in 2 .. n BY <1>2, <1>3, <1>9, <3>1 DEF Live, Targets, n
    <3>. QED BY <2>2, <3>1, <3>2
  <2>. QED BY <2>1, <2>2
<1>10. Continues(g, h)
  <2>1. DOMAIN g.blocks \subseteq DOMAIN h.blocks BY <1>3
  <2>2. ASSUME NEW j \in DOMAIN h.blocks, NEW e \in DOMAIN h.blocks[j].succ
        PROVE  \/ h.blocks[j].succ[e] \notin DOMAIN g.blocks
               \/ /\ j \in DOMAIN g.blocks /\ e \in DOMAIN g.blocks[j].succ
                  /\ h.blocks[j].succ[e] = g.blocks[j].succ[e]
    <3>1. CASE j \in 1 .. n
      <4>1. CASE h.blocks[j].succ[e] \in n + 1 .. n + l
        <5>1. h.blocks[j].succ[e] \notin 1 .. n BY <1>3, <4>1
        <5>. QED BY <5>1, <1>3
      <4>2. CASE h.blocks[j] = g.blocks[j] BY <2>2, <3>1, <4>2, <1>3
      <4>. QED BY <1>9, <2>2, <3>1, <4>1, <4>2
    <3>2. CASE j \notin 1 .. n BY <1>3, <1>8, <2>2, <3>2
    <3>. QED BY <3>1, <3>2
  <2>3. ASSUME NEW j \in DOMAIN h.blocks \ DOMAIN g.blocks
        PROVE  DOMAIN h.blocks[j].code = {}
    BY <1>3, <1>8, <2>3
  <2>. QED BY <1>3, <1>7, <2>1, <2>2, <2>3 DEF Continues
<1>11. ASSUME succ = <<>> PROVE h.cur \notin DOMAIN g.blocks /\ Orphan(h.blocks, h.cur)
  <2>1. k \in 1 .. l BY <1>2, <1>3
  <2>2. h.cur \notin 1 .. n /\ h.cur # 1 /\ h.cur \notin 2 .. n BY <1>3, <1>5, <2>1
  <2>3. ASSUME NEW j \in DOMAIN h.blocks, NEW e \in DOMAIN h.blocks[j].succ
        PROVE  h.blocks[j].succ[e] # h.cur
    <3>1. j \in 1 .. n BY <1>3, <1>8, <2>3
    <3>. QED BY <1>9, <1>11, <2>2, <2>3, <3>1
  <2>. QED BY <1>3, <2>2, <2>3 DEF Orphan
<1>. QED BY <1>10, <1>11 DEF h

\* `?': the block of the value and that of the error are new.
LEMMA PropagateContinues ==
  ASSUME NEW S, Readable(S), NEW g, Sound(g, S)
  PROVE  Continues(g, GenPropagate(g)) /\ Sound(GenPropagate(g), S)
<1>. DEFINE n   == Len(g.blocks)
            b   == BadIf(g, g.val # "res")
            err == [NewBlock EXCEPT !.term = "ret_err", !.type = "res"]
            new == <<NewBlock, err>>
            succ == <<n + 1, n + 2>>
            h   == Fresh(End(b, "prop", "void", succ), new, n + 1)
<1>0. Instr("bad", NoName, NoSlot) \in S BY DEF Readable
<1>1. Sound(GenPropagate(g), S)
  BY PropagateGrows, PropagateTyped DEF Sound, Grown, Valued
<1>2. Continues(g, b) /\ Sound(b, S) BY <1>0, BadContinues
<1>3. n \in Nat /\ Len(b.blocks) = n
  <2>1. Kept(g, b) BY Small DEF Sound
  <2>2. n \in Nat BY ListLen DEF Sound, Live
  <2>. QED BY <2>1, <2>2 DEF Kept
<1>4. IsList(new) /\ DOMAIN new = 1 .. 2 /\ Len(new) = 2 /\ new[1] = NewBlock /\ new[2] = err
  BY Lists, ListLen
<1>5. /\ IsBlock(NewBlock) /\ NewBlock.succ = <<>> /\ NewBlock.term = "none" /\ NewBlock.code = <<>>
      /\ IsBlock(err) /\ err.succ = <<>> /\ err.code = <<>>
  BY DEF NewBlock, IsBlock
<1>6. GenPropagate(g) = Poison(h) BY DEF GenPropagate
<1>7. \A i \in DOMAIN succ : succ[i] \in n + 1 .. n + 2 BY <1>3
<1>. HIDE DEF b, err, new, succ
<1>8. Follows(b, "prop", succ, new, 1)
  BY <1>2, <1>3, <1>4, <1>5, <1>7, SMTT(30) DEF Follows, Sound
<1>. DEFINE h0 == Fresh(End(b, "prop", "void", succ), new, Len(b.blocks) + 1)
<1>9. \A i \in DOMAIN new : new[i].code = <<>> BY <1>4, <1>5
<1>10. Continues(b, h0)
  <2>1. LET h1 == Fresh(End(b, "prop", "void", succ), new, Len(b.blocks) + 1)
        IN  /\ Continues(b, h1)
            /\ succ = <<>> => h1.cur \notin DOMAIN b.blocks /\ Orphan(h1.blocks, h1.cur)
    BY <1>8, <1>9, EndContinues
  <2>. QED BY <2>1
<1>11. h0 = h BY <1>3
<1>12. Live(h) /\ Poison(h).blocks = h.blocks
  <2>1. Live(h0)
    <3>1. LET h1 == Fresh(End(b, "prop", "void", succ), new, Len(b.blocks) + 1)
          IN  /\ Live(h1) /\ Len(h1.blocks) = Len(b.blocks) + Len(new)
              /\ Others(h1) = Others(b) \cup Left(Len(b.blocks), new, 1)
      BY <1>8, Ended
    <3>. QED BY <3>1
  <2>. HIDE DEF h, h0
  <2>. QED BY <1>11, <2>1 DEF Poison, Value, Live
<1>. HIDE DEF h, h0
<1>13. Continues(h, Poison(h)) BY <1>12, SameContinues
<1>14. Continues(g, h) BY <1>2, <1>10, <1>11, ContinuesAgain
<1>15. Continues(g, Poison(h)) BY <1>13, <1>14, ContinuesAgain
<1>. QED BY <1>1, <1>6, <1>15

\* A return: what follows it goes to a block nothing leads to.
LEMMA DeadContinues ==
  ASSUME NEW g, Live(g), NEW term, term # "none", NEW type
  PROVE  LET h == Dead(End(g, term, type, <<>>))
         IN  /\ Continues(g, h)
             /\ h.cur \notin DOMAIN g.blocks /\ Orphan(h.blocks, h.cur)
<1>. DEFINE new == <<NewBlock>>
            e == End(g, term, type, <<>>)
            f == Fresh(e, new, Len(g.blocks) + 1)
            h == Dead(e)
<1>1. /\ IsBlock(NewBlock) /\ NewBlock.succ = <<>> /\ NewBlock.term = "none" /\ NewBlock.code = <<>>
  BY DEF NewBlock, IsBlock
<1>2. IsList(new) /\ DOMAIN new = {1} /\ Len(new) = 1 /\ new[1] = NewBlock
  <2>1. IsList(new) BY Lists
  <2>. QED BY <2>1
<1>3. h = Value(f, "null")
  <2>1. Len(e.blocks) = Len(g.blocks)
    <3>. DEFINE b == [g.blocks[g.cur] EXCEPT !.term = term, !.type = type, !.succ = <<>>]
    <3>1. e.blocks = [g.blocks EXCEPT ![g.cur] = b] BY DEF End, Live
    <3>. HIDE DEF b, e
    <3>. QED BY <3>1, ListExcept DEF Live
  <2>. HIDE DEF e
  <2>. QED BY <2>1 DEF Dead
<1>. HIDE DEF new
<1>4. Follows(g, term, <<>>, new, 1) BY <1>1, <1>2 DEF Follows
<1>5. \A i \in DOMAIN new : new[i].code = <<>> BY <1>1, <1>2
<1>6. /\ Continues(g, f)
      /\ f.cur \notin DOMAIN g.blocks /\ Orphan(f.blocks, f.cur)
  <2>1. LET h1 == Fresh(End(g, term, type, <<>>), new, Len(g.blocks) + 1)
        IN  /\ Continues(g, h1)
            /\ <<>> = <<>> => h1.cur \notin DOMAIN g.blocks /\ Orphan(h1.blocks, h1.cur)
    BY <1>4, <1>5, EndContinues
  <2>. QED BY <2>1
<1>7. Live(f)
  <2>1. LET h1 == Fresh(End(g, term, type, <<>>), new, Len(g.blocks) + 1)
        IN  /\ Live(h1) /\ Len(h1.blocks) = Len(g.blocks) + Len(new)
            /\ Others(h1) = Others(g) \cup Left(Len(g.blocks), new, 1)
    BY <1>4, Ended
  <2>. QED BY <2>1
<1>. HIDE DEF f
<1>8. Value(f, "null").blocks = f.blocks /\ Value(f, "null").cur = f.cur BY <1>7 DEF Value, Live
<1>9. Continues(f, h) BY <1>3, <1>7, <1>8, SameContinues
<1>10. Continues(g, h) BY <1>6, <1>9, ContinuesAgain
<1>11. h.cur \notin DOMAIN g.blocks /\ Orphan(h.blocks, h.cur) BY <1>3, <1>6, <1>8
<1>. QED BY <1>10, <1>11

\* An atom, and its propagation.
LEMMA AtomContinues ==
  ASSUME NEW S, Readable(S), NEW g, Sound(g, S), NEW a \in Atom,
         a.kind = "call" => Instr("call", a.val, Here) \in S
  PROVE  Continues(g, GenAtom(g, a)) /\ Sound(GenAtom(g, a), S) /\ GenAtom(g, a).val # "null"
<1>. DEFINE v == CASE a.kind = "lit"   -> GenLiteral(g, a.val)
                   [] a.kind = "ident" -> GenIdent(g, a.val)
                   [] OTHER            -> GenCall(g, a.val, a.args)
<1>1. \/ a.kind = "lit"
      \/ a.kind = "ident" /\ a.val \in Vars
      \/ a.kind = "call" /\ a.val \in FnNames /\ a.args \in Seq(Leaf)
  BY DEF Atom
<1>2. Continues(g, v) /\ Sound(v, S)
  <2>1. CASE a.kind = "lit" BY <2>1, LeafContinues, LeafTyped DEF Sound, Valued
  <2>2. CASE a.kind = "ident" /\ a.val \in Vars
    BY <2>2, LeafContinues, LeafTyped DEF Sound, Valued
  <2>3. CASE a.kind = "call" /\ a.val \in FnNames /\ a.args \in Seq(Leaf)
    BY <2>3, CallContinues
  <2>. QED BY <1>1, <2>1, <2>2, <2>3
<1>3. GenAtom(g, a) = IF a.prop THEN GenPropagate(v) ELSE v BY DEF GenAtom
<1>. HIDE DEF v
<1>4. Continues(v, GenPropagate(v)) /\ Sound(GenPropagate(v), S) BY <1>2, PropagateContinues
<1>5. Continues(g, GenPropagate(v)) BY <1>2, <1>4, ContinuesAgain
<1>6. Valued(GenAtom(g, a), S) BY AtomTyped DEF Sound
<1>7. "null" \notin LlvmTypes BY DEF LlvmTypes
<1>. QED BY <1>2, <1>3, <1>4, <1>5, <1>6, <1>7 DEF Valued

\* Every expression goes on with the function; one that returns leaves a block
\* nothing leads to.
LEMMA ExprContinues ==
  ASSUME NEW S, Readable(S), NEW g, Sound(g, S), NEW e \in Expr, Placed(e, S)
  PROVE  /\ Continues(g, GenExpr(g, e)) /\ Sound(GenExpr(g, e), S)
         /\ GenExpr(g, e).val = "null" =>
              /\ GenExpr(g, e).cur \notin DOMAIN g.blocks
              /\ Orphan(GenExpr(g, e).blocks, GenExpr(g, e).cur)
<1>0. Instr("bad", NoName, NoSlot) \in S BY DEF Readable
<1>10. Sound(GenExpr(g, e), S) BY ExprGrows, ExprTyped DEF Sound, Grown
<1>1. e.atoms \in Seq(Atom) BY DEF Expr
<1>2. ASSUME NEW k \in DOMAIN e.atoms PROVE e.atoms[k] \in Atom
  BY <1>1, ElementOfSeq, LenProperties
<1>3. /\ e.wrap \in {"none", "ok"} => 1 \in DOMAIN e.atoms
      /\ e.wrap \in {"arith", "compare"} => 1 \in DOMAIN e.atoms /\ 2 \in DOMAIN e.atoms
  BY ExprAtoms
<1>4. ASSUME NEW h, Sound(h, S), NEW k \in DOMAIN e.atoms,
             e.wrap \in {"none", "ok", "arith", "compare"}
      PROVE  /\ Continues(h, GenAtom(h, e.atoms[k])) /\ Sound(GenAtom(h, e.atoms[k]), S)
             /\ GenAtom(h, e.atoms[k]).val # "null"
  BY <1>2, <1>4, AtomContinues DEF Placed
<1>5. CASE e.wrap = "none"
  BY <1>3, <1>4, <1>5, <1>10 DEF GenExpr
<1>6. CASE e.wrap \in {"arith", "compare"}
  <2>. DEFINE l == GenAtom(g, e.atoms[1])
              r == GenAtom(l, e.atoms[2])
              ints == Width(l.val) > 0 /\ Width(r.val) > 0
              i == BadIf(r, ~ints)
              wide == IF Width(l.val) < Width(r.val) THEN r.val ELSE l.val
              ty == IF e.wrap = "compare" THEN "i1" ELSE wide
  <2>1. GenExpr(g, e) = Value(i, ty) BY <1>6 DEF GenExpr, GenBinary, Combine
  <2>2. Continues(g, l) /\ Sound(l, S) /\ l.val # "null" BY <1>3, <1>4, <1>6
  <2>. HIDE DEF l
  <2>3. Continues(l, r) /\ Sound(r, S) /\ r.val # "null" BY <1>3, <1>4, <1>6, <2>2
  <2>. HIDE DEF r
  <2>4. ty # "null" BY <2>2, <2>3
  <2>. HIDE DEF ints, ty
  <2>5. Continues(r, i) /\ Sound(i, S) BY <1>0, <2>3, BadContinues
  <2>. HIDE DEF i
  <2>6. Continues(i, Value(i, ty)) BY <1>0, <2>5, BadContinues
  <2>7. Value(i, ty).val = ty BY <2>5 DEF Value, Sound, Live
  <2>8. Continues(g, Value(i, ty)) BY <2>2, <2>3, <2>5, <2>6, ContinuesAgain
  <2>. QED BY <1>10, <2>1, <2>4, <2>7, <2>8
<1>7. CASE e.wrap = "ok"
  <2>. DEFINE v == GenAtom(g, e.atoms[1])
              ret == LlvmOf(gdecl.ret)
              b == BadIf(v, v.val \in {"void", "res"})
  <2>1. Continues(g, v) /\ Sound(v, S) BY <1>3, <1>4, <1>7
  <2>2. GenExpr(g, e) = Dead(ReturnOf(v, ret)) BY <1>7 DEF GenExpr, GenReturnOk
  <2>. HIDE DEF v, ret
  <2>3. \E u \in {v, b} : \E type : ReturnOf(v, ret) = End(u, "ret_ok", type, <<>>)
    BY DEF ReturnOf, b
  <2>4. Continues(v, b) /\ Sound(b, S) BY <1>0, <2>1, BadContinues
  <2>. HIDE DEF b
  <2>5. PICK u \in {v, b} : \E type : ReturnOf(v, ret) = End(u, "ret_ok", type, <<>>) BY <2>3
  <2>6. PICK type : ReturnOf(v, ret) = End(u, "ret_ok", type, <<>>) BY <2>5
  <2>7. Continues(g, u) /\ Live(u) BY <2>1, <2>4, ContinuesAgain DEF Sound
  <2>8. LET h == Dead(End(u, "ret_ok", type, <<>>))
        IN  /\ Continues(u, h)
            /\ h.cur \notin DOMAIN u.blocks /\ Orphan(h.blocks, h.cur)
    BY <2>7, DeadContinues
  <2>. DEFINE h == GenExpr(g, e)
  <2>9. Continues(u, h) /\ h.cur \notin DOMAIN u.blocks /\ Orphan(h.blocks, h.cur)
    BY <2>2, <2>6, <2>8
  <2>. HIDE DEF h
  <2>10. DOMAIN g.blocks \subseteq DOMAIN u.blocks BY <2>7 DEF Continues
  <2>11. Continues(g, h) BY <2>7, <2>9, ContinuesAgain
  <2>. QED BY <1>10, <2>9, <2>10, <2>11 DEF h
<1>8. CASE e.wrap = "err"
  <2>1. LET h == Dead(End(g, "ret_err", "res", <<>>))
        IN  /\ Continues(g, h)
            /\ h.cur \notin DOMAIN g.blocks /\ Orphan(h.blocks, h.cur)
    BY DeadContinues DEF Sound
  <2>. QED BY <1>8, <1>10, <2>1 DEF GenExpr, GenReturnErr
<1>9. CASE e.wrap \notin {"none", "arith", "compare", "ok", "err"}
  <2>1. GenExpr(g, e) = Value(g, "i64") BY <1>9 DEF GenExpr, Poison
  <2>2. Value(g, "i64").val = "i64" BY DEF Value, Sound, Live
  <2>. QED BY <1>0, <1>10, <2>1, <2>2, BadContinues
<1>. QED BY <1>5, <1>6, <1>7, <1>8, <1>9

-----------------------------------------------------------------------------
(* A slot of a binding is written where it is allocated, or is allocated in *)
(* a block nothing leads to: what follows a return in the same statement.   *)

\* What stands behind an allocation is its store, or the mark of ill-typed code.
Filled(code, k) ==
  /\ k + 1 \in DOMAIN code
  /\ \/ code[k + 1].op = "bad"
     \/ code[k + 1] = Instr("store", code[k].name, code[k].slot)

\* Open ifs are not going to branch to the blocks without branches to them either.
SlotsFilled(blocks, waiting) ==
  \A b \in DOMAIN blocks : \A k \in DOMAIN blocks[b].code :
    blocks[b].code[k].op = "alloca" /\ blocks[b].code[k].slot.at > 0 =>
      Filled(blocks[b].code, k) \/ (Orphan(blocks, b) /\ b \notin waiting)

\* The inductive invariant of the slots, before and after a function is emitted.
StoreInv ==
  /\ gpc # 0 => SlotsFilled(fn.blocks, Waiting)
  /\ \A f \in DOMAIN emitted :
       1 \in DOMAIN emitted[f].blocks /\ SlotsFilled(emitted[f].blocks, {})

\* A function that goes on has the slots it had, filled as they were.
LEMMA SlotStays ==
  ASSUME NEW g, NEW h, Continues(g, h), NEW W, NEW V, V \cap DOMAIN g.blocks \subseteq W,
         NEW b \in DOMAIN h.blocks, NEW k \in DOMAIN h.blocks[b].code,
         h.blocks[b].code[k].op = "alloca"
  PROVE  /\ b \in DOMAIN g.blocks /\ k \in DOMAIN g.blocks[b].code
         /\ g.blocks[b].code[k] = h.blocks[b].code[k]
         /\ Filled(g.blocks[b].code, k) => Filled(h.blocks[b].code, k)
         /\ Orphan(g.blocks, b) /\ b \notin W => Orphan(h.blocks, b) /\ b \notin V
<1>1. b \in DOMAIN g.blocks BY DEF Continues
<1>. DEFINE s == g.blocks[b].code
            t == h.blocks[b].code
<1>2. Longer(s, t) /\ k \in DOMAIN t /\ t[k].op = "alloca" BY <1>1 DEF Continues
<1>. HIDE DEF s, t
<1>3. k \in DOMAIN s /\ t[k] = s[k] BY <1>2 DEF Longer
<1>4. Filled(s, k) => Filled(t, k) BY <1>2, <1>3 DEF Filled, Longer
<1>5. Orphan(g.blocks, b) => Orphan(h.blocks, b) BY <1>1 DEF Orphan, Continues
<1>. QED BY <1>1, <1>3, <1>4, <1>5 DEF s, t

\* So if all are filled, they stay so.
LEMMA FilledStays ==
  ASSUME NEW g, NEW h, Continues(g, h), NEW W, SlotsFilled(g.blocks, W),
         NEW V, V \cap DOMAIN g.blocks \subseteq W
  PROVE  SlotsFilled(h.blocks, V)
BY SlotStays DEF SlotsFilled

\* An instruction that is added stands behind the others.
LEMMA EmitNext ==
  ASSUME NEW S, NEW g, Sound(g, S), NEW op, NEW name, NEW slot, Instr(op, name, slot) \in S
  PROVE  LET h == Emit(g, op, name, slot)
             n == Len(g.blocks[g.cur].code)
         IN  /\ n \in Nat /\ DOMAIN g.blocks[g.cur].code = 1 .. n
             /\ h.cur = g.cur /\ DOMAIN h.blocks = DOMAIN g.blocks
             /\ \A j \in DOMAIN g.blocks : /\ h.blocks[j].succ = g.blocks[j].succ
                                           /\ j # g.cur => h.blocks[j] = g.blocks[j]
             /\ DOMAIN h.blocks[g.cur].code = 1 .. n + 1
             /\ h.blocks[g.cur].code[n + 1] = Instr(op, name, slot)
             /\ \A k \in 1 .. n : h.blocks[g.cur].code[k] = g.blocks[g.cur].code[k]
<1>. DEFINE h == Emit(g, op, name, slot)
            w == Instr(op, name, slot)
            x == g.blocks[g.cur].code
            c == Append(x, w)
            b == [g.blocks[g.cur] EXCEPT !.code = c]
            n == Len(x)
<1>1. x \in Seq(S)
  <2>1. <<>> \in Seq(S) OBVIOUS
  <2>. QED BY <2>1, CodeReplaced DEF Sound
<1>2. /\ n \in Nat /\ DOMAIN x = 1 .. n /\ DOMAIN c = 1 .. n + 1
      /\ c[n + 1] = w /\ \A k \in 1 .. n : c[k] = x[k]
  <2>. HIDE DEF x, w
  <2>1. w \in S BY DEF w
  <2>. QED BY <1>1, <2>1, AppendProperties, LenProperties
<1>3. h.blocks = [g.blocks EXCEPT ![g.cur] = b] /\ h.cur = g.cur BY DEF Emit, Sound, Live
<1>4. b.code = c /\ b.succ = g.blocks[g.cur].succ BY DEF Sound, Live, IsBlock
<1>. HIDE DEF b, c, w, h, n
<1>5. /\ DOMAIN h.blocks = DOMAIN g.blocks /\ g.cur \in DOMAIN g.blocks
      /\ \A j \in DOMAIN g.blocks : h.blocks[j] = IF j = g.cur THEN b ELSE g.blocks[j]
  BY <1>3 DEF Sound, Live
<1>. QED BY <1>2, <1>3, <1>4, <1>5 DEF h, n, w

\* A branch to a block that waits, and the insertion point at another.
LEMMA GotoFilled ==
  ASSUME NEW g, Live(g), NEW W, SlotsFilled(g.blocks, W), NEW merge \in W, NEW cur,
         NEW V, V \subseteq W
  PROVE  SlotsFilled(Goto(g, merge, cur).blocks, V)
<1>. DEFINE h == Goto(g, merge, cur)
            b == [g.blocks[g.cur] EXCEPT !.term = "br", !.type = "void", !.succ = <<merge>>]
<1>1. b.code = g.blocks[g.cur].code /\ b.succ = <<merge>> BY DEF Live, IsBlock
<1>2. h.blocks = [g.blocks EXCEPT ![g.cur] = b] BY DEF Live, Goto, End
<1>. HIDE DEF b, h
<1>3. /\ DOMAIN h.blocks = DOMAIN g.blocks
      /\ \A j \in DOMAIN g.blocks : h.blocks[j] = IF j = g.cur THEN b ELSE g.blocks[j]
  BY <1>2 DEF Live
<1>4. \A j \in DOMAIN g.blocks : h.blocks[j].code = g.blocks[j].code BY <1>1, <1>3
<1>5. ASSUME NEW j \in DOMAIN g.blocks, j \notin W, Orphan(g.blocks, j) PROVE Orphan(h.blocks, j)
  <2>1. ASSUME NEW c \in DOMAIN g.blocks, NEW k \in DOMAIN h.blocks[c].succ
        PROVE  h.blocks[c].succ[k] # j
    <3>1. CASE c = g.cur
      <4>1. h.blocks[c].succ = <<merge>> BY <1>1, <1>3, <3>1
      <4>. QED BY <1>5, <2>1, <4>1
    <3>2. CASE c # g.cur BY <1>3, <1>5, <2>1, <3>2 DEF Orphan
    <3>. QED BY <3>1, <3>2
  <2>. QED BY <1>3, <1>5, <2>1 DEF Orphan
<1>6. SlotsFilled(h.blocks, V) BY <1>3, <1>4, <1>5 DEF SlotsFilled
<1>. QED BY <1>6 DEF h

\* A binding allocates its slot in the current block, and fills it unless the value
\* is that of a return.
LEMMA BindFilled ==
  ASSUME NEW S, NEW v, Sound(v, S), NEW W, SlotsFilled(v.blocks, W), NEW name, NEW slot,
         Instr("bad", NoName, NoSlot) \in S, Instr("alloca", name, slot) \in S,
         Instr("store", name, slot) \in S,
         v.val = "null" => Orphan(v.blocks, v.cur) /\ v.cur \notin W,
         NEW wrong1, NEW wrong2
  PROVE  LET a == BadIf(Emit(v, "alloca", name, slot), wrong1)
             s == BadIf(a, wrong2)
         IN  SlotsFilled((IF v.val = "null" THEN a ELSE Emit(s, "store", name, slot)).blocks, W)
<1>. DEFINE e == Emit(v, "alloca", name, slot)
            a == BadIf(e, wrong1)
            s == BadIf(a, wrong2)
            f == Emit(s, "store", name, slot)
            w == Instr("alloca", name, slot)
            n == Len(v.blocks[v.cur].code)
            cur == v.cur
<1>1. /\ n \in Nat /\ DOMAIN v.blocks[cur].code = 1 .. n
      /\ e.cur = cur /\ DOMAIN e.blocks = DOMAIN v.blocks
      /\ \A j \in DOMAIN v.blocks : /\ e.blocks[j].succ = v.blocks[j].succ
                                    /\ j # cur => e.blocks[j] = v.blocks[j]
      /\ DOMAIN e.blocks[cur].code = 1 .. n + 1
      /\ e.blocks[cur].code[n + 1] = w
      /\ \A k \in 1 .. n : e.blocks[cur].code[k] = v.blocks[cur].code[k]
  BY EmitNext
<1>2. Sound(e, S)
  <2>1. Live(e) BY Small DEF Sound, Kept, Grown
  <2>2. Building(e, S) BY EmitTyped DEF Sound
  <2>. QED BY <2>1, <2>2 DEF Sound
<1>3. w.op = "alloca" /\ w.name = name /\ w.slot = slot BY DEF Instr
<1>4. cur \in DOMAIN v.blocks BY DEF Sound, Live
<1>. HIDE DEF e, n, w, cur
<1>5. \A j \in DOMAIN v.blocks : Orphan(v.blocks, j) => Orphan(e.blocks, j)
  BY <1>1 DEF Orphan
\* All slots but the new one are filled.
<1>6. ASSUME NEW j \in DOMAIN e.blocks, NEW k \in DOMAIN e.blocks[j].code, ~(j = cur /\ k = n + 1),
             e.blocks[j].code[k].op = "alloca", e.blocks[j].code[k].slot.at > 0
      PROVE  Filled(e.blocks[j].code, k) \/ (Orphan(e.blocks, j) /\ j \notin W)
  <2>1. CASE j # cur
    <3>1. e.blocks[j] = v.blocks[j] /\ j \in DOMAIN v.blocks BY <1>1, <2>1
    <3>2. Filled(v.blocks[j].code, k) \/ (Orphan(v.blocks, j) /\ j \notin W)
      BY <1>6, <3>1 DEF SlotsFilled
    <3>. QED BY <1>5, <3>1, <3>2
  <2>2. CASE j = cur
    <3>. DEFINE c == e.blocks[cur].code
                x == v.blocks[cur].code
    <3>1. k \in 1 .. n /\ c[k] = x[k]
      <4>1. k \in 1 .. n + 1 /\ k # n + 1 BY <1>1, <1>6, <2>2
      <4>2. k \in 1 .. n BY <1>1, <4>1
      <4>. QED BY <1>1, <4>2
    <3>2. Filled(x, k) \/ (Orphan(v.blocks, cur) /\ cur \notin W)
      BY <1>1, <1>4, <1>6, <2>2, <3>1 DEF SlotsFilled
    <3>3. /\ DOMAIN x = 1 .. n /\ DOMAIN c = 1 .. n + 1
          /\ \A i \in 1 .. n : c[i] = x[i]
      BY <1>1
    <3>. HIDE DEF c, x
    <3>4. Filled(x, k) => Filled(c, k)
      <4>1. k + 1 \in 1 .. n => c[k + 1] = x[k + 1] /\ k + 1 \in 1 .. n + 1 BY <1>1, <3>3
      <4>. QED BY <3>1, <3>3, <4>1 DEF Filled
    <3>. QED BY <1>4, <1>5, <2>2, <3>2, <3>4 DEF c
  <2>. QED BY <2>1, <2>2
<1>7. Continues(e, a) /\ Sound(a, S) BY <1>2, BadContinues
<1>. DEFINE bad == Instr("bad", NoName, NoSlot)
<1>8. ASSUME NEW h, Sound(h, S), h.cur = cur, DOMAIN h.blocks[cur].code = 1 .. n + 1,
             NEW op, NEW nm, NEW sl, Instr(op, nm, sl) \in S
      PROVE  /\ n + 2 \in DOMAIN Emit(h, op, nm, sl).blocks[cur].code
             /\ Emit(h, op, nm, sl).blocks[cur].code[n + 2] = Instr(op, nm, sl)
  <2>. DEFINE m == Len(h.blocks[h.cur].code)
  <2>2. /\ m \in Nat /\ DOMAIN h.blocks[h.cur].code = 1 .. m
        /\ DOMAIN Emit(h, op, nm, sl).blocks[h.cur].code = 1 .. m + 1
        /\ Emit(h, op, nm, sl).blocks[h.cur].code[m + 1] = Instr(op, nm, sl)
    BY <1>8, EmitNext, SMTT(30)
  <2>. HIDE DEF m
  <2>3. m = n + 1
    <3>1. 1 .. m = 1 .. n + 1 BY <1>8, <2>2
    <3>. QED BY <1>1, <2>2, <3>1
  <2>4. m + 1 = n + 2 /\ m + 1 \in 1 .. m + 1 BY <1>1, <2>3
  <2>. QED BY <1>8, <2>2, <2>4
<1>9. Continues(a, s) /\ Sound(s, S)
  <2>. HIDE DEF a
  <2>. QED BY <1>7, BadContinues
<1>10. cur \in DOMAIN e.blocks BY <1>1, <1>4
<1>11. CASE v.val = "null"
  <2>1. SlotsFilled(e.blocks, W)
    BY <1>1, <1>4, <1>5, <1>6, <1>11 DEF SlotsFilled, cur
  <2>. HIDE DEF a
  <2>2. SlotsFilled(a.blocks, W) BY <1>7, <2>1, FilledStays
  <2>. QED BY <1>11, <2>2 DEF a, e
<1>12. CASE v.val # "null"
  <2>1. wrong1 => a = Emit(e, "bad", NoName, NoSlot) BY DEF BadIf, Bad
  <2>2. ~wrong1 => a = e BY DEF BadIf
  <2>3. wrong2 => s = Emit(a, "bad", NoName, NoSlot) BY DEF BadIf, Bad
  <2>4. ~wrong2 => s = a BY DEF BadIf
  <2>. HIDE DEF a, s
  <2>5. Continues(s, f) BY <1>9, EmitContinues
  <2>. HIDE DEF f, bad
  <2>6. /\ Continues(a, f) /\ Continues(e, f)
    BY <1>7, <1>9, <2>5, ContinuesAgain
  <2>7. ASSUME NEW h, Continues(h, f), cur \in DOMAIN h.blocks, NEW u,
               n + 2 \in DOMAIN h.blocks[cur].code, h.blocks[cur].code[n + 2] = u
        PROVE  n + 2 \in DOMAIN f.blocks[cur].code /\ f.blocks[cur].code[n + 2] = u
    <3>1. Longer(h.blocks[cur].code, f.blocks[cur].code) BY <2>7 DEF Continues
    <3>. QED BY <2>7, <3>1 DEF Longer
  <2>8. cur \in DOMAIN a.blocks /\ cur \in DOMAIN s.blocks BY <1>7, <1>9, <1>10 DEF Continues
  <2>9. /\ n + 2 \in DOMAIN f.blocks[cur].code
        /\ \/ f.blocks[cur].code[n + 2] = bad
           \/ f.blocks[cur].code[n + 2] = Instr("store", name, slot)
    <3>1. CASE wrong1
      <4>1. n + 2 \in DOMAIN a.blocks[cur].code /\ a.blocks[cur].code[n + 2] = bad
        BY <1>1, <1>2, <1>8, <2>1, <3>1 DEF bad
      <4>. QED BY <2>6, <2>7, <2>8, <4>1
    <3>2. CASE ~wrong1 /\ wrong2
      <4>1. n + 2 \in DOMAIN s.blocks[cur].code /\ s.blocks[cur].code[n + 2] = bad
        BY <1>1, <1>2, <1>8, <2>2, <2>3, <3>2 DEF bad
      <4>. QED BY <2>5, <2>7, <2>8, <4>1
    <3>3. CASE ~wrong1 /\ ~wrong2
      BY <1>1, <1>2, <1>8, <2>2, <2>4, <3>3 DEF f
    <3>. QED BY <3>1, <3>2, <3>3
  <2>10. Longer(e.blocks[cur].code, f.blocks[cur].code) BY <1>10, <2>6 DEF Continues
  <2>11. Filled(f.blocks[cur].code, n + 1)
    <3>1. f.blocks[cur].code[n + 1] = w
      <4>1. n + 1 \in DOMAIN e.blocks[cur].code BY <1>1
      <4>. QED BY <1>1, <2>10, <4>1 DEF Longer
    <3>2. (n + 1) + 1 = n + 2 BY <1>1
    <3>3. bad.op = "bad" BY DEF bad, Instr
    <3>. QED BY <1>3, <2>9, <3>1, <3>2, <3>3 DEF Filled
  <2>12. SlotsFilled(f.blocks, W)
    <3>. SUFFICES ASSUME NEW j \in DOMAIN f.blocks, NEW k \in DOMAIN f.blocks[j].code,
                         f.blocks[j].code[k].op = "alloca", f.blocks[j].code[k].slot.at > 0
                  PROVE  Filled(f.blocks[j].code, k) \/ (Orphan(f.blocks, j) /\ j \notin W)
      BY DEF SlotsFilled
    <3>1. W \cap DOMAIN e.blocks \subseteq W OBVIOUS
    <3>2. /\ j \in DOMAIN e.blocks /\ k \in DOMAIN e.blocks[j].code
          /\ e.blocks[j].code[k] = f.blocks[j].code[k]
          /\ Filled(e.blocks[j].code, k) => Filled(f.blocks[j].code, k)
          /\ Orphan(e.blocks, j) /\ j \notin W => Orphan(f.blocks, j) /\ j \notin W
      BY <2>6, <3>1, SlotStays
    <3>3. CASE j = cur /\ k = n + 1 BY <2>11, <3>3
    <3>4. CASE ~(j = cur /\ k = n + 1) BY <1>6, <3>2, <3>4
    <3>. QED BY <3>3, <3>4
  <2>. QED BY <1>12, <2>12 DEF f, s, a, e
<1>. QED BY <1>11, <1>12

\* The statements of a body fill the slots they allocate.
LEMMA StatementFills ==
  ASSUME GraphInv, CodeInv, BodyInv', gpc # 0, SlotsFilled(fn.blocks, Waiting),
         GenBinding \/ GenAssign \/ GenExprStmt \/ GenNothing \/ GenIf \/ GenElse \/ GenEndIf
  PROVE  SlotsFilled(fn'.blocks, Waiting')
<1>. DEFINE S == Written(gcur)
            v == GenExpr(fn, gitem.expr)
<1>1. gpc \in DOMAIN gdecl.body /\ gcur \in Nat /\ gpc \in Nat
  BY DEF GenBinding, GenAssign, GenExprStmt, GenNothing, GenIf, GenElse, GenEndIf, Gen,
         CodeInv, GenTypeOK
<1>2. /\ Readable(S) /\ gitem.expr \in Expr
      /\ gitem.op \in {"let", "mut", "assign", "expr", "if"} => Placed(gitem.expr, S)
      /\ \A slot \in Slot : /\ Instr("store", gitem.name, slot) \in S
                            /\ slot.decl = gcur /\ slot.at = gpc =>
                                 Instr("alloca", gitem.name, slot) \in S
  BY <1>1, WrittenHere
<1>3. Instr("bad", NoName, NoSlot) \in S BY <1>2 DEF Readable
<1>4. Live(fn) /\ IfsOK /\ Others(fn) = Waiting /\ Sound(fn, S)
  BY DEF GraphInv, BodyInv, CodeInv, FnInv, Sound
<1>5. Waiting \subseteq DOMAIN fn.blocks BY <1>4 DEF Others
<1>6. gitem.op \in {"let", "mut", "assign", "expr", "if"} =>
        /\ Continues(fn, v) /\ Sound(v, S)
        /\ v.val = "null" => v.cur \notin DOMAIN fn.blocks /\ Orphan(v.blocks, v.cur)
  BY <1>2, <1>4, ExprContinues
<1>. HIDE DEF S, v
<1>7. Continues(fn, v) => SlotsFilled(v.blocks, Waiting)
  <2>1. Waiting \cap DOMAIN fn.blocks \subseteq Waiting OBVIOUS
  <2>. QED BY <2>1, FilledStays
<1>8. ifs' = ifs => Waiting' = Waiting BY DEF Waiting
<1>9. ASSUME ifs' = ifs, NEW h, Continues(fn, h), fn' = h PROVE SlotsFilled(fn'.blocks, Waiting')
  <2>1. Waiting \cap DOMAIN fn.blocks \subseteq Waiting OBVIOUS
  <2>2. SlotsFilled(h.blocks, Waiting) BY <1>9, <2>1, FilledStays
  <2>. QED BY <1>8, <1>9, <2>2
<1>10. CASE GenBinding
  <2>1. gitem.op \in {"let", "mut"} BY <1>10 DEF GenBinding, Gen
  <2>. DEFINE type == BindingType(v)
              slot == [decl |-> gcur, at |-> gpc, type |-> type]
              a == BadIf(Emit(v, "alloca", gitem.name, slot), type = "void")
              s == BadIf(a, Coerce(v.val, type) = "bad")
              f == IF v.val = "null" THEN a ELSE Emit(s, "store", gitem.name, slot)
  <2>2. fn' = f /\ ifs' = ifs BY <1>10 DEF GenBinding, Bind, v
  <2>3. v.val \in LlvmTypes \cup {"null"} BY <1>6, <2>1 DEF Sound, Building, FnOf
  <2>4. type \in LlvmTypes
    <3>1. "i64" \in LlvmTypes BY DEF LlvmTypes
    <3>. QED BY <2>3, <3>1, LlvmTyped DEF BindingType
  <2>5. slot \in Slot /\ slot.decl = gcur /\ slot.at = gpc BY <1>1, <2>4 DEF Slot
  <2>. HIDE DEF type, slot
  <2>6. Instr("alloca", gitem.name, slot) \in S /\ Instr("store", gitem.name, slot) \in S
    BY <1>2, <2>5
  <2>7. v.val = "null" => Orphan(v.blocks, v.cur) /\ v.cur \notin Waiting
    BY <1>5, <1>6, <2>1
  <2>8. Sound(v, S) /\ SlotsFilled(v.blocks, Waiting) BY <1>6, <1>7, <2>1
  <2>. DEFINE wrong1 == type = "void"
              wrong2 == Coerce(v.val, type) = "bad"
  <2>9. SlotsFilled(f.blocks, Waiting)
    <3>. HIDE DEF wrong1, wrong2
    <3>1. LET b == BadIf(Emit(v, "alloca", gitem.name, slot), wrong1)
              t == BadIf(b, wrong2)
          IN  SlotsFilled((IF v.val = "null" THEN b ELSE Emit(t, "store", gitem.name, slot)).blocks, Waiting)
      BY <1>3, <2>6, <2>7, <2>8, BindFilled
    <3>. QED BY <3>1 DEF wrong1, wrong2
  <2>. HIDE DEF f
  <2>. QED BY <1>8, <2>2, <2>9
<1>11. CASE GenAssign
  <2>1. gitem.op = "assign" BY <1>11 DEF GenAssign, Gen
  <2>. DEFINE slot == values[gitem.name]
              b == BadIf(v, Coerce(v.val, slot.type) = "bad")
              f == Emit(b, "store", gitem.name, slot)
  <2>2. (fn' = fn \/ fn' = f) /\ ifs' = ifs BY <1>11 DEF GenAssign, StoreTo, v
  <2>3. Continues(fn, fn) BY <1>4, SameContinues
  <2>4. Continues(v, b) /\ Sound(b, S) BY <1>3, <1>6, <2>1, BadContinues
  <2>5. Instr("store", gitem.name, slot) \in S
    <3>1. gitem.name \in Vars
      <4>1. gitem \in Item
        <5>1. prog \in Seq(Decl) /\ gcur \in DOMAIN prog BY DEF CodeInv, GenTypeOK, FnInv
        <5>2. gdecl.body \in Seq(Item) BY <5>1, BodyItems DEF gdecl
        <5>. QED BY <1>1, <5>2, ElementOfSeq, LenProperties DEF gitem
      <4>. QED BY <2>1, <4>1 DEF Item
    <3>2. slot \in Slot BY <3>1 DEF CodeInv, GenTypeOK
    <3>. QED BY <1>2, <3>2
  <2>. HIDE DEF b, slot
  <2>6. Continues(b, f) BY <2>4, <2>5, EmitContinues
  <2>. HIDE DEF f
  <2>7. Continues(fn, f) BY <1>6, <2>1, <2>4, <2>6, ContinuesAgain
  <2>. QED BY <1>9, <2>2, <2>3, <2>7
<1>12. CASE GenExprStmt
  <2>1. gitem.op = "expr" /\ fn' = v /\ ifs' = ifs BY <1>12 DEF GenExprStmt, Gen, v
  <2>. QED BY <1>6, <1>9, <2>1
<1>13. CASE GenNothing
  <2>1. fn' = fn /\ ifs' = ifs BY <1>13 DEF GenNothing
  <2>. QED BY <1>4, <1>9, <2>1, SameContinues
<1>14. CASE GenIf
  <2>1. gitem.op = "if" /\ IfOn(v, <<1, 2>>) /\ gpc' = gpc + 1 BY <1>14 DEF GenIf, Gen, v
  <2>2. CASE v.val = "null"
    <3>1. fn' = fn /\ ifs' = ifs BY <2>1, <2>2 DEF IfOn
    <3>. QED BY <1>4, <1>9, <3>1, SameContinues
  <2>3. CASE v.val # "null"
    <3>. DEFINE n == Len(v.blocks)
                b == BadIf(v, Width(v.val) = 0)
                new == <<NewBlock, NewBlock, NewBlock>>
                succ == <<n + 1, n + 2>>
                h == Fresh(End(b, "if", "void", succ), new, Len(b.blocks) + 1)
    <3>1. Continues(v, b) /\ Sound(b, S) BY <1>3, <1>6, <2>1, BadContinues
    <3>2. Len(b.blocks) = n /\ Others(b) = Others(v) /\ n \in Nat /\ DOMAIN b.blocks = 1 .. n
      <4>1. Kept(v, b) BY <1>6, <2>1, Small DEF Sound
      <4>2. Live(v) /\ Live(b) BY <1>6, <2>1, <3>1 DEF Sound
      <4>. HIDE DEF b
      <4>. QED BY <4>1, <4>2, ListLen DEF Kept, Grown, Live
    <3>3. Others(v) = Others(fn)
      <4>1. Grown(fn, v) BY <1>4, ExprGrows DEF v
      <4>. QED BY <4>1 DEF Grown
    <3>4. fn' = h BY <2>1, <2>3, <3>2 DEF IfOn
    <3>5. IsList(new) /\ DOMAIN new = 1 .. 3 /\ Len(new) = 3
      <4>1. IsList(new) /\ Len(new) = 3 BY Lists
      <4>. QED BY <4>1, ListLen
    <3>6. \A i \in 1 .. 3 : new[i] = NewBlock
      <4>1. new[1] = NewBlock /\ new[2] = NewBlock /\ new[3] = NewBlock OBVIOUS
      <4>2. \A i \in 1 .. 3 : i = 1 \/ i = 2 \/ i = 3 OBVIOUS
      <4>. HIDE DEF new
      <4>. QED BY <4>1, <4>2
    <3>7. IsBlock(NewBlock) /\ NewBlock.succ = <<>> /\ NewBlock.term = "none" /\ NewBlock.code = <<>>
      BY DEF NewBlock, IsBlock
    <3>8. \A k \in DOMAIN succ : succ[k] \in n + 1 .. n + 3 BY <3>2
    <3>. HIDE DEF b, new, succ, n
    <3>9. \A i \in DOMAIN new : IsBlock(new[i]) /\ new[i].succ = <<>> /\ new[i].code = <<>>
      BY <3>5, <3>6, <3>7
    <3>10. Follows(b, "if", succ, new, 1)
      <4>1. 1 \in DOMAIN new /\ new[1].term = "none" BY <3>5, <3>6, <3>7
      <4>2. Live(b) BY <3>1 DEF Sound
      <4>3. \A k \in DOMAIN succ : succ[k] \in Len(b.blocks) + 1 .. Len(b.blocks) + Len(new)
        BY <3>2, <3>5, <3>8
      <4>. QED BY <3>5, <3>9, <4>1, <4>2, <4>3 DEF Follows
    <3>11. Continues(b, h)
      <4>1. LET h1 == Fresh(End(b, "if", "void", succ), new, Len(b.blocks) + 1)
            IN  /\ Continues(b, h1)
                /\ succ = <<>> => h1.cur \notin DOMAIN b.blocks /\ Orphan(h1.blocks, h1.cur)
        BY <3>9, <3>10, EndContinues
      <4>. QED BY <4>1
    <3>12. Others(h) = Others(b) \cup Left(Len(b.blocks), new, 1)
      <4>1. LET h1 == Fresh(End(b, "if", "void", succ), new, Len(b.blocks) + 1)
            IN  /\ Live(h1) /\ Len(h1.blocks) = Len(b.blocks) + Len(new)
                /\ Others(h1) = Others(b) \cup Left(Len(b.blocks), new, 1)
        BY <3>10, Ended
      <4>. QED BY <4>1
    <3>13. Waiting' = Others(h)
      <4>1. gpc' # 0 BY <1>1, <2>1
      <4>. HIDE DEF h
      <4>. QED BY <3>4, <4>1 DEF BodyInv, Others
    <3>. HIDE DEF h
    <3>14. Waiting' \cap DOMAIN b.blocks \subseteq Waiting
      <4>1. \A i \in 1 .. 3 : n + i \notin 1 .. n BY <3>2
      <4>. QED BY <1>4, <3>2, <3>3, <3>5, <3>12, <3>13, <4>1 DEF Left
    <3>15. SlotsFilled(b.blocks, Waiting)
      <4>1. Continues(fn, b) BY <1>6, <2>1, <3>1, ContinuesAgain
      <4>2. Waiting \cap DOMAIN fn.blocks \subseteq Waiting OBVIOUS
      <4>. QED BY <4>1, <4>2, FilledStays
    <3>16. SlotsFilled(h.blocks, Waiting') BY <3>11, <3>14, <3>15, FilledStays
    <3>. QED BY <3>4, <3>16
  <2>. QED BY <2>2, <2>3
<1>15. ASSUME ifs # <<>>
       PROVE  /\ InnermostIf.merge \in Waiting
              /\ InnermostIf.within = "then" => InnermostIf.orelse \in Waiting
              /\ InnermostIf.merge # 1 /\ InnermostIf.merge # InnermostIf.orelse
  <2>1. /\ Len(ifs) \in DOMAIN ifs /\ InnermostIf.merge # 1
        /\ InnermostIf.merge # InnermostIf.orelse
    BY <1>4, <1>15, InnermostOpen
  <2>. QED BY <2>1 DEF Waiting, InnermostIf
<1>16. CASE GenElse
  <2>1. /\ ifs # <<>> /\ InnermostIf.within = "then" /\ gpc' = gpc + 1
        /\ fn' = Goto(fn, InnermostIf.merge, InnermostIf.orelse)
    BY <1>16 DEF GenElse
  <2>2. Waiting' \subseteq Waiting
    <3>1. Others(fn') = Waiting \ {InnermostIf.orelse} BY <1>4, <1>15, <2>1, Went
    <3>2. gpc' # 0 BY <1>1, <2>1
    <3>. QED BY <3>1, <3>2 DEF BodyInv
  <2>. QED BY <1>4, <1>15, <2>1, <2>2, GotoFilled
<1>17. CASE GenEndIf
  <2>. DEFINE i == InnermostIf
              g == IF i.within = "then" THEN Goto(fn, i.merge, i.orelse) ELSE fn
  <2>1. /\ ifs # <<>> /\ gpc' = gpc + 1 /\ fn' = Goto(g, i.merge, i.merge)
    BY <1>17 DEF GenEndIf
  <2>2. /\ Live(g) /\ SlotsFilled(g.blocks, Waiting) /\ i.merge \in Others(g)
        /\ Others(g) \subseteq Waiting
    <3>1. CASE i.within = "then"
      <4>1. SlotsFilled(Goto(fn, i.merge, i.orelse).blocks, Waiting)
        BY <1>4, <1>15, <2>1, <3>1, GotoFilled
      <4>2. Live(Goto(fn, i.merge, i.orelse)) /\ Others(Goto(fn, i.merge, i.orelse)) = Waiting \ {i.orelse}
        BY <1>4, <1>15, <2>1, <3>1, Went
      <4>. QED BY <1>15, <2>1, <3>1, <4>1, <4>2
    <3>2. CASE i.within # "then" BY <1>4, <1>15, <2>1, <3>2
    <3>. QED BY <3>1, <3>2
  <2>. HIDE DEF g
  <2>3. Waiting' \subseteq Waiting
    <3>1. Others(fn') = Others(g) \ {i.merge} BY <1>15, <2>1, <2>2, Went
    <3>2. gpc' # 0 BY <1>1, <2>1
    <3>. QED BY <2>2, <3>1, <3>2 DEF BodyInv
  <2>. QED BY <1>15, <2>1, <2>2, <2>3, GotoFilled
<1>. QED BY <1>10, <1>11, <1>12, <1>13, <1>14, <1>16, <1>17

\* A function ends with the slots it has.
LEMMA FinishFills ==
  ASSUME NEW g, Live(g), NEW W, SlotsFilled(g.blocks, W), NEW type
  PROVE  LET h == End(g, "ret_end", type, <<>>)
         IN  1 \in DOMAIN h.blocks /\ SlotsFilled(h.blocks, {})
<1>. DEFINE h == End(g, "ret_end", type, <<>>)
            b == [g.blocks[g.cur] EXCEPT !.term = "ret_end", !.type = type, !.succ = <<>>]
<1>1. b.code = g.blocks[g.cur].code /\ b.succ = <<>> BY DEF Live, IsBlock
<1>2. h.blocks = [g.blocks EXCEPT ![g.cur] = b] BY DEF Live, End
<1>. HIDE DEF b, h
<1>3. /\ DOMAIN h.blocks = DOMAIN g.blocks
      /\ \A j \in DOMAIN g.blocks : h.blocks[j] = IF j = g.cur THEN b ELSE g.blocks[j]
  BY <1>2 DEF Live
<1>4. \A j \in DOMAIN g.blocks : /\ h.blocks[j].code = g.blocks[j].code
                                 /\ h.blocks[j].succ = <<>> \/ h.blocks[j].succ = g.blocks[j].succ
  BY <1>1, <1>3
<1>5. \A j \in DOMAIN g.blocks : Orphan(g.blocks, j) => Orphan(h.blocks, j)
  BY <1>3, <1>4 DEF Orphan
<1>6. SlotsFilled(h.blocks, {}) BY <1>3, <1>4, <1>5 DEF SlotsFilled
<1>7. 1 \in DOMAIN h.blocks
  <2>1. Len(g.blocks) \in Nat /\ DOMAIN g.blocks = 1 .. Len(g.blocks) BY ListOfSeq DEF Live, IsList
  <2>2. g.cur \in 1 .. Len(g.blocks) BY <2>1 DEF Live
  <2>3. 1 \in 1 .. Len(g.blocks) BY <2>1, <2>2
  <2>. QED BY <1>3, <2>1, <2>3
<1>. QED BY <1>6, <1>7 DEF h

\* Every step leaves the slots of bindings filled.
LEMMA StoreKept ==
  ASSUME GraphInv, CodeInv, StoreInv, [GenNext]_gvars
  PROVE  StoreInv'
<1>1. GraphInv' BY GraphKept
<1>2. CASE GenBinding \/ GenAssign \/ GenExprStmt \/ GenNothing \/ GenIf \/ GenElse \/ GenEndIf
  <2>1. \E ops : Gen(ops)
    BY <1>2 DEF GenBinding, GenAssign, GenExprStmt, GenNothing, GenIf, GenElse, GenEndIf
  <2>2. gpc # 0 /\ emitted' = emitted BY <2>1, InBody DEF Gen
  <2>3. SlotsFilled(fn.blocks, Waiting) BY <2>2 DEF StoreInv
  <2>4. SlotsFilled(fn'.blocks, Waiting') BY <1>1, <1>2, <2>2, <2>3, StatementFills DEF GraphInv
  <2>. QED BY <2>2, <2>4 DEF StoreInv
<1>3. CASE SkipDecl \/ GenMain \/ GenTerminating \/ UNCHANGED gvars
  <2>1. UNCHANGED <<gpc, fn, ifs, emitted>>
    BY <1>3 DEF SkipDecl, GenMain, GenTerminating, gvars
  <2>2. Waiting' = Waiting BY <2>1 DEF Waiting
  <2>. QED BY <2>1, <2>2 DEF StoreInv
<1>4. CASE BeginBody
  <2>. DEFINE params == gdecl.params
              slot(k) == [decl |-> gcur, at |-> 0, type |-> LlvmOf(params[k].type)]
              op(k) == IF slot(k).type = "void" THEN "bad" ELSE "alloca"
              code == [k \in DOMAIN params |-> Instr(op(k), params[k].name, slot(k))]
  <2>1. fn' = [NewFunction EXCEPT !.blocks[1].code = code] /\ emitted' = emitted
    BY <1>4 DEF BeginBody
  <2>2. \A k \in DOMAIN code : code[k].slot.at = 0
    <3>1. \A k : slot(k).at = 0 OBVIOUS
    <3>. HIDE DEF slot, op
    <3>. QED BY <3>1 DEF Instr
  <2>. HIDE DEF code
  <2>3. DOMAIN fn'.blocks = {1} /\ fn'.blocks[1].code = code
    BY <2>1 DEF NewFunction, NewBlock
  <2>4. SlotsFilled(fn'.blocks, Waiting') BY <2>2, <2>3 DEF SlotsFilled
  <2>. QED BY <2>1, <2>4 DEF StoreInv
<1>5. CASE FinishBody
  <2>. DEFINE done == End(fn, "ret_end", LlvmOf(gdecl.ret), <<>>)
              m == [decl |-> gcur, blocks |-> done.blocks]
  <2>1. gpc # 0 BY <1>5, InBody
  <2>2. Live(fn) /\ SlotsFilled(fn.blocks, Waiting) BY <2>1 DEF GraphInv, BodyInv, StoreInv
  <2>3. 1 \in DOMAIN done.blocks /\ SlotsFilled(done.blocks, {}) BY <2>2, FinishFills
  <2>4. \/ emitted' = Append(emitted, m) /\ gpc' = 0
        \/ UNCHANGED <<fn, emitted, gpc, ifs>>
    BY <1>5 DEF FinishBody
  <2>5. m.blocks = done.blocks OBVIOUS
  <2>. HIDE DEF done, m
  <2>6. CASE emitted' = Append(emitted, m) /\ gpc' = 0
    <3>1. \A f \in DOMAIN emitted' :
            (f \in DOMAIN emitted /\ emitted'[f] = emitted[f]) \/ emitted'[f] = m
      <4>. DEFINE T == {emitted[k] : k \in DOMAIN emitted} \cup {m}
                  l == Len(emitted)
      <4>1. emitted \in Seq(T)
        BY SeqMonotonic, {emitted[k] : k \in DOMAIN emitted} \subseteq T DEF GraphInv, IsList
      <4>2. m \in T OBVIOUS
      <4>. HIDE DEF T
      <4>3. /\ emitted' \in Seq(T) /\ Len(emitted') = l + 1 /\ l \in Nat
            /\ DOMAIN emitted = 1 .. l /\ DOMAIN emitted' = 1 .. l + 1
            /\ \A k \in 1 .. l : emitted'[k] = emitted[k]
            /\ emitted'[l + 1] = m
        BY <2>6, <4>1, <4>2, AppendProperties, LenProperties
      <4>. HIDE DEF l
      <4>. QED BY <4>3
    <3>2. \A f \in DOMAIN emitted' :
            1 \in DOMAIN emitted'[f].blocks /\ SlotsFilled(emitted'[f].blocks, {})
      BY <2>3, <2>5, <3>1 DEF StoreInv
    <3>. QED BY <2>6, <3>2 DEF StoreInv
  <2>7. CASE UNCHANGED <<fn, emitted, gpc, ifs>>
    <3>1. Waiting' = Waiting BY <2>7 DEF Waiting
    <3>. QED BY <2>7, <3>1 DEF StoreInv
  <2>. QED BY <2>4, <2>6, <2>7
<1>. QED BY <1>2, <1>3, <1>4, <1>5 DEF GenNext, GenStep

\* At first there are none.
LEMMA StoreInitial ==
  ASSUME GenInit
  PROVE  StoreInv
BY DEF GenInit, GenStart, StoreInv

\* So in every state.
LEMMA StoreHolds == GenSpec => [](GraphInv /\ CodeInv /\ StoreInv)
<1>1. GenInit => StoreInv BY StoreInitial
<1>2. StoreInv /\ (GraphInv /\ CodeInv) /\ [GenNext]_gvars => StoreInv' BY StoreKept
<1>. QED BY <1>1, <1>2, CodeHolds, PTL DEF GenSpec

==============================================================================
