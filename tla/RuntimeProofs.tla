---------------------------- MODULE RuntimeProofs ----------------------------
(***************************************************************************)
(* The counters of the runtime are the account of the calls, its reports   *)
(* those of the traces and its chunks the text, for every cap, every       *)
(* amount, every text and chunk size, and every range of integers, however *)
(* long the program runs.                                                   *)
(***************************************************************************)
EXTENDS Runtime, SetLemmas, SequenceTheorems, TLAPS

Calls == [call : {"charge", "cap", "op"}, n : Int]

-----------------------------------------------------------------------------
(* The account and the operations of a sequence of calls.                   *)

\* What one call charges.
Amount(c) == IF c.call = "charge" THEN c.n ELSE 0

\* The account grows call by call.
LEMMA ChargedIs ==
  ASSUME NEW s \in Seq(Calls), NEW i \in Nat
  PROVE  /\ Charged(s, i) \in [0 .. Len(s) -> Int]
         /\ \A k \in 0 .. Len(s) :
              Charged(s, i)[k] = IF k <= i THEN 0 ELSE Charged(s, i)[k - 1] + Amount(s[k])
<1>. DEFINE n == Len(s)
            T == Int
            step == [k \in 1 .. n |-> [v \in T |-> IF k <= i THEN 0 ELSE v + Amount(s[k])]]
            Fold(h) == h = [k \in 0 .. n |-> IF k <= i THEN 0 ELSE h[k - 1] + Amount(s[k])]
<1>1. n \in Nat /\ DOMAIN s = 1 .. n BY LenProperties
<1>2. ASSUME NEW k \in 1 .. n PROVE Amount(s[k]) \in Int
  <2>1. s[k] \in Calls BY <1>1, ElementOfSeq
  <2>. QED BY <2>1 DEF Amount, Calls
<1>3. step \in [1 .. n -> [T -> T]]
  <2>1. \A k \in 1 .. n, v \in T : (IF k <= i THEN 0 ELSE v + Amount(s[k])) \in T BY <1>2
  <2>. QED BY <2>1
<1>0. 0 \in T OBVIOUS
<1>. HIDE DEF n, T
<1>4. PICK base \in T : base = 0 BY <1>0
<1>5. PICK h \in [0 .. n -> T] : h[0] = base /\ \A k \in 1 .. n : h[k] = step[k][h[k - 1]]
  <2>. HIDE DEF step
  <2>1. step \in [1 .. n -> [T -> T]] /\ n \in Nat BY <1>1, <1>3
  <2>2. base \in T OBVIOUS
  <2>. QED BY ONLY <2>1, <2>2, FoldExists
<1>6. \A k \in 0 .. n : h[k] = IF k <= i THEN 0 ELSE h[k - 1] + Amount(s[k])
  <2>. TAKE k \in 0 .. n
  <2>1. CASE k = 0 BY <1>4, <1>5, <2>1
  <2>2. CASE k # 0
    <3>1. k \in 1 .. n /\ k - 1 \in 0 .. n BY <1>1, <2>2
    <3>2. h[k - 1] \in T BY <1>5, <3>1
    <3>. QED BY <1>5, <3>1, <3>2
  <2>. QED BY <2>1, <2>2
<1>7. Fold(h)
  <2>1. h = [k \in 0 .. n |-> h[k]] BY <1>5
  <2>. QED BY <1>6, <2>1
<1>8. Charged(s, i) = CHOOSE g : Fold(g) BY DEF Charged, Amount, n
<1>9. Fold(Charged(s, i))
  <2>. HIDE DEF Fold
  <2>. QED BY <1>7, <1>8
<1>. DEFINE g == Charged(s, i)
            P == {k \in 0 .. n : g[k] \in Int}
<1>. HIDE DEF g
<1>10. g = [k \in 0 .. n |-> IF k <= i THEN 0 ELSE g[k - 1] + Amount(s[k])] BY <1>9 DEF g
<1>11. \A k \in 0 .. n : g[k] = IF k <= i THEN 0 ELSE g[k - 1] + Amount(s[k]) BY <1>10
<1>12. 0 \in P
  <2>1. 0 \in 0 .. n BY <1>1
  <2>. QED BY <1>11, <2>1
<1>13. ASSUME NEW k \in 0 .. (n - 1), k \in P PROVE k + 1 \in P
  <2>1. k + 1 \in 1 .. n /\ k + 1 \in 0 .. n /\ (k + 1) - 1 = k BY <1>1
  <2>2. g[k] \in Int /\ Amount(s[k + 1]) \in Int BY <1>2, <1>13, <2>1
  <2>. QED BY <1>11, <2>1, <2>2
<1>14. \A k \in 0 .. n : k \in P
  <2>. HIDE DEF P
  <2>. QED BY <1>1, <1>12, <1>13, UpTo
<1>15. g \in [0 .. n -> Int] BY <1>10, <1>14
<1>. QED BY <1>11, <1>15 DEF g, n

\* The operations are listed call by call.
LEMMA OpsTracedIs ==
  ASSUME NEW s \in Seq(Calls), NEW i \in Nat
  PROVE  /\ OpsTraced(s, i) \in [0 .. Len(s) -> Seq(Int)]
         /\ \A k \in 0 .. Len(s) :
              OpsTraced(s, i)[k] = IF k <= i THEN <<>>
                                   ELSE IF s[k].call = "op"
                                   THEN Append(OpsTraced(s, i)[k - 1], s[k].n)
                                   ELSE OpsTraced(s, i)[k - 1]
<1>. DEFINE n == Len(s)
            T == Seq(Int)
            next(v, k) == IF s[k].call = "op" THEN Append(v, s[k].n) ELSE v
            step == [k \in 1 .. n |-> [v \in T |-> IF k <= i THEN <<>> ELSE next(v, k)]]
            Fold(h) == h = [k \in 0 .. n |-> IF k <= i THEN <<>> ELSE next(h[k - 1], k)]
<1>1. n \in Nat /\ DOMAIN s = 1 .. n BY LenProperties
<1>0. <<>> \in T OBVIOUS
<1>2. ASSUME NEW k \in 1 .. n, NEW v \in T PROVE next(v, k) \in T
  <2>1. s[k] \in Calls BY <1>1, ElementOfSeq
  <2>2. s[k].n \in Int BY <2>1 DEF Calls
  <2>. QED BY <2>2, AppendProperties
<1>. HIDE DEF n, T, next
<1>3. step \in [1 .. n -> [T -> T]]
  <2>1. \A k \in 1 .. n, v \in T : (IF k <= i THEN <<>> ELSE next(v, k)) \in T BY <1>0, <1>2
  <2>. QED BY <2>1
<1>4. PICK base \in T : base = <<>> BY <1>0
<1>5. PICK h \in [0 .. n -> T] : h[0] = base /\ \A k \in 1 .. n : h[k] = step[k][h[k - 1]]
  <2>. HIDE DEF step
  <2>1. step \in [1 .. n -> [T -> T]] /\ n \in Nat BY <1>1, <1>3
  <2>2. base \in T OBVIOUS
  <2>. QED BY ONLY <2>1, <2>2, FoldExists
<1>6. \A k \in 0 .. n : h[k] = IF k <= i THEN <<>> ELSE next(h[k - 1], k)
  <2>. TAKE k \in 0 .. n
  <2>1. CASE k = 0 BY <1>4, <1>5, <2>1
  <2>2. CASE k # 0
    <3>1. k \in 1 .. n /\ k - 1 \in 0 .. n BY <1>1, <2>2
    <3>2. h[k - 1] \in T BY <1>5, <3>1
    <3>. QED BY <1>5, <3>1, <3>2
  <2>. QED BY <2>1, <2>2
<1>7. Fold(h)
  <2>1. h = [k \in 0 .. n |-> h[k]] BY <1>5
  <2>. QED BY <1>6, <2>1
<1>8. OpsTraced(s, i) = CHOOSE g : Fold(g) BY DEF OpsTraced, n, next
<1>9. Fold(OpsTraced(s, i))
  <2>. HIDE DEF Fold
  <2>. QED BY <1>7, <1>8
<1>. DEFINE g == OpsTraced(s, i)
            P == {k \in 0 .. n : g[k] \in T}
<1>. HIDE DEF g
<1>10. g = [k \in 0 .. n |-> IF k <= i THEN <<>> ELSE next(g[k - 1], k)] BY <1>9 DEF g
<1>11. \A k \in 0 .. n : g[k] = IF k <= i THEN <<>> ELSE next(g[k - 1], k) BY <1>10
<1>12. 0 \in P
  <2>1. 0 \in 0 .. n /\ 0 <= i BY <1>1
  <2>2. g[0] = <<>> BY <1>11, <2>1
  <2>. QED BY <1>0, <2>1, <2>2
<1>13. ASSUME NEW k \in 0 .. (n - 1), k \in P PROVE k + 1 \in P
  <2>1. k + 1 \in 1 .. n /\ k + 1 \in 0 .. n /\ (k + 1) - 1 = k BY <1>1
  <2>2. next(g[k], k + 1) \in T BY <1>2, <1>13, <2>1
  <2>3. g[k + 1] = <<>> \/ g[k + 1] = next(g[k], k + 1) BY <1>11, <2>1
  <2>. QED BY <1>0, <2>1, <2>2, <2>3
<1>14. \A k \in 0 .. n : k \in P
  <2>. HIDE DEF P
  <2>. QED BY <1>1, <1>12, <1>13, UpTo
<1>15. g \in [0 .. n -> T] BY <1>10, <1>14
<1>. QED BY <1>11, <1>15 DEF g, n, T, next

\* A call more leaves the account and the operations before it as they were.
LEMMA FoldsGrow ==
  ASSUME NEW s \in Seq(Calls), NEW t \in Seq(Calls), Len(t) = Len(s) + 1,
         \A k \in 1 .. Len(s) : t[k] = s[k], NEW i \in Nat
  PROVE  \A k \in 0 .. Len(s) : /\ Charged(t, i)[k] = Charged(s, i)[k]
                                /\ OpsTraced(t, i)[k] = OpsTraced(s, i)[k]
<1>. DEFINE n == Len(s)
            P == {k \in 0 .. n : /\ Charged(t, i)[k] = Charged(s, i)[k]
                                 /\ OpsTraced(t, i)[k] = OpsTraced(s, i)[k]}
<1>1. n \in Nat BY LenProperties
<1>2. t \in Seq(Calls) /\ Len(t) = n + 1 /\ \A k \in 1 .. n : t[k] = s[k]
  OBVIOUS
<1>. HIDE DEF n
<1>3. \A k \in 0 .. n : k \in 0 .. Len(t) BY <1>1, <1>2
<1>4. 0 \in P
  <2>1. 0 \in 0 .. n /\ 0 \in 0 .. Len(t) /\ 0 <= i BY <1>1, <1>2
  <2>2. Charged(t, i)[0] = 0 /\ Charged(s, i)[0] = 0 BY <1>2, <2>1, ChargedIs DEF n
  <2>3. OpsTraced(t, i)[0] = <<>> /\ OpsTraced(s, i)[0] = <<>> BY <1>2, <2>1, OpsTracedIs DEF n
  <2>. QED BY <2>1, <2>2, <2>3
<1>5. ASSUME NEW k \in 0 .. (n - 1), k \in P PROVE k + 1 \in P
  <2>1. k + 1 \in 1 .. n /\ k + 1 \in 0 .. n /\ k + 1 \in 0 .. Len(t) /\ (k + 1) - 1 = k
    BY <1>1, <1>2
  <2>2. t[k + 1] = s[k + 1] BY <1>2, <2>1
  <2>3. Charged(t, i)[k] = Charged(s, i)[k] /\ OpsTraced(t, i)[k] = OpsTraced(s, i)[k] BY <1>5
  <2>4. Charged(t, i)[k + 1] = Charged(s, i)[k + 1]
    <3>1. Charged(t, i)[k + 1] = IF k + 1 <= i THEN 0 ELSE Charged(t, i)[k] + Amount(t[k + 1])
      BY <1>2, <2>1, ChargedIs
    <3>2. Charged(s, i)[k + 1] = IF k + 1 <= i THEN 0 ELSE Charged(s, i)[k] + Amount(s[k + 1])
      BY <2>1, ChargedIs DEF n
    <3>. QED BY <2>2, <2>3, <3>1, <3>2
  <2>5. OpsTraced(t, i)[k + 1] = OpsTraced(s, i)[k + 1]
    <3>. PICK m \in 0 .. n : m = k + 1 /\ m - 1 = k /\ m \in 0 .. Len(t) BY <2>1
    <3>1. OpsTraced(t, i)[m] = IF m <= i THEN <<>>
                               ELSE IF t[m].call = "op"
                               THEN Append(OpsTraced(t, i)[m - 1], t[m].n)
                               ELSE OpsTraced(t, i)[m - 1]
      BY <1>2, OpsTracedIs
    <3>2. OpsTraced(s, i)[m] = IF m <= i THEN <<>>
                               ELSE IF s[m].call = "op"
                               THEN Append(OpsTraced(s, i)[m - 1], s[m].n)
                               ELSE OpsTraced(s, i)[m - 1]
      BY OpsTracedIs DEF n
    <3>3. t[m] = s[m] /\ OpsTraced(t, i)[m - 1] = OpsTraced(s, i)[m - 1] BY <2>2, <2>3
    <3>4. OpsTraced(t, i)[m] = OpsTraced(s, i)[m] BY <3>1, <3>2, <3>3
    <3>. QED BY <3>4
  <2>. QED BY <2>1, <2>4, <2>5
<1>6. \A k \in 0 .. n : k \in P
  <2>. HIDE DEF P
  <2>. QED BY <1>1, <1>4, <1>5, UpTo
<1>. QED BY <1>6 DEF n

\* The last cap call is one, and none is later.
LEMMA LastSetIs ==
  ASSUME NEW s \in Seq(Calls)
  PROVE  /\ LastSet(s) \in 0 .. Len(s)
         /\ LastSet(s) # 0 => s[LastSet(s)].call = "cap"
         /\ \A k \in 1 .. Len(s) : s[k].call = "cap" => k <= LastSet(s)
<1>. DEFINE caps == {k \in DOMAIN s : s[k].call = "cap"}
            n == Len(s)
<1>1. n \in Nat /\ caps \in SUBSET (1 .. n) /\ DOMAIN s = 1 .. n BY LenProperties
<1>2. LastSet(s) = IF caps = {} THEN 0 ELSE CHOOSE k \in caps : \A l \in caps : l <= k
  BY DEF LastSet
<1>3. CASE caps = {}
  BY <1>1, <1>2, <1>3
<1>4. CASE caps # {}
  <2>1. LastSet(s) \in caps /\ \A k \in caps : k <= LastSet(s)
    <3>. HIDE DEF caps, n
    <3>. QED BY <1>1, <1>2, <1>4, GreatestPosition
  <2>2. LastSet(s) \in 1 .. n BY <1>1, <2>1
  <2>. QED BY <1>1, <2>1, <2>2
<1>. QED BY <1>3, <1>4

\* A call more is the last cap call if it is one, and else changes nothing of it.
LEMMA LastSetGrows ==
  ASSUME NEW s \in Seq(Calls), NEW e \in Calls, NEW t, t = Append(s, e)
  PROVE  /\ e.call # "cap" => LastSet(t) = LastSet(s) /\ LastCap(t) = LastCap(s)
         /\ e.call = "cap" => LastSet(t) = Len(s) + 1 /\ LastCap(t) = e.n
<1>. DEFINE n == Len(s)
<1>1. n \in Nat BY LenProperties
<1>2. t \in Seq(Calls) /\ Len(t) = n + 1 /\ t[n + 1] = e /\ \A k \in 1 .. n : t[k] = s[k]
  BY AppendProperties, LenProperties
<1>3. /\ LastSet(s) \in 0 .. n
      /\ LastSet(s) # 0 => s[LastSet(s)].call = "cap"
      /\ \A k \in 1 .. n : s[k].call = "cap" => k <= LastSet(s)
  BY LastSetIs
<1>4. /\ LastSet(t) \in 0 .. n + 1
      /\ LastSet(t) # 0 => t[LastSet(t)].call = "cap"
      /\ \A k \in 1 .. n + 1 : t[k].call = "cap" => k <= LastSet(t)
  BY <1>2, LastSetIs
<1>. HIDE DEF n
<1>5. CASE e.call = "cap"
  <2>1. n + 1 \in 1 .. n + 1 BY <1>1
  <2>2. LastSet(t) = n + 1 BY <1>1, <1>2, <1>4, <1>5, <2>1
  <2>3. n + 1 # 0 BY <1>1
  <2>4. LastCap(t) = e.n BY <1>2, <2>2, <2>3 DEF LastCap
  <2>. QED BY <1>5, <2>2, <2>4 DEF n
<1>6. CASE e.call # "cap"
  <2>1. LastSet(t) # n + 1 BY <1>1, <1>2, <1>4, <1>6
  <2>2. LastSet(t) \in 0 .. n BY <1>1, <1>4, <2>1
  <2>3. LastSet(t) # 0 => LastSet(t) \in 1 .. n /\ s[LastSet(t)].call = "cap"
    BY <1>1, <1>2, <1>4, <2>2
  <2>4. LastSet(s) # 0 => LastSet(s) \in 1 .. n + 1 /\ t[LastSet(s)].call = "cap"
    <3>1. LastSet(s) # 0 => LastSet(s) \in 1 .. n BY <1>1, <1>3
    <3>. QED BY <1>1, <1>2, <1>3, <3>1
  <2>5. LastSet(t) <= LastSet(s)
    <3>1. CASE LastSet(t) = 0 BY <1>1, <1>3, <3>1
    <3>2. CASE LastSet(t) # 0 BY <1>3, <2>3, <3>2
    <3>. QED BY <3>1, <3>2
  <2>6. LastSet(s) <= LastSet(t)
    <3>1. CASE LastSet(s) = 0 BY <1>1, <2>2, <3>1
    <3>2. CASE LastSet(s) # 0 BY <1>4, <2>4, <3>2
    <3>. QED BY <3>1, <3>2
  <2>7. LastSet(t) = LastSet(s) BY <1>1, <1>3, <2>2, <2>5, <2>6
  <2>8. LastCap(t) = LastCap(s) BY <1>2, <2>3, <2>7 DEF LastCap
  <2>. QED BY <1>6, <2>7, <2>8
<1>. QED BY <1>5, <1>6

-----------------------------------------------------------------------------
(* The budget and the traces.                                               *)

Trace == [from : Nat, intact : BOOLEAN]

\* The types of the counters, of the history and of the open traces.
CountersTyped ==
  /\ ledger \in Seq(Calls) /\ ops \in Seq(Int)
  /\ cap \in Int /\ used \in Int /\ peak \in Int /\ begun \in Int
  /\ traced \in Seq(Trace)
  /\ \A k \in DOMAIN traced : traced[k].from <= Len(ledger)

\* The one record of the traces is that of the trace begun last, unless a cap was
\* set since: of those around it none is intact.
TraceInv ==
  \A k \in DOMAIN traced : traced[k].intact =>
    /\ k = Len(traced)
    /\ used - begun = Charged(ledger, traced[k].from)[Len(ledger)]
    /\ ops = OpsTraced(ledger, traced[k].from)[Len(ledger)]

\* What the last charge answered is still so: the counters change with no call
\* that keeps the answer.
ChargeTold == answer.of = "charge" => (answer.overflow <=> used > cap)

CountersInv == CountersTyped /\ BudgetIsAccount /\ TraceInv /\ ChargeTold /\ ReportsExact

\* A call that is logged and charges at most its amount: what it does to the account
\* of the calls, and of those since a trace was begun.
LEMMA AccountGrows ==
  ASSUME CountersTyped, NEW e \in Calls, ledger' = Append(ledger, e), NEW i \in 0 .. Len(ledger)
  PROVE  /\ Charged(ledger', i)[Len(ledger')] = Charged(ledger, i)[Len(ledger)] + Amount(e)
         /\ OpsTraced(ledger', i)[Len(ledger')]
              = IF e.call = "op" THEN Append(OpsTraced(ledger, i)[Len(ledger)], e.n)
                ELSE OpsTraced(ledger, i)[Len(ledger)]
<1>. DEFINE n == Len(ledger)
<1>1. ledger \in Seq(Calls) BY DEF CountersTyped
<1>2. n \in Nat /\ i \in Nat BY <1>1, LenProperties
<1>3. /\ ledger' \in Seq(Calls) /\ Len(ledger') = n + 1 /\ ledger'[n + 1] = e
      /\ \A k \in 0 .. n : /\ Charged(ledger', i)[k] = Charged(ledger, i)[k]
                           /\ OpsTraced(ledger', i)[k] = OpsTraced(ledger, i)[k]
  <2>1. /\ ledger' \in Seq(Calls) /\ Len(ledger') = n + 1 /\ ledger'[n + 1] = e
        /\ \A k \in 1 .. n : ledger'[k] = ledger[k]
    BY <1>1, AppendProperties, LenProperties
  <2>. QED BY <1>1, <1>2, <2>1, FoldsGrow
<1>. HIDE DEF n
<1>. PICK m \in Nat : m = n + 1 /\ m - 1 = n /\ ~(m <= i) BY <1>2 DEF n
<1>4. m \in 0 .. Len(ledger') /\ n \in 0 .. n BY <1>2, <1>3
<1>5. Charged(ledger', i)[m] = Charged(ledger', i)[m - 1] + Amount(ledger'[m])
  BY <1>2, <1>3, <1>4, ChargedIs
<1>6. OpsTraced(ledger', i)[m] = IF ledger'[m].call = "op"
                                 THEN Append(OpsTraced(ledger', i)[m - 1], ledger'[m].n)
                                 ELSE OpsTraced(ledger', i)[m - 1]
  BY <1>2, <1>3, <1>4, OpsTracedIs
<1>7. Len(ledger') = m /\ Len(ledger) = n BY <1>3 DEF n
<1>8. Charged(ledger', i)[m - 1] = Charged(ledger, i)[n] BY <1>3, <1>4
<1>9. OpsTraced(ledger', i)[m - 1] = OpsTraced(ledger, i)[n] BY <1>3, <1>4
<1>10. ledger'[m] = e BY <1>3
<1>. QED BY <1>5, <1>6, <1>7, <1>8, <1>9, <1>10

\* The history after a call that is logged.
LEMMA CallLogged ==
  ASSUME CountersTyped, NEW e \in Calls, ledger' = Append(ledger, e)
  PROVE  /\ ledger' \in Seq(Calls) /\ Len(ledger) \in Nat /\ Len(ledger') = Len(ledger) + 1
         /\ ledger'[Len(ledger) + 1] = e /\ \A k \in 1 .. Len(ledger) : ledger'[k] = ledger[k]
         /\ LastSet(ledger) \in 0 .. Len(ledger)
         /\ e.call # "cap" => LastSet(ledger') = LastSet(ledger) /\ LastCap(ledger') = LastCap(ledger)
         /\ e.call = "cap" => LastSet(ledger') = Len(ledger) + 1 /\ LastCap(ledger') = e.n
<1>1. ledger \in Seq(Calls) BY DEF CountersTyped
<1>2. /\ ledger' \in Seq(Calls) /\ Len(ledger) \in Nat /\ Len(ledger') = Len(ledger) + 1
      /\ ledger'[Len(ledger) + 1] = e /\ \A k \in 1 .. Len(ledger) : ledger'[k] = ledger[k]
  BY <1>1, AppendProperties, LenProperties
<1>3. LastSet(ledger) \in 0 .. Len(ledger) BY <1>1, LastSetIs
<1>. QED BY <1>1, <1>2, <1>3, LastSetGrows

\* A charge, and a call that charges nothing, keep the account.
LEMMA AccountKept ==
  ASSUME CountersTyped, BudgetIsAccount, NEW e \in Calls, e.call # "cap",
         ledger' = Append(ledger, e), cap' = cap, used' = used + Amount(e),
         peak' = IF used' > peak THEN used' ELSE peak
  PROVE  BudgetIsAccount'
<1>. DEFINE n == Len(ledger)
            from == LastSet(ledger)
            old == Charged(ledger, from)
            new == Charged(ledger', from)
<1>1. /\ ledger' \in Seq(Calls) /\ n \in Nat /\ Len(ledger') = n + 1 /\ ledger \in Seq(Calls)
      /\ LastSet(ledger') = from /\ LastCap(ledger') = LastCap(ledger) /\ from \in 0 .. n
      /\ \A k \in 1 .. n : ledger'[k] = ledger[k]
  BY CallLogged DEF CountersTyped
<1>2. /\ used = old[n] /\ cap = LastCap(ledger)
      /\ \A k \in from .. n : peak >= old[k]
      /\ \E k \in from .. n : peak = old[k]
  BY DEF BudgetIsAccount
<1>3. new[n + 1] = old[n] + Amount(e)
  <2>. PICK i \in 0 .. Len(ledger) : i = from BY <1>1
  <2>1. Charged(ledger', i)[Len(ledger')] = Charged(ledger, i)[Len(ledger)] + Amount(e)
    BY AccountGrows
  <2>. QED BY <1>1, <2>1
<1>4. \A k \in 0 .. n : new[k] = old[k]
  <2>. PICK i \in Nat : i = from BY <1>1
  <2>1. \A k \in 0 .. n : Charged(ledger', i)[k] = Charged(ledger, i)[k] BY <1>1, FoldsGrow
  <2>. QED BY <2>1
<1>5. \A k \in 0 .. n : old[k] \in Int
  <2>1. old \in [0 .. n -> Int] BY <1>1, ChargedIs
  <2>. HIDE DEF old
  <2>. QED BY <2>1
<1>6. Amount(e) \in Int /\ used \in Int /\ peak \in Int BY DEF Amount, Calls, CountersTyped
<1>. HIDE DEF n, from, old, new
<1>7. used' = new[n + 1] BY <1>2, <1>3
<1>8. from .. (n + 1) = (from .. n) \cup {n + 1} /\ from .. n \subseteq 0 .. n BY <1>1
<1>9. \A k \in from .. (n + 1) : peak' >= new[k]
  <2>. TAKE k \in from .. (n + 1)
  <2>1. CASE k = n + 1 BY <1>6, <1>7, <2>1
  <2>2. CASE k # n + 1
    <3>1. k \in from .. n /\ k \in 0 .. n BY <1>8, <2>2
    <3>2. new[k] = old[k] /\ peak >= old[k] /\ old[k] \in Int BY <1>2, <1>4, <1>5, <3>1
    <3>. QED BY <1>6, <3>2
  <2>. QED BY <2>1, <2>2
<1>10. \E k \in from .. (n + 1) : peak' = new[k]
  <2>1. CASE used' > peak
    <3>1. n + 1 \in from .. (n + 1) BY <1>8
    <3>. QED BY <1>7, <2>1, <3>1
  <2>2. CASE ~(used' > peak)
    <3>1. PICK k \in from .. n : peak = old[k] BY <1>2
    <3>2. k \in from .. (n + 1) /\ new[k] = old[k] BY <1>4, <1>8
    <3>. QED BY <2>2, <3>1, <3>2
  <2>. QED BY <2>1, <2>2
<1>. QED BY <1>1, <1>2, <1>7, <1>9, <1>10 DEF BudgetIsAccount, from, new

\* A cap that is set begins an account.
LEMMA AccountBegun ==
  ASSUME CountersTyped, NEW e \in Calls, e.call = "cap",
         ledger' = Append(ledger, e), cap' = e.n, used' = 0, peak' = 0
  PROVE  BudgetIsAccount'
<1>1. /\ ledger' \in Seq(Calls) /\ Len(ledger) \in Nat
      /\ LastSet(ledger') = Len(ledger') /\ LastCap(ledger') = e.n /\ Len(ledger') \in Nat
  BY CallLogged
<1>. PICK m \in Nat : m = Len(ledger') BY <1>1
<1>2. Charged(ledger', m)[m] = 0
  <2>1. m \in 0 .. Len(ledger') /\ m <= m OBVIOUS
  <2>. QED BY <1>1, <2>1, ChargedIs
<1>3. m .. m = {m} /\ 0 >= 0 OBVIOUS
<1>. QED BY <1>1, <1>2, <1>3 DEF BudgetIsAccount

\* A call that is logged goes into the trace that is intact.
LEMMA TracesKept ==
  ASSUME CountersTyped, TraceInv, NEW e \in Calls, ledger' = Append(ledger, e),
         used' = used + Amount(e), begun' = begun, traced' = traced,
         ops' = IF e.call = "op" THEN Append(ops, e.n) ELSE ops
  PROVE  TraceInv'
<1>. SUFFICES ASSUME NEW k \in DOMAIN traced, traced[k].intact
              PROVE  /\ k = Len(traced)
                     /\ used' - begun = Charged(ledger', traced[k].from)[Len(ledger')]
                     /\ ops' = OpsTraced(ledger', traced[k].from)[Len(ledger')]
  BY DEF TraceInv
<1>1. traced \in Seq(Trace) /\ traced[k].from <= Len(ledger) BY DEF CountersTyped
<1>2. traced[k].from \in Nat
  <2>1. traced[k] \in Trace BY <1>1, ElementOfSeq, LenProperties
  <2>. QED BY <2>1 DEF Trace
<1>3. Len(ledger) \in Nat BY CallLogged
<1>. PICK i \in 0 .. Len(ledger) : i = traced[k].from BY <1>1, <1>2, <1>3
<1>4. /\ k = Len(traced)
      /\ used - begun = Charged(ledger, i)[Len(ledger)]
      /\ ops = OpsTraced(ledger, i)[Len(ledger)]
  BY DEF TraceInv
<1>5. /\ Charged(ledger', i)[Len(ledger')] = Charged(ledger, i)[Len(ledger)] + Amount(e)
      /\ OpsTraced(ledger', i)[Len(ledger')]
           = IF e.call = "op" THEN Append(OpsTraced(ledger, i)[Len(ledger)], e.n)
             ELSE OpsTraced(ledger, i)[Len(ledger)]
  BY AccountGrows
<1>6. Amount(e) \in Int /\ used \in Int /\ begun \in Int BY DEF Amount, Calls, CountersTyped
<1>7. used' - begun = Charged(ledger', i)[Len(ledger')] BY <1>4, <1>5, <1>6
<1>. QED BY <1>4, <1>5, <1>7

\* The traces that are open when another begins or a cap is set.
Spoilt == [i \in DOMAIN traced |-> [traced[i] EXCEPT !.intact = FALSE]]

\* They are the same traces, none of them intact.
LEMMA SpoiltTyped ==
  ASSUME CountersTyped
  PROVE  /\ Spoilt \in Seq(Trace) /\ Len(Spoilt) = Len(traced) /\ DOMAIN Spoilt = DOMAIN traced
         /\ \A k \in DOMAIN Spoilt : ~Spoilt[k].intact /\ Spoilt[k].from = traced[k].from
<1>1. traced \in Seq(Trace) /\ Len(traced) \in Nat /\ DOMAIN traced = 1 .. Len(traced)
  BY LenProperties DEF CountersTyped
<1>2. \A k \in 1 .. Len(traced) :
        /\ [traced[k] EXCEPT !.intact = FALSE] \in Trace
        /\ [traced[k] EXCEPT !.intact = FALSE].from = traced[k].from
        /\ ~[traced[k] EXCEPT !.intact = FALSE].intact
  <2>. TAKE k \in 1 .. Len(traced)
  <2>1. traced[k] \in Trace BY <1>1, ElementOfSeq
  <2>. QED BY <2>1 DEF Trace
<1>3. Spoilt \in [1 .. Len(traced) -> Trace] BY <1>1, <1>2 DEF Spoilt
<1>4. Spoilt \in Seq(Trace) /\ Len(Spoilt) = Len(traced)
  <2>. HIDE DEF Spoilt
  <2>. QED BY <1>1, <1>3, SeqDef, LenProperties
<1>5. DOMAIN Spoilt = DOMAIN traced BY DEF Spoilt
<1>. QED BY <1>1, <1>2, <1>4, <1>5 DEF Spoilt

\* Every call keeps the account, and what is reported is the account.
LEMMA BudgetCallKept ==
  ASSUME CountersInv, BudgetCall
  PROVE  CountersInv'
<1>. USE DEF CountersInv
<1>1. CASE \E n \in Amounts : Charge(n) /\ Logged("charge", n) /\ UNCHANGED traced
  <2>. PICK n \in Amounts : Charge(n) /\ Logged("charge", n) /\ UNCHANGED traced BY <1>1
  <2>. DEFINE e == [call |-> "charge", n |-> n]
  <2>1. n \in Int BY RuntimeAssumption DEF RuntimeAssumption
  <2>2. e \in Calls /\ e.call = "charge" /\ Amount(e) = n BY <2>1 DEF Calls, Amount
  <2>3. /\ ledger' = Append(ledger, e) /\ used' = used + n /\ cap' = cap
        /\ peak' = IF used' > peak THEN used' ELSE peak
        /\ answer'.of = "charge" /\ answer'.overflow = (used' > cap)
        /\ UNCHANGED <<ops, begun, traced>>
    BY DEF BudgetCall, Charge, Logged
  <2>. HIDE DEF e
  <2>4. BudgetIsAccount' BY <2>2, <2>3, AccountKept
  <2>5. TraceInv' BY <2>2, <2>3, TracesKept
  <2>6. /\ ledger' \in Seq(Calls) /\ Len(ledger) \in Nat /\ Len(ledger') = Len(ledger) + 1
    BY <2>2, <2>3, CallLogged
  <2>7. used' \in Int /\ peak' \in Int BY <2>1, <2>3 DEF CountersTyped
  <2>8. CountersTyped'
    <3>1. \A k \in DOMAIN traced : traced[k].from <= Len(ledger')
      <4>. TAKE k \in DOMAIN traced
      <4>1. traced[k] \in Trace BY ElementOfSeq, LenProperties DEF CountersTyped
      <4>2. traced[k].from \in Nat /\ traced[k].from <= Len(ledger) BY <4>1 DEF Trace, CountersTyped
      <4>. QED BY <2>6, <4>2
    <3>. QED BY <2>3, <2>6, <2>7, <3>1 DEF CountersTyped
  <2>9. ChargeTold' /\ ReportsExact' BY <2>3 DEF ChargeTold, ReportsExact
  <2>. QED BY <2>4, <2>5, <2>8, <2>9
<1>2. CASE \E n \in Caps : SetCap(n) /\ Logged("cap", n) /\ traced' = Spoilt
  <2>. PICK n \in Caps : SetCap(n) /\ Logged("cap", n) /\ traced' = Spoilt BY <1>2
  <2>. DEFINE e == [call |-> "cap", n |-> n]
  <2>1. n \in Int BY RuntimeAssumption DEF RuntimeAssumption
  <2>2. e \in Calls /\ e.call = "cap" /\ e.n = n BY <2>1 DEF Calls
  <2>3. /\ ledger' = Append(ledger, e) /\ used' = 0 /\ peak' = 0 /\ cap' = n
        /\ answer'.of = "nothing" /\ UNCHANGED <<ops, begun>>
    BY DEF BudgetCall, SetCap, Logged, Nothing
  <2>. HIDE DEF e
  <2>4. BudgetIsAccount' BY <2>2, <2>3, AccountBegun
  <2>5. /\ traced' \in Seq(Trace) /\ DOMAIN traced' = DOMAIN traced
        /\ \A k \in DOMAIN traced' : ~traced'[k].intact /\ traced'[k].from = traced[k].from
    BY SpoiltTyped
  <2>6. TraceInv' BY <2>5 DEF TraceInv
  <2>7. /\ ledger' \in Seq(Calls) /\ Len(ledger) \in Nat /\ Len(ledger') = Len(ledger) + 1
    BY <2>2, <2>3, CallLogged
  <2>8. CountersTyped'
    <3>1. \A k \in DOMAIN traced' : traced'[k].from <= Len(ledger')
      <4>. TAKE k \in DOMAIN traced'
      <4>1. traced[k] \in Trace BY <2>5, ElementOfSeq, LenProperties DEF CountersTyped
      <4>2. traced[k].from \in Nat /\ traced[k].from <= Len(ledger)
        BY <2>5, <4>1 DEF Trace, CountersTyped
      <4>. QED BY <2>5, <2>7, <4>2
    <3>. QED BY <2>1, <2>3, <2>5, <2>7, <3>1 DEF CountersTyped
  <2>9. ChargeTold' /\ ReportsExact' BY <2>3 DEF ChargeTold, ReportsExact
  <2>. QED BY <2>4, <2>6, <2>8, <2>9
<1>. QED BY <1>1, <1>2 DEF BudgetCall, Spoilt

\* A trace begins an empty record, and ends with what the record holds.
LEMMA TraceCallKept ==
  ASSUME CountersInv, TraceCall
  PROVE  CountersInv'
<1>. USE DEF CountersInv
<1>0. /\ ledger \in Seq(Calls) /\ Len(ledger) \in Nat
      /\ traced \in Seq(Trace) /\ Len(traced) \in Nat /\ DOMAIN traced = 1 .. Len(traced)
  BY LenProperties DEF CountersTyped
<1>1. CASE /\ TraceBegin
           /\ traced' = Append(Spoilt, [from |-> Len(ledger), intact |-> TRUE])
           /\ UNCHANGED ledger
  <2>. DEFINE new == [from |-> Len(ledger), intact |-> TRUE]
              n == Len(traced)
  <2>1. /\ ops' = <<>> /\ begun' = used /\ answer'.of = "nothing"
        /\ UNCHANGED <<ledger, cap, used, peak>>
    BY <1>1 DEF TraceBegin, TraceCall, Nothing
  <2>2. new \in Trace BY <1>0 DEF Trace
  <2>3. /\ traced' \in Seq(Trace) /\ Len(traced') = n + 1 /\ traced'[n + 1] = new
        /\ \A k \in 1 .. n : traced'[k] = Spoilt[k]
    <3>1. Spoilt \in Seq(Trace) /\ Len(Spoilt) = n BY SpoiltTyped
    <3>2. traced' = Append(Spoilt, new) BY <1>1
    <3>. HIDE DEF new, n
    <3>. QED BY <2>2, <3>1, <3>2, AppendProperties, LenProperties
  <2>4. DOMAIN traced' = 1 .. (n + 1) BY <2>3, LenProperties
  <2>5. \A k \in 1 .. n : ~traced'[k].intact /\ traced'[k].from = traced[k].from
    BY <1>0, <2>3, SpoiltTyped
  <2>6. \A k \in DOMAIN traced' : k = n + 1 \/ k \in 1 .. n BY <1>0, <2>4
  <2>7. Charged(ledger, Len(ledger))[Len(ledger)] = 0 /\ OpsTraced(ledger, Len(ledger))[Len(ledger)] = <<>>
    <3>. PICK m \in Nat : m = Len(ledger) BY <1>0
    <3>1. m \in 0 .. Len(ledger) /\ m <= m OBVIOUS
    <3>2. Charged(ledger, m)[m] = 0 BY <1>0, <3>1, ChargedIs
    <3>3. OpsTraced(ledger, m)[m] = <<>> BY <1>0, <3>1, OpsTracedIs
    <3>. QED BY <3>2, <3>3
  <2>8. used - used = 0 BY DEF CountersTyped
  <2>9. TraceInv'
    <3>. SUFFICES ASSUME NEW k \in DOMAIN traced', traced'[k].intact
                  PROVE  /\ k = Len(traced')
                         /\ used - used = Charged(ledger, traced'[k].from)[Len(ledger)]
                         /\ <<>> = OpsTraced(ledger, traced'[k].from)[Len(ledger)]
      BY <2>1 DEF TraceInv
    <3>1. k = n + 1 BY <2>5, <2>6
    <3>2. traced'[k].from = Len(ledger) BY <2>3, <3>1
    <3>. QED BY <2>3, <2>7, <2>8, <3>1, <3>2
  <2>10. CountersTyped'
    <3>1. \A k \in DOMAIN traced' : traced'[k].from <= Len(ledger)
      <4>. TAKE k \in DOMAIN traced'
      <4>1. CASE k = n + 1 BY <1>0, <2>3, <4>1
      <4>2. CASE k \in 1 .. n BY <1>0, <2>5, <4>2 DEF CountersTyped
      <4>. QED BY <2>6, <4>1, <4>2
    <3>2. <<>> \in Seq(Int) OBVIOUS
    <3>. QED BY <2>1, <2>3, <3>1, <3>2 DEF CountersTyped
  <2>11. ChargeTold' /\ ReportsExact' BY <2>1 DEF ChargeTold, ReportsExact
  <2>12. BudgetIsAccount' BY <2>1 DEF BudgetIsAccount
  <2>. QED BY <2>9, <2>10, <2>11, <2>12
<1>2. CASE TraceOp(Len(ledger)) /\ Logged("op", Len(ledger)) /\ UNCHANGED traced
  <2>. DEFINE e == [call |-> "op", n |-> Len(ledger)]
  <2>1. e \in Calls /\ e.call = "op" /\ e.n = Len(ledger) /\ Amount(e) = 0
    BY <1>0 DEF Calls, Amount
  <2>2. /\ ledger' = Append(ledger, e) /\ ops' = Append(ops, e.n) /\ answer'.of = "nothing"
        /\ UNCHANGED <<cap, used, peak, begun, traced>>
    BY <1>2 DEF TraceCall, TraceOp, Logged, Nothing
  <2>. HIDE DEF e
  <2>3. used' = used + Amount(e) BY <2>1, <2>2 DEF CountersTyped
  <2>4. peak' = IF used' > peak THEN used' ELSE peak
    <3>. DEFINE from == LastSet(ledger)
    <3>1. from \in 0 .. Len(ledger) BY <1>0, LastSetIs
    <3>2. Len(ledger) \in from .. Len(ledger) BY <1>0, <3>1
    <3>3. peak >= used BY <3>2 DEF BudgetIsAccount
    <3>. QED BY <2>2, <3>3 DEF CountersTyped
  <2>5. BudgetIsAccount' BY <2>1, <2>2, <2>3, <2>4, AccountKept
  <2>6. TraceInv' BY <2>1, <2>2, <2>3, TracesKept
  <2>7. ledger' \in Seq(Calls) /\ Len(ledger') = Len(ledger) + 1 BY <2>1, <2>2, CallLogged
  <2>8. CountersTyped'
    <3>1. \A k \in DOMAIN traced : traced[k].from <= Len(ledger')
      <4>. TAKE k \in DOMAIN traced
      <4>1. traced[k] \in Trace BY <1>0, ElementOfSeq
      <4>2. traced[k].from \in Nat /\ traced[k].from <= Len(ledger) BY <4>1 DEF Trace, CountersTyped
      <4>. QED BY <1>0, <2>7, <4>2
    <3>2. ops' \in Seq(Int)
      <4>1. e.n \in Int BY <2>1 DEF Calls
      <4>. QED BY <2>2, <4>1, AppendProperties DEF CountersTyped
    <3>. QED BY <2>2, <2>7, <3>1, <3>2 DEF CountersTyped
  <2>9. ChargeTold' /\ ReportsExact' BY <2>2 DEF ChargeTold, ReportsExact
  <2>. QED BY <2>5, <2>6, <2>8, <2>9
<1>3. CASE traced # <<>> /\ TraceEnd /\ traced' = Front(traced) /\ UNCHANGED ledger
  <2>. DEFINE n == Len(traced)
  <2>1. /\ answer'.of = "trace" /\ answer'.cost = used - begun /\ answer'.ops = ops
        /\ answer'.whose = traced[n] /\ UNCHANGED <<ledger, cap, used, peak, ops, begun>>
    BY <1>3 DEF TraceCall, TraceEnd, Last
  <2>2. n # 0 /\ n \in DOMAIN traced
    <3>1. n # 0 BY <1>0, <1>3, EmptySeq
    <3>. QED BY <1>0, <3>1
  <2>3. /\ traced' \in Seq(Trace) /\ DOMAIN traced' = 1 .. (n - 1)
        /\ \A k \in 1 .. (n - 1) : traced'[k] = traced[k]
    <3>1. traced' = SubSeq(traced, 1, n - 1) BY <1>3 DEF Front
    <3>2. n - 1 \in 0 .. n /\ 1 \in 1 .. n BY <1>0, <2>2
    <3>. QED BY <1>0, <3>1, <3>2, SubSeqProperties, LenProperties
  <2>4. TraceInv'
    <3>. SUFFICES ASSUME NEW k \in 1 .. (n - 1), traced[k].intact PROVE FALSE
      BY <2>1, <2>3 DEF TraceInv
    <3>1. n \in Nat /\ DOMAIN traced = 1 .. n BY <1>0
    <3>. HIDE DEF n
    <3>2. k \in DOMAIN traced /\ k # n BY <3>1
    <3>. QED BY <3>2 DEF TraceInv, n
  <2>5. CountersTyped'
    <3>1. \A k \in 1 .. (n - 1) : k \in DOMAIN traced BY <1>0
    <3>. QED BY <2>1, <2>3, <3>1 DEF CountersTyped
  <2>6. ReportsExact' BY <2>1, <2>2 DEF ReportsExact, TraceInv
  <2>7. ChargeTold' /\ BudgetIsAccount' BY <2>1 DEF ChargeTold, BudgetIsAccount
  <2>. QED BY <2>4, <2>5, <2>6, <2>7
<1>. QED BY <1>1, <1>2, <1>3 DEF TraceCall, Spoilt

\* Cutting a text leaves the counters, the calls and the traces alone.
LEMMA ChunkCallKept ==
  ASSUME CountersInv, BeginChunk \/ Chunk \/ UNCHANGED vars
  PROVE  CountersInv'
<1>1. UNCHANGED <<cap, used, peak, ops, begun, ledger, traced>>
  BY DEF BeginChunk, Chunk, ChunkStep, AbortChunk, EndChunk, vars
<1>2. answer' = answer \/ answer'.of \in {"chunk", "chunking", "aborted"}
  <2>1. CASE BeginChunk
    <3>1. answer' = [of |-> "chunk", error |-> TRUE] \/ answer' = [of |-> "chunking"]
      BY <2>1 DEF BeginChunk
    <3>. QED BY <3>1
  <2>2. CASE Chunk BY <2>2 DEF Chunk, ChunkStep, AbortChunk, EndChunk
  <2>3. CASE UNCHANGED vars BY <2>3 DEF vars
  <2>. QED BY <2>1, <2>2, <2>3
<1>3. CountersTyped' /\ BudgetIsAccount' /\ TraceInv'
  BY <1>1 DEF CountersInv, CountersTyped, BudgetIsAccount, TraceInv
<1>4. ChargeTold' /\ ReportsExact'
  BY <1>1, <1>2 DEF CountersInv, ChargeTold, ReportsExact
<1>. QED BY <1>3, <1>4 DEF CountersInv

\* The counters begin at nothing.
LEMMA CountersBegin ==
  ASSUME Init
  PROVE  CountersInv
<1>1. ledger \in Seq(Calls) /\ Len(ledger) = 0 /\ ops \in Seq(Int) /\ traced \in Seq(Trace)
      /\ DOMAIN traced = {} /\ DOMAIN ledger = {}
  BY EmptySeq, LenProperties DEF Init
<1>2. CountersTyped BY <1>1, RuntimeAssumption DEF Init, CountersTyped, RuntimeAssumption
<1>3. LastSet(ledger) = 0 BY <1>1 DEF LastSet
<1>4. LastCap(ledger) = DefaultCap BY <1>3 DEF LastCap
<1>5. Charged(ledger, 0)[0] = 0
  <2>. PICK i \in Nat : i = 0 OBVIOUS
  <2>1. i \in 0 .. Len(ledger) /\ i <= i BY <1>1
  <2>2. Charged(ledger, i)[i] = 0 BY <1>1, <2>1, ChargedIs
  <2>. QED BY <2>2
<1>6. BudgetIsAccount
  <2>1. 0 .. 0 = {0} /\ 0 >= 0 OBVIOUS
  <2>. QED BY <1>1, <1>3, <1>4, <1>5, <2>1 DEF Init, BudgetIsAccount
<1>. QED BY <1>1, <1>2, <1>6 DEF Init, Nothing, CountersInv, TraceInv, ChargeTold, ReportsExact

-----------------------------------------------------------------------------
(* The chunks.                                                              *)

\* Pieces that are the text up to end, each of at most that many characters.
Tiled(ps, end, most) ==
  /\ ps = <<>> => end = 0
  /\ ps # <<>> => ps[1][1] = 0 /\ ps[Len(ps)][2] = end
  /\ \A k \in 1 .. Len(ps) : ps[k][1] < ps[k][2] /\ ps[k][2] - ps[k][1] <= most
  /\ \A k \in 1 .. Len(ps) - 1 : ps[k + 1][1] = ps[k][2]

\* What is cut next continues them.
LEMMA TiledGrows ==
  ASSUME NEW ps \in Seq(Int \X Int), NEW a \in Int, NEW b \in Int, NEW most \in Int,
         NEW qs, qs = Append(ps, <<a, b>>),
         Tiled(ps, a, most), a < b, b - a <= most
  PROVE  qs \in Seq(Int \X Int) /\ Tiled(qs, b, most)
<1>. DEFINE e == <<a, b>>
            n == Len(ps)
<1>1. e \in Int \X Int /\ e[1] = a /\ e[2] = b OBVIOUS
<1>2. n \in Nat BY LenProperties
<1>3. qs = Append(ps, e) OBVIOUS
<1>4. ps = <<>> <=> n = 0 BY EmptySeq
<1>. HIDE DEF e, n
<1>5. /\ qs \in Seq(Int \X Int) /\ Len(qs) = n + 1 /\ qs[n + 1] = e
      /\ \A k \in 1 .. n : qs[k] = ps[k]
  BY <1>1, <1>3, AppendProperties DEF n
<1>6. qs # <<>>
  <2>1. n + 1 # 0 BY <1>2
  <2>2. Len(<<>>) = 0 OBVIOUS
  <2>. QED BY ONLY <1>5, <2>1, <2>2
<1>7. /\ \A k \in 1 .. n : ps[k][1] < ps[k][2] /\ ps[k][2] - ps[k][1] <= most
      /\ \A k \in 1 .. n - 1 : ps[k + 1][1] = ps[k][2]
      /\ n = 0 => a = 0
      /\ n # 0 => ps[1][1] = 0 /\ ps[n][2] = a
  BY <1>4 DEF Tiled, n
<1>8. qs[1][1] = 0
  <2>1. CASE n = 0 BY <1>1, <1>5, <1>7, <2>1
  <2>2. CASE n # 0
    <3>1. 1 \in 1 .. n BY <1>2, <2>2
    <3>. QED BY <1>5, <1>7, <2>2, <3>1
  <2>. QED BY <2>1, <2>2
<1>9. \A k \in 1 .. n + 1 : qs[k][1] < qs[k][2] /\ qs[k][2] - qs[k][1] <= most
  <2>. TAKE k \in 1 .. n + 1
  <2>1. CASE k = n + 1 BY <1>1, <1>5, <2>1
  <2>2. CASE k # n + 1
    <3>1. k \in 1 .. n BY <1>2, <2>2
    <3>. QED BY <1>5, <1>7, <3>1
  <2>. QED BY <2>1, <2>2
<1>10. \A k \in 1 .. n : qs[k + 1][1] = qs[k][2]
  <2>. TAKE k \in 1 .. n
  <2>1. CASE k = n BY <1>1, <1>2, <1>5, <1>7, <2>1
  <2>2. CASE k # n
    <3>1. k \in 1 .. n - 1 /\ k + 1 \in 1 .. n BY <1>2, <2>2
    <3>. QED BY <1>5, <1>7, <3>1
  <2>. QED BY <2>1, <2>2
<1>11. n + 1 - 1 = n BY <1>2
<1>12. Len(qs) = n + 1 /\ Len(qs) - 1 = n /\ qs[Len(qs)][2] = b
  <2>1. qs[n + 1][2] = b BY <1>1, <1>5
  <2>2. PICK l \in Int : l = Len(qs) BY <1>2, <1>5
  <2>3. l = n + 1 BY <1>5, <2>2
  <2>4. l - 1 = n BY <1>2, <2>3
  <2>. QED BY <2>1, <2>2, <2>3, <2>4
<1>13. Tiled(qs, b, most) BY ONLY <1>6, <1>8, <1>9, <1>10, <1>12 DEF Tiled
<1>. QED BY <1>5, <1>13

\* The characters of a chunk are a number, and four for a token if they can be
\* counted.
LEMMA CountableSize ==
  ASSUME chunking.size \in Int
  PROVE  CharSize \in Int /\ (Countable => CharSize > 0)
<1>. DEFINE r == IntRange
            x == chunking.size * 4 + Half
<1>1. r \in Int /\ r > 0 BY RuntimeAssumption DEF RuntimeAssumption
<1>2. Half \in Int /\ Half >= 0 /\ 2 * Half <= r BY <1>1 DEF Half
<1>3. x \in Int BY <1>2
<1>. HIDE DEF r, x
<1>4. x % r \in Int BY <1>1, <1>3
<1>5. CharSize = (x % r) - Half BY DEF CharSize, x, r
<1>6. ASSUME Countable PROVE CharSize > 0
  <2>1. chunking.size >= 1 /\ chunking.size * 4 <= Half - 1
    BY <1>2, <1>6 DEF Countable, MaxInt
  <2>2. 0 <= x /\ x < r /\ x > Half BY <1>1, <1>2, <2>1 DEF x
  <2>3. x % r = x BY <1>1, <1>3, <2>2
  <2>. QED BY <1>2, <1>3, <1>5, <2>2, <2>3
<1>. QED BY <1>2, <1>4, <1>5, <1>6

\* Where the pieces end that were cut.
End == IF chunking.at < chunking.length THEN chunking.at ELSE chunking.length

ChunkCalls == [length : Nat, size : Int, at : Int, pieces : Seq(Int \X Int)]

\* The loop is at a position before the text only if the size wraps around, and
\* behind its begin only if it does not; then the pieces are the text up to it.
ChunkLoop ==
  /\ chunking \in ChunkCalls
  /\ chunking.at < 0 => CharSize < 0
  /\ chunking.at > 0 => CharSize > 0
  /\ chunking.at >= 0 => Tiled(chunking.pieces, End, CharSize)
  /\ answer.of = "chunking" => chunking.length >= 1

ChunkInv == ChunkLoop /\ ChunksAreText /\ AbortsUncountable

\* No piece is no text.
LEMMA NothingTiled ==
  ASSUME NEW most
  PROVE  Tiled(<<>>, 0, most)
<1>1. Len(<<>>) = 0 OBVIOUS
<1>. QED BY <1>1 DEF Tiled

\* The calls that count and trace do not touch the chunks; their answers are others.
LEMMA OtherCallsKeep ==
  ASSUME ChunkInv, BudgetCall \/ TraceCall
  PROVE  ChunkInv'
<1>1. chunking' = chunking BY DEF BudgetCall, TraceCall
<1>2. answer'.of \in {"nothing", "charge", "trace"}
  <2>1. CASE BudgetCall BY <2>1 DEF BudgetCall, Charge, SetCap, Nothing
  <2>2. CASE TraceCall BY <2>2 DEF TraceCall, TraceBegin, TraceOp, TraceEnd, Nothing
  <2>. QED BY <2>1, <2>2
<1>3. ChunkLoop' BY <1>1, <1>2 DEF ChunkInv, ChunkLoop, CharSize, End
<1>. QED BY <1>2, <1>3 DEF ChunkInv, ChunksAreText, AbortsUncountable

\* A call of agc_chunk begins at the begin of the text.
LEMMA BeginChunkKeeps ==
  ASSUME ChunkInv, BeginChunk
  PROVE  ChunkInv'
<1>. PICK length \in Texts, size \in ChunkSizes :
       IF length = 0 THEN answer' = [of |-> "chunk", error |-> TRUE] /\ chunking' = NoChunk
       ELSE /\ answer' = [of |-> "chunking"]
            /\ chunking' = [NoChunk EXCEPT !.length = length, !.size = size]
  BY DEF BeginChunk
<1>1. length \in Nat /\ size \in Int BY RuntimeAssumption DEF RuntimeAssumption
<1>0. <<>> \in Seq(Int \X Int) BY EmptySeq
<1>2. /\ chunking' \in ChunkCalls /\ chunking'.at = 0 /\ chunking'.pieces = <<>>
      /\ answer'.of = "chunking" => chunking'.length >= 1
      /\ answer'.of = "chunk" => answer'.error
      /\ answer'.of # "aborted"
  <2>0. ASSUME NEW n \in Nat, NEW m \in Int
        PROVE  [length |-> n, size |-> m, at |-> 0, pieces |-> <<>>] \in ChunkCalls
    BY <1>0 DEF ChunkCalls
  <2>1. CASE length = 0
    <3>1. answer' = [of |-> "chunk", error |-> TRUE] /\ chunking' = NoChunk BY <2>1
    <3>2. NoChunk \in ChunkCalls
      <4>. PICK n \in Nat, m \in Int : n = 0 /\ m = 1 OBVIOUS
      <4>. QED BY <2>0 DEF NoChunk
    <3>3. NoChunk.at = 0 /\ NoChunk.pieces = <<>> BY DEF NoChunk
    <3>. QED BY <3>1, <3>2, <3>3
  <2>2. CASE length # 0
    <3>1. /\ answer' = [of |-> "chunking"]
          /\ chunking' = [length |-> length, size |-> size, at |-> 0, pieces |-> <<>>]
      BY <2>2 DEF NoChunk
    <3>2. chunking' \in ChunkCalls BY <1>1, <2>0, <3>1
    <3>3. chunking'.length = length /\ chunking'.at = 0 /\ chunking'.pieces = <<>> BY <3>1
    <3>4. answer'.of = "chunking" BY <3>1
    <3>5. length >= 1 BY <1>1, <2>2
    <3>. QED BY <3>2, <3>3, <3>4, <3>5
  <2>. QED BY <2>1, <2>2
<1>4. End' = 0
  <2>1. chunking'.length \in Nat BY <1>2 DEF ChunkCalls
  <2>. QED BY <1>2, <2>1 DEF End
<1>5. Tiled(chunking'.pieces, End', CharSize') BY <1>2, <1>4, NothingTiled
<1>6. ChunkLoop' BY <1>2, <1>5 DEF ChunkLoop
<1>7. ChunksAreText' /\ AbortsUncountable' BY <1>2 DEF ChunksAreText, AbortsUncountable
<1>. QED BY <1>6, <1>7 DEF ChunkInv

\* A piece is cut: the text that is left, or as much of it as was asked for.
LEMMA ChunkStepKeeps ==
  ASSUME ChunkInv, ChunkStep
  PROVE  ChunkInv'
<1>. DEFINE a == chunking.at
            n == chunking.length
            c == CharSize
            taken == IF Rest < CharSize \/ CharSize < 0 THEN Rest ELSE CharSize
            b == a + taken
<1>1. /\ answer' = answer /\ answer.of = "chunking" /\ a \in 0 .. n - 1 /\ c # 0
      /\ chunking' = [chunking EXCEPT !.pieces = Append(@, <<a, b>>), !.at = @ + c]
  BY DEF ChunkStep, CutChunk
<1>2. /\ n \in Nat /\ chunking.size \in Int /\ a \in Int /\ c \in Int
      /\ chunking.pieces \in Seq(Int \X Int)
      /\ a > 0 => c > 0
      /\ a >= 0 => Tiled(chunking.pieces, End, c)
  BY CountableSize DEF ChunkInv, ChunkLoop, ChunkCalls
<1>3. /\ chunking'.length = n /\ chunking'.size = chunking.size
      /\ chunking'.at = a + c /\ chunking'.pieces = Append(chunking.pieces, <<a, b>>)
      /\ DOMAIN chunking' = DOMAIN chunking
  <2>. DEFINE ps == Append(chunking.pieces, <<a, b>>)
              at == a + c
  <2>1. chunking' = [chunking EXCEPT !.pieces = ps, !.at = at] BY <1>1
  <2>2. chunking \in ChunkCalls BY DEF ChunkInv, ChunkLoop
  <2>. HIDE DEF ps, at
  <2>3. chunking'.pieces = ps /\ chunking'.at = at BY <2>1, <2>2 DEF ChunkCalls
  <2>4. /\ chunking'.length = n /\ chunking'.size = chunking.size
        /\ DOMAIN chunking' = DOMAIN chunking
    BY <2>1, <2>2 DEF ChunkCalls
  <2>. QED BY <2>3, <2>4 DEF ps, at
<1>4. CharSize' = c BY <1>3 DEF CharSize
<1>5. taken \in Int /\ taken >= 1 /\ (c > 0 => taken <= c) /\ n >= 1
      /\ (c > 0 => b = IF a + c < n THEN a + c ELSE n)
  <2>1. taken = (IF n - a < c \/ c < 0 THEN n - a ELSE c) /\ b = a + taken BY DEF Rest
  <2>. HIDE DEF taken, b, c, n, a
  <2>. QED BY <1>1, <1>2, <2>1
<1>6. End = a BY <1>1, <1>2 DEF End
<1>. HIDE DEF taken, c, n, a
<1>7. b \in Int /\ a < b /\ b - a = taken BY <1>2, <1>5
<1>8. c > 0 => End' = b BY <1>3, <1>5 DEF End
<1>. HIDE DEF b
<1>9. chunking'.pieces \in Seq(Int \X Int)
  <2>1. <<a, b>> \in Int \X Int BY <1>2, <1>7
  <2>. QED BY <1>2, <1>3, <2>1, AppendProperties
<1>10. c > 0 => Tiled(chunking'.pieces, b, c)
  <2>. SUFFICES ASSUME c > 0 PROVE Tiled(chunking'.pieces, b, c) OBVIOUS
  <2>1. Tiled(chunking.pieces, a, c) BY <1>1, <1>2, <1>6
  <2>2. b - a <= c BY <1>5, <1>7
  <2>. QED BY <1>2, <1>3, <1>7, <2>1, <2>2, TiledGrows
<1>11. ChunkLoop'
  <2>1. a + c \in Int /\ (a + c < 0 => c < 0) /\ (a + c >= 0 => c > 0)
    BY <1>1, <1>2
  <2>2. chunking' \in ChunkCalls
    <3>. DEFINE ps == chunking'.pieces
                at == a + c
    <3>1. chunking' = [length |-> n, size |-> chunking.size, at |-> at, pieces |-> ps]
      <4>1. chunking \in ChunkCalls BY DEF ChunkInv, ChunkLoop
      <4>2. chunking' = [x \in DOMAIN chunking' |-> chunking'[x]] BY <1>1
      <4>. QED BY <1>3, <4>1, <4>2 DEF ChunkCalls
    <3>. HIDE DEF ps, at
    <3>2. ps \in Seq(Int \X Int) /\ at \in Int BY <1>9, <2>1 DEF ps, at
    <3>. QED BY <1>2, <3>1, <3>2 DEF ChunkCalls
  <2>3. /\ chunking'.at < 0 => CharSize' < 0
        /\ chunking'.at > 0 => CharSize' > 0
    BY <1>2, <1>3, <1>4, <2>1
  <2>4. chunking'.at >= 0 => Tiled(chunking'.pieces, End', CharSize')
    BY <1>3, <1>4, <1>8, <1>10, <2>1
  <2>. QED BY <1>3, <1>5, <2>2, <2>3, <2>4 DEF ChunkLoop
<1>12. ChunksAreText' /\ AbortsUncountable' BY <1>1 DEF ChunksAreText, AbortsUncountable
<1>. QED BY <1>11, <1>12 DEF ChunkInv

\* The loop is left before the text only with a size that wraps around, and behind
\* it with the whole text.
LEMMA LoopLeftKeeps ==
  ASSUME ChunkInv, AbortChunk \/ EndChunk
  PROVE  ChunkInv'
<1>1. /\ answer.of = "chunking" /\ chunking' = chunking
      /\ chunking \in ChunkCalls /\ chunking.length >= 1
  BY DEF AbortChunk, EndChunk, ChunkInv, ChunkLoop
<1>2. /\ chunking.length \in Nat /\ chunking.at \in Int /\ chunking.size \in Int
      /\ chunking.pieces \in Seq(Int \X Int)
  BY <1>1 DEF ChunkCalls
<1>3. answer'.of \in {"chunk", "aborted"} BY DEF AbortChunk, EndChunk
<1>4. ChunkLoop' BY <1>1, <1>3 DEF ChunkInv, ChunkLoop, CharSize, End
<1>5. CASE AbortChunk
  <2>1. CharSize \in Int /\ (Countable => CharSize > 0) BY <1>2, CountableSize
  <2>2. ~Countable BY <1>2, <1>5, <2>1 DEF AbortChunk, ChunkInv, ChunkLoop
  <2>3. ~Countable' BY <1>1, <2>2 DEF Countable
  <2>4. answer'.of = "aborted" BY <1>5 DEF AbortChunk
  <2>. QED BY <1>4, <2>3, <2>4 DEF ChunkInv, ChunksAreText, AbortsUncountable
<1>6. CASE EndChunk
  <2>1. answer'.of = "chunk" BY <1>6 DEF EndChunk
  <2>2. chunking.at >= chunking.length /\ chunking.at >= 0 BY <1>2, <1>6 DEF EndChunk
  <2>3. End = chunking.length BY <1>2, <2>2 DEF End
  <2>4. Tiled(chunking.pieces, chunking.length, CharSize) BY <2>2, <2>3 DEF ChunkInv, ChunkLoop
  <2>. DEFINE ps == chunking.pieces
  <2>5. DOMAIN ps = 1 .. Len(ps) BY <1>2, LenProperties
  <2>6. /\ ps # <<>> /\ ps[1][1] = 0 /\ Last(ps)[2] = chunking.length
        /\ \A k \in DOMAIN ps : ps[k][1] < ps[k][2] /\ ps[k][2] - ps[k][1] <= CharSize
        /\ \A k \in 1 .. Len(ps) - 1 : ps[k + 1][1] = ps[k][2]
    <3>1. ps # <<>> BY <1>1, <1>2, <2>4 DEF Tiled
    <3>. QED BY <2>4, <2>5, <3>1 DEF Tiled, Last
  <2>7. ChunksAreText' BY <1>1, <2>6 DEF ChunksAreText, CharSize
  <2>. QED BY <1>4, <2>1, <2>7 DEF ChunkInv, AbortsUncountable
<1>. QED BY <1>5, <1>6

\* No text is cut before the first call.
LEMMA ChunksBegin ==
  ASSUME Init
  PROVE  ChunkInv
<1>1. chunking = NoChunk /\ answer.of = "nothing" BY DEF Init, Nothing
<1>2. NoChunk.length = 0 /\ NoChunk.at = 0 /\ NoChunk.pieces = <<>> BY DEF NoChunk
<1>3. NoChunk \in ChunkCalls
  <2>1. <<>> \in Seq(Int \X Int) BY EmptySeq
  <2>2. \A n \in Nat, m \in Int :
          [length |-> n, size |-> m, at |-> 0, pieces |-> <<>>] \in ChunkCalls
    BY <2>1 DEF ChunkCalls
  <2>. PICK n \in Nat, m \in Int : n = 0 /\ m = 1 OBVIOUS
  <2>. QED BY <2>2 DEF NoChunk
<1>4. Tiled(chunking.pieces, End, CharSize)
  <2>1. End = 0 BY <1>1, <1>2 DEF End
  <2>. QED BY <1>1, <1>2, <2>1, NothingTiled
<1>5. ChunkLoop BY <1>1, <1>2, <1>3, <1>4 DEF ChunkLoop
<1>. QED BY <1>1, <1>5 DEF ChunkInv, ChunksAreText, AbortsUncountable

-----------------------------------------------------------------------------
(* The runtime.                                                             *)

\* The counters, the traces and the chunks are right in every state.
LEMMA RuntimeHolds == Spec => [](CountersInv /\ ChunkInv)
<1>1. Init => CountersInv /\ ChunkInv BY CountersBegin, ChunksBegin
<1>2. CountersInv /\ ChunkInv /\ [Next]_vars => (CountersInv /\ ChunkInv)'
  <2>. SUFFICES ASSUME CountersInv, ChunkInv, [Next]_vars
                PROVE  CountersInv' /\ ChunkInv'
    OBVIOUS
  <2>1. CASE BudgetCall BY <2>1, BudgetCallKept, OtherCallsKeep
  <2>2. CASE TraceCall BY <2>2, TraceCallKept, OtherCallsKeep
  <2>3. CASE BeginChunk BY <2>3, ChunkCallKept, BeginChunkKeeps
  <2>4. CASE Chunk
    <3>1. CountersInv' BY <2>4, ChunkCallKept
    <3>2. ChunkInv' BY <2>4, ChunkStepKeeps, LoopLeftKeeps DEF Chunk
    <3>. QED BY <3>1, <3>2
  <2>5. CASE UNCHANGED vars
    <3>1. CountersInv' BY <2>5, ChunkCallKept
    <3>2. ChunkInv'
      <4>1. answer' = answer /\ chunking' = chunking BY <2>5 DEF vars
      <4>. QED BY <4>1 DEF ChunkInv, ChunkLoop, ChunksAreText, AbortsUncountable, CharSize, End,
                           Countable
    <3>. QED BY <3>1, <3>2
  <2>. QED BY <2>1, <2>2, <2>3, <2>4, <2>5 DEF Next
<1>. QED BY <1>1, <1>2, PTL DEF Spec

\* The counters are the account of the calls since the cap was set last, for every
\* cap and every amount, however often either is called (ctx.cpp 31-45).
THEOREM CountersAreAccount == Spec => []BudgetIsAccount
<1>1. CountersInv => BudgetIsAccount BY DEF CountersInv
<1>. QED BY <1>1, RuntimeHolds, PTL

\* A charge answers 1 when it takes the account over the cap, and only then
\* (ctx.cpp 38-45).
THEOREM OverflowsAreTold == Spec => []OverflowTold
<1>1. CountersInv => OverflowTold
  BY DEF CountersInv, ChargeTold, BudgetIsAccount, OverflowTold
<1>. QED BY <1>1, RuntimeHolds, PTL

\* The report of a trace that none interrupted is what was charged and logged since
\* it began (trc.cpp 31-68).
THEOREM TracesAreReported == Spec => []ReportsExact
<1>1. CountersInv => ReportsExact BY DEF CountersInv
<1>. QED BY <1>1, RuntimeHolds, PTL

\* The chunks that are answered are the text, for every text, every size and every
\* width of the integers, those included whose product wraps around (ctx.cpp 188-194).
THEOREM ChunksTile == Spec => []ChunksAreText
<1>1. ChunkInv => ChunksAreText BY DEF ChunkInv
<1>. QED BY <1>1, RuntimeHolds, PTL

\* No size above 0 whose characters can be counted aborts the program (ctx.cpp
\* 183-194).
THEOREM CountableNeverAborts == Spec => []AbortsUncountable
<1>1. ChunkInv => AbortsUncountable BY DEF ChunkInv
<1>. QED BY <1>1, RuntimeHolds, PTL

==============================================================================
