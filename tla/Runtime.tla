------------------------------- MODULE Runtime -------------------------------
(***************************************************************************)
(* What the runtime library keeps for one thread of a compiled program:    *)
(* the token budget (runtime/modules/ctx.cpp), the trace (trc.cpp), and    *)
(* the loop of ctx::chunk, which may not end.  The program may call them   *)
(* in any order.  Times and the texts of the answers are left out.          *)
(***************************************************************************)
EXTENDS Integers, SequencesExt

CONSTANTS
  DefaultCap,   \* of g_budget_cap
  Amounts,      \* that the program charges
  Caps,         \* that it sets
  Texts,        \* lengths of the texts it cuts
  ChunkSizes,   \* of the chunks, in tokens
  IntRange,     \* number of values of an int64_t (2^64)
  MaxCalls,     \* bound on the calls that are logged
  MaxTraces,    \* bound on the traces that are open
  MaxCut        \* bound on them before a text is cut

\* What is charged and set may be negative; a length is not.
RuntimeAssumption ==
  /\ DefaultCap \in Int /\ Amounts \subseteq Int /\ Caps \subseteq Int
  /\ Texts \subseteq Nat /\ ChunkSizes \subseteq Int /\ IntRange \in Nat \ {0}
ASSUME RuntimeAssumption

VARIABLES
  cap, used, peak,   \* g_budget_*
  ops, begun,        \* ops and tokens_used of g_trace
  answer,            \* what the last call returned
  chunking,          \* the running call of agc_chunk
  ledger,            \* history: the calls of charge, set_cap and op so far
  traced             \* history: the traces begun and not ended, the latest last

vars == <<cap, used, peak, ops, begun, answer, chunking, ledger, traced>>

Nothing == [of |-> "nothing"]
NoChunk == [length |-> 0, size |-> 1, at |-> 0, pieces |-> <<>>]

\* A call of the program, when the one before has returned.
Call == answer.of \notin {"chunking", "aborted"} /\ Len(ledger) < MaxCalls
Logged(call, n) == ledger' = Append(ledger, [call |-> call, n |-> n])

-----------------------------------------------------------------------------
(* The budget.                                                              *)

\* Mutant of SetCap: the peak of the scope before stays.
SetCapOnly(n) ==
  /\ cap' = n /\ used' = 0 /\ UNCHANGED peak
  /\ answer' = Nothing

SetCap(n) ==
  /\ cap' = n /\ used' = 0 /\ peak' = 0
  /\ answer' = Nothing

\* Mutant of Charge: compared before it is charged.
ChargeLate(n) ==
  /\ used' = used + n
  /\ peak' = IF used' > peak THEN used' ELSE peak
  /\ answer' = [of |-> "charge", overflow |-> used > cap]
  /\ UNCHANGED cap

Charge(n) ==
  /\ used' = used + n
  /\ peak' = IF used' > peak THEN used' ELSE peak
  /\ answer' = [of |-> "charge", overflow |-> used' > cap]
  /\ UNCHANGED cap

\* Whatever its answer, the program goes on.
BudgetCall ==
  /\ Call
  /\ \/ \E n \in Amounts : /\ Charge(n) /\ Logged("charge", n)
                           /\ UNCHANGED traced
     \/ \E n \in Caps : /\ SetCap(n) /\ Logged("cap", n)
                        /\ traced' = [i \in DOMAIN traced |-> [traced[i] EXCEPT !.intact = FALSE]]
  /\ UNCHANGED <<ops, begun, chunking>>

-----------------------------------------------------------------------------
(* Traces.  There is one record for all of them.                            *)

\* Mutant of TraceBegin: the operations of the trace before are kept.
TraceBeginOn ==
  /\ begun' = used
  /\ answer' = Nothing
  /\ UNCHANGED ops

TraceBegin ==
  /\ ops' = <<>> /\ begun' = used
  /\ answer' = Nothing

TraceOp(n) ==
  /\ ops' = Append(ops, n)
  /\ answer' = Nothing
  /\ UNCHANGED begun

TraceEnd ==
  /\ answer' = [of |-> "trace", cost |-> used - begun, ops |-> ops, whose |-> Last(traced)]
  /\ UNCHANGED <<ops, begun>>

\* A program ends the traces it has begun, the latest first.
TraceCall ==
  /\ Call
  /\ \/ /\ Len(traced) < MaxTraces /\ TraceBegin
        /\ traced' = Append([i \in DOMAIN traced |-> [traced[i] EXCEPT !.intact = FALSE]],
                            [from |-> Len(ledger), intact |-> TRUE])
        /\ UNCHANGED ledger
     \/ TraceOp(Len(ledger)) /\ Logged("op", Len(ledger)) /\ UNCHANGED traced
     \/ /\ traced # <<>> /\ TraceEnd
        /\ traced' = Front(traced)
        /\ UNCHANGED ledger
  /\ UNCHANGED <<cap, used, peak, chunking>>

-----------------------------------------------------------------------------
(* agc_chunk.  Four characters are a token; the product may overflow, and   *)
(* wraps around.                                                            *)

Half   == IntRange \div 2
MaxInt == Half - 1

\* Mutant of CharSize: the product is that of a narrower type.
CharSizeNarrow == ((chunking.size * 4 + Half \div 2) % Half) - Half \div 2

CharSize == ((chunking.size * 4 + Half) % IntRange) - Half
Rest     == chunking.length - chunking.at

BeginChunk ==
  /\ Call /\ Len(ledger) <= MaxCut /\ traced = <<>>
  /\ \E length \in Texts, size \in ChunkSizes :
       IF length = 0 THEN answer' = [of |-> "chunk", error |-> TRUE] /\ chunking' = NoChunk
       ELSE /\ answer' = [of |-> "chunking"]
            /\ chunking' = [NoChunk EXCEPT !.length = length, !.size = size]
  /\ UNCHANGED <<cap, used, peak, ops, begun, ledger, traced>>

\* Mutant of CutChunk: the last chunk is as long as the others.
CutChunkShort ==
  chunking' = [chunking EXCEPT !.pieces = Append(@, <<chunking.at, chunking.at + CharSize>>),
                               !.at = @ + CharSize]

\* substr takes what there is of a negative, that is a very large, count.
CutChunk ==
  LET taken == IF Rest < CharSize \/ CharSize < 0 THEN Rest ELSE CharSize
  IN  chunking' = [chunking EXCEPT !.pieces = Append(@, <<chunking.at, chunking.at + taken>>),
                                   !.at = @ + CharSize]

ChunkStep ==
  /\ answer.of = "chunking" /\ chunking.at \in 0 .. chunking.length - 1
  /\ CharSize # 0 /\ CutChunk
  /\ UNCHANGED <<cap, used, peak, ops, begun, answer, ledger, traced>>

\* With a size of 0 the loop adds empty pieces until the memory is used up; at a
\* negative position substr throws.  No exception is caught: the program aborts.
AbortChunk ==
  /\ answer.of = "chunking" /\ (CharSize = 0 \/ chunking.at < 0)
  /\ answer' = [of |-> "aborted"]
  /\ UNCHANGED <<cap, used, peak, ops, begun, chunking, ledger, traced>>

\* Mutant of EndChunk: the loop ends at the end of the text, and not behind it.
EndChunkExact ==
  /\ answer.of = "chunking" /\ chunking.at = chunking.length
  /\ answer' = [of |-> "chunk", error |-> FALSE]
  /\ UNCHANGED <<cap, used, peak, ops, begun, chunking, ledger, traced>>

EndChunk ==
  /\ answer.of = "chunking" /\ chunking.at >= chunking.length
  /\ answer' = [of |-> "chunk", error |-> FALSE]
  /\ UNCHANGED <<cap, used, peak, ops, begun, chunking, ledger, traced>>

Chunk == ChunkStep \/ AbortChunk \/ EndChunk

-----------------------------------------------------------------------------
Init ==
  /\ cap = DefaultCap /\ used = 0 /\ peak = 0
  /\ ops = <<>> /\ begun = 0
  /\ answer = Nothing /\ chunking = NoChunk
  /\ ledger = <<>> /\ traced = <<>>

Next == BudgetCall \/ TraceCall \/ BeginChunk \/ Chunk

\* The program may stop calling; a call that runs goes on.
Spec == Init /\ [][Next]_vars /\ WF_vars(Chunk)

-----------------------------------------------------------------------------
(* Properties.                                                              *)

\* What the calls behind the i-th have charged, and the operations among them, up
\* to each call.
Charged(calls, i) ==
  LET sum[k \in 0 .. Len(calls)] ==
        IF k <= i THEN 0
        ELSE sum[k - 1] + (IF calls[k].call = "charge" THEN calls[k].n ELSE 0)
  IN  sum
OpsTraced(calls, i) ==
  LET log[k \in 0 .. Len(calls)] ==
        IF k <= i THEN <<>>
        ELSE IF calls[k].call = "op" THEN Append(log[k - 1], calls[k].n) ELSE log[k - 1]
  IN  log

\* The call that set the cap last, 0 if none did.
LastSet(calls) ==
  LET caps == {k \in DOMAIN calls : calls[k].call = "cap"}
  IN  IF caps = {} THEN 0 ELSE CHOOSE k \in caps : \A l \in caps : l <= k
LastCap(calls) == IF LastSet(calls) = 0 THEN DefaultCap ELSE calls[LastSet(calls)].n

\* The counters are the account of the calls since the cap was set last, whatever
\* was charged, given back, or set before, and whatever is traced: how much there
\* was, and how much there was at most (ctx.cpp 31-45).
BudgetIsAccount ==
  LET from == LastSet(ledger)
      account == Charged(ledger, from)
  IN  /\ used = account[Len(ledger)] /\ cap = LastCap(ledger)
      /\ \A k \in from .. Len(ledger) : peak >= account[k]
      /\ \E k \in from .. Len(ledger) : peak = account[k]

\* The charge that takes the account over the cap is the first that is answered by
\* 1, and none that leaves it within (ctx.cpp:38 "Returns 0 if ok, 1 if overflow").
OverflowTold ==
  answer.of = "charge" =>
    (answer.overflow <=> Charged(ledger, LastSet(ledger))[Len(ledger)] > LastCap(ledger))

\* The report of a trace in which no other trace began and no cap was set gives what
\* was charged since its begin and the operations since, in their order; what was
\* traced before, and how often, does not show (trc.cpp 31-68).
ReportsExact ==
  answer.of = "trace" /\ answer.whose.intact =>
    /\ answer.cost = Charged(ledger, answer.whose.from)[Len(ledger)]
    /\ answer.ops = OpsTraced(ledger, answer.whose.from)[Len(ledger)]

\* The chunks of an answer are the text: none is empty or longer than asked for, and
\* each begins where the one before ends (ctx.cpp 188-194).
ChunksAreText ==
  answer.of = "chunk" /\ ~answer.error =>
    LET ps == chunking.pieces
    IN  /\ ps # <<>> /\ ps[1][1] = 0 /\ Last(ps)[2] = chunking.length
        /\ \A k \in DOMAIN ps : ps[k][1] < ps[k][2] /\ ps[k][2] - ps[k][1] <= CharSize
        /\ \A k \in 1 .. Len(ps) - 1 : ps[k + 1][1] = ps[k][2]

\* A text is cut for every size above 0 whose characters can be counted: only for
\* the others the program is aborted, and so the call returns.
Countable == chunking.size \in 1 .. MaxInt \div 4
AbortsUncountable == answer.of = "aborted" => ~Countable
ChunkReturns == (answer.of = "chunking" /\ Countable) ~> answer.of = "chunk"

==============================================================================
