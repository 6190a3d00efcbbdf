---------------------------- MODULE FrontendProofs ----------------------------
(***************************************************************************)
(* What the front end promises whatever the sources are, and whatever the  *)
(* number of packages, of compilations and of users who get packages: of   *)
(* the cache they share, and of the lexer and the parser.                   *)
(***************************************************************************)
EXTENDS Frontend, SetLemmas, SequenceTheorems, TLAPS

\* What a directory of the cache, and a caller, can be.
States == {"absent", "partial", "whole"}
Phases == {"idle", "looking", "cloning", "fetching", "sweeping", "dead"}

\* The shape of the cache: what the steps below need of it.
CacheTypeOK ==
  /\ dir \in [Packages -> States]
  /\ phase \in [Callers -> Phases]
  /\ wanted \in [Callers -> Packages]

\* A clone that runs is the only one of its package, and has made its directory.
OneClone ==
  \A c \in Callers : phase[c] = "fetching" =>
    /\ dir[wanted[c]] = "partial"
    /\ \A b \in Callers : phase[b] = "fetching" /\ wanted[b] = wanted[c] => b = c

CacheInv == CacheTypeOK /\ OneClone /\ CachedWhole

\* A step of one caller.
CacheStep == \E c \in Callers : Begin(c) \/ Resolve(c)

-----------------------------------------------------------------------------
\* Whatever the compilation does beside resolve leaves the cache alone: lexing and
\* parsing, the return of resolve, and the end.
LEMMA OnlyCallersTouchTheCache ==
  ASSUME [Next]_vars
  PROVE  CacheStep \/ UNCHANGED cacheVars
<1>1. CASE Lex      BY <1>1 DEF Lex
<1>2. CASE EndLex   BY <1>2 DEF EndLex
<1>3. CASE ParseOn  BY <1>3 DEF ParseOn
<1>4. CASE CallResolve
  <2>1. Begin(Compiler) BY <1>4 DEF CallResolve
  <2>. QED BY <2>1, FrontendAssumption DEF CacheStep, Callers
<1>5. CASE RunResolve
  <2>1. Resolve(Compiler) BY <1>5 DEF RunResolve
  <2>. QED BY <2>1, FrontendAssumption DEF CacheStep, Callers
<1>6. CASE ReturnResolve  BY <1>6 DEF ReturnResolve
<1>7. CASE EndParse       BY <1>7 DEF EndParse
<1>8. CASE \E c \in Callers \ {Compiler} : Get(c)
  BY <1>8 DEF Get, CacheStep
<1>9. CASE Over           BY <1>9 DEF Over, vars
<1>10. CASE UNCHANGED vars BY <1>10 DEF vars
<1>. QED BY <1>1, <1>2, <1>3, <1>4, <1>5, <1>6, <1>7, <1>8, <1>9, <1>10 DEF Next, Compile

\* At first no directory is there and nobody asks.
LEMMA CacheInitial ==
  ASSUME Init
  PROVE  CacheInv
BY DEF Init, CacheInit, CacheInv, CacheTypeOK, OneClone, CachedWhole, States, Phases

\* A step that starts or ends a clone: one clause for each action of pkg.cpp.
LEMMA CacheKept ==
  ASSUME CacheInv, CacheStep
  PROVE  CacheInv'
<1>. PICK c \in Callers : Begin(c) \/ Resolve(c) BY DEF CacheStep
<1>. USE DEF CacheInv, CacheTypeOK, OneClone, CachedWhole, States, Phases, Turn
<1>1. CASE Begin(c)       BY <1>1 DEF Begin
<1>2. CASE Look(c)        BY <1>2 DEF Look
<1>3. CASE StartClone(c)
  <2>1. CASE dir[wanted[c]] = "absent"
    <3>1. \A b \in Callers : phase[b] = "fetching" => wanted[b] # wanted[c]
      BY <2>1
    <3>2. /\ phase' = [phase EXCEPT ![c] = "fetching"]
          /\ dir' = [dir EXCEPT ![wanted[c]] = "partial"]
          /\ wanted' = wanted /\ killed' = killed
      BY <1>3, <2>1 DEF StartClone
    <3>. QED BY <3>1, <3>2
  <2>2. CASE dir[wanted[c]] # "absent"
    <3>1. /\ phase[c] = "cloning" /\ phase' = [phase EXCEPT ![c] = "idle"]
          /\ dir' = dir /\ wanted' = wanted /\ killed' = killed
      BY <1>3, <2>2 DEF StartClone
    <3>. QED BY <3>1
  <2>. QED BY <2>1, <2>2
<1>4. CASE FinishClone(c) BY <1>4 DEF FinishClone
<1>5. CASE FailClone(c)   BY <1>5 DEF FailClone
<1>6. CASE Kill(c)        BY <1>6 DEF Kill
<1>7. CASE Sweep(c)       BY <1>7 DEF Sweep
<1>. QED BY <1>1, <1>2, <1>3, <1>4, <1>5, <1>6, <1>7 DEF Resolve

\* CacheInv, the invariant behind the theorem below, holds throughout.
THEOREM CacheInvariant == Spec => []CacheInv
<1>1. Init => CacheInv
  BY CacheInitial
<1>2. CacheInv /\ [Next]_vars => CacheInv'
  <2>. SUFFICES ASSUME CacheInv, [Next]_vars PROVE CacheInv'
    OBVIOUS
  <2>1. CASE CacheStep BY <2>1, CacheKept
  <2>2. CASE UNCHANGED cacheVars
    BY <2>2 DEF cacheVars, CacheInv, CacheTypeOK, OneClone, CachedWhole
  <2>. QED BY <2>1, <2>2, OnlyCallersTouchTheCache
<1>. QED BY <1>1, <1>2, PTL DEF Spec

\* A directory under ~/.agentc/pkg that holds a part of a package is being filled,
\* or was left by a clone that was killed (pkg.cpp 28-43): clones that fail, and any
\* number of processes that ask for the same package at once, leave none.
THEOREM CacheIsWhole == Spec => []CachedWhole
<1>1. CacheInv => CachedWhole
  BY DEF CacheInv
<1>. QED BY <1>1, CacheInvariant, PTL

\* Two clones never write into one directory: git refuses one that is there.
THEOREM OneCloneAtATime == Spec => []OneClone
<1>1. CacheInv => OneClone
  BY DEF CacheInv
<1>. QED BY <1>1, CacheInvariant, PTL

-----------------------------------------------------------------------------
(* The call stack of the parser.                                            *)

\* What the parser does inside a declaration.
Doers ==
  {"expect", "take", "number", "match", "if", "skip", "keep", "mark", "until", "while", "list",
   "block_of_annotations", "annotation", "fn", "named", "body", "params", "param", "inner",
   "type", "primary_type", "binding", "arm", "stmt", "block", "stmts",
   "infix", "no_arguments", "unary", "field", "primary", "arguments", "payload", "agent_name"}
\* Around declarations: those that are begun, and what is done of all of them.
Deciders == {"top_level", "Agt", "Dat", "Enm", "push", "program"}
Others == {"drop", "synchronize", "import", "module", "resolve", "resolving"}

\* The tokens and the kinds of nodes.
Kinds == {"fn", "{", "}", "tail", "arm", "call", "extern", "else", "result", "::", ":=", "assign",
          "!", "?", ".", "@snd", "@rcv", "unset", "Dat", "Enm", "^", "^!"}
Symbols == Words \cup Pairs \cup Singles \cup Operators \cup Kinds \cup
             {"error", "eof", "?", "?r", "?p"}

\* Tasks by how deep the tasks in them are nested.
TasksOf(S) == {t \in [do : Doers, of : SUBSET Symbols, then : Seq(S)] : t.do = "mark" => t.of # {}}
Flat    == TasksOf({})
Nested  == TasksOf(Flat)
Listing == TasksOf(Nested)
Inside  == {t \in TasksOf(Listing) : t.do = "list" => t.then \in Seq(Nested)}
Around  == [do : Deciders \cup Others, of : {{}}, then : {<<>>}]
Tasks   == Inside \cup Around
\* Those that no arm and no declaration ends with.
Calm    == {t \in Tasks : t.do \notin Deciders \cup {"drop"}}

\* What comes before the first node of a declaration, and what begins one.
Early(t) ==
  \/ t.do \in {"program", "synchronize", "import", "module", "resolve", "resolving", "top_level",
               "block_of_annotations", "annotation", "expect", "match", "skip"}
  \/ t.do = "while" /\ t.then \in {<<Call("annotation")>>, <<Skip>>}
Starter(t) ==
  \/ t.do \in {"fn", "named", "Agt", "Dat", "Enm", "keep"}
  \/ t.do = "mark" /\ t.of # {"arm"}
\* A declaration is begun before anything is done inside of it.
BegunAt(s, j) == /\ \A i \in 1 .. j : Early(s[i])
                 /\ j < Len(s) => Starter(s[j + 1])
Begun(s) == \E j \in 0 .. Len(s) : BegunAt(s, j)
\* A declaration is pushed when it is done, and then the program goes on.
Ordered(s) ==
  \A k \in DOMAIN s : \A i \in DOMAIN s : k < i =>
    /\ s[k].do \in {"Agt", "Dat", "Enm"} => s[i].do \in {"push", "program"}
    /\ s[k].do \in {"top_level", "push", "program"} => s[i].do = "program"

\* Whatever is done, the loop of parse_program comes behind it.
Founded(s) == s # <<>> /\ s[Len(s)].do = "program"

\* The arms that are to be dropped have begun, behind the first node.
Drops(s) == Occurrences(s, Call("drop"))
ArmsIn(n) == IF n = <<>> THEN 0 ELSE Occurrences(Tail(n), "arm")
Paired(s, n) ==
  Drops(s) <= ArmsIn(n) + IF s # <<>> /\ Head(s) = Mark("arm") THEN 1 ELSE 0

\* The call stack s over the declaration n.
StackOK(s, n) ==
  /\ s \in Seq(Tasks) /\ n \in Seq(Symbols)
  /\ Ordered(s) /\ Founded(s)
  /\ n = <<>> => Begun(s)
  /\ Paired(s, n)

\* What the parser has.
Codes == {"E101", "E102", "E104", "E105", "E300"}
ParsedOK == /\ pos \in Nat \ {0} /\ passed \subseteq Nat \ {0}
            /\ program \in Seq(Seq(Symbols) \ {<<>>})
            /\ errors \subseteq Codes \X Nat
ParseInv == /\ ParsedOK
            /\ \/ StackOK(todo, node)
               \/ todo = <<>> /\ node \in Seq(Symbols) /\ Current = "eof"
LexInv ==
  /\ source \in Seq(STRING) /\ tokens \in Seq(Symbols) /\ garbled \in BOOLEAN
  /\ at \in 1 .. Len(source) + 2
  /\ Len(tokens) < at /\ Len(tokens) <= Len(source)

-----------------------------------------------------------------------------
(* What the parse functions leave to do are tasks.                          *)

\* A list of few tasks.
LEMMA Few ==
  ASSUME NEW S
  PROVE  /\ <<>> \in Seq(S)
         /\ \A a \in S : <<a>> \in Seq(S)
         /\ \A a, b \in S : <<a, b>> \in Seq(S)
         /\ \A a, b, c \in S : <<a, b, c>> \in Seq(S)
         /\ \A a, b, c, d \in S : <<a, b, c, d>> \in Seq(S)
         /\ \A a, b, c, d, e \in S : <<a, b, c, d, e>> \in Seq(S)
         /\ \A a, b, c, d, e, f \in S : <<a, b, c, d, e, f>> \in Seq(S)
         /\ \A s, t \in Seq(S) : s \o t \in Seq(S)
  OBVIOUS

\* A sequence over a smaller set is one over a larger.
LEMMA SeqOver ==
  ASSUME NEW S, NEW T, S \subseteq T
  PROVE  Seq(S) \subseteq Seq(T)
BY SeqMonotonic

\* Tasks that are nested less deeply may stand where others may.
LEMMA Levels ==
  /\ Flat \subseteq Nested /\ Nested \subseteq Listing /\ Listing \subseteq Inside
  /\ Flat \subseteq Inside /\ Nested \subseteq Inside
  /\ Inside \subseteq Calm /\ Calm \subseteq Tasks
<1>1. Flat \subseteq Nested
  <2>1. Seq({}) \subseteq Seq(Flat) BY SeqOver
  <2>. QED BY <2>1 DEF Flat, Nested, TasksOf
<1>2. Nested \subseteq Listing
  <2>1. Seq(Flat) \subseteq Seq(Nested) BY <1>1, SeqOver
  <2>. QED BY <2>1 DEF Nested, Listing, TasksOf
<1>3. Listing \subseteq Inside
  <2>1. Seq(Nested) \subseteq Seq(Listing) BY <1>2, SeqOver
  <2>. QED BY <2>1 DEF Listing, Inside, TasksOf
<1>4. Inside \subseteq Calm
  <2>1. \A t \in Inside : t.do \in Doers BY DEF Inside, TasksOf
  <2>2. Doers \cap (Deciders \cup {"drop"}) = {} BY DEF Doers, Deciders
  <2>. QED BY <2>1, <2>2 DEF Calm, Tasks
<1>. QED BY <1>1, <1>2, <1>3, <1>4 DEF Calm

\* The tasks without others in them.
LEMMA FlatTasks ==
  /\ \A S \in SUBSET Symbols : /\ Expect(S) \in Flat /\ Take(S) \in Flat /\ Number(S) \in Flat
                             /\ Match(S) \in Flat /\ Until(S) \in Flat
  /\ Skip \in Flat /\ Keep \in Flat
  /\ \A kind \in Symbols : Mark(kind) \in Flat
  /\ \A f \in Doers \ {"mark"} : Call(f) \in Flat
  /\ \A n : Infix(n) \in Flat
<1>1. <<>> \in Seq({}) BY EmptySeq
<1>2. \A n : AtLeast(n) \in SUBSET Symbols
  <2>1. Operators \subseteq Symbols BY DEF Symbols
  <2>2. \A n : AtLeast(n) \subseteq Operators BY DEF AtLeast
  <2>. QED BY <2>1, <2>2
<1>3. \A d \in Doers : \A S \in SUBSET Symbols : (d = "mark" => S # {}) => Task(d, S, <<>>) \in Flat
  BY <1>1 DEF Task, Flat, TasksOf
<1>4. \A d \in Doers : d # "mark" => \A S \in SUBSET Symbols : Task(d, S, <<>>) \in Flat BY <1>3
<1>5. \A kind \in Symbols : {kind} \in SUBSET Symbols /\ {kind} # {} OBVIOUS
<1>. HIDE DEF Task
<1>. QED BY <1>2, <1>3, <1>4, <1>5
  DEF Expect, Take, Number, Match, Until, Skip, Keep, Mark, Call, Infix, Doers

\* Those with others in them.
LEMMA NestedTasks ==
  /\ \A S \in SUBSET Symbols : \A then \in Seq(Flat) :
       If(S, then) \in Nested /\ While(S, then) \in Nested /\ List(S, then) \in Nested
  /\ \A S \in SUBSET Symbols : \A then \in Seq(Nested) :
       If(S, then) \in Listing /\ While(S, then) \in Listing /\ List(S, then) \in Listing
  /\ \A S \in SUBSET Symbols : \A then \in Seq(Listing) : If(S, then) \in Inside
BY DEF If, While, List, Task, Nested, Listing, Inside, TasksOf, Doers

\* An expression.
LEMMA ExpressionTasks == Expression \in Seq(Flat) /\ \A n : Expr(n) \in Seq(Flat)
<1>1. Call("unary") \in Flat BY FlatTasks DEF Doers
<1>2. \A n : Infix(n) \in Flat BY FlatTasks
<1>. HIDE DEF Call, Infix
<1>. QED BY <1>1, <1>2, Few DEF Expression, Expr

-----------------------------------------------------------------------------
(* Declarations begin before anything is done inside of them.               *)

\* What is to be done is done from the first on.
LEMMA HeadOf ==
  ASSUME NEW T, NEW s \in Seq(T), s # <<>>
  PROVE  /\ Len(s) \in Nat \ {0} /\ DOMAIN s = 1 .. Len(s) /\ Head(s) = s[1] /\ s[1] \in T
         /\ Tail(s) \in Seq(T) /\ Len(Tail(s)) = Len(s) - 1
         /\ DOMAIN Tail(s) = 1 .. Len(s) - 1
         /\ \A i \in 1 .. Len(s) - 1 : Tail(s)[i] = s[i + 1]
BY HeadTailProperties, LenProperties, EmptySeq

\* Lists of tasks one behind the other.
LEMMA Joining ==
  ASSUME NEW T, NEW a \in Seq(T), NEW t \in Seq(T)
  PROVE  /\ a \o t \in Seq(T) /\ Len(a) \in Nat /\ Len(t) \in Nat
         /\ Len(a \o t) = Len(a) + Len(t)
         /\ DOMAIN a = 1 .. Len(a) /\ DOMAIN t = 1 .. Len(t)
         /\ DOMAIN (a \o t) = 1 .. Len(a) + Len(t)
         /\ \A i \in 1 .. Len(a) : (a \o t)[i] = a[i]
         /\ \A i \in 1 .. Len(t) : (a \o t)[Len(a) + i] = t[i]
BY ConcatProperties, LenProperties

\* What is done early leaves the beginning to come.
LEMMA BegunEarly ==
  ASSUME NEW T, NEW s \in Seq(T), s # <<>>, Begun(s), ~Starter(Head(s))
  PROVE  Early(Head(s)) /\ Begun(Tail(s))
<1>1. PICK j \in 0 .. Len(s) : BegunAt(s, j)
  BY DEF Begun
<1>2. /\ Len(s) \in Nat \ {0} /\ Head(s) = s[1] /\ Len(Tail(s)) = Len(s) - 1
      /\ \A i \in 1 .. Len(s) - 1 : Tail(s)[i] = s[i + 1]
  BY HeadOf
<1>3. j # 0 /\ j \in Nat /\ j <= Len(s) BY <1>1, <1>2 DEF BegunAt
<1>4. j - 1 \in 0 .. Len(Tail(s)) /\ 1 \in 1 .. j BY <1>2, <1>3
<1>5. ASSUME NEW i \in 1 .. j - 1 PROVE Early(Tail(s)[i])
  <2>1. i + 1 \in 1 .. j /\ i \in 1 .. Len(s) - 1 BY <1>2, <1>3
  <2>2. Tail(s)[i] = s[i + 1] BY <1>2, <2>1
  <2>3. Early(s[i + 1]) BY <1>1, <2>1 DEF BegunAt
  <2>. QED BY <2>2, <2>3
<1>6. ASSUME j - 1 < Len(Tail(s)) PROVE Starter(Tail(s)[(j - 1) + 1])
  <2>1. j < Len(s) /\ j \in 1 .. Len(s) - 1 /\ (j - 1) + 1 = j BY <1>2, <1>3, <1>6
  <2>2. Tail(s)[j] = s[j + 1] BY <1>2, <2>1
  <2>3. Starter(s[j + 1]) BY <1>1, <2>1 DEF BegunAt
  <2>. QED BY <2>1, <2>2, <2>3
<1>7. Early(Head(s))
  <2>1. Early(s[1]) BY <1>1, <1>4 DEF BegunAt
  <2>. QED BY <1>2, <2>1
<1>8. Begun(Tail(s)) BY ONLY <1>4, <1>5, <1>6, Zenon DEF Begun, BegunAt
<1>. QED BY <1>7, <1>8

\* So does what is put before it, if it is early.
LEMMA BegunMore ==
  ASSUME NEW T, NEW a \in Seq(T), NEW t \in Seq(T), \A i \in DOMAIN a : Early(a[i]), Begun(t)
  PROVE  Begun(a \o t)
<1>1. PICK j \in 0 .. Len(t) : BegunAt(t, j)
  BY DEF Begun
<1>2. /\ Len(a) \in Nat /\ Len(t) \in Nat /\ Len(a \o t) = Len(a) + Len(t) /\ DOMAIN a = 1 .. Len(a)
      /\ \A i \in 1 .. Len(a) : (a \o t)[i] = a[i]
      /\ \A i \in 1 .. Len(t) : (a \o t)[Len(a) + i] = t[i]
  BY Joining
<1>3. Len(a) + j \in 0 .. Len(a \o t) /\ j \in Nat /\ j <= Len(t) BY <1>1, <1>2
<1>4. ASSUME NEW i \in 1 .. Len(a) + j PROVE Early((a \o t)[i])
  <2>1. CASE i \in 1 .. Len(a)
    <3>1. (a \o t)[i] = a[i] BY <1>2, <2>1
    <3>2. Early(a[i]) BY <1>2, <2>1
    <3>. QED BY <3>1, <3>2
  <2>2. CASE i \notin 1 .. Len(a)
    <3>1. PICK k : k = i - Len(a) OBVIOUS
    <3>2. k \in 1 .. j /\ k \in 1 .. Len(t) /\ i = Len(a) + k BY <1>2, <1>3, <2>2, <3>1
    <3>3. (a \o t)[Len(a) + k] = t[k] BY <1>2, <3>2
    <3>4. Early(t[k]) BY <1>1, <3>2 DEF BegunAt
    <3>. QED BY <3>2, <3>3, <3>4
  <2>. QED BY <2>1, <2>2
<1>5. ASSUME Len(a) + j < Len(a \o t) PROVE Starter((a \o t)[(Len(a) + j) + 1])
  <2>1. j < Len(t) /\ j + 1 \in 1 .. Len(t) /\ (Len(a) + j) + 1 = Len(a) + (j + 1)
    BY <1>2, <1>3, <1>5
  <2>2. (a \o t)[Len(a) + (j + 1)] = t[j + 1] BY <1>2, <2>1
  <2>3. Starter(t[j + 1]) BY <1>1, <2>1 DEF BegunAt
  <2>. QED BY <2>1, <2>2, <2>3
<1>. QED BY ONLY <1>3, <1>4, <1>5, Zenon DEF Begun, BegunAt

\* Or if it has the beginning.
LEMMA BegunWith ==
  ASSUME NEW T, NEW a \in Seq(T), NEW t \in Seq(T), NEW j \in 1 .. Len(a), Starter(a[j]),
         \A i \in 1 .. j - 1 : Early(a[i])
  PROVE  Begun(a \o t)
<1>1. /\ Len(a) \in Nat /\ Len(t) \in Nat /\ Len(a \o t) = Len(a) + Len(t)
      /\ \A i \in 1 .. Len(a) : (a \o t)[i] = a[i]
  BY Joining
<1>2. j - 1 \in 0 .. Len(a \o t) /\ (j - 1) + 1 = j BY <1>1
<1>3. ASSUME NEW i \in 1 .. j - 1 PROVE Early((a \o t)[i])
  <2>1. i \in 1 .. Len(a) BY <1>1
  <2>2. (a \o t)[i] = a[i] BY <1>1, <2>1
  <2>. QED BY <2>2
<1>4. Starter((a \o t)[(j - 1) + 1])
  <2>1. (a \o t)[j] = a[j] BY <1>1
  <2>. QED BY <1>2, <2>1
<1>. QED BY ONLY <1>2, <1>3, <1>4, Zenon DEF Begun, BegunAt
-----------------------------------------------------------------------------
(* The arms that are to be dropped.                                         *)

\* What occurs in two lists occurs in the one or the other.
LEMMA OccurrencesJoin ==
  ASSUME NEW T, NEW s \in Seq(T), NEW t \in Seq(T), NEW v
  PROVE  Occurrences(s \o t, v) = Occurrences(s, v) + Occurrences(t, v)
<1>. DEFINE S == {i \in DOMAIN s : s[i] = v}
            R == {i \in DOMAIN t : t[i] = v}
            B == {i \in DOMAIN (s \o t) : i > Len(s) /\ (s \o t)[i] = v}
            f == [i \in R |-> Len(s) + i]
<1>1. /\ s \o t \in Seq(T) /\ Len(s) \in Nat /\ Len(t) \in Nat
      /\ Len(s \o t) = Len(s) + Len(t)
      /\ DOMAIN s = 1 .. Len(s) /\ DOMAIN t = 1 .. Len(t)
      /\ DOMAIN (s \o t) = 1 .. Len(s) + Len(t)
      /\ \A i \in 1 .. Len(s) : (s \o t)[i] = s[i]
      /\ \A i \in 1 .. Len(t) : (s \o t)[Len(s) + i] = t[i]
  BY Joining
<1>2. IsFiniteSet(S) /\ IsFiniteSet(R) BY OccurrencesFinite
<1>3. f \in Bijection(R, B)
  <2>1. \A i \in R : Len(s) + i \in B BY <1>1
  <2>2. \A i, j \in R : Len(s) + i = Len(s) + j => i = j BY <1>1
  <2>3. \A k \in B : \E i \in R : k = Len(s) + i
    <3>. SUFFICES ASSUME NEW k \in B PROVE k - Len(s) \in R /\ k = Len(s) + (k - Len(s)) OBVIOUS
    <3>1. k - Len(s) \in 1 .. Len(t) /\ k = Len(s) + (k - Len(s)) BY <1>1
    <3>2. (s \o t)[Len(s) + (k - Len(s))] = t[k - Len(s)] BY <1>1, <3>1
    <3>. QED BY <1>1, <3>1, <3>2
  <2>. HIDE DEF R, B
  <2>4. f \in [R -> B] BY <2>1
  <2>. QED BY <2>2, <2>3, <2>4 DEF Bijection, Injection, Surjection, IsInjective
<1>4. IsFiniteSet(B) /\ Cardinality(B) = Cardinality(R)
  <2>. HIDE DEF R, B, f
  <2>. QED BY <1>2, <1>3, FS_Bijection DEF ExistsBijection
<1>5. {i \in DOMAIN (s \o t) : (s \o t)[i] = v} = S \cup B /\ S \cap B = {}
  BY <1>1
<1>6. Cardinality(S \cup B) = Cardinality(S) + Cardinality(B) - 0
  <2>1. Cardinality(S \cup B) = Cardinality(S) + Cardinality(B) - Cardinality(S \cap B)
    <3>. HIDE DEF S, B
    <3>. QED BY <1>2, <1>4, FS_Union
  <2>. QED BY <2>1, <1>5, FS_EmptySet
<1>7. Cardinality(S) \in Nat /\ Cardinality(R) \in Nat
  BY <1>2, FS_CardinalityType
<1>8. /\ Occurrences(s \o t, v) = Cardinality(S \cup B)
      /\ Occurrences(s, v) = Cardinality(S) /\ Occurrences(t, v) = Cardinality(R)
  BY <1>5 DEF Occurrences
<1>. HIDE DEF S, R, B
<1>. QED BY <1>4, <1>6, <1>7, <1>8

\* The first of a list and the others.
LEMMA OccurrencesTail ==
  ASSUME NEW T, NEW s \in Seq(T), s # <<>>, NEW v
  PROVE  /\ Occurrences(s, v) = Occurrences(Tail(s), v) + (IF Head(s) = v THEN 1 ELSE 0)
         /\ Occurrences(Tail(s), v) \in Nat
<1>1. Head(s) \in T /\ Tail(s) \in Seq(T) /\ <<Head(s)>> \in Seq(T) /\ s = <<Head(s)>> \o Tail(s)
  OBVIOUS
<1>3. Occurrences(<<Head(s)>>, v) = IF Head(s) = v THEN 1 ELSE 0
  <2>1. CASE Head(s) = v
    <3>1. {i \in DOMAIN <<Head(s)>> : <<Head(s)>>[i] = v} = {1} BY <2>1
    <3>. QED BY <2>1, <3>1, FS_Singleton DEF Occurrences
  <2>2. CASE Head(s) # v
    <3>1. {i \in DOMAIN <<Head(s)>> : <<Head(s)>>[i] = v} = {} BY <2>2
    <3>. QED BY <2>2, <3>1, FS_EmptySet DEF Occurrences
  <2>. QED BY <2>1, <2>2
<1>4. Occurrences(<<Head(s)>> \o Tail(s), v) = Occurrences(<<Head(s)>>, v) + Occurrences(Tail(s), v)
  BY <1>1, OccurrencesJoin
<1>5. Occurrences(Tail(s), v) \in Nat BY <1>1, OccurrencesFinite
<1>6. Occurrences(s, v) = Occurrences(<<Head(s)>>, v) + Occurrences(Tail(s), v) BY <1>1, <1>4
<1>. QED BY ONLY <1>3, <1>5, <1>6

\* None, where there is none.
LEMMA NoOccurrence ==
  ASSUME NEW s, NEW v, \A i \in DOMAIN s : s[i] # v
  PROVE  Occurrences(s, v) = 0
<1>1. {i \in DOMAIN s : s[i] = v} = {} OBVIOUS
<1>. QED BY <1>1, FS_EmptySet DEF Occurrences

\* A declaration that grows keeps its arms.
LEMMA ArmsGrow ==
  ASSUME NEW n \in Seq(Symbols), NEW kept \in Seq(Symbols)
  PROVE  /\ ArmsIn(n) \in Nat /\ ArmsIn(n \o kept) \in Nat /\ ArmsIn(n) <= ArmsIn(n \o kept)
         /\ n # <<>> => ArmsIn(Append(n, "arm")) = ArmsIn(n) + 1
<1>1. \A m \in Seq(Symbols) : ArmsIn(m) \in Nat
  <2>. SUFFICES ASSUME NEW m \in Seq(Symbols) PROVE ArmsIn(m) \in Nat OBVIOUS
  <2>1. CASE m = <<>> BY <2>1 DEF ArmsIn
  <2>2. CASE m # <<>>
    <3>1. Tail(m) \in Seq(Symbols) BY <2>2
    <3>2. Occurrences(Tail(m), "arm") \in Nat BY <3>1, OccurrencesFinite
    <3>. QED BY <2>2, <3>2 DEF ArmsIn
  <2>. QED BY <2>1, <2>2
<1>2. n \o kept \in Seq(Symbols) OBVIOUS
<1>3. CASE n = <<>> BY <1>1, <1>2, <1>3 DEF ArmsIn
<1>4. CASE n # <<>>
  <2>1. /\ Tail(n) \in Seq(Symbols)
        /\ n \o kept # <<>> /\ Tail(n \o kept) = Tail(n) \o kept
        /\ Append(n, "arm") # <<>> /\ Tail(Append(n, "arm")) = Append(Tail(n), "arm")
    BY <1>4
  <2>2. Occurrences(Tail(n) \o kept, "arm") = Occurrences(Tail(n), "arm") + Occurrences(kept, "arm")
    BY <2>1, OccurrencesJoin, ZenonT(40)
  <2>3. Occurrences(Tail(n), "arm") \in Nat /\ Occurrences(kept, "arm") \in Nat
    BY <2>1, OccurrencesFinite
  <2>4. "arm" \in Symbols BY DEF Symbols, Kinds
  <2>5. Occurrences(Append(Tail(n), "arm"), "arm") = Occurrences(Tail(n), "arm") + 1
    BY <2>1, <2>4, OccurrencesAppend
  <2>6. /\ ArmsIn(n) = Occurrences(Tail(n), "arm")
        /\ ArmsIn(n \o kept) = Occurrences(Tail(n) \o kept, "arm")
        /\ ArmsIn(Append(n, "arm")) = Occurrences(Append(Tail(n), "arm"), "arm")
    BY <1>4, <2>1 DEF ArmsIn
  <2>. QED BY ONLY <2>2, <2>3, <2>5, <2>6
<1>. QED BY <1>3, <1>4

-----------------------------------------------------------------------------
(* What the parse functions leave of the call stack and the declaration.    *)

\* Nothing calm ends an arm or a declaration.
LEMMA CalmIsCalm ==
  ASSUME NEW a \in Seq(Calm)
  PROVE  /\ a \in Seq(Tasks) /\ Drops(a) = 0
         /\ \A k \in DOMAIN a : a[k] \in Tasks /\ a[k].do \notin Deciders \cup {"drop"}
<1>1. \A k \in DOMAIN a : a[k] \in Calm OBVIOUS
<1>2. Seq(Calm) \subseteq Seq(Tasks) BY Levels, SeqOver
<1>3. Call("drop").do = "drop" BY DEF Call, Task
<1>4. \A k \in DOMAIN a : a[k] \in Tasks /\ a[k].do \notin Deciders \cup {"drop"}
  BY <1>1 DEF Calm
<1>5. \A k \in DOMAIN a : a[k] # Call("drop") BY <1>3, <1>4
<1>. QED BY <1>2, <1>4, <1>5, NoOccurrence DEF Drops

\* What is behind the first is in order.
LEMMA OrderedTail ==
  ASSUME NEW s \in Seq(Tasks), s # <<>>, Ordered(s)
  PROVE  Tail(s) \in Seq(Tasks) /\ Ordered(Tail(s))
<1>1. /\ Len(s) \in Nat \ {0} /\ DOMAIN s = 1 .. Len(s) /\ Tail(s) \in Seq(Tasks)
      /\ Len(Tail(s)) = Len(s) - 1 /\ DOMAIN Tail(s) = 1 .. Len(s) - 1
      /\ \A i \in 1 .. Len(s) - 1 : Tail(s)[i] = s[i + 1]
  BY HeadOf
<1>. SUFFICES ASSUME NEW k \in DOMAIN Tail(s), NEW i \in DOMAIN Tail(s), k < i
             PROVE  /\ Tail(s)[k].do \in {"Agt", "Dat", "Enm"} => Tail(s)[i].do \in {"push", "program"}
                    /\ Tail(s)[k].do \in {"top_level", "push", "program"} => Tail(s)[i].do = "program"
  BY <1>1 DEF Ordered
<1>2. k + 1 \in DOMAIN s /\ i + 1 \in DOMAIN s /\ k + 1 < i + 1 BY <1>1
<1>3. Tail(s)[k] = s[k + 1] /\ Tail(s)[i] = s[i + 1] BY <1>1
<1>. QED BY <1>2, <1>3 DEF Ordered

\* So it is behind tasks inside of a declaration.
LEMMA OrderedBehind ==
  ASSUME NEW a \in Seq(Tasks), \A k \in DOMAIN a : a[k].do \notin Deciders,
         NEW t \in Seq(Tasks), Ordered(t)
  PROVE  Ordered(a \o t)
<1>1. /\ Len(a) \in Nat /\ Len(t) \in Nat
      /\ DOMAIN a = 1 .. Len(a) /\ DOMAIN t = 1 .. Len(t)
      /\ DOMAIN (a \o t) = 1 .. Len(a) + Len(t)
      /\ \A i \in 1 .. Len(a) : (a \o t)[i] = a[i]
      /\ \A i \in 1 .. Len(t) : (a \o t)[Len(a) + i] = t[i]
  BY Joining
<1>. SUFFICES ASSUME NEW k \in DOMAIN (a \o t), NEW i \in DOMAIN (a \o t), k < i
             PROVE  /\ (a \o t)[k].do \in {"Agt", "Dat", "Enm"} => (a \o t)[i].do \in {"push", "program"}
                    /\ (a \o t)[k].do \in {"top_level", "push", "program"} => (a \o t)[i].do = "program"
  BY DEF Ordered
<1>2. CASE k \in DOMAIN a
  <2>1. (a \o t)[k] = a[k] /\ a[k].do \notin Deciders BY <1>1, <1>2
  <2>. QED BY <2>1 DEF Deciders
<1>3. CASE k \notin DOMAIN a
  <2>1. PICK c, b : c = k - Len(a) /\ b = i - Len(a) OBVIOUS
  <2>2. c \in DOMAIN t /\ b \in DOMAIN t /\ c < b /\ k = Len(a) + c /\ i = Len(a) + b
    <3>1. k \in 1 .. Len(a) + Len(t) /\ i \in 1 .. Len(a) + Len(t) /\ k > Len(a) BY <1>1, <1>3
    <3>. QED BY <1>1, <2>1, <3>1
  <2>3. (a \o t)[k] = t[c] /\ (a \o t)[i] = t[b] BY <1>1, <2>2
  <2>. QED BY <2>2, <2>3 DEF Ordered
<1>. QED BY <1>2, <1>3

\* What is done before the loop of parse_program leaves it behind.
LEMMA FoundedOn ==
  ASSUME NEW s \in Seq(Tasks), Founded(s)
  PROVE  /\ Tail(s) \in Seq(Tasks)
         /\ Head(s).do # "program" => Tail(s) # <<>>
         /\ Tail(s) # <<>> => \A a \in Seq(Tasks) : Founded(a \o Tail(s))
<1>1. s # <<>> /\ s[Len(s)].do = "program" BY DEF Founded
<1>2. /\ Len(s) \in Nat \ {0} /\ Head(s) = s[1] /\ Tail(s) \in Seq(Tasks)
      /\ Len(Tail(s)) = Len(s) - 1 /\ \A i \in 1 .. Len(s) - 1 : Tail(s)[i] = s[i + 1]
  BY <1>1, HeadOf
<1>3. ASSUME Head(s).do # "program" PROVE Tail(s) # <<>>
  <2>1. Len(s) # 1 BY <1>1, <1>2, <1>3
  <2>2. PICK t : t = Tail(s) OBVIOUS
  <2>3. Len(t) = Len(s) - 1 BY <1>2, <2>2
  <2>4. Len(t) # 0 BY <1>2, <2>1, <2>3
  <2>5. t # <<>> BY <2>4
  <2>. QED BY <2>2, <2>5
<1>4. ASSUME Tail(s) # <<>>, NEW a \in Seq(Tasks) PROVE Founded(a \o Tail(s))
  <2>1. PICK t : t = Tail(s) OBVIOUS
  <2>2. t \in Seq(Tasks) /\ t # <<>> /\ Len(t) = Len(s) - 1 BY <1>2, <1>4, <2>1
  <2>3. Len(t) \in Nat \ {0} BY <2>2
  <2>4. t[Len(t)].do = "program" BY <1>1, <1>2, <2>1, <2>2, <2>3
  <2>5. /\ Len(a \o t) = Len(a) + Len(t) /\ Len(a) \in Nat
        /\ \A i \in 1 .. Len(t) : (a \o t)[Len(a) + i] = t[i]
    <3>1. a \in Seq(Tasks) /\ t \in Seq(Tasks) BY <1>4, <2>2
    <3>. QED BY ONLY <3>1, Joining
  <2>6. (a \o t)[Len(a \o t)] = t[Len(t)] BY <2>3, <2>5
  <2>7. a \o t # <<>> BY <2>2, <2>3, <2>5
  <2>. QED BY <2>1, <2>4, <2>6, <2>7 DEF Founded
<1>. QED BY <1>2, <1>3, <1>4

\* A parse function goes on with calm tasks, and the declaration grows: what was
\* paired remains so.
LEMMA PairedOn ==
  ASSUME NEW s, NEW n, StackOK(s, n), s # <<>>, Head(s).do # "drop", Head(s) # Mark("arm"),
         NEW a \in Seq(Calm), NEW kept \in Seq(Symbols)
  PROVE  Paired(a \o Tail(s), n \o kept)
<1>1. /\ s \in Seq(Tasks) /\ n \in Seq(Symbols) /\ Drops(s) <= ArmsIn(n)
  <2>1. s \in Seq(Tasks) /\ n \in Seq(Symbols) /\ Paired(s, n) BY DEF StackOK
  <2>2. ArmsIn(n) \in Nat /\ ArmsIn(n) + 0 = ArmsIn(n) BY <2>1, ArmsGrow
  <2>3. Drops(s) <= ArmsIn(n) + 0 BY <2>1 DEF Paired
  <2>. QED BY <2>1, <2>2, <2>3
<1>2. PICK t : t = Tail(s) OBVIOUS
<1>3. a \in Seq(Tasks) /\ Drops(a) = 0 BY CalmIsCalm
<1>4. Head(s) # Call("drop") BY DEF Call, Task
<1>5. Drops(s) = Drops(t) /\ Drops(t) \in Nat /\ t \in Seq(Tasks)
  <2>1. /\ Occurrences(s, Call("drop")) = Occurrences(Tail(s), Call("drop"))
                                           + (IF Head(s) = Call("drop") THEN 1 ELSE 0)
        /\ Occurrences(Tail(s), Call("drop")) \in Nat
    BY <1>1, OccurrencesTail
  <2>2. Tail(s) \in Seq(Tasks) BY <1>1
  <2>. QED BY <1>2, <1>4, <2>1, <2>2 DEF Drops
<1>6. Drops(a \o t) = Drops(a) + Drops(t) BY <1>3, <1>5, OccurrencesJoin DEF Drops
<1>7. /\ ArmsIn(n) \in Nat /\ ArmsIn(n \o kept) \in Nat /\ ArmsIn(n) <= ArmsIn(n \o kept)
  BY <1>1, ArmsGrow
<1>8. Drops(a \o t) <= ArmsIn(n \o kept) BY ONLY <1>1, <1>3, <1>5, <1>6, <1>7
<1>9. Paired(a \o t, n \o kept) BY <1>5, <1>3, <1>6, <1>7, <1>8 DEF Paired
<1>. QED BY <1>2, <1>9

\* The whole of it.
LEMMA Going ==
  ASSUME NEW s, NEW n, StackOK(s, n), s # <<>>, Tail(s) # <<>>,
         Head(s).do # "drop", Head(s) # Mark("arm"),
         NEW a \in Seq(Calm), NEW kept \in Seq(Symbols),
         n \o kept = <<>> => Begun(a \o Tail(s))
  PROVE  StackOK(a \o Tail(s), n \o kept)
<1>1. s \in Seq(Tasks) /\ n \in Seq(Symbols) /\ Ordered(s) /\ Founded(s) BY DEF StackOK
<1>2. a \in Seq(Tasks) BY CalmIsCalm
<1>3. a \o Tail(s) \in Seq(Tasks) /\ n \o kept \in Seq(Symbols) BY <1>1, <1>2
<1>4. Ordered(a \o Tail(s))
  <2>1. Tail(s) \in Seq(Tasks) /\ Ordered(Tail(s)) BY <1>1, OrderedTail
  <2>2. \A k \in DOMAIN a : a[k].do \notin Deciders BY CalmIsCalm
  <2>. QED BY <1>2, <2>1, <2>2, OrderedBehind
<1>5. Paired(a \o Tail(s), n \o kept) BY PairedOn
<1>6. Founded(a \o Tail(s)) BY <1>1, <1>2, FoundedOn
<1>. QED BY <1>3, <1>4, <1>5, <1>6 DEF StackOK

\* Inside of a declaration.
LEMMA GoingInside ==
  ASSUME NEW s, NEW n, StackOK(s, n), s # <<>>, Head(s).do # "drop",
         ~Early(Head(s)), ~Starter(Head(s)), Head(s) # Mark("arm"),
         NEW a \in Seq(Calm), NEW kept \in Seq(Symbols)
  PROVE  n # <<>> /\ StackOK(a \o Tail(s), n \o kept)
<1>1. s \in Seq(Tasks) /\ n \in Seq(Symbols) /\ (n = <<>> => Begun(s)) BY DEF StackOK
<1>2. n # <<>> BY <1>1, BegunEarly
<1>3. n \o kept # <<>> BY <1>1, <1>2
<1>4. Tail(s) # <<>>
  <2>1. s \in Seq(Tasks) /\ Founded(s) BY DEF StackOK
  <2>2. Head(s).do # "program" BY DEF Early
  <2>. QED BY <2>1, <2>2, FoundedOn
<1>. QED BY <1>2, <1>3, <1>4, Going

\* Before its first node, with what comes early too.
LEMMA GoingEarly ==
  ASSUME NEW s, NEW n, StackOK(s, n), s # <<>>, Tail(s) # <<>>, Head(s).do # "drop", ~Starter(Head(s)),
         Head(s) # Mark("arm"),
         NEW a \in Seq(Calm), \A i \in DOMAIN a : Early(a[i]), NEW kept \in Seq(Symbols)
  PROVE  StackOK(a \o Tail(s), n \o kept)
<1>1. s \in Seq(Tasks) /\ n \in Seq(Symbols) /\ (n = <<>> => Begun(s)) BY DEF StackOK
<1>2. ASSUME n \o kept = <<>> PROVE Begun(a \o Tail(s))
  <2>1. n = <<>> BY <1>1, <1>2
  <2>2. Begun(Tail(s)) /\ Tail(s) \in Seq(Tasks) BY <1>1, <2>1, BegunEarly
  <2>3. a \in Seq(Tasks) BY CalmIsCalm
  <2>. QED BY <2>2, <2>3, BegunMore
<1>. QED BY <1>2, Going

\* At it.
LEMMA GoingBegun ==
  ASSUME NEW s, NEW n, StackOK(s, n), s # <<>>, Tail(s) # <<>>,
         Head(s).do # "drop", Head(s) # Mark("arm"),
         NEW a \in Seq(Calm), NEW j \in 1 .. Len(a), Starter(a[j]), \A i \in 1 .. j - 1 : Early(a[i]),
         NEW kept \in Seq(Symbols)
  PROVE  StackOK(a \o Tail(s), n \o kept)
<1>1. s \in Seq(Tasks) BY DEF StackOK
<1>2. a \in Seq(Tasks) /\ Tail(s) \in Seq(Tasks) BY <1>1, CalmIsCalm
<1>3. Begun(a \o Tail(s)) BY <1>2, BegunWith
<1>. QED BY <1>3, Going

\* Behind a declaration that ends comes the program alone.
LEMMA Closing ==
  ASSUME NEW s, NEW n, StackOK(s, n), s # <<>>, Head(s).do \in {"top_level", "push", "program"}
  PROVE  /\ Tail(s) \in Seq(Tasks)
         /\ \A i \in DOMAIN Tail(s) : Tail(s)[i].do = "program" /\ Early(Tail(s)[i])
         /\ Drops(Tail(s)) = 0 /\ Begun(Tail(s))
<1>1. /\ s \in Seq(Tasks) /\ Ordered(s) BY DEF StackOK
<1>2. /\ Len(s) \in Nat \ {0} /\ DOMAIN s = 1 .. Len(s) /\ Head(s) = s[1] /\ Tail(s) \in Seq(Tasks)
      /\ Len(Tail(s)) = Len(s) - 1 /\ DOMAIN Tail(s) = 1 .. Len(s) - 1
      /\ \A i \in 1 .. Len(s) - 1 : Tail(s)[i] = s[i + 1]
  BY <1>1, HeadOf
<1>3. ASSUME NEW i \in DOMAIN Tail(s) PROVE Tail(s)[i].do = "program" /\ Early(Tail(s)[i])
  <2>1. 1 \in DOMAIN s /\ i + 1 \in DOMAIN s /\ 1 < i + 1 /\ Tail(s)[i] = s[i + 1] BY <1>2
  <2>2. s[i + 1].do = "program" BY <1>1, <1>2, <2>1 DEF Ordered
  <2>. QED BY <2>1, <2>2 DEF Early
<1>4. \A i \in DOMAIN Tail(s) : Tail(s)[i] # Call("drop") BY <1>3 DEF Call, Task
<1>5. Drops(Tail(s)) = 0 BY <1>4, NoOccurrence DEF Drops
<1>6. Begun(Tail(s))
  <2>1. Len(Tail(s)) \in 0 .. Len(Tail(s)) BY <1>2
  <2>2. PICK l : l = Len(Tail(s)) OBVIOUS
  <2>3. l \in Nat /\ ~(l < l) /\ DOMAIN Tail(s) = 1 .. l BY <1>2, <2>2
  <2>4. \A i \in 1 .. l : Early(Tail(s)[i]) BY <1>3, <2>3
  <2>5. BegunAt(Tail(s), l) BY <2>3, <2>4 DEF BegunAt
  <2>. QED BY <2>1, <2>2, <2>5 DEF Begun
<1>. QED BY <1>2, <1>3, <1>5, <1>6

\* What a program is made of: imports, annotations and declarations.
Continues(x, y) ==
  /\ x.do \notin {"drop", "push", "program"} /\ x # Mark("arm")
  /\ Early(x) \/ Starter(x)
  /\ y.do \in {"push", "program"} \/ (y.do = "top_level" /\ x.do \notin Deciders)
  /\ y.do = "push" => Starter(x)
  /\ y.do # "push" => Early(x)
  /\ x.do = "top_level" => y.do = "program"

\* One of them is begun, and then the program goes on.
LEMMA GoingOn ==
  ASSUME NEW s, NEW n, StackOK(s, n), s # <<>>, Head(s).do \in {"top_level", "program"},
         NEW x \in Tasks, NEW y \in Tasks, Continues(x, y),
         Head(s).do = "program" => y.do = "program"
  PROVE  StackOK(<<x, y>> \o Tail(s), n)
<1>. USE DEF Continues
<1>1. PICK t : t = Tail(s) OBVIOUS
<1>2. /\ t \in Seq(Tasks) /\ Drops(t) = 0 /\ Begun(t)
      /\ \A i \in DOMAIN t : t[i].do = "program"
  BY <1>1, Closing
<1>3. PICK a : a = <<x, y>> OBVIOUS
<1>4. a \in Seq(Tasks) /\ Len(a) = 2 /\ DOMAIN a = {1, 2} /\ a[1] = x /\ a[2] = y BY <1>3
<1>5. /\ a \o t \in Seq(Tasks) /\ Len(t) \in Nat
      /\ DOMAIN t = 1 .. Len(t)
      /\ DOMAIN (a \o t) = 1 .. 2 + Len(t)
      /\ (a \o t)[1] = x /\ (a \o t)[2] = y
      /\ \A i \in 1 .. Len(t) : (a \o t)[2 + i] = t[i]
  <2>1. /\ a \o t \in Seq(Tasks) /\ Len(t) \in Nat
        /\ DOMAIN t = 1 .. Len(t) /\ DOMAIN a = 1 .. Len(a)
        /\ DOMAIN (a \o t) = 1 .. Len(a) + Len(t)
        /\ \A i \in 1 .. Len(a) : (a \o t)[i] = a[i]
        /\ \A i \in 1 .. Len(t) : (a \o t)[Len(a) + i] = t[i]
    <3>1. a \in Seq(Tasks) /\ t \in Seq(Tasks) BY <1>2, <1>4
    <3>. QED BY ONLY <3>1, Joining
  <2>. QED BY <1>4, <2>1
<1>6. \A i \in DOMAIN (a \o t) : i > 2 => (a \o t)[i].do = "program"
  <2>. SUFFICES ASSUME NEW i \in DOMAIN (a \o t), i > 2 PROVE (a \o t)[i].do = "program" OBVIOUS
  <2>1. i - 2 \in DOMAIN t /\ i = 2 + (i - 2) BY <1>5
  <2>2. (a \o t)[2 + (i - 2)] = t[i - 2] BY <1>5, <2>1
  <2>. QED BY <1>2, <2>1, <2>2
<1>7. Ordered(a \o t)
  <2>. SUFFICES ASSUME NEW k \in DOMAIN (a \o t), NEW i \in DOMAIN (a \o t), k < i
               PROVE  /\ (a \o t)[k].do \in {"Agt", "Dat", "Enm"} => (a \o t)[i].do \in {"push", "program"}
                      /\ (a \o t)[k].do \in {"top_level", "push", "program"} => (a \o t)[i].do = "program"
    BY DEF Ordered
  <2>1. CASE i > 2 BY <1>6, <2>1
  <2>2. CASE ~(i > 2)
    <3>1. k = 1 /\ i = 2 BY <1>5, <2>2
    <3>. QED BY <1>5, <3>1 DEF Deciders
  <2>. QED BY <2>1, <2>2
<1>8. Begun(a \o t)
  <2>1. CASE Starter(x)
    <3>1. 1 \in 1 .. Len(a) /\ Starter(a[1]) /\ \A i \in 1 .. 1 - 1 : Early(a[i]) BY <1>4, <2>1
    <3>. QED BY <1>2, <1>4, <3>1, BegunWith
  <2>2. CASE ~Starter(x)
    <3>1. Early(x) /\ Early(y) BY <2>2 DEF Early
    <3>2. \A i \in DOMAIN a : Early(a[i]) BY <1>4, <3>1
    <3>. QED BY <1>2, <1>4, <3>2, BegunMore
  <2>. QED BY <2>1, <2>2
<1>9. Paired(a \o t, n)
  <2>1. \A i \in DOMAIN a : a[i] # Call("drop") BY <1>4 DEF Call, Task
  <2>2. Drops(a \o t) = 0
    <3>1. Drops(a) = 0 BY <2>1, NoOccurrence DEF Drops
    <3>2. Drops(a \o t) = Drops(a) + Drops(t) BY <1>2, <1>4, OccurrencesJoin DEF Drops
    <3>. QED BY <1>2, <3>1, <3>2
  <2>3. ArmsIn(n) \in Nat BY ArmsGrow DEF StackOK
  <2>. QED BY <2>2, <2>3 DEF Paired
<1>10. n \in Seq(Symbols) BY DEF StackOK
<1>11. Founded(a \o t)
  <2>1. s \in Seq(Tasks) /\ Founded(s) BY DEF StackOK
  <2>2. CASE t # <<>> BY <1>1, <1>4, <2>1, <2>2, FoundedOn
  <2>3. CASE t = <<>>
    <3>1. y.do = "program" BY <1>1, <2>1, <2>3, FoundedOn
    <3>2. a \o t = a BY <1>4, <2>3
    <3>3. a # <<>> /\ a[Len(a)] = y
      <4>1. Len(a) = 2 /\ a[2] = y BY <1>4
      <4>2. a # <<>> BY <4>1
      <4>. QED BY <4>1, <4>2
    <3>. QED BY <3>1, <3>2, <3>3 DEF Founded
  <2>. QED BY <2>2, <2>3
<1>. QED BY <1>1, <1>3, <1>5, <1>7, <1>8, <1>9, <1>10, <1>11 DEF StackOK

\* Nothing is left of a declaration that throws.
LEMMA Thrown == StackOK(<<Call("synchronize"), Call("program")>>, <<>>)
<1>1. PICK a : a = <<Call("synchronize"), Call("program")>> OBVIOUS
<1>2. /\ Call("synchronize") \in Tasks /\ Call("program") \in Tasks
      /\ Call("synchronize").do = "synchronize" /\ Call("program").do = "program"
  BY DEF Call, Task, Tasks, Around, Deciders, Others
<1>3. /\ a \in Seq(Tasks) /\ Len(a) = 2 /\ DOMAIN a = {1, 2}
      /\ a[1].do = "synchronize" /\ a[2].do = "program"
  BY <1>1, <1>2
<1>4. Ordered(a)
  <2>. SUFFICES ASSUME NEW k \in DOMAIN a, NEW i \in DOMAIN a, k < i
               PROVE  /\ a[k].do \in {"Agt", "Dat", "Enm"} => a[i].do \in {"push", "program"}
                      /\ a[k].do \in {"top_level", "push", "program"} => a[i].do = "program"
    BY DEF Ordered
  <2>. QED BY <1>3
<1>5. Begun(a)
  <2>1. 2 \in 0 .. Len(a) BY <1>3
  <2>2. \A i \in 1 .. 2 : Early(a[i]) BY <1>3 DEF Early
  <2>3. BegunAt(a, 2) BY <1>3, <2>2 DEF BegunAt
  <2>. QED BY <2>1, <2>3 DEF Begun
<1>6. Drops(a) = 0
  <2>1. \A i \in DOMAIN a : a[i] # Call("drop") BY <1>3 DEF Call, Task
  <2>. QED BY <2>1, NoOccurrence DEF Drops
<1>7. Paired(a, <<>>) BY <1>6 DEF Paired, ArmsIn
<1>8. Founded(a) BY <1>3 DEF Founded
<1>. QED BY <1>1, <1>3, <1>4, <1>5, <1>7, <1>8 DEF StackOK

\* A declaration that is pushed is none that is empty.
LEMMA Pushed ==
  ASSUME NEW s, NEW n, StackOK(s, n), s # <<>>, Head(s).do = "push"
  PROVE  n \in Seq(Symbols) \ {<<>>} /\ StackOK(Tail(s), <<>>)
<1>1. s \in Seq(Tasks) /\ n \in Seq(Symbols) /\ Ordered(s) /\ (n = <<>> => Begun(s)) BY DEF StackOK
<1>2. ~Early(Head(s)) /\ ~Starter(Head(s)) BY DEF Early, Starter
<1>3. n # <<>> BY <1>1, <1>2, BegunEarly
<1>4. Tail(s) \in Seq(Tasks) /\ Drops(Tail(s)) = 0 /\ Begun(Tail(s)) BY Closing
<1>6. Ordered(Tail(s)) BY <1>1, OrderedTail
<1>7. Paired(Tail(s), <<>>) BY <1>4 DEF Paired, ArmsIn
<1>8. Founded(Tail(s))
  <2>1. s \in Seq(Tasks) /\ Founded(s) BY DEF StackOK
  <2>2. Head(s).do # "program" BY DEF Mark, Task
  <2>3. <<>> \in Seq(Tasks) /\ <<>> \o Tail(s) = Tail(s) BY <1>4
  <2>4. Founded(<<>> \o Tail(s)) BY <2>1, <2>2, <2>3, FoundedOn
  <2>. QED BY <2>3, <2>4
<1>. QED BY <1>1, <1>3, <1>4, <1>6, <1>7, <1>8 DEF StackOK

\* The annotations before a Dat or an Enm are dropped, and no arm with them.
LEMMA Restarted ==
  ASSUME NEW s, NEW n, StackOK(s, n), s # <<>>, Head(s).do \in {"Dat", "Enm"},
         NEW a \in Seq(Calm), NEW j \in 1 .. Len(a), Starter(a[j]), \A i \in 1 .. j - 1 : Early(a[i])
  PROVE  StackOK(a \o Tail(s), <<>>)
<1>1. /\ s \in Seq(Tasks) /\ Ordered(s) BY DEF StackOK
<1>2. /\ Len(s) \in Nat \ {0} /\ DOMAIN s = 1 .. Len(s) /\ Head(s) = s[1] /\ Tail(s) \in Seq(Tasks)
      /\ Len(Tail(s)) = Len(s) - 1 /\ DOMAIN Tail(s) = 1 .. Len(s) - 1
      /\ \A i \in 1 .. Len(s) - 1 : Tail(s)[i] = s[i + 1]
  BY <1>1, HeadOf
<1>3. a \in Seq(Tasks) /\ Drops(a) = 0 BY CalmIsCalm
<1>4. ASSUME NEW i \in DOMAIN Tail(s) PROVE Tail(s)[i] # Call("drop")
  <2>1. 1 \in DOMAIN s /\ i + 1 \in DOMAIN s /\ 1 < i + 1 /\ Tail(s)[i] = s[i + 1] BY <1>2
  <2>2. s[i + 1].do \in {"push", "program"} BY <1>1, <1>2, <2>1 DEF Ordered
  <2>. QED BY <2>1, <2>2 DEF Call, Task
<1>5. Drops(Tail(s)) = 0 BY <1>4, NoOccurrence DEF Drops
<1>6. Drops(a \o Tail(s)) = Drops(a) + Drops(Tail(s))
  <2>1. PICK t : t = Tail(s) OBVIOUS
  <2>2. a \in Seq(Tasks) /\ t \in Seq(Tasks) BY <1>2, <1>3, <2>1
  <2>3. Drops(a \o t) = Drops(a) + Drops(t) BY ONLY <2>2, OccurrencesJoin DEF Drops
  <2>. QED BY <2>1, <2>3
<1>7. Drops(a \o Tail(s)) = 0 BY <1>3, <1>5, <1>6
<1>8. Paired(a \o Tail(s), <<>>) BY <1>7 DEF Paired, ArmsIn
<1>9. Begun(a \o Tail(s)) BY <1>2, <1>3, BegunWith
<1>10. Ordered(a \o Tail(s))
  <2>1. Tail(s) \in Seq(Tasks) /\ Ordered(Tail(s)) BY <1>1, OrderedTail
  <2>2. \A k \in DOMAIN a : a[k].do \notin Deciders BY CalmIsCalm
  <2>. QED BY <1>3, <2>1, <2>2, OrderedBehind
<1>11. a \o Tail(s) \in Seq(Tasks) BY <1>2, <1>3
<1>12. Founded(a \o Tail(s))
  <2>1. Founded(s) BY DEF StackOK
  <2>. QED BY <1>1, <1>3, <2>1, FoundedOn
<1>. QED BY <1>8, <1>9, <1>10, <1>11, <1>12 DEF StackOK

\* An arm begins, and is to be dropped.
LEMMA ArmComes ==
  ASSUME NEW s, NEW n, StackOK(s, n), s # <<>>, Head(s).do = "arm"
  PROVE  StackOK(<<Mark("arm"), Call("block"), Call("drop")>> \o Tail(s), n)
<1>1. s \in Seq(Tasks) /\ n \in Seq(Symbols) /\ Ordered(s) /\ (n = <<>> => Begun(s)) /\ Paired(s, n)
  BY DEF StackOK
<1>2. /\ ~Early(Head(s)) /\ ~Starter(Head(s)) /\ Head(s) # Mark("arm") /\ Head(s) # Call("drop")
  BY DEF Early, Starter, Mark, Call, Task
<1>3. n # <<>> BY <1>1, <1>2, BegunEarly
<1>4. PICK t : t = Tail(s) OBVIOUS
<1>5. PICK a : a = <<Mark("arm"), Call("block"), Call("drop")>> OBVIOUS
<1>6. /\ Call("drop") \in Tasks /\ Mark("arm") \in Tasks /\ Call("block") \in Tasks
  <2>1. Mark("arm") \in Flat /\ Call("block") \in Flat
    <3>1. "arm" \in Symbols /\ "block" \in Doers \ {"mark"} BY DEF Symbols, Kinds, Doers
    <3>. QED BY <3>1, FlatTasks
  <2>2. Call("drop") \in Tasks BY DEF Call, Task, Tasks, Around, Others
  <2>. QED BY <2>1, <2>2, Levels
<1>7. /\ Call("drop").do = "drop" /\ Mark("arm").do = "mark" /\ Call("block").do = "block"
  BY DEF Call, Task, Mark
<1>8. /\ a \in Seq(Tasks) /\ DOMAIN a = {1, 2, 3}
      /\ a[1] = Mark("arm") /\ a[2] = Call("block") /\ a[3] = Call("drop")
  BY <1>5, <1>6
<1>9. t \in Seq(Tasks) /\ Ordered(t) BY <1>1, <1>4, OrderedTail
<1>10. \A k \in DOMAIN a : a[k].do \notin Deciders BY <1>7, <1>8 DEF Deciders
<1>11. Ordered(a \o t) BY <1>8, <1>9, <1>10, OrderedBehind
<1>12. a \o t \in Seq(Tasks) /\ a \o t # <<>> /\ Head(a \o t) = Mark("arm") BY <1>5, <1>6, <1>8, <1>9
<1>13. Paired(a \o t, n)
  <2>1. Drops(a) = 1
    <3>1. {i \in DOMAIN a : a[i] = Call("drop")} = {3} BY <1>7, <1>8
    <3>. QED BY <3>1, FS_Singleton DEF Drops, Occurrences
  <2>2. Drops(a \o t) = Drops(a) + Drops(t) BY <1>8, <1>9, OccurrencesJoin DEF Drops
  <2>3. Drops(s) = Drops(t) /\ Drops(t) \in Nat
    <3>1. /\ Occurrences(s, Call("drop")) = Occurrences(Tail(s), Call("drop"))
                                             + (IF Head(s) = Call("drop") THEN 1 ELSE 0)
          /\ Occurrences(Tail(s), Call("drop")) \in Nat
      BY <1>1, OccurrencesTail
    <3>. QED BY <1>2, <1>4, <3>1 DEF Drops
  <2>4. ArmsIn(n) \in Nat BY <1>1, ArmsGrow
  <2>5. Drops(s) <= ArmsIn(n) + 0 BY <1>1, <1>2 DEF Paired
  <2>6. Drops(a \o t) <= ArmsIn(n) + 1 BY ONLY <2>1, <2>2, <2>3, <2>4, <2>5
  <2>. QED BY <1>12, <2>6 DEF Paired
<1>14. Founded(a \o t)
  <2>1. Founded(s) BY DEF StackOK
  <2>. QED BY <1>1, <1>4, <1>8, <2>1, FoundedOn
<1>. QED BY <1>1, <1>3, <1>4, <1>5, <1>11, <1>12, <1>13, <1>14 DEF StackOK

\* It is marked.
LEMMA ArmMarked ==
  ASSUME NEW s, NEW n, StackOK(s, n), s # <<>>, Head(s) = Mark("arm")
  PROVE  StackOK(Tail(s), Append(n, "arm"))
<1>1. s \in Seq(Tasks) /\ n \in Seq(Symbols) /\ Ordered(s) /\ (n = <<>> => Begun(s)) /\ Paired(s, n)
  BY DEF StackOK
<1>2. /\ ~Early(Head(s)) /\ ~Starter(Head(s)) /\ Head(s) # Call("drop")
  BY DEF Early, Starter, Mark, Call, Task
<1>3. n # <<>> BY <1>1, <1>2, BegunEarly
<1>4. Tail(s) \in Seq(Tasks) /\ Ordered(Tail(s)) BY <1>1, OrderedTail
<1>5. "arm" \in Symbols BY DEF Symbols, Kinds
<1>6. Append(n, "arm") \in Seq(Symbols) /\ Append(n, "arm") # <<>> BY <1>1, <1>5
<1>7. ArmsIn(Append(n, "arm")) = ArmsIn(n) + 1 /\ ArmsIn(n) \in Nat BY <1>1, <1>3, ArmsGrow
<1>8. Drops(s) = Drops(Tail(s)) /\ Drops(Tail(s)) \in Nat
  <2>1. /\ Occurrences(s, Call("drop")) = Occurrences(Tail(s), Call("drop"))
                                           + (IF Head(s) = Call("drop") THEN 1 ELSE 0)
        /\ Occurrences(Tail(s), Call("drop")) \in Nat
    BY <1>1, OccurrencesTail
  <2>. QED BY <1>2, <2>1 DEF Drops
<1>9. Drops(s) <= ArmsIn(n) + 1 BY <1>1 DEF Paired
<1>10. Drops(Tail(s)) <= ArmsIn(Append(n, "arm")) BY <1>7, <1>8, <1>9
<1>11. Paired(Tail(s), Append(n, "arm")) BY <1>6, <1>7, <1>8, <1>10 DEF Paired
<1>12. Founded(Tail(s))
  <2>1. s \in Seq(Tasks) /\ Founded(s) BY DEF StackOK
  <2>2. Head(s).do # "program" BY DEF Mark, Task
  <2>3. <<>> \in Seq(Tasks) /\ <<>> \o Tail(s) = Tail(s) BY <1>4
  <2>4. Founded(<<>> \o Tail(s)) BY <2>1, <2>2, <2>3, FoundedOn
  <2>. QED BY <2>3, <2>4
<1>. QED BY <1>4, <1>6, <1>11, <1>12 DEF StackOK

\* It is dropped: the last arm is behind the first node.
LEMMA ArmDropped ==
  ASSUME NEW s, NEW n, StackOK(s, n), s # <<>>, Head(s).do = "drop",
         NEW m, m = SelectLastInSeq(n, LAMBDA t : t = "arm")
  PROVE  StackOK(Tail(s), SubSeq(n, 1, m - 1)) /\ m \in 2 .. Len(n) /\ n[m] = "arm"
<1>1. s \in Seq(Tasks) /\ n \in Seq(Symbols) /\ Ordered(s) /\ (n = <<>> => Begun(s)) /\ Paired(s, n)
  BY DEF StackOK
<1>2. Head(s) = Call("drop") /\ Head(s) # Mark("arm")
  <2>1. Head(s) \in Tasks BY <1>1
  <2>2. Head(s) \in Around
    <3>1. \A t \in Inside : t.do \in Doers BY DEF Inside, TasksOf
    <3>2. "drop" \notin Doers BY DEF Doers
    <3>. QED BY <2>1, <3>1, <3>2 DEF Tasks
  <2>3. Head(s).of = {} /\ Head(s).then = <<>> BY <2>2 DEF Around
  <2>. QED BY <2>2, <2>3 DEF Around, Call, Mark, Task
<1>3. Drops(s) = Drops(Tail(s)) + 1 /\ Drops(Tail(s)) \in Nat
  <2>1. /\ Occurrences(s, Call("drop")) = Occurrences(Tail(s), Call("drop"))
                                           + (IF Head(s) = Call("drop") THEN 1 ELSE 0)
        /\ Occurrences(Tail(s), Call("drop")) \in Nat
    BY <1>1, OccurrencesTail
  <2>. QED BY <1>2, <2>1 DEF Drops
<1>4. ArmsIn(n) \in Nat BY <1>1, ArmsGrow
<1>5. Drops(s) <= ArmsIn(n) + 0 BY <1>1, <1>2 DEF Paired
<1>6. ArmsIn(n) >= Drops(Tail(s)) + 1 /\ ArmsIn(n) # 0 BY <1>3, <1>4, <1>5
<1>7. n # <<>> BY <1>6 DEF ArmsIn
<1>8. PICK u : u = Tail(n) OBVIOUS
<1>9. /\ u \in Seq(Symbols) /\ Len(n) \in Nat \ {0} /\ DOMAIN n = 1 .. Len(n)
      /\ Len(u) = Len(n) - 1 /\ DOMAIN u = 1 .. Len(n) - 1
      /\ \A i \in 1 .. Len(n) - 1 : u[i] = n[i + 1]
  BY <1>1, <1>7, <1>8, HeadOf
<1>. DEFINE A == {i \in DOMAIN u : u[i] = "arm"}
            I == {i \in 1 .. Len(n) : n[i] = "arm"}
<1>10. ArmsIn(n) = Cardinality(A) /\ IsFiniteSet(A)
  <2>1. ArmsIn(n) = Occurrences(u, "arm") BY <1>7, <1>8 DEF ArmsIn
  <2>2. IsFiniteSet(A) BY <1>9, OccurrencesFinite
  <2>. QED BY <2>1, <2>2 DEF Occurrences
<1>11. A # {} BY <1>6, <1>10, FS_EmptySet
<1>12. I # {} /\ I \in SUBSET (1 .. Len(n))
  <2>1. PICK i \in A : TRUE BY <1>11
  <2>2. i + 1 \in I BY <1>9, <2>1
  <2>. QED BY <2>2
<1>13. m \in I /\ \A k \in I : k <= m
  <2>1. m = CHOOSE j \in I : \A k \in I : k <= j
    BY <1>12 DEF SelectLastInSeq, Max
  <2>. QED BY <1>9, <1>12, <2>1, GreatestPosition
<1>14. m - 1 \in A /\ m > 1
  <2>1. PICK i \in A : TRUE BY <1>11
  <2>2. i + 1 \in I /\ i \in Nat \ {0} BY <1>9, <2>1
  <2>3. m \in Nat /\ i + 1 <= m /\ m <= Len(n) /\ n[m] = "arm" BY <1>13, <2>2
  <2>4. m - 1 \in 1 .. Len(n) - 1 /\ (m - 1) + 1 = m BY <1>9, <2>2, <2>3
  <2>. QED BY <1>9, <2>3, <2>4
<1>15. PICK p : p = SubSeq(n, 1, m - 1) OBVIOUS
<1>16. /\ p \in Seq(Symbols) /\ Len(p) = m - 1 /\ p # <<>>
       /\ \A i \in 1 .. m - 1 : p[i] = n[i]
  <2>1. m \in Nat /\ m <= Len(n) /\ m > 1 BY <1>13, <1>14
  <2>2. 1 \in 1 .. Len(n) + 1 /\ m - 1 \in 0 .. Len(n) /\ m - 1 \in Nat BY <1>9, <2>1
  <2>. QED BY <1>1, <1>15, <2>1, <2>2, SubSeqProperties
<1>17. /\ Tail(p) \in Seq(Symbols) /\ DOMAIN Tail(p) = 1 .. m - 2
       /\ \A i \in 1 .. m - 2 : Tail(p)[i] = n[i + 1]
  <2>1. /\ Tail(p) \in Seq(Symbols) /\ DOMAIN Tail(p) = 1 .. (m - 1) - 1
        /\ \A i \in 1 .. (m - 1) - 1 : Tail(p)[i] = p[i + 1]
    BY <1>16, HeadOf
  <2>2. m \in Nat /\ m > 1 BY <1>13, <1>14
  <2>3. (m - 1) - 1 = m - 2 BY <2>2
  <2>4. ASSUME NEW i \in 1 .. m - 2 PROVE Tail(p)[i] = n[i + 1]
    <3>1. i + 1 \in 1 .. m - 1 BY <2>2
    <3>2. p[i + 1] = n[i + 1] BY <1>16, <3>1
    <3>. QED BY <2>1, <2>3, <3>2
  <2>. QED BY <2>1, <2>3, <2>4
<1>18. {i \in DOMAIN Tail(p) : Tail(p)[i] = "arm"} = A \ {m - 1}
  <2>1. m \in Nat /\ m > 1 /\ m <= Len(n) BY <1>13, <1>14
  <2>2. ASSUME NEW i \in A \ {m - 1} PROVE i \in 1 .. m - 2
    <3>1. i \in 1 .. Len(n) - 1 /\ i + 1 \in I BY <1>9
    <3>2. i + 1 <= m BY <1>13, <3>1
    <3>. QED BY <2>1, <3>1, <3>2
  <2>3. \A i \in 1 .. m - 2 : i \in 1 .. Len(n) - 1 /\ i # m - 1 BY <1>9, <2>1
  <2>. QED BY <1>9, <1>17, <2>2, <2>3
<1>19. ArmsIn(p) = ArmsIn(n) - 1
  <2>1. ArmsIn(p) = Cardinality(A \ {m - 1}) BY <1>16, <1>18 DEF ArmsIn, Occurrences
  <2>. HIDE DEF A
  <2>2. Cardinality(A \ {m - 1}) = Cardinality(A) - 1 BY <1>10, <1>14, FS_RemoveElement
  <2>. QED BY <1>10, <2>1, <2>2
<1>20. Drops(Tail(s)) <= ArmsIn(p) BY <1>3, <1>4, <1>6, <1>19
<1>21. ArmsIn(p) \in Nat BY <1>16, ArmsGrow
<1>22. Paired(Tail(s), p) BY <1>3, <1>20, <1>21 DEF Paired
<1>23. Tail(s) \in Seq(Tasks) /\ Ordered(Tail(s)) BY <1>1, OrderedTail
<1>24. m \in 2 .. Len(n) /\ n[m] = "arm" BY <1>9, <1>13, <1>14
<1>25. Founded(Tail(s))
  <2>1. s \in Seq(Tasks) /\ Founded(s) BY DEF StackOK
  <2>2. <<>> \in Seq(Tasks) /\ <<>> \o Tail(s) = Tail(s) BY <1>23
  <2>3. Founded(<<>> \o Tail(s)) BY <2>1, <2>2, FoundedOn
  <2>. QED BY <2>2, <2>3
<1>. QED BY <1>15, <1>16, <1>22, <1>23, <1>24, <1>25 DEF StackOK

-----------------------------------------------------------------------------
(* What each parse function leaves to do.                                   *)

\* The tokens that are expected, and the kinds of nodes.
LEMMA Signs ==
  /\ \A x \in {"+>", ";", "#[", "]", "(", ")", ":", "fn", "->", "{", "}", "<", ">", ",", "=", "<-",
               "$", "|", "!", "::", "?r", "?", "?p"} : x \in Symbols
  /\ \A x \in Kinds : x \in Symbols
  /\ Names \subseteq Symbols /\ Ints \subseteq Symbols /\ Floats \subseteq Symbols
  /\ Strings \subseteq Symbols /\ Literals \subseteq Symbols
<1>1. \A x \in {"+>", "#[", "->", "::", "<-"} : x \in Symbols BY DEF Symbols, Pairs
<1>2. \A x \in {";", "]", "(", ")", ":", "{", "}", "<", ">", ",", "=", "$", "|", "!"} : x \in Symbols
  BY DEF Symbols, Singles
<1>3. \A x \in {"fn", "?r", "?", "?p"} : x \in Symbols BY DEF Symbols, Words
<1>4. /\ Names \subseteq Symbols /\ Literals \subseteq Symbols BY DEF Symbols, Words
<1>5. /\ Ints \subseteq Symbols /\ Floats \subseteq Symbols /\ Strings \subseteq Symbols
  BY <1>4 DEF Literals
<1>6. \A x \in Kinds : x \in Symbols BY DEF Symbols
<1>. QED BY <1>1, <1>2, <1>3, <1>4, <1>5, <1>6

\* The current token is one.
LEMMA TokensAreSymbols ==
  ASSUME tokens \in Seq(Symbols)
  PROVE  Current \in Symbols /\ \A k \in Nat : Peek(k) \in Symbols
<1>1. "eof" \in Symbols BY DEF Symbols
<1>2. \A k \in Nat : Peek(k) \in Symbols BY <1>1 DEF Peek
<1>. QED BY <1>2 DEF Current

\* The simple parts.
LEMMA Parts ==
  /\ \A x \in {"+>", ";", "#[", "]", "(", ")", ":", "fn", "->", "{", "}", "<", ">", ",", "=", "<-",
               "$", "|", "!", "::"} : Expect({x}) \in Flat /\ Match({x}) \in Flat /\ Until({x}) \in Flat
  /\ Take(Names) \in Flat /\ Take(Ints) \in Flat /\ Take(Strings) \in Flat
  /\ Number(Ints) \in Flat /\ Number(Floats) \in Flat
  /\ \A x \in Literals : Number({x}) \in Flat
  /\ \A x \in Kinds : Mark(x) \in Flat
  /\ \A x \in Symbols : Mark(x) \in Flat
  /\ Skip \in Flat /\ Keep \in Flat /\ \A n : Infix(n) \in Flat
  /\ \A f \in {"block_of_annotations", "annotation", "fn", "named", "body", "params", "param", "inner",
               "type", "primary_type", "binding", "arm", "stmt", "block", "stmts",
               "no_arguments", "unary", "field", "primary", "arguments", "payload", "agent_name"} :
       Call(f) \in Flat
<1>1. \A x \in {"+>", ";", "#[", "]", "(", ")", ":", "fn", "->", "{", "}", "<", ">", ",", "=", "<-",
                "$", "|", "!", "::"} : {x} \in SUBSET Symbols BY Signs
<1>2. \A x \in Literals : {x} \in SUBSET Symbols BY Signs
<1>3. \A f \in {"block_of_annotations", "annotation", "fn", "named", "body", "params", "param", "inner",
                "type", "primary_type", "binding", "arm", "stmt", "block", "stmts",
                "no_arguments", "unary", "field", "primary", "arguments", "payload", "agent_name"} :
       f \in Doers \ {"mark"} BY DEF Doers
<1>. QED BY <1>1, <1>2, <1>3, Signs, FlatTasks

\* Those that loop or choose.
LEMMA LoopParts ==
  /\ While({"fn", "#["}, <<Skip>>) \in Nested
  /\ While({"]"}, <<Call("annotation")>>) \in Nested
  /\ While({"}"}, <<Call("field")>>) \in Nested
  /\ While({"}"}, <<Take(Names), Expect({":"}), Call("type"), Match({";"}), Match({","})>>) \in Nested
  /\ Variants \in Listing /\ Arms \in Nested
  /\ Flags \in Nested /\ CostList \in Listing
  /\ List({","}, <<Call("param")>>) \in Nested /\ List({","}, Expression) \in Nested
  /\ If({":"}, <<Number(Ints)>>) \in Nested
  /\ If({":"}, <<Call("type")>>) \in Nested
  /\ If({":"}, <<Mark("else"), Call("block")>>) \in Nested
  /\ If({"?r", "?", "?p"}, <<Call("primary_type"), Mark("result")>>) \in Nested
  /\ If({"<"}, <<Number(Ints), Expect({">"})>>) \in Nested
  /\ If({"!"}, <<Mark("!")>>) \in Nested
  /\ If({"::"}, <<Mark("::"), Keep>>) \in Nested
  /\ If({"("}, <<Expect({")"})>>) \in Nested
  /\ If({"("}, <<List({","}, Expression), Expect({")"}), Mark("call")>>) \in Listing
  /\ Selected \in Nested /\ Skipped("{", "}") \in Nested /\ Skipped("(", ")") \in Nested
<1>1. /\ {"fn", "#["} \in SUBSET Symbols /\ {"]"} \in SUBSET Symbols /\ {"}"} \in SUBSET Symbols
      /\ {","} \in SUBSET Symbols /\ {":"} \in SUBSET Symbols /\ {"?r", "?", "?p"} \in SUBSET Symbols
      /\ {"<"} \in SUBSET Symbols /\ {"!"} \in SUBSET Symbols /\ {"::"} \in SUBSET Symbols
      /\ {"("} \in SUBSET Symbols /\ {"{"} \in SUBSET Symbols /\ {"|"} \in SUBSET Symbols
  BY Signs
<1>2. \A S \in SUBSET Symbols : \A then \in Seq(Flat) :
        If(S, then) \in Nested /\ While(S, then) \in Nested /\ List(S, then) \in Nested
  BY NestedTasks
<1>3. \A S \in SUBSET Symbols : \A then \in Seq(Nested) :
        If(S, then) \in Listing /\ While(S, then) \in Listing /\ List(S, then) \in Listing
  BY NestedTasks
<1>4. Flat \subseteq Nested BY Levels
<1>5. <<Skip>> \in Seq(Flat) /\ <<Call("annotation")>> \in Seq(Flat) /\ <<Call("field")>> \in Seq(Flat)
  BY Parts, Few
<1>6. <<Take(Names), Expect({":"}), Call("type"), Match({";"}), Match({","})>> \in Seq(Flat)
  BY Parts, Few
<1>7. Variants \in Listing
  <2>1. If({"("}, <<Call("type"), Expect({")"})>>) \in Nested
    <3>1. <<Call("type"), Expect({")"})>> \in Seq(Flat) BY Parts, Few
    <3>. QED BY <1>1, <1>2, <3>1
  <2>2. <<Take(Names), If({"("}, <<Call("type"), Expect({")"})>>), Match({","}), Match({";"})>> \in Seq(Nested)
    BY <1>4, <2>1, Parts, Few
  <2>. QED BY <1>1, <1>3, <2>2 DEF Variants
<1>8. Arms \in Nested
  <2>1. <<Until({"{"}), Call("arm")>> \in Seq(Flat) BY Parts, Few
  <2>. QED BY <1>1, <1>2, <2>1 DEF Arms
<1>9. Flags \in Nested
  <2>1. <<Take(Names)>> \in Seq(Flat) BY Parts, Few
  <2>. QED BY <1>1, <1>2, <2>1 DEF Flags
<1>10. CostList \in Listing
  <2>1. If({":"}, <<Take(Ints)>>) \in Nested
    <3>1. <<Take(Ints)>> \in Seq(Flat) BY Parts, Few
    <3>. QED BY <1>1, <1>2, <3>1
  <2>2. <<Take(Names), If({":"}, <<Take(Ints)>>)>> \in Seq(Nested) BY <1>4, <2>1, Parts, Few
  <2>. QED BY <1>1, <1>3, <2>2 DEF CostList
<1>11. List({","}, <<Call("param")>>) \in Nested
  <2>1. <<Call("param")>> \in Seq(Flat) BY Parts, Few
  <2>. QED BY <1>1, <1>2, <2>1
<1>12. List({","}, Expression) \in Nested BY <1>1, <1>2, ExpressionTasks
<1>13. If({":"}, <<Number(Ints)>>) \in Nested /\ If({":"}, <<Call("type")>>) \in Nested
  <2>1. <<Number(Ints)>> \in Seq(Flat) /\ <<Call("type")>> \in Seq(Flat) BY Parts, Few
  <2>. QED BY <1>1, <1>2, <2>1
<1>14. If({":"}, <<Mark("else"), Call("block")>>) \in Nested
  <2>1. <<Mark("else"), Call("block")>> \in Seq(Flat) BY Parts, Few DEF Kinds
  <2>. QED BY <1>1, <1>2, <2>1
<1>15. If({"?r", "?", "?p"}, <<Call("primary_type"), Mark("result")>>) \in Nested
  <2>1. <<Call("primary_type"), Mark("result")>> \in Seq(Flat) BY Parts, Few DEF Kinds
  <2>. QED BY <1>1, <1>2, <2>1
<1>16. If({"<"}, <<Number(Ints), Expect({">"})>>) \in Nested
  <2>1. <<Number(Ints), Expect({">"})>> \in Seq(Flat) BY Parts, Few
  <2>. QED BY <1>1, <1>2, <2>1
<1>17. If({"!"}, <<Mark("!")>>) \in Nested /\ If({"::"}, <<Mark("::"), Keep>>) \in Nested
  <2>1. <<Mark("!")>> \in Seq(Flat) /\ <<Mark("::"), Keep>> \in Seq(Flat) BY Parts, Few DEF Kinds
  <2>. QED BY <1>1, <1>2, <2>1
<1>18. If({"("}, <<Expect({")"})>>) \in Nested
  <2>1. <<Expect({")"})>> \in Seq(Flat) BY Parts, Few
  <2>. QED BY <1>1, <1>2, <2>1
<1>19. If({"("}, <<List({","}, Expression), Expect({")"}), Mark("call")>>) \in Listing
  <2>1. <<List({","}, Expression), Expect({")"}), Mark("call")>> \in Seq(Nested)
    BY <1>4, <1>12, Parts, Few DEF Kinds
  <2>. QED BY <1>1, <1>3, <2>1
<1>20. Selected \in Nested
  <2>1. <<Keep, Expect({")"})>> \in Seq(Flat) BY Parts, Few
  <2>. QED BY <1>1, <1>2, <2>1 DEF Selected
<1>21. Skipped("{", "}") \in Nested /\ Skipped("(", ")") \in Nested
  <2>1. <<Until({"}"}), Expect({"}"})>> \in Seq(Flat) /\ <<Until({")"}), Expect({")"})>> \in Seq(Flat)
    BY Parts, Few
  <2>. QED BY <1>1, <1>2, <2>1 DEF Skipped
<1>. QED BY <1>1, <1>2, <1>5, <1>6, <1>7, <1>8, <1>9, <1>10, <1>11, <1>12, <1>13, <1>14, <1>15, <1>16,
  <1>17, <1>18, <1>19, <1>20, <1>21

\* The tasks a parse function has of what is inside of a declaration.
Bodily == Doers \ {"expect", "match", "skip", "keep", "mark", "while", "block_of_annotations",
                   "annotation", "fn", "named"}

\* Where the parser is has its types.
LEMMA ParseTypes ==
  ASSUME ParseInv
  PROVE  todo \in Seq(Tasks) /\ node \in Seq(Symbols)
<1>1. CASE StackOK(todo, node) BY <1>1 DEF StackOK
<1>2. CASE todo = <<>> /\ node \in Seq(Symbols) BY <1>2
<1>. QED BY <1>1, <1>2 DEF ParseInv

\* Such a function does as a whole what Do does.
LEMMA Descend ==
  ASSUME ParseInv, todo # <<>>, Head(todo).do \in Bodily, UNCHANGED passed,
         \E a \in Seq(Inside) : Do(a)
  PROVE  ParseInv'
<1>1. PICK a \in Seq(Inside) : Do(a) OBVIOUS
<1>2. PICK s, n : s = todo /\ n = node OBVIOUS
<1>3. StackOK(s, n) /\ s # <<>> /\ Head(s).do \in Bodily BY <1>2 DEF ParseInv
<1>4. /\ Head(s).do # "drop" /\ ~Early(Head(s)) /\ ~Starter(Head(s)) /\ Head(s) # Mark("arm")
  BY <1>3 DEF Bodily, Doers, Early, Starter, Mark, Task
<1>5. a \in Seq(Calm) BY Levels, SeqOver
<1>6. <<>> \in Seq(Symbols) /\ n \in Seq(Symbols) BY <1>3 DEF StackOK
<1>7. StackOK(a \o Tail(s), n \o <<>>) BY <1>3, <1>4, <1>5, <1>6, GoingInside
<1>8. StackOK(a \o Tail(s), n) BY <1>6, <1>7
<1>9. todo' = a \o Tail(s) /\ node' = n /\ UNCHANGED <<pos, program, errors>> BY <1>1, <1>2 DEF Do
<1>. QED BY <1>8, <1>9 DEF ParseInv, ParsedOK

\* What may stand inside of a declaration.
LEMMA InsideParts ==
  /\ Flat \subseteq Inside /\ Nested \subseteq Inside /\ Listing \subseteq Inside
  /\ Expression \in Seq(Inside) /\ \A n : Expr(n) \in Seq(Inside)
BY Levels, ExpressionTasks, SeqOver

\* Declarations and types.
LEMMA DeclarationsKept ==
  ASSUME ParseInv, UNCHANGED passed,
         ParseBody \/ ParseParams \/ ParseParam \/ ParseInner \/ ParseType
  PROVE  ParseInv'
<1>. USE InsideParts
<1>1. CASE ParseBody
  <2>1. todo # <<>> /\ Head(todo).do \in Bodily BY <1>1 DEF ParseBody, Doing, Bodily, Doers
  <2>2. \E a \in Seq(Inside) : Do(a) BY <1>1, Parts, Few DEF ParseBody, Kinds
  <2>. QED BY <2>1, <2>2, Descend
<1>2. CASE ParseParams
  <2>1. todo # <<>> /\ Head(todo).do \in Bodily BY <1>2 DEF ParseParams, Doing, Bodily, Doers
  <2>2. \E a \in Seq(Inside) : Do(a) BY <1>2, Parts, LoopParts, Few DEF ParseParams
  <2>. QED BY <2>1, <2>2, Descend
<1>3. CASE ParseParam
  <2>1. todo # <<>> /\ Head(todo).do \in Bodily BY <1>3 DEF ParseParam, Doing, Bodily, Doers
  <2>2. /\ <<Keep>> \in Seq(Inside) /\ <<Match({"$"})>> \in Seq(Inside)
        /\ <<Take(Names), Expect({":"}), Call("type")>> \in Seq(Inside)
    BY Parts, Few
  <2>3. \E a \in Seq(Inside) : Do(a) BY <1>3, <2>2, Few DEF ParseParam
  <2>. QED BY <2>1, <2>3, Descend
<1>4. CASE ParseInner
  <2>1. todo # <<>> /\ Head(todo).do \in Bodily BY <1>4 DEF ParseInner, Doing, Bodily, Doers
  <2>2. \E a \in Seq(Inside) : Do(a) BY <1>4, Parts, Few DEF ParseInner
  <2>. QED BY <2>1, <2>2, Descend
<1>5. CASE ParseType
  <2>1. todo # <<>> /\ Head(todo).do \in Bodily BY <1>5 DEF ParseType, Doing, Bodily, Doers
  <2>2. \E a \in Seq(Inside) : Do(a) BY <1>5, Parts, LoopParts, Few DEF ParseType
  <2>. QED BY <2>1, <2>2, Descend
<1>. QED BY <1>1, <1>2, <1>3, <1>4, <1>5

\* At what is none, a parse function reports and goes on behind it.
LEMMA Missed ==
  ASSUME ParseInv, todo # <<>>, Head(todo).do \in Bodily, UNCHANGED passed,
         NEW code \in Codes, Report(code), pos' = pos + 1, todo' = Tail(todo), UNCHANGED <<node, program>>
  PROVE  ParseInv'
<1>1. PICK s, n : s = todo /\ n = node OBVIOUS
<1>2. StackOK(s, n) /\ s # <<>> /\ Head(s).do \in Bodily BY <1>1 DEF ParseInv
<1>3. /\ Head(s).do # "drop" /\ ~Early(Head(s)) /\ ~Starter(Head(s)) /\ Head(s) # Mark("arm")
  BY <1>2 DEF Bodily, Doers, Early, Starter, Mark, Task
<1>4. <<>> \in Seq(Symbols) /\ n \in Seq(Symbols) /\ <<>> \in Seq(Calm) /\ Tail(s) \in Seq(Tasks)
  BY <1>2 DEF StackOK
<1>5. StackOK(<<>> \o Tail(s), n \o <<>>) BY <1>2, <1>3, <1>4, GoingInside
<1>6. StackOK(Tail(s), n) BY <1>4, <1>5
<1>7. pos' \in Nat \ {0} /\ errors' \subseteq Codes \X Nat BY DEF ParseInv, ParsedOK, Report
<1>. QED BY <1>1, <1>6, <1>7 DEF ParseInv, ParsedOK

\* Types.
LEMMA TypesKept ==
  ASSUME ParseInv, UNCHANGED passed, ParsePrimaryType
  PROVE  ParseInv'
<1>. USE InsideParts
<1>1. todo # <<>> /\ Head(todo).do \in Bodily BY DEF ParsePrimaryType, Doing, Bodily, Doers
<1>2. /\ <<Keep, If({"<"}, <<Number(Ints), Expect({">"})>>)>> \in Seq(Inside)
      /\ <<Inner, Expect({","}), Inner>> \in Seq(Inside)
      /\ <<Inner, Expect({","})>> \in Seq(Inside) /\ <<Expect({","})>> \in Seq(Inside)
      /\ <<Call("type")>> \in Seq(Inside) /\ <<Inner>> \in Seq(Inside)
      /\ <<Keep>> \in Seq(Inside)
  BY Parts, LoopParts, Few DEF Inner
<1>3. \A a \in Seq(Inside) : Angled(a) \in Seq(Inside)
  <2>1. <<Keep, Expect({"<"})>> \in Seq(Inside) /\ <<Expect({">"})>> \in Seq(Inside) BY Parts, Few
  <2>. QED BY <2>1, Few DEF Angled
<1>4. <<Inner, Expect({","})>> \o Expression \o <<Expect({","})>> \o Expression \in Seq(Inside)
  BY <1>2, Few
<1>5. CASE Current \in PlainTypes \cup GenericTypes \cup Names \cup {"Str", "Map", "Bnd"}
  <2>1. \E a \in Seq(Inside) : Do(a) BY <1>2, <1>3, <1>4, <1>5 DEF ParsePrimaryType
  <2>. QED BY <1>1, <2>1, Descend
<1>6. CASE Current \notin PlainTypes \cup GenericTypes \cup Names \cup {"Str", "Map", "Bnd"}
  <2>1. /\ Report("E300") /\ pos' = pos + 1 /\ todo' = Tail(todo) /\ UNCHANGED <<node, program>>
    BY <1>6 DEF ParsePrimaryType
  <2>. QED BY <1>1, <2>1, Missed DEF Codes
<1>. QED BY <1>5, <1>6

\* Statements.
LEMMA StatementsKept ==
  ASSUME ParseInv, UNCHANGED passed,
         ParseBinding \/ ParseStmt \/ ParseBlock \/ ParseStmts
  PROVE  ParseInv'
<1>. USE InsideParts
<1>1. CASE ParseBinding
  <2>1. todo # <<>> /\ Head(todo).do \in Bodily BY <1>1 DEF ParseBinding, Doing, Bodily, Doers
  <2>2. /\ <<Skip, Mark(":=")>> \in Seq(Inside) /\ <<Expect({";"})>> \in Seq(Inside)
        /\ <<If({":"}, <<Call("type")>>), Expect({"="})>> \in Seq(Inside)
    BY Parts, LoopParts, Few DEF Kinds
  <2>3. \E a \in Seq(Inside) : Do(a) BY <1>1, <2>2, Few DEF ParseBinding
  <2>. QED BY <2>1, <2>3, Descend
<1>2. CASE ParseStmt
  <2>1. todo # <<>> /\ Head(todo).do \in Bodily BY <1>2 DEF ParseStmt, Doing, Bodily, Doers
  <2>2. /\ <<Keep, Take(Names), Call("binding")>> \in Seq(Inside)
        /\ <<Mark("assign"), Keep, Skip>> \in Seq(Inside)
        /\ <<Mark("assign"), Keep, Skip, Keep, Skip>> \in Seq(Inside)
        /\ <<Keep, Expect({"("})>> \in Seq(Inside)
        /\ <<Expect({";"})>> \in Seq(Inside) /\ <<Match({";"})>> \in Seq(Inside)
        /\ <<Keep, Keep, Expect({"<-"})>> \in Seq(Inside)
        /\ <<Expect({")"}), Call("block")>> \in Seq(Inside)
    BY Parts, Few DEF Kinds
  <2>3. /\ <<Expect({")"}), Call("block"), If({":"}, <<Mark("else"), Call("block")>>)>> \in Seq(Inside)
        /\ <<Expect({")"}), Expect({"{"}), Arms, Expect({"}"})>> \in Seq(Inside)
    BY Parts, LoopParts, Few
  <2>4. /\ <<Mark("assign"), Keep, Skip>> \o Expression \o <<Expect({";"})>> \in Seq(Inside)
        /\ <<Mark("assign"), Keep, Skip, Keep, Skip>> \o Expression \o <<Expect({";"})>> \in Seq(Inside)
        /\ <<Keep, Expect({"("})>> \o Expression
             \o <<Expect({")"}), Call("block"), If({":"}, <<Mark("else"), Call("block")>>)>> \in Seq(Inside)
        /\ <<Keep, Expect({"("})>> \o Expression
             \o <<Expect({")"}), Expect({"{"}), Arms, Expect({"}"})>> \in Seq(Inside)
        /\ <<Keep, Keep, Expect({"<-"})>> \o Expression \o <<Expect({")"}), Call("block")>> \in Seq(Inside)
        /\ Expression \o <<Match({";"})>> \in Seq(Inside)
    BY <2>2, <2>3, Few
  <2>5. \E a \in Seq(Inside) : Do(a) BY <1>2, <2>2, <2>4 DEF ParseStmt
  <2>. QED BY <2>1, <2>5, Descend
<1>3. CASE ParseBlock
  <2>1. todo # <<>> /\ Head(todo).do \in Bodily BY <1>3 DEF ParseBlock, Doing, Bodily, Doers
  <2>2. \E a \in Seq(Inside) : Do(a) BY <1>3, Parts, Few DEF ParseBlock, Kinds
  <2>. QED BY <2>1, <2>2, Descend
<1>4. CASE ParseStmts
  <2>1. todo # <<>> /\ Head(todo).do \in Bodily BY <1>4 DEF ParseStmts, Doing, Bodily, Doers
  <2>2. /\ <<Mark("tail")>> \in Seq(Inside) /\ <<Match({";"})>> \in Seq(Inside)
        /\ <<Call("stmt"), Call("stmts")>> \in Seq(Inside) /\ <<>> \in Seq(Inside)
    BY Parts, Few DEF Kinds
  <2>3. <<Mark("tail")>> \o Expression \o <<Match({";"})>> \in Seq(Inside) BY <2>2, Few
  <2>4. \E a \in Seq(Inside) : Do(a) BY <1>4, <2>2, <2>3 DEF ParseStmts
  <2>. QED BY <2>1, <2>4, Descend
<1>. QED BY <1>1, <1>2, <1>3, <1>4

\* Expressions.
LEMMA OperatorsKept ==
  ASSUME ParseInv, tokens \in Seq(Symbols), UNCHANGED passed,
         ParseInfix \/ ParseNoArguments \/ ParseUnary \/ ParseField
  PROVE  ParseInv'
<1>. USE InsideParts
<1>1. CASE ParseInfix
  <2>1. todo # <<>> /\ Head(todo).do \in Bodily BY <1>1 DEF ParseInfix, Doing, Bodily, Doers
  <2>2. Head(todo) \in Inside
    <3>1. todo \in Seq(Tasks) /\ Head(todo).do \in Doers BY <2>1, ParseTypes DEF Bodily
    <3>2. Head(todo) \in Tasks BY <2>1, <3>1
    <3>3. \A t \in Around : t.do \notin Doers BY DEF Around, Deciders, Others, Doers
    <3>. QED BY <3>1, <3>2, <3>3 DEF Tasks
  <2>3. /\ <<Skip, Mark("?")>> \in Seq(Inside) /\ <<Skip>> \in Seq(Inside) /\ <<>> \in Seq(Inside)
        /\ <<Skip, Keep, Call("no_arguments"), Mark(".")>> \in Seq(Inside)
        /\ <<Mark(Current)>> \in Seq(Inside) /\ <<Head(todo)>> \in Seq(Inside)
    <3>1. Current \in Symbols BY TokensAreSymbols
    <3>. QED BY <2>2, <3>1, Parts, Few DEF Kinds
  <2>4. PICK e : e = Expr(Precedence(Current) + 1) OBVIOUS
  <2>5. <<Skip>> \o e \o <<Mark(Current)>> \in Seq(Inside) BY <2>3, <2>4, Few
  <2>6. \E a \in Seq(Inside) : Do(a) BY <1>1, <2>3, <2>4, <2>5, Few DEF ParseInfix
  <2>. QED BY <2>1, <2>6, Descend
<1>2. CASE ParseNoArguments
  <2>1. todo # <<>> /\ Head(todo).do \in Bodily BY <1>2 DEF ParseNoArguments, Doing, Bodily, Doers
  <2>2. \E a \in Seq(Inside) : Do(a) BY <1>2, Parts, LoopParts, Few DEF ParseNoArguments
  <2>. QED BY <2>1, <2>2, Descend
<1>3. CASE ParseUnary
  <2>1. todo # <<>> /\ Head(todo).do \in Bodily BY <1>3 DEF ParseUnary, Doing, Bodily, Doers
  <2>2. /\ <<Skip, Call("unary"), Mark("!")>> \in Seq(Inside)
        /\ <<Skip, Expect({"("})>> \in Seq(Inside)
        /\ <<Expect({")"}), Mark(Current)>> \in Seq(Inside)
        /\ <<Keep, Expect({"{"}), While({"}"}, <<Call("field")>>), Expect({"}"})>> \in Seq(Inside)
        /\ <<Keep, If({"!"}, <<Mark("!")>>), Match({";"})>> \in Seq(Inside)
        /\ <<Call("primary")>> \in Seq(Inside)
    <3>1. Current \in Symbols BY TokensAreSymbols
    <3>. QED BY <3>1, Parts, LoopParts, Few DEF Kinds
  <2>3. <<Skip, Expect({"("})>> \o Expression \o <<Expect({")"}), Mark(Current)>> \in Seq(Inside)
    BY <2>2, Few
  <2>4. \E a \in Seq(Inside) : Do(a) BY <1>3, <2>2, <2>3 DEF ParseUnary
  <2>. QED BY <2>1, <2>4, Descend
<1>4. CASE ParseField
  <2>1. todo # <<>> /\ Head(todo).do \in Bodily BY <1>4 DEF ParseField, Doing, Bodily, Doers
  <2>2. /\ <<Keep, Skip>> \in Seq(Inside) /\ <<Match({","})>> \in Seq(Inside) /\ <<Skip>> \in Seq(Inside)
    BY Parts, Few
  <2>3. <<Keep, Skip>> \o Expression \o <<Match({","})>> \in Seq(Inside) BY <2>2, Few
  <2>4. \E a \in Seq(Inside) : Do(a) BY <1>4, <2>2, <2>3 DEF ParseField
  <2>. QED BY <2>1, <2>4, Descend
<1>. QED BY <1>1, <1>2, <1>3, <1>4

\* Calls, literals, and what begins with an @.
LEMMA PrimariesKept ==
  ASSUME ParseInv, UNCHANGED passed,
         ParsePrimary \/ ParseArguments \/ ParsePayload \/ ParseAgentName
  PROVE  ParseInv'
<1>. USE InsideParts
<1>1. CASE ParsePrimary
  <2>. DEFINE First == Literals \cup Names \cup {"()", "@spn", "@snd", "@rcv", "@budget",
                                                 "@mem", "@correct"}
  <2>1. todo # <<>> /\ Head(todo).do \in Bodily BY <1>1 DEF ParsePrimary, Doing, Bodily, Doers
  <2>2. /\ Current \in Literals => <<Number({Current})>> \in Seq(Inside)
        /\ <<Keep, If({"::"}, <<Mark("::"), Keep>>), Call("arguments")>> \in Seq(Inside)
        /\ <<Keep, Call("agent_name"), Match({";"})>> \in Seq(Inside)
        /\ <<Skip, Expect({"("})>> \in Seq(Inside)
        /\ <<Match({","}), Call("payload"), Expect({")"}), Mark("@snd")>> \in Seq(Inside)
        /\ <<Expect({")"}), Mark("@rcv")>> \in Seq(Inside)
        /\ <<Keep, Selected>> \in Seq(Inside)
        /\ <<Keep, Skipped("{", "}"), Skipped("(", ")")>> \in Seq(Inside)
        /\ <<Keep>> \in Seq(Inside)
    BY Parts, LoopParts, Few DEF Kinds
  <2>3. /\ <<Skip, Expect({"("})>> \o Expression
             \o <<Match({","}), Call("payload"), Expect({")"}), Mark("@snd")>> \in Seq(Inside)
        /\ <<Skip, Expect({"("})>> \o Expression \o <<Expect({")"}), Mark("@rcv")>> \in Seq(Inside)
    BY <2>2, Few
  <2>4. CASE Current \in First
    <3>1. \E a \in Seq(Inside) : Do(a) BY <1>1, <2>2, <2>3, <2>4 DEF ParsePrimary
    <3>. QED BY <2>1, <3>1, Descend
  <2>5. CASE Current \notin First
    <3>1. /\ Report("E105") /\ pos' = pos + 1 /\ todo' = Tail(todo) /\ UNCHANGED <<node, program>>
      BY <1>1, <2>5 DEF ParsePrimary
    <3>. QED BY <2>1, <3>1, Missed DEF Codes
  <2>. QED BY <2>4, <2>5
<1>2. CASE ParseArguments
  <2>1. todo # <<>> /\ Head(todo).do \in Bodily BY <1>2 DEF ParseArguments, Doing, Bodily, Doers
  <2>2. \E a \in Seq(Inside) : Do(a) BY <1>2, Parts, LoopParts, Few DEF ParseArguments, Kinds
  <2>. QED BY <2>1, <2>2, Descend
<1>3. CASE ParsePayload
  <2>1. todo # <<>> /\ Head(todo).do \in Bodily BY <1>3 DEF ParsePayload, Doing, Bodily, Doers
  <2>2. \E a \in Seq(Inside) : Do(a) BY <1>3, Few DEF ParsePayload
  <2>. QED BY <2>1, <2>2, Descend
<1>4. CASE ParseAgentName
  <2>1. todo # <<>> /\ Head(todo).do \in Bodily BY <1>4 DEF ParseAgentName, Doing, Bodily, Doers
  <2>2. \E a \in Seq(Inside) : Do(a) BY <1>4, Parts, Few DEF ParseAgentName
  <2>. QED BY <2>1, <2>2, Descend
<1>. QED BY <1>1, <1>2, <1>3, <1>4

\* What comes before a declaration.
CalmEarly == {t \in Calm : Early(t)}

\* One of them goes on with others.
LEMMA GoEarly ==
  ASSUME ParseInv, todo # <<>>, Head(todo).do # "program", UNCHANGED passed,
         Early(Head(todo)), ~Starter(Head(todo)),
         \E a \in Seq(CalmEarly) : Do(a)
  PROVE  ParseInv'
<1>0. PICK a \in Seq(CalmEarly) : Do(a) OBVIOUS
<1>9. a \in Seq(Calm) /\ \A i \in DOMAIN a : Early(a[i])
  <2>1. CalmEarly \subseteq Calm /\ \A t \in CalmEarly : Early(t) BY DEF CalmEarly
  <2>2. \A i \in DOMAIN a : a[i] \in CalmEarly OBVIOUS
  <2>. QED BY <2>1, <2>2, SeqOver
<1>1. PICK s, n : s = todo /\ n = node OBVIOUS
<1>2. StackOK(s, n) /\ s # <<>> /\ Head(s).do # "program" /\ Early(Head(s)) /\ ~Starter(Head(s)) BY <1>1 DEF ParseInv
<1>3. Head(s).do # "drop" /\ Head(s) # Mark("arm") BY <1>2 DEF Early, Mark, Task
<1>4. <<>> \in Seq(Symbols) /\ n \in Seq(Symbols) BY <1>2 DEF StackOK
<1>8. Tail(s) # <<>>
  <2>1. s \in Seq(Tasks) /\ Founded(s) BY <1>2 DEF StackOK
  <2>. QED BY <1>2, <2>1, FoundedOn
<1>5. StackOK(a \o Tail(s), n \o <<>>) BY <1>2, <1>3, <1>4, <1>8, <1>9, GoingEarly
<1>6. StackOK(a \o Tail(s), n) BY <1>4, <1>5
<1>7. todo' = a \o Tail(s) /\ node' = n /\ UNCHANGED <<pos, program, errors>> BY <1>0, <1>1 DEF Do
<1>. QED BY <1>6, <1>7 DEF ParseInv, ParsedOK

\* The tasks that come before a declaration.
LEMMA CallEarly ==
  /\ \A f \in {"import", "module", "resolve", "resolving", "annotation"} : Call(f) \in CalmEarly
  /\ \A x \in {"+>", ";", "#[", "]", "fn"} : Expect({x}) \in CalmEarly
  /\ Skip \in CalmEarly
  /\ While({"]"}, <<Call("annotation")>>) \in CalmEarly
  /\ While({"fn", "#["}, <<Skip>>) \in CalmEarly
<1>1. \A f \in {"import", "module", "resolve", "resolving"} : Call(f) \in Calm
  BY DEF Call, Task, Calm, Tasks, Around, Others, Deciders
<1>2. Inside \subseteq Calm /\ Flat \subseteq Calm /\ Nested \subseteq Calm BY Levels
<1>3. \A f \in {"import", "module", "resolve", "resolving", "annotation"} :
        Early(Call(f))
  BY DEF Early, Call, Task
<1>4. /\ \A x : Early(Expect({x})) /\ Early(Skip)
      /\ Early(While({"]"}, <<Call("annotation")>>)) /\ Early(While({"fn", "#["}, <<Skip>>))
  <2>. HIDE DEF Call
  <2>. QED BY DEF Early, Expect, Skip, While, Task
<1>. QED BY <1>1, <1>2, <1>3, <1>4, Parts, LoopParts DEF CalmEarly

\* Imports, blocks of annotations, and the way from an exception to the next function.
LEMMA EarlyKept ==
  ASSUME ParseInv, UNCHANGED passed,
         Synchronize \/ ParseImport \/ ParseModule \/ ParseAnnotationBlock
  PROVE  ParseInv'
<1>1. todo # <<>> /\ Head(todo).do # "program" /\ Early(Head(todo)) /\ ~Starter(Head(todo))
  BY DEF Synchronize, ParseImport, ParseModule, ParseAnnotationBlock, Doing, Early, Starter
<1>2. CASE Synchronize
  <2>1. \E a \in Seq(CalmEarly) : Do(a) BY <1>2, CallEarly, Few DEF Synchronize
  <2>. QED BY <1>1, <2>1, GoEarly
<1>3. CASE ParseImport
  <2>1. /\ <<Expect({"+>"})>> \in Seq(CalmEarly)
        /\ <<Skip, Expect({";"}), Call("resolve")>> \in Seq(CalmEarly)
        /\ <<Call("module")>> \in Seq(CalmEarly)
    BY CallEarly, Few
  <2>2. \E a \in Seq(CalmEarly) : Do(a) BY <1>3, <2>1, Few DEF ParseImport
  <2>. QED BY <1>1, <2>2, GoEarly
<1>4. CASE ParseModule
  <2>1. /\ <<Expect({";"})>> \in Seq(CalmEarly)
        /\ <<Skip, Skip, Call("module")>> \in Seq(CalmEarly)
        /\ <<Skip, Expect({";"})>> \in Seq(CalmEarly)
    BY CallEarly, Few
  <2>2. \E a \in Seq(CalmEarly) : Do(a) BY <1>4, <2>1 DEF ParseModule
  <2>. QED BY <1>1, <2>2, GoEarly
<1>5. CASE ParseAnnotationBlock
  <2>1. \E a \in Seq(CalmEarly) : Do(a) BY <1>5, CallEarly, Few DEF ParseAnnotationBlock
  <2>. QED BY <1>1, <2>1, GoEarly
<1>. QED BY <1>2, <1>3, <1>4, <1>5

\* What begins a declaration.
LEMMA GoBegun ==
  ASSUME ParseInv, todo # <<>>, Head(todo).do # "program", UNCHANGED passed,
         Early(Head(todo)) \/ Starter(Head(todo)),
         NEW a \in Seq(Calm), NEW j \in 1 .. Len(a), Starter(a[j]), \A i \in 1 .. j - 1 : Early(a[i]),
         Do(a)
  PROVE  ParseInv'
<1>1. PICK s, n : s = todo /\ n = node OBVIOUS
<1>2. StackOK(s, n) /\ s # <<>> /\ Head(s).do # "program" /\ (Early(Head(s)) \/ Starter(Head(s))) BY <1>1 DEF ParseInv
<1>3. Head(s).do # "drop" /\ Head(s) # Mark("arm") BY <1>2 DEF Early, Starter, Mark, Task
<1>4. <<>> \in Seq(Symbols) /\ n \in Seq(Symbols) BY <1>2 DEF StackOK
<1>8. Tail(s) # <<>>
  <2>1. s \in Seq(Tasks) /\ Founded(s) BY <1>2 DEF StackOK
  <2>. QED BY <1>2, <2>1, FoundedOn
<1>5. StackOK(a \o Tail(s), n \o <<>>) BY <1>2, <1>3, <1>4, <1>8, GoingBegun
<1>6. StackOK(a \o Tail(s), n) BY <1>4, <1>5
<1>7. todo' = a \o Tail(s) /\ node' = n /\ UNCHANGED <<pos, program, errors>> BY <1>1 DEF Do
<1>. QED BY <1>6, <1>7 DEF ParseInv, ParsedOK

\* An exception of a conversion or a parse function is caught by parse_program.
LEMMA ThrowKept ==
  ASSUME ParseInv, UNCHANGED <<passed, program>>, Throw, pos' \in Nat \ {0},
         errors' \subseteq Codes \X Nat
  PROVE  ParseInv'
<1>1. PICK s : s = <<Call("synchronize"), Call("program")>> OBVIOUS
<1>2. StackOK(s, <<>>) BY <1>1, Thrown
<1>3. todo' = s /\ node' = <<>> BY <1>1 DEF Throw
<1>. QED BY <1>2, <1>3 DEF ParseInv, ParsedOK

\* The program, and what begins a declaration in it.
LEMMA ProgramKept ==
  ASSUME ParseInv, UNCHANGED <<passed, tokens>>, ParseProgram
  PROVE  ParseInv'
<1>1. todo # <<>> /\ Head(todo).do = "program" BY DEF ParseProgram, Doing
<1>2. PICK s, n : s = todo /\ n = node OBVIOUS
<1>3. StackOK(s, n) /\ s # <<>> /\ Head(s).do = "program" BY <1>1, <1>2 DEF ParseInv
<1>4. Early(Head(s)) /\ ~Starter(Head(s)) BY <1>3 DEF Early, Starter
<1>5. CASE Current = "eof" /\ Do(<<>>)
  <2>1. s \in Seq(Tasks) /\ n \in Seq(Symbols) BY <1>3 DEF StackOK
  <2>2. Tail(s) \in Seq(Tasks) /\ <<>> \o Tail(s) = Tail(s) /\ n \o <<>> = n BY <1>3, <2>1
  <2>3. todo' = Tail(s) /\ node' = n /\ UNCHANGED <<pos, program, errors>>
    BY <1>2, <1>5, <2>2 DEF Do
  <2>4. CASE Tail(s) = <<>>
    <3>1. Current' = "eof" BY <1>5, <2>3 DEF Current, Peek
    <3>. QED BY <2>1, <2>2, <2>3, <2>4, <3>1 DEF ParseInv, ParsedOK
  <2>5. CASE Tail(s) # <<>>
    <3>1. Head(s).do # "drop" /\ Head(s) # Mark("arm") BY <1>3 DEF Mark, Task
    <3>2. <<>> \in Seq(Calm) /\ <<>> \in Seq(Symbols) OBVIOUS
    <3>3. PICK e : e = <<>> OBVIOUS
    <3>5. e \in Seq(Calm) /\ (\A i \in DOMAIN e : Early(e[i])) /\ e \in Seq(Symbols) BY <3>2, <3>3
    <3>6. StackOK(e \o Tail(s), n \o e) BY ONLY <1>3, <1>4, <2>5, <3>1, <3>5, GoingEarly
    <3>4. StackOK(Tail(s), n) BY <2>2, <3>3, <3>6
    <3>. QED BY <2>1, <2>2, <2>3, <3>4 DEF ParseInv, ParsedOK
  <2>. QED BY <2>4, <2>5
<1>6. ASSUME NEW f \in {"import", "top_level"}, Do(<<Call(f), Call("program")>>) PROVE ParseInv'
  <2>1. PICK x, y : x = Call(f) /\ y = Call("program") OBVIOUS
  <2>2. x \in Tasks /\ y \in Tasks /\ x.do = f /\ y.do = "program"
    BY <2>1 DEF Call, Task, Tasks, Around, Deciders, Others
  <2>3. Early(x) /\ x # Mark("arm") BY <2>2 DEF Early, Mark, Task
  <2>4. StackOK(<<x, y>> \o Tail(s), n)
    <3>1. /\ x.do \notin {"drop", "push", "program"} /\ y.do \in {"push", "program"}
          /\ y.do # "push" /\ (x.do = "top_level" => y.do = "program")
      BY <2>2
    <3>2. /\ Early(x) \/ Starter(x)
          /\ y.do \in {"push", "program"} \/ (y.do = "top_level" /\ x.do \notin Deciders)
          /\ y.do = "push" => Starter(x)
          /\ y.do # "push" => Early(x)
      BY <2>3, <3>1
    <3>3. Continues(x, y) BY ONLY <2>3, <3>1, <3>2 DEF Continues
    <3>4. Head(s).do = "program" => y.do = "program" BY <2>2
    <3>. QED BY <1>3, <2>2, <3>3, <3>4, GoingOn
  <2>5. todo' = <<x, y>> \o Tail(s) /\ node' = n /\ UNCHANGED <<pos, program, errors>>
    BY <1>2, <1>6, <2>1 DEF Do
  <2>. QED BY <2>4, <2>5 DEF ParseInv, ParsedOK
<1>7. \/ Current = "eof" /\ Do(<<>>)
      \/ Do(<<Call("import"), Call("program")>>)
      \/ Do(<<Call("top_level"), Call("program")>>)
  BY DEF ParseProgram
<1>. QED BY <1>5, <1>6, <1>7

\* A declaration is begun, or an annotation before one.
LEMMA TopLevelKept ==
  ASSUME ParseInv, UNCHANGED passed, ParseTopLevel
  PROVE  ParseInv'
<1>1. todo # <<>> /\ Head(todo).do = "top_level" BY DEF ParseTopLevel, Doing
<1>2. PICK s, n : s = todo /\ n = node OBVIOUS
<1>3. StackOK(s, n) /\ s # <<>> /\ Head(s).do = "top_level" BY <1>1, <1>2 DEF ParseInv
<1>4. ASSUME NEW x \in Tasks, NEW y \in Tasks, Do(<<x, y>>), x # Mark("arm"),
             \/ x.do \in {"block_of_annotations", "annotation"} /\ y.do = "top_level"
             \/ x.do \in {"fn", "Agt", "Dat", "Enm"} /\ y.do = "push"
      PROVE  ParseInv'
  <2>1. /\ x.do \in {"block_of_annotations", "annotation"} => Early(x)
        /\ x.do \in {"fn", "Agt", "Dat", "Enm"} => Starter(x)
    BY DEF Early, Starter
  <2>2. StackOK(<<x, y>> \o Tail(s), n)
    <3>1. ASSUME x.do \in {"block_of_annotations", "annotation"}, y.do = "top_level" PROVE Continues(x, y)
      <4>1. /\ x.do \notin {"drop", "push", "program"} /\ x.do \notin Deciders
            /\ y.do # "push" /\ x.do # "top_level"
        BY <3>1 DEF Deciders
      <4>2. Early(x) BY <2>1, <3>1
      <4>. QED BY ONLY <1>4, <3>1, <4>1, <4>2, Zenon DEF Continues
    <3>2. ASSUME x.do \in {"fn", "Agt", "Dat", "Enm"}, y.do = "push" PROVE Continues(x, y)
      <4>1. /\ x.do \notin {"drop", "push", "program"} /\ y.do \in {"push", "program"}
            /\ x.do # "top_level"
        BY <3>2
      <4>2. Starter(x) BY <2>1, <3>2
      <4>3. /\ Early(x) \/ Starter(x)
            /\ y.do \in {"push", "program"} \/ (y.do = "top_level" /\ x.do \notin Deciders)
            /\ y.do = "push" => Starter(x)
            /\ y.do # "push" => Early(x)
        BY <3>2, <4>1, <4>2
      <4>. QED BY ONLY <1>4, <3>2, <4>1, <4>3 DEF Continues
    <3>3. Continues(x, y) BY ONLY <1>4, <3>1, <3>2
    <3>4. Head(s).do = "program" => y.do = "program" BY <1>3
    <3>. QED BY <1>3, <3>3, <3>4, GoingOn
  <2>3. todo' = <<x, y>> \o Tail(s) /\ node' = n /\ UNCHANGED <<pos, program, errors>>
    BY <1>2, <1>4 DEF Do
  <2>. QED BY <2>2, <2>3 DEF ParseInv, ParsedOK
<1>5. /\ \A f \in {"top_level", "Agt", "Dat", "Enm"} : Call(f) \in Tasks
      /\ Push \in Tasks
  BY DEF Call, Push, Task, Tasks, Around, Deciders
<1>6. \A f \in {"block_of_annotations", "annotation", "fn"} : Call(f) \in Tasks
  BY Parts, Levels
<1>7. \A f \in {"block_of_annotations", "annotation", "fn", "top_level", "Agt", "Dat", "Enm"} :
        Call(f).do = f /\ Call(f) # Mark("arm")
  BY DEF Call, Mark, Task
<1>8. Push.do = "push" BY DEF Push, Task
<1>9. CASE Current \in {"fn", "Agt", "Dat", "Enm", "#["} \cup Annotations
  <2>1. \/ Do(<<Call("block_of_annotations"), Call("top_level")>>)
        \/ Do(<<Call("annotation"), Call("top_level")>>)
        \/ \E f \in {"fn", "Agt", "Dat", "Enm"} : Do(<<Call(f), Push>>)
    BY <1>9 DEF ParseTopLevel
  <2>. QED BY <1>4, <1>5, <1>6, <1>7, <1>8, <2>1
<1>10. CASE Current \notin {"fn", "Agt", "Dat", "Enm", "#["} \cup Annotations
  <2>1. Report("E104") /\ Throw /\ pos' = pos + 1 /\ UNCHANGED program
    BY <1>10 DEF ParseTopLevel
  <2>2. pos' \in Nat \ {0} /\ errors' \subseteq Codes \X Nat
    BY <2>1 DEF ParseInv, ParsedOK, Report, Codes
  <2>. QED BY <2>1, <2>2, ThrowKept
<1>. QED BY <1>9, <1>10

\* An annotation is the beginning of the function it is written before.
LEMMA AnnotationKept ==
  ASSUME ParseInv, UNCHANGED passed, ParseAnnotation
  PROVE  ParseInv'
<1>. USE InsideParts
<1>1. todo # <<>> /\ Head(todo).do # "program" /\ Early(Head(todo)) BY DEF ParseAnnotation, Doing, Early
<1>2. Starter(Keep) BY DEF Keep, Task, Starter
<1>3. ASSUME NEW a \in Seq(Inside), a # <<>>, Starter(a[1]), Do(a) PROVE ParseInv'
  <2>1. /\ a \in Seq(Calm) /\ 1 \in 1 .. Len(a) /\ \A i \in 1 .. 1 - 1 : Early(a[i])
    <3>1. Seq(Inside) \subseteq Seq(Calm) BY Levels, SeqOver
    <3>. QED BY <1>3, <3>1
  <2>. QED BY <1>1, <1>3, <2>1, GoBegun
<1>4. \A b \in Seq(Inside) : /\ Paren(b) \in Seq(Inside) /\ Paren(b) # <<>> /\ Starter(Paren(b)[1])
  <2>. SUFFICES ASSUME NEW b \in Seq(Inside)
               PROVE  Paren(b) \in Seq(Inside) /\ Paren(b) # <<>> /\ Starter(Paren(b)[1])
    OBVIOUS
  <2>1. <<Keep, Expect({"("})>> \in Seq(Inside) /\ <<Expect({")"})>> \in Seq(Inside) BY Parts, Few
  <2>2. Paren(b) \in Seq(Inside) BY <2>1, Few DEF Paren
  <2>3. Paren(b)[1] = Keep /\ Paren(b) # <<>> BY <2>1 DEF Paren
  <2>. QED BY <1>2, <2>2, <2>3
<1>5. /\ <<CostList>> \in Seq(Inside) /\ <<Flags>> \in Seq(Inside) /\ <<Skip>> \in Seq(Inside)
      /\ <<Take(Names), Expect({":"})>> \in Seq(Inside)
      /\ <<Number(Floats)>> \in Seq(Inside)
      /\ <<Number(Ints), If({":"}, <<Number(Ints)>>)>> \in Seq(Inside)
      /\ <<Take(Strings)>> \in Seq(Inside)
  BY Parts, LoopParts, Few
<1>6. <<Take(Names), Expect({":"})>> \o Expression \in Seq(Inside) BY <1>5, Few
<1>7. /\ <<Keep, Take(Strings)>> \in Seq(Inside) /\ <<Keep, Expect({":"}), Take(Names)>> \in Seq(Inside)
  BY Parts, Few
<1>8. CASE \E b \in Seq(Inside) : Do(Paren(b)) BY <1>3, <1>4, <1>8
<1>9. CASE Do(<<Keep, Take(Strings)>>)
  <2>1. PICK a : a = <<Keep, Take(Strings)>> OBVIOUS
  <2>2. a \in Seq(Inside) /\ a # <<>> /\ a[1] = Keep BY <1>7, <2>1
  <2>. QED BY <1>2, <1>3, <1>9, <2>1, <2>2
<1>10. CASE Do(<<Keep, Expect({":"}), Take(Names)>>)
  <2>1. PICK a : a = <<Keep, Expect({":"}), Take(Names)>> OBVIOUS
  <2>2. a \in Seq(Inside) /\ a # <<>> /\ a[1] = Keep BY <1>7, <2>1
  <2>. QED BY <1>2, <1>3, <1>10, <2>1, <2>2
<1>11. CASE Do(<<Skip, Mark("unset")>>)
  <2>1. PICK a : a = <<Skip, Mark("unset")>> OBVIOUS
  <2>2. Mark("unset") \in Inside BY Parts DEF Kinds
  <2>7. <<Skip, Mark("unset")>> \in Seq(Inside) BY <2>2, Parts, Few
  <2>8. Len(a) = 2 /\ a[1] = Skip /\ a[2] = Mark("unset") BY <2>1
  <2>3. a \in Seq(Inside) /\ Len(a) = 2 /\ a[1] = Skip /\ a[2] = Mark("unset") BY <2>1, <2>7, <2>8
  <2>4. Early(Skip) /\ Starter(Mark("unset")) BY DEF Early, Starter, Skip, Mark, Task
  <2>5. a \in Seq(Calm) BY <2>3, Levels, SeqOver
  <2>6. 2 \in 1 .. Len(a) /\ Starter(a[2]) /\ \A i \in 1 .. 2 - 1 : Early(a[i]) BY <2>3, <2>4
  <2>. QED BY <1>1, <1>11, <2>1, <2>5, <2>6, GoBegun
<1>12. \/ \E b \in Seq(Inside) : Do(Paren(b))
       \/ Do(<<Keep, Take(Strings)>>) \/ Do(<<Keep, Expect({":"}), Take(Names)>>)
       \/ Do(<<Skip, Mark("unset")>>)
  BY <1>5, <1>6 DEF ParseAnnotation
<1>. QED BY <1>8, <1>9, <1>10, <1>11, <1>12

\* What grows the declaration, and leaves nothing to do.
LEMMA Kept ==
  ASSUME ParseInv, todo # <<>>, UNCHANGED <<passed, program>>, todo' = Tail(todo),
         Head(todo).do \notin {"drop", "program"}, Head(todo) # Mark("arm"),
         NEW kept \in Seq(Symbols), node' = node \o kept,
         \/ kept # <<>>
         \/ ~Starter(Head(todo)),
         pos' \in Nat \ {0}, errors' \subseteq Codes \X Nat
  PROVE  ParseInv'
<1>1. PICK s, n : s = todo /\ n = node OBVIOUS
<1>2. StackOK(s, n) /\ s # <<>> BY <1>1 DEF ParseInv
<1>3. <<>> \in Seq(Calm) /\ Tail(s) \in Seq(Tasks) /\ s \in Seq(Tasks) /\ n \in Seq(Symbols)
  BY <1>2 DEF StackOK
<1>4. <<>> \o Tail(s) = Tail(s) BY <1>3
<1>5. n \o kept = <<>> => Begun(Tail(s))
  <2>. SUFFICES ASSUME n \o kept = <<>> PROVE Begun(Tail(s)) OBVIOUS
  <2>1. n = <<>> /\ kept = <<>> BY <1>3
  <2>. QED BY <1>1, <1>2, <1>3, <2>1, BegunEarly DEF StackOK
<1>8. Tail(s) # <<>>
  <2>1. Founded(s) BY <1>2 DEF StackOK
  <2>. QED BY <1>1, <1>3, <2>1, FoundedOn
<1>6. StackOK(<<>> \o Tail(s), n \o kept) BY <1>1, <1>2, <1>3, <1>4, <1>5, <1>8, Going
<1>7. StackOK(todo', node') BY <1>1, <1>4, <1>6
<1>. QED BY <1>7 DEF ParseInv, ParsedOK

LEMMA UnknownKept ==
  ASSUME ParseInv, UNCHANGED passed, UnknownAnnotation
  PROVE  ParseInv'
<1>1. /\ todo # <<>> /\ Head(todo).do = "annotation" /\ todo' = Tail(todo)
      /\ node' = Append(node, "unset") /\ UNCHANGED program
      /\ errors' = errors \cup {<<"E101", pos + 1>>} /\ pos' = pos + 2
  BY DEF UnknownAnnotation, Doing
<1>2. <<"unset">> \in Seq(Symbols) /\ <<"unset">> # <<>>
  <2>1. "unset" \in Symbols BY Signs DEF Kinds
  <2>. QED BY <2>1
<1>3. node' = node \o <<"unset">>
  <2>1. node \in Seq(Symbols) BY ParseTypes
  <2>. QED BY <1>1, <2>1
<1>4. pos' \in Nat \ {0} /\ errors' \subseteq Codes \X Nat BY <1>1 DEF ParseInv, ParsedOK, Codes
<1>5. Head(todo).do \notin {"drop", "program"} /\ Head(todo) # Mark("arm") BY <1>1 DEF Mark, Task
<1>. QED BY <1>1, <1>2, <1>3, <1>4, <1>5, Kept

\* Functions and agents.
LEMMA FunctionsKept ==
  ASSUME ParseInv, UNCHANGED passed, ParseFn \/ ParseNamed \/ ParseAgent
  PROVE  ParseInv'
<1>. USE InsideParts
<1>1. todo # <<>> /\ Head(todo).do # "program" /\ Starter(Head(todo)) BY DEF ParseFn, ParseNamed, ParseAgent, Doing, Starter
<1>2. Starter(Keep) /\ Starter(Mark("fn")) /\ Starter(Call("named")) /\ Early(Expect({"fn"}))
  BY DEF Keep, Mark, Call, Expect, Task, Starter, Early
<1>3. ASSUME NEW a \in Seq(Inside), a # <<>>, Starter(a[1]), Do(a) PROVE ParseInv'
  <2>1. /\ a \in Seq(Calm) /\ 1 \in 1 .. Len(a) /\ \A i \in 1 .. 1 - 1 : Early(a[i])
    <3>1. Seq(Inside) \subseteq Seq(Calm) BY Levels, SeqOver
    <3>. QED BY <1>3, <3>1
  <2>. QED BY <1>1, <1>3, <2>1, GoBegun
<1>4. CASE ParseFn
  <2>1. PICK a : a = <<Expect({"fn"}), Call("named")>> OBVIOUS
  <2>6. <<Expect({"fn"}), Call("named")>> \in Seq(Inside) BY Parts, Few
  <2>7. Len(a) = 2 /\ a[1] = Expect({"fn"}) /\ a[2] = Call("named") BY <2>1
  <2>2. a \in Seq(Inside) /\ Len(a) = 2 /\ a[1] = Expect({"fn"}) /\ a[2] = Call("named")
    BY <2>1, <2>6, <2>7
  <2>3. a \in Seq(Calm) BY <2>2, Levels, SeqOver
  <2>4. 2 \in 1 .. Len(a) /\ Starter(a[2]) /\ \A i \in 1 .. 2 - 1 : Early(a[i]) BY <1>2, <2>2
  <2>5. Do(a) BY <1>4, <2>1 DEF ParseFn
  <2>. QED BY <1>1, <2>3, <2>4, <2>5, GoBegun
<1>5. CASE ParseNamed
  <2>1. CASE Current \in Names
    <3>1. PICK a : a = <<Mark("fn"), Keep, Call("params"), Expect({"->"}), Call("type"), Call("body")>>
      OBVIOUS
    <3>2. Mark("fn") \in Inside BY Parts DEF Kinds
    <3>5. <<Mark("fn"), Keep, Call("params"), Expect({"->"}), Call("type"), Call("body")>> \in Seq(Inside)
      BY <3>2, Parts, Few
    <3>6. a # <<>> /\ a[1] = Mark("fn") BY <3>1
    <3>3. a \in Seq(Inside) /\ a # <<>> /\ a[1] = Mark("fn") BY <3>1, <3>5, <3>6
    <3>4. Do(a) BY <1>5, <2>1, <3>1 DEF ParseNamed
    <3>. QED BY <1>2, <1>3, <3>3, <3>4
  <2>2. CASE Current \notin Names
    <3>1. Report("E101") /\ Throw /\ UNCHANGED <<pos, program>> BY <1>5, <2>2 DEF ParseNamed
    <3>2. pos' \in Nat \ {0} /\ errors' \subseteq Codes \X Nat
      BY <3>1 DEF ParseInv, ParsedOK, Report, Codes
    <3>. QED BY <3>1, <3>2, ThrowKept
  <2>. QED BY <2>1, <2>2
<1>6. CASE ParseAgent
  <2>1. PICK a : a = <<Keep, Take(Names), Expect({"{"}), Call("inner"), Call("fn"), Expect({"}"})>>
    OBVIOUS
  <2>4. <<Keep, Take(Names), Expect({"{"}), Call("inner"), Call("fn"), Expect({"}"})>> \in Seq(Inside)
    BY Parts, Few
  <2>5. a # <<>> /\ a[1] = Keep BY <2>1
  <2>2. a \in Seq(Inside) /\ a # <<>> /\ a[1] = Keep BY <2>1, <2>4, <2>5
  <2>3. Do(a) BY <1>6, <2>1 DEF ParseAgent
  <2>. QED BY <1>2, <1>3, <2>2, <2>3
<1>. QED BY <1>4, <1>5, <1>6

\* Structures and enumerations.
LEMMA StructsKept ==
  ASSUME ParseInv, UNCHANGED passed, ParseDat \/ ParseEnm
  PROVE  ParseInv'
<1>. USE InsideParts
<1>1. PICK s, n : s = todo /\ n = node OBVIOUS
<1>2. StackOK(s, n) /\ s # <<>> /\ Head(s).do \in {"Dat", "Enm"}
  BY <1>1 DEF ParseInv, ParseDat, ParseEnm, Doing
<1>3. Early(Skip) /\ Starter(Mark("Dat")) /\ Starter(Mark("Enm"))
  BY DEF Early, Starter, Skip, Mark, Task
<1>4. ASSUME NEW kind \in {"Dat", "Enm"}, NEW a \in Seq(Inside), Len(a) >= 2,
             a[1] = Skip, a[2] = Mark(kind),
             todo' = a \o Tail(todo), node' = <<>>, UNCHANGED <<pos, program, errors>>
      PROVE  ParseInv'
  <2>1. a \in Seq(Calm) BY Levels, SeqOver
  <2>2. 2 \in 1 .. Len(a) /\ Starter(a[2]) /\ \A i \in 1 .. 2 - 1 : Early(a[i]) BY <1>3, <1>4
  <2>3. StackOK(a \o Tail(s), <<>>) BY <1>2, <2>1, <2>2, Restarted
  <2>4. StackOK(todo', node') BY <1>1, <1>4, <2>3
  <2>. QED BY <1>4, <2>4 DEF ParseInv, ParsedOK
<1>5. CASE ParseDat
  <2>1. PICK a : a = <<Skip, Mark("Dat"), Take(Names), Expect({"{"}),
                       While({"}"}, <<Take(Names), Expect({":"}), Call("type"),
                                      Match({";"}), Match({","})>>),
                       Expect({"}"})>> OBVIOUS
  <2>2. Mark("Dat") \in Inside BY Parts DEF Kinds
  <2>5. <<Skip, Mark("Dat"), Take(Names), Expect({"{"}),
                       While({"}"}, <<Take(Names), Expect({":"}), Call("type"),
                                      Match({";"}), Match({","})>>),
                       Expect({"}"})>> \in Seq(Inside)
    BY <2>2, Parts, LoopParts, Few
  <2>6. Len(a) >= 2 /\ a[1] = Skip /\ a[2] = Mark("Dat")
    <3>1. Len(a) = 6 BY <2>1
    <3>2. a[1] = Skip BY <2>1
    <3>3. a[2] = Mark("Dat") BY <2>1
    <3>. QED BY <3>1, <3>2, <3>3
  <2>3. a \in Seq(Inside) /\ Len(a) >= 2 /\ a[1] = Skip /\ a[2] = Mark("Dat") BY <2>1, <2>5, <2>6
  <2>4. todo' = a \o Tail(todo) /\ node' = <<>> /\ UNCHANGED <<pos, program, errors>>
    BY <1>5, <2>1 DEF ParseDat
  <2>. QED BY <1>4, <2>3, <2>4
<1>6. CASE ParseEnm
  <2>1. PICK a : a = <<Skip, Mark("Enm"), Take(Names), Expect({"{"}), Variants, Expect({"}"})>> OBVIOUS
  <2>2. Mark("Enm") \in Inside BY Parts DEF Kinds
  <2>5. <<Skip, Mark("Enm"), Take(Names), Expect({"{"}), Variants, Expect({"}"})>> \in Seq(Inside)
    BY <2>2, Parts, LoopParts, Few
  <2>6. Len(a) >= 2 /\ a[1] = Skip /\ a[2] = Mark("Enm")
    <3>1. Len(a) = 6 BY <2>1
    <3>2. a[1] = Skip BY <2>1
    <3>3. a[2] = Mark("Enm") BY <2>1
    <3>. QED BY <3>1, <3>2, <3>3
  <2>3. a \in Seq(Inside) /\ Len(a) >= 2 /\ a[1] = Skip /\ a[2] = Mark("Enm") BY <2>1, <2>5, <2>6
  <2>4. todo' = a \o Tail(todo) /\ node' = <<>> /\ UNCHANGED <<pos, program, errors>>
    BY <1>6, <2>1 DEF ParseEnm
  <2>. QED BY <1>4, <2>3, <2>4
<1>. QED BY <1>5, <1>6

\* A declaration is pushed, and an arm begun and dropped.
LEMMA EndsKept ==
  ASSUME ParseInv, UNCHANGED passed, PushDecl \/ ParseArm \/ DropArm
  PROVE  ParseInv'
<1>1. PICK s, n : s = todo /\ n = node OBVIOUS
<1>2. StackOK(s, n) BY <1>1 DEF ParseInv, PushDecl, ParseArm, DropArm, Doing
<1>3. CASE PushDecl
  <2>1. s # <<>> /\ Head(s).do = "push" BY <1>1, <1>3 DEF PushDecl, Doing
  <2>2. n \in Seq(Symbols) \ {<<>>} /\ StackOK(Tail(s), <<>>) BY <1>2, <2>1, Pushed
  <2>3. program \in Seq(Seq(Symbols) \ {<<>>}) BY DEF ParseInv, ParsedOK
  <2>4. Append(program, n) \in Seq(Seq(Symbols) \ {<<>>})
    <3>1. PICK D : D = Seq(Symbols) \ {<<>>} OBVIOUS
    <3>2. program \in Seq(D) /\ n \in D BY <2>2, <2>3, <3>1
    <3>3. Append(program, n) \in Seq(D) BY <3>2
    <3>. QED BY <3>1, <3>3
  <2>. QED BY <1>1, <1>3, <2>2, <2>4 DEF PushDecl, ParseInv, ParsedOK
<1>4. CASE ParseArm
  <2>1. s # <<>> /\ Head(s).do = "arm" BY <1>1, <1>4 DEF ParseArm, Doing
  <2>2. StackOK(<<Mark("arm"), Call("block"), Call("drop")>> \o Tail(s), n) BY <1>2, <2>1, ArmComes
  <2>3. /\ todo' = <<Mark("arm"), Call("block"), Call("drop")>> \o Tail(s) /\ node' = n
        /\ UNCHANGED <<pos, program, errors>>
    BY <1>1, <1>4 DEF ParseArm, Do
  <2>. QED BY <2>2, <2>3 DEF ParseInv, ParsedOK
<1>5. CASE DropArm
  <2>1. s # <<>> /\ Head(s).do = "drop" BY <1>1, <1>5 DEF DropArm, Doing
  <2>2. PICK m : m = SelectLastInSeq(n, LAMBDA t : t = "arm") OBVIOUS
  <2>3. StackOK(Tail(s), SubSeq(n, 1, m - 1)) BY <1>2, <2>1, <2>2, ArmDropped
  <2>4. /\ todo' = Tail(s) /\ node' = SubSeq(n, 1, m - 1) /\ UNCHANGED <<pos, program, errors>>
    BY <1>1, <1>5, <2>2 DEF DropArm
  <2>. QED BY <2>3, <2>4 DEF ParseInv, ParsedOK
<1>. QED BY <1>3, <1>4, <1>5

\* What the tasks inside of a declaration have in them.
LEMMA InsideHead ==
  ASSUME ParseInv, todo # <<>>, Head(todo).do \in Doers
  PROVE  /\ Head(todo) \in Inside /\ Of \subseteq Symbols /\ Then \in Seq(Listing)
         /\ Head(todo).do = "list" => Then \in Seq(Nested)
         /\ Head(todo).do = "mark" => Of # {}
<1>1. todo \in Seq(Tasks) BY ParseTypes
<1>2. Head(todo) \in Tasks BY <1>1
<1>3. \A t \in Around : t.do \notin Doers BY DEF Around, Deciders, Others, Doers
<1>4. Head(todo) \in Inside BY <1>2, <1>3 DEF Tasks
<1>. QED BY <1>4 DEF Inside, TasksOf, Of, Then

\* A task inside of a declaration goes on with others, the declaration as it is.
LEMMA Stepped ==
  ASSUME ParseInv, todo # <<>>, Head(todo).do \in Doers, ~Early(Head(todo)), ~Starter(Head(todo)),
         Head(todo) # Mark("arm"),
         NEW a \in Seq(Inside), todo' = a \o Tail(todo), node' = node, UNCHANGED <<passed, program>>,
         pos' \in Nat \ {0}, errors' \subseteq Codes \X Nat
  PROVE  ParseInv'
<1>1. PICK s, n : s = todo /\ n = node OBVIOUS
<1>2. /\ StackOK(s, n) /\ s # <<>> /\ Head(s).do \in Doers
      /\ ~Early(Head(s)) /\ ~Starter(Head(s)) /\ Head(s) # Mark("arm")
  BY <1>1 DEF ParseInv
<1>3. Head(s).do # "drop" BY <1>2 DEF Doers
<1>4. a \in Seq(Calm) BY Levels, SeqOver
<1>5. <<>> \in Seq(Symbols) /\ n \in Seq(Symbols) BY <1>2 DEF StackOK
<1>6. StackOK(a \o Tail(s), n \o <<>>) BY <1>2, <1>3, <1>4, <1>5, GoingInside
<1>7. StackOK(a \o Tail(s), n) BY <1>5, <1>6
<1>. QED BY <1>1, <1>7 DEF ParseInv, ParsedOK

\* The position and the errors a helper leaves.
LEMMA Read ==
  ASSUME ParseInv
  PROVE  /\ pos \in Nat \ {0} /\ pos + 0 = pos /\ pos + 1 \in Nat \ {0}
         /\ errors \subseteq Codes \X Nat
         /\ \A code \in Codes : errors \cup {<<code, pos>>} \subseteq Codes \X Nat
         /\ node \in Seq(Symbols) /\ node \o <<>> = node /\ todo \in Seq(Tasks)
         /\ todo # <<>> => <<>> \o Tail(todo) = Tail(todo)
<1>1. pos \in Nat \ {0} /\ errors \subseteq Codes \X Nat BY DEF ParseInv, ParsedOK
<1>2. node \in Seq(Symbols) /\ todo \in Seq(Tasks) BY ParseTypes
<1>3. node \o <<>> = node BY <1>2
<1>4. todo # <<>> => <<>> \o Tail(todo) = Tail(todo) BY <1>2
<1>. QED BY <1>1, <1>2, <1>3, <1>4

\* expect, match and advance.
LEMMA TokensKept ==
  ASSUME ParseInv, tokens \in Seq(Symbols), UNCHANGED passed, DoExpect \/ DoMatch
  PROVE  ParseInv'
<1>1. /\ todo # <<>> /\ Head(todo).do \in {"expect", "take", "match", "skip", "keep"}
      /\ todo' = Tail(todo) /\ UNCHANGED program
  BY DEF DoExpect, DoMatch, Doing, Go
<1>2. Head(todo).do \notin {"drop", "program"} /\ Head(todo) # Mark("arm") BY <1>1 DEF Mark, Task
<1>3. <<Current>> \in Seq(Symbols) /\ <<Current>> # <<>> /\ <<>> \in Seq(Symbols)
  <2>1. Current \in Symbols BY TokensAreSymbols
  <2>. QED BY <2>1
<1>4. pos' \in Nat \ {0} /\ errors' \subseteq Codes \X Nat
  <2>1. /\ pos' \in {pos, pos + 0, pos + 1}
        /\ errors' \in {errors, errors \cup {<<"E102", pos>>}}
    BY DEF DoExpect, DoMatch, Go, Report
  <2>. QED BY <2>1, Read DEF Codes
<1>5. \/ node' = node \o <<Current>>
      \/ node' = node \o <<>> /\ ~Starter(Head(todo))
  <2>1. CASE Head(todo).do = "keep" BY <1>1, <2>1 DEF DoExpect, DoMatch, Doing, Go
  <2>2. CASE Head(todo).do # "keep"
    <3>1. ~Starter(Head(todo)) BY <1>1, <2>2 DEF Starter
    <3>2. node' \in {node, node \o <<Current>>, node \o <<>>} BY DEF DoExpect, DoMatch, Go
    <3>. QED BY <3>1, <3>2, Read
  <2>. QED BY <2>1, <2>2
<1>6. CASE node' = node \o <<Current>> BY <1>1, <1>2, <1>3, <1>4, <1>6, Kept
<1>7. CASE node' = node \o <<>> /\ ~Starter(Head(todo))
  <2>1. PICK e : e = <<>> OBVIOUS
  <2>2. e \in Seq(Symbols) /\ node' = node \o e /\ ~Starter(Head(todo)) BY <1>7, <2>1
  <2>. QED BY <1>1, <1>2, <1>4, <2>2, Kept
<1>. QED BY <1>5, <1>6, <1>7

\* A number, or the exception of a conversion.
LEMMA NumberKept ==
  ASSUME ParseInv, tokens \in Seq(Symbols), UNCHANGED passed, DoNumber
  PROVE  ParseInv'
<1>1. todo # <<>> /\ Head(todo).do = "number" /\ UNCHANGED program BY DEF DoNumber, Doing
<1>2. Head(todo).do \notin {"drop", "program"} /\ Head(todo) # Mark("arm") BY <1>1 DEF Mark, Task
<1>3. pos' \in Nat \ {0} /\ errors' \subseteq Codes \X Nat
  <2>1. /\ pos' \in {pos + 0, pos + 1}
        /\ errors' \in {errors, errors \cup {<<"E102", pos>>}}
    BY DEF DoNumber, Report
  <2>. QED BY <2>1, Read DEF Codes
<1>4. CASE Throw BY <1>1, <1>3, <1>4, ThrowKept
<1>5. CASE todo' = Tail(todo) /\ node' = Append(node, Current)
  <2>1. Current \in Symbols BY TokensAreSymbols
  <2>2. <<Current>> \in Seq(Symbols) /\ <<Current>> # <<>> BY <2>1
  <2>3. node' = node \o <<Current>> BY <1>5, <2>1, Read
  <2>. QED BY <1>1, <1>2, <1>3, <1>5, <2>2, <2>3, Kept
<1>. QED BY <1>4, <1>5 DEF DoNumber

\* The kind of a node.
LEMMA MarkKept ==
  ASSUME ParseInv, UNCHANGED passed, DoMark
  PROVE  ParseInv'
<1>1. /\ todo # <<>> /\ Head(todo).do = "mark" /\ todo' = Tail(todo)
      /\ node' = node \o <<CHOOSE kind \in Of : TRUE>> /\ pos' = pos + 0 /\ UNCHANGED <<program, errors>>
  BY DEF DoMark, Doing, Go
<1>2. PICK k : k = CHOOSE kind \in Of : TRUE OBVIOUS
<1>3. k \in Of /\ k \in Symbols
  <2>1. Of # {} /\ Of \subseteq Symbols BY <1>1, InsideHead DEF Doers
  <2>. QED BY <1>2, <2>1
<1>4. node' = node \o <<k>> BY <1>1, <1>2
<1>5. pos' \in Nat \ {0} /\ errors' \subseteq Codes \X Nat BY <1>1, Read
<1>6. CASE Head(todo) = Mark("arm")
  <2>1. Of = {"arm"} BY <1>6 DEF Of, Mark, Task
  <2>2. k = "arm" BY <1>3, <2>1
  <2>3. PICK s, n : s = todo /\ n = node OBVIOUS
  <2>4. StackOK(s, n) /\ s # <<>> /\ Head(s) = Mark("arm") BY <1>1, <1>6, <2>3 DEF ParseInv
  <2>5. StackOK(Tail(s), Append(n, "arm")) BY <2>4, ArmMarked
  <2>6. node' = Append(n, "arm")
    <3>1. n \in Seq(Symbols) BY <2>4 DEF StackOK
    <3>2. "arm" \in Symbols BY Signs DEF Kinds
    <3>. QED BY <1>4, <2>2, <2>3, <3>1, <3>2
  <2>. QED BY <1>1, <1>5, <2>3, <2>5, <2>6 DEF ParseInv, ParsedOK
<1>7. CASE Head(todo) # Mark("arm")
  <2>1. <<k>> \in Seq(Symbols) /\ <<k>> # <<>> BY <1>3
  <2>2. Head(todo).do \notin {"drop", "program"} BY <1>1
  <2>. QED BY <1>1, <1>4, <1>5, <1>7, <2>1, <2>2, Kept
<1>. QED BY <1>6, <1>7

\* Choices and loops.
LEMMA LoopsKept ==
  ASSUME ParseInv, UNCHANGED passed, DoIf \/ DoWhile \/ DoList
  PROVE  ParseInv'
<1>1. CASE DoIf
  <2>1. todo # <<>> /\ Head(todo).do = "if" BY <1>1 DEF DoIf, Doing
  <2>2. /\ ~Early(Head(todo)) /\ ~Starter(Head(todo)) /\ Head(todo) # Mark("arm")
        /\ Head(todo).do \in Doers
    BY <2>1 DEF Early, Starter, Mark, Task, Doers
  <2>3. Then \in Seq(Inside)
    <3>1. Then \in Seq(Listing) BY <2>1, <2>2, InsideHead
    <3>. QED BY <3>1, Levels, SeqOver
  <2>4. PICK a : a = IF Current \in Of THEN Then ELSE <<>> OBVIOUS
  <2>5. a \in Seq(Inside) BY <2>3, <2>4
  <2>6. todo' = a \o Tail(todo) BY <1>1, <2>1, <2>4, Read DEF DoIf
  <2>7. /\ node' = node /\ UNCHANGED <<program>> /\ pos' \in Nat \ {0} /\ errors' \subseteq Codes \X Nat
    BY <1>1, Read DEF DoIf, Go
  <2>. QED BY <2>1, <2>2, <2>5, <2>6, <2>7, Stepped
<1>2. CASE DoWhile
  <2>1. todo # <<>> /\ Head(todo).do = "while" BY <1>2 DEF DoWhile, Doing
  <2>2. /\ ~Starter(Head(todo)) /\ Head(todo) # Mark("arm") /\ Head(todo).do \in Doers
    BY <2>1 DEF Starter, Mark, Task, Doers
  <2>3. Head(todo) \in Inside /\ Then \in Seq(Inside)
    <3>1. Head(todo) \in Inside /\ Then \in Seq(Listing) BY <2>1, <2>2, InsideHead
    <3>. QED BY <3>1, Levels, SeqOver
  <2>4. Do(<<>>) \/ Do(Append(Then, Head(todo))) BY <1>2 DEF DoWhile
  <2>5. CASE Early(Head(todo))
    <3>1. Then \in {<<Call("annotation")>>, <<Skip>>} BY <2>1, <2>5 DEF Early, Then
    <3>2. Then \in Seq(CalmEarly) BY <3>1, CallEarly, Few, ZenonT(40)
    <3>3. Head(todo) \in CalmEarly BY <2>3, <2>5, Levels DEF CalmEarly
    <3>4. Append(Then, Head(todo)) \in Seq(CalmEarly) /\ <<>> \in Seq(CalmEarly) BY <3>2, <3>3
    <3>5. \E a \in Seq(CalmEarly) : Do(a) BY <2>4, <3>4
    <3>. QED BY <2>1, <2>2, <2>5, <3>5, GoEarly
  <2>6. CASE ~Early(Head(todo))
    <3>1. Append(Then, Head(todo)) \in Seq(Inside) /\ <<>> \in Seq(Inside) BY <2>3
    <3>2. PICK a \in Seq(Inside) : Do(a) BY <2>4, <3>1
    <3>3. /\ todo' = a \o Tail(todo) /\ node' = node /\ UNCHANGED program
          /\ pos' \in Nat \ {0} /\ errors' \subseteq Codes \X Nat
      BY <3>2, Read DEF Do
    <3>. QED BY <2>1, <2>2, <2>6, <3>3, Stepped
  <2>. QED BY <2>5, <2>6
<1>3. CASE DoList
  <2>1. todo # <<>> /\ Head(todo).do = "list" /\ Head(todo).do \in Bodily /\ Head(todo).do \in Doers
    BY <1>3 DEF DoList, Doing, Bodily, Doers
  <2>2. Of \in SUBSET Symbols /\ Then \in Seq(Nested) BY <2>1, InsideHead
  <2>3. List(Of, Then) \in Listing BY <2>2, NestedTasks
  <2>4. <<List(Of, Then)>> \in Seq(Listing) BY <2>3
  <2>5. If(Of, <<List(Of, Then)>>) \in Inside BY <2>2, <2>4, NestedTasks
  <2>6. <<If(Of, <<List(Of, Then)>>)>> \in Seq(Inside) /\ <<>> \in Seq(Inside) BY <2>5
  <2>7. Then \in Seq(Inside) BY <2>2, Levels, SeqOver
  <2>8. Then \o <<If(Of, <<List(Of, Then)>>)>> \in Seq(Inside) BY <2>6, <2>7, Few
  <2>9. \E a \in Seq(Inside) : Do(a) BY <1>3, <2>6, <2>8 DEF DoList
  <2>. QED BY <2>1, <2>9, Descend
<1>. QED BY <1>1, <1>2, <1>3

\* What @correct and the arms of a match pass over.
LEMMA UntilKept ==
  ASSUME ParseInv, DoUntil
  PROVE  ParseInv'
<1>1. todo # <<>> /\ Head(todo).do = "until" BY DEF DoUntil, Doing
<1>2. CASE Current \in Of \cup {"eof"}
  <2>1. /\ ~Early(Head(todo)) /\ ~Starter(Head(todo)) /\ Head(todo) # Mark("arm")
        /\ Head(todo).do \in Doers
    BY <1>1 DEF Early, Starter, Mark, Task, Doers
  <2>2. PICK a : a = <<>> OBVIOUS
  <2>3. a \in Seq(Inside) BY <2>2
  <2>4. todo' = a \o Tail(todo) BY <1>1, <1>2, <2>2, Read DEF DoUntil
  <2>5. /\ node' = node /\ UNCHANGED <<passed, program>> /\ pos' \in Nat \ {0}
        /\ errors' \subseteq Codes \X Nat
    BY <1>2, Read DEF DoUntil, Go
  <2>. QED BY <1>1, <2>1, <2>3, <2>4, <2>5, Stepped
<1>3. CASE Current \notin Of \cup {"eof"}
  <2>1. /\ todo # <<>> /\ todo' = todo /\ node' = node /\ UNCHANGED <<program, errors>>
        /\ pos' = pos + 1 /\ passed' = passed \cup {pos}
    BY <1>3, Read DEF DoUntil, Doing, Go
  <2>. QED BY <2>1 DEF ParseInv, ParsedOK
<1>. QED BY <1>2, <1>3

\* Every step of the parser.
LEMMA ParseKept ==
  ASSUME ParseInv, tokens \in Seq(Symbols), UNCHANGED tokens, Parse
  PROVE  ParseInv'
<1>1. CASE DoUntil BY <1>1, UntilKept
<1>2. CASE Help /\ UNCHANGED passed
  BY <1>2, TokensKept, NumberKept, MarkKept, LoopsKept DEF Help
<1>3. CASE ParseFunction /\ UNCHANGED passed
  <2>1. CASE ParseProgram \/ Synchronize \/ ParseImport \/ ParseModule \/ ParseTopLevel
    BY <1>3, <2>1, ProgramKept, EarlyKept, TopLevelKept
  <2>2. CASE ParseAnnotationBlock \/ ParseAnnotation \/ UnknownAnnotation
    BY <1>3, <2>2, EarlyKept, AnnotationKept, UnknownKept
  <2>3. CASE ParseDeclaration
    BY <1>3, <2>3, FunctionsKept, StructsKept, DeclarationsKept DEF ParseDeclaration
  <2>4. CASE ParseType \/ ParsePrimaryType BY <1>3, <2>4, DeclarationsKept, TypesKept
  <2>5. CASE PushDecl \/ ParseArm \/ DropArm BY <1>3, <2>5, EndsKept
  <2>6. CASE ParseBinding \/ ParseStmt \/ ParseBlock \/ ParseStmts BY <1>3, <2>6, StatementsKept
  <2>7. CASE ParseExpr BY <1>3, <2>7, OperatorsKept, PrimariesKept DEF ParseExpr
  <2>. QED BY <1>3, <2>1, <2>2, <2>3, <2>4, <2>5, <2>6, <2>7 DEF ParseFunction
<1>. QED BY <1>1, <1>2, <1>3 DEF Parse

-----------------------------------------------------------------------------
(* The lexer.                                                               *)

\* A token more, of so many characters.
LEMMA Made ==
  ASSUME LexInv, at <= Len(source), NEW t \in Symbols, NEW width \in {1, 2}, Make(t, width)
  PROVE  LexInv'
<1>1. /\ Len(source) \in Nat /\ at \in 1 .. Len(source) + 2 /\ tokens \in Seq(Symbols)
      /\ Len(tokens) \in Nat /\ Len(tokens) < at
  BY DEF LexInv
<1>2. tokens' = Append(tokens, t) /\ at' = at + width /\ UNCHANGED <<source, garbled>> BY DEF Make
<1>3. tokens' \in Seq(Symbols) /\ Len(tokens') = Len(tokens) + 1 BY <1>1, <1>2
<1>4. /\ at' \in 1 .. Len(source) + 2 /\ Len(tokens') < at' /\ Len(tokens') <= Len(source)
  BY <1>1, <1>2, <1>3
<1>. QED BY <1>2, <1>3, <1>4 DEF LexInv

\* A comment ends with its line, or with the source.
LEMMA CommentEnds ==
  ASSUME LexInv, at <= Len(source)
  PROVE  (CHOOSE k \in at .. Len(source) + 1 :
            /\ k = Len(source) + 1 \/ Piece(k) = "newline"
            /\ \A j \in at .. k - 1 : Piece(j) # "newline") \in at .. Len(source) + 1
<1>. DEFINE S == {k \in at .. Len(source) + 1 : k = Len(source) + 1 \/ Piece(k) = "newline"}
            m == CHOOSE x \in S : \A y \in S : x <= y
<1>1. Len(source) \in Nat /\ at \in 1 .. Len(source) BY DEF LexInv
<1>2. Len(source) + 1 \in S /\ S \subseteq 1 .. Len(source) + 1 /\ Len(source) + 1 \in Nat BY <1>1
<1>3. m \in S /\ \A y \in S : m <= y
  <2>. HIDE DEF S
  <2>. QED BY <1>2, LeastPosition
<1>4. ASSUME NEW j \in at .. m - 1 PROVE Piece(j) # "newline"
  <2>. HIDE DEF m
  <2>1. m \in at .. Len(source) + 1 BY <1>3
  <2>2. j \in at .. Len(source) + 1 /\ ~(m <= j) BY <1>1, <2>1
  <2>3. j \notin S BY <1>3, <2>2
  <2>. QED BY <2>2, <2>3
<1>5. /\ m \in at .. Len(source) + 1
      /\ m = Len(source) + 1 \/ Piece(m) = "newline"
      /\ \A j \in at .. m - 1 : Piece(j) # "newline"
  <2>. HIDE DEF m
  <2>. QED BY <1>3, <1>4
<1>. HIDE DEF m
<1>. QED BY <1>5

\* Every step of the lexer.
LEMMA LexKept ==
  ASSUME LexInv, at <= Len(source), Scan
  PROVE  LexInv'
<1>1. /\ Len(source) \in Nat /\ at \in 1 .. Len(source) /\ tokens \in Seq(Symbols)
      /\ Len(tokens) \in Nat /\ Len(tokens) < at /\ Len(tokens) <= Len(source)
  BY DEF LexInv
<1>2. CASE SkipBlank
  <2>1. at' \in at .. Len(source) + 1
    <3>1. CASE at' = at + 1 BY <1>1, <3>1
    <3>2. CASE at' # at + 1 BY <1>2, <3>2, CommentEnds DEF SkipBlank
    <3>. QED BY <3>1, <3>2
  <2>2. UNCHANGED <<source, tokens, garbled>> BY <1>2 DEF SkipBlank
  <2>3. at' \in 1 .. Len(source) + 2 /\ Len(tokens) < at' BY <1>1, <2>1
  <2>. QED BY <2>2, <2>3 DEF LexInv
<1>3. CASE ScanWord
  <2>1. Piece(at) \in Symbols /\ Make(Piece(at), 1) BY <1>3 DEF ScanWord, Symbols
  <2>. QED BY <2>1, Made
<1>4. CASE ScanPair
  <2>1. PICK t : t = IF TwoOf = "==" THEN "=" ELSE TwoOf OBVIOUS
  <2>2. t \in Symbols
    <3>1. "=" \in Symbols BY Signs
    <3>2. TwoOf \in Symbols BY <1>4 DEF ScanPair, Symbols
    <3>. QED BY <2>1, <3>1, <3>2
  <2>3. Make(t, 2) BY <1>4, <2>1 DEF ScanPair
  <2>. QED BY <2>2, <2>3, Made
<1>5. CASE ScanSymbol
  <2>1. CASE Piece(at) \in Singles /\ Make(Piece(at), 1)
    <3>1. Piece(at) \in Symbols BY <2>1 DEF Symbols
    <3>. QED BY <2>1, <3>1, Made
  <2>2. CASE Piece(at) = "?" /\ Make(Question(LastToken), 1)
    <3>1. Question(LastToken) \in Symbols
      <4>1. Question(LastToken) \in {"?r", "?p", "?"} BY DEF Question
      <4>. QED BY <4>1, Signs
    <3>. QED BY <2>2, <3>1, Made
  <2>. QED BY <1>5, <2>1, <2>2 DEF ScanSymbol
<1>6. CASE ScanError
  <2>1. garbled' = TRUE /\ tokens' = Append(tokens, "error") /\ at' = at + 2 /\ source' = source
    BY <1>6 DEF ScanError
  <2>2. "error" \in Symbols BY DEF Symbols
  <2>3. tokens' \in Seq(Symbols) /\ Len(tokens') = Len(tokens) + 1 BY <1>1, <2>1, <2>2
  <2>4. at' \in 1 .. Len(source) + 2 /\ Len(tokens') < at' /\ Len(tokens') <= Len(source)
    BY <1>1, <2>1, <2>3
  <2>5. source \in Seq(STRING) BY DEF LexInv
  <2>. QED BY <2>1, <2>3, <2>4, <2>5 DEF LexInv
<1>. QED BY <1>2, <1>3, <1>4, <1>5, <1>6 DEF Scan

-----------------------------------------------------------------------------
(* The compilation.                                                         *)

\* How far the compilation is, what resolve returned, and the whole invariant.
Stages  == {"lexing", "parsing", "accepted", "rejected", "killed"}
Answers == {"failed", "nothing", "partial", "whole"}
FrontInv == /\ ParseInv /\ LexInv /\ CacheInv
            /\ stage \in Stages /\ answered \in [Callers -> Answers]
            /\ stage = "lexing" => todo # <<>>
            /\ stage \in {"accepted", "rejected"} => garbled \/ todo = <<>>

\* What resolve returns.
LEMMA Answered ==
  ASSUME CacheInv, answered \in [Callers -> Answers], CacheStep
  PROVE  answered' \in [Callers -> Answers]
<1>1. PICK c \in Callers : Begin(c) \/ Resolve(c) BY DEF CacheStep
<1>2. CASE Sweep(c)
  <2>1. dir \in [Packages -> States] /\ wanted \in [Callers -> Packages] BY DEF CacheInv, CacheTypeOK
  <2>2. dir[wanted[c]] \in States BY <2>1
  <2>3. PICK t : /\ t = IF Quoted(c) \/ dir[wanted[c]] = "absent" THEN "nothing" ELSE dir[wanted[c]]
                 /\ answered' = [answered EXCEPT ![c] = t]
    BY <1>2 DEF Sweep, Return
  <2>4. t \in Answers BY <2>2, <2>3 DEF States, Answers
  <2>. QED BY <2>3, <2>4
<1>3. CASE UNCHANGED answered \/ Return(c, "failed")
  BY <1>3 DEF Return, Answers
<1>. QED BY <1>1, <1>2, <1>3 DEF Begin, Resolve, Look, StartClone, FinishClone, FailClone, Kill

\* At first nothing is read.
LEMMA FrontInitial ==
  ASSUME Init
  PROVE  FrontInv
<1>1. ParseInv
  <2>1. /\ pos = 1 /\ todo = <<Call("program")>> /\ node = <<>> /\ program = <<>>
        /\ errors = {} /\ passed = {}
    BY DEF Init, ParseInit
  <2>2. ParsedOK BY <2>1 DEF ParsedOK
  <2>3. PICK x : x = Call("program") OBVIOUS
  <2>4. x \in Tasks /\ x.do = "program" BY <2>3 DEF Call, Task, Tasks, Around, Deciders, Others
  <2>5. Early(x) /\ x # Call("drop") /\ x # Mark("arm") BY <2>4 DEF Early, Call, Mark, Task
  <2>6. PICK s : s = <<x>> OBVIOUS
  <2>7. s \in Seq(Tasks) /\ Len(s) = 1 /\ DOMAIN s = {1} /\ s[1] = x /\ Head(s) = x BY <2>4, <2>6
  <2>13. Founded(s)
    <3>1. s # <<>> /\ s[Len(s)] = x BY <2>7
    <3>. QED BY <2>4, <3>1 DEF Founded
  <2>8. Ordered(s) BY <2>7 DEF Ordered
  <2>9. Begun(s)
    <3>1. BegunAt(s, 1) BY <2>5, <2>7 DEF BegunAt
    <3>. QED BY <2>7, <3>1 DEF Begun
  <2>10. Paired(s, <<>>)
    <3>1. Drops(s) = 0 BY <2>5, <2>7, NoOccurrence DEF Drops
    <3>. QED BY <2>5, <2>7, <3>1 DEF Paired, ArmsIn
  <2>11. StackOK(s, <<>>) BY <2>7, <2>8, <2>9, <2>10, <2>13 DEF StackOK
  <2>12. todo = s /\ node = <<>> BY <2>1, <2>3, <2>6
  <2>14. StackOK(todo, node) BY <2>11, <2>12
  <2>. QED BY <2>2, <2>14 DEF ParseInv
<1>2. LexInv
  <2>1. PICK t \in Sources : LexInit(t.text) BY DEF Init
  <2>2. source \in Seq(STRING) /\ at = 1 /\ tokens = <<>> /\ garbled = FALSE
    BY <2>1, SourcesAssumption DEF LexInit
  <2>3. Len(source) \in Nat /\ tokens \in Seq(Symbols) /\ Len(tokens) = 0 BY <2>2
  <2>4. at \in 1 .. Len(source) + 2 /\ Len(tokens) < at /\ Len(tokens) <= Len(source) BY <2>2, <2>3
  <2>. QED BY <2>2, <2>3, <2>4 DEF LexInv
<1>3. stage \in Stages /\ answered \in [Callers -> Answers]
  BY DEF Init, CacheInit, Stages, Answers
<1>4. stage = "lexing" /\ todo # <<>> BY DEF Init, ParseInit
<1>. QED BY <1>1, <1>2, <1>3, <1>4, CacheInitial DEF FrontInv

\* The call of resolve and its return.
LEMMA ImportKept ==
  ASSUME ParseInv, CallResolve \/ ReturnResolve
  PROVE  ParseInv'
<1>1. todo # <<>> /\ Head(todo).do # "program" /\ Early(Head(todo)) /\ ~Starter(Head(todo)) /\ UNCHANGED passed
  BY DEF CallResolve, ReturnResolve, Doing, Early, Starter
<1>2. <<Call("resolving")>> \in Seq(CalmEarly) /\ <<>> \in Seq(CalmEarly) BY CallEarly, Few
<1>3. \E a \in Seq(CalmEarly) : Do(a) BY <1>2 DEF CallResolve, ReturnResolve
<1>. QED BY <1>1, <1>3, GoEarly

\* Every step of the front end.
LEMMA FrontKept ==
  ASSUME FrontInv, [Next]_vars
  PROVE  FrontInv'
<1>1. CacheInv'
  <2>1. CASE CacheStep BY <2>1, CacheKept DEF FrontInv
  <2>2. CASE UNCHANGED cacheVars
    BY <2>2 DEF cacheVars, FrontInv, CacheInv, CacheTypeOK, OneClone, CachedWhole
  <2>. QED BY <2>1, <2>2, OnlyCallersTouchTheCache
<1>2. (answered \in [Callers -> Answers])'
  <2>1. CASE CacheStep BY <2>1, Answered DEF FrontInv
  <2>2. CASE UNCHANGED cacheVars BY <2>2 DEF cacheVars, FrontInv
  <2>. QED BY <2>1, <2>2, OnlyCallersTouchTheCache
<1>3. (stage \in Stages)'
  <2>1. stage' = stage \/ stage' \in {"rejected", "parsing", "killed", "accepted"}
    BY DEF Next, Compile, Lex, EndLex, ParseOn, CallResolve, RunResolve, ReturnResolve, EndParse,
           Get, Over, vars
  <2>. QED BY <2>1 DEF FrontInv, Stages
<1>4. LexInv'
  <2>1. CASE Lex BY <2>1, LexKept DEF Lex, FrontInv
  <2>2. CASE UNCHANGED lexVars BY <2>2 DEF lexVars, FrontInv, LexInv
  <2>3. Lex \/ UNCHANGED lexVars
    BY DEF Next, Compile, EndLex, ParseOn, CallResolve, RunResolve, ReturnResolve, EndParse,
           Get, Over, vars
  <2>. QED BY <2>1, <2>2, <2>3
<1>5. ParseInv'
  <2>1. CASE ParseOn BY <2>1, ParseKept DEF ParseOn, lexVars, FrontInv, LexInv
  <2>2. CASE CallResolve \/ ReturnResolve BY <2>2, ImportKept DEF FrontInv
  <2>3. CASE UNCHANGED parseVars /\ (stage = "lexing" \/ UNCHANGED lexVars)
    <3>1. CASE StackOK(todo, node) BY <2>3, <3>1 DEF parseVars, FrontInv, ParseInv, ParsedOK
    <3>2. CASE todo = <<>> /\ node \in Seq(Symbols) /\ Current = "eof"
      <4>1. Current' = "eof" BY <2>3, <3>2 DEF parseVars, lexVars, FrontInv, Current, Peek
      <4>. QED BY <2>3, <3>2, <4>1 DEF parseVars, FrontInv, ParseInv, ParsedOK
    <3>. QED BY <3>1, <3>2 DEF FrontInv, ParseInv
  <2>4. \/ ParseOn \/ CallResolve \/ ReturnResolve
        \/ UNCHANGED parseVars /\ (stage = "lexing" \/ UNCHANGED lexVars)
    BY DEF Next, Compile, Lex, EndLex, RunResolve, EndParse, Get, Over, vars
  <2>. QED BY <2>1, <2>2, <2>3, <2>4
<1>6. (stage = "lexing" => todo # <<>>)'
  <2>1. stage' # "lexing" \/ (stage = "lexing" /\ UNCHANGED todo)
    BY DEF Next, Compile, Lex, EndLex, ParseOn, CallResolve, RunResolve, ReturnResolve, EndParse,
           Get, Over, vars, parseVars
  <2>. QED BY <2>1 DEF FrontInv
<1>7. (stage \in {"accepted", "rejected"} => garbled \/ todo = <<>>)'
  <2>1. CASE EndLex BY <2>1 DEF EndLex, lexVars
  <2>2. CASE EndParse BY <2>2 DEF EndParse, parseVars
  <2>3. CASE stage' \notin {"accepted", "rejected"} BY <2>3
  <2>4. CASE UNCHANGED <<stage, lexVars, parseVars>> BY <2>4 DEF lexVars, parseVars, FrontInv
  <2>5. \/ EndLex \/ EndParse \/ stage' \notin {"accepted", "rejected"}
        \/ UNCHANGED <<stage, lexVars, parseVars>>
    BY DEF Next, Compile, Lex, ParseOn, CallResolve, RunResolve, ReturnResolve, Get, Over, vars
  <2>. QED BY <2>1, <2>2, <2>3, <2>4, <2>5
<1>. QED BY <1>1, <1>2, <1>3, <1>4, <1>5, <1>6, <1>7 DEF FrontInv

\* FrontInv, the invariant behind the theorem below, holds throughout.
THEOREM FrontInvariant == Spec => []FrontInv
<1>1. Init => FrontInv BY FrontInitial
<1>2. FrontInv /\ [Next]_vars => FrontInv' BY FrontKept
<1>. QED BY <1>1, <1>2, PTL DEF Spec

\* Whatever is compiled, however it is mistyped: parse_program (parser.cpp 49-60) never
\* pushes a declaration that was not begun, or one that was moved from; every error
\* is of a documented code and at a token; the lexer makes no more tokens than the
\* source has pieces and ends at most one behind it.
THEOREM FrontTypeCorrect == Spec => []FrontTypeOK
<1>1. FrontInv => FrontTypeOK
  <2>. SUFFICES ASSUME FrontInv PROVE FrontTypeOK OBVIOUS
  <2>1. /\ at \in 1 .. Len(source) + 2 /\ garbled \in BOOLEAN /\ Len(tokens) <= Len(source)
    BY DEF FrontInv, LexInv
  <2>2. /\ pos \in Nat \ {0} /\ passed \subseteq Nat \ {0}
        /\ program \in Seq(Seq(Symbols) \ {<<>>}) /\ errors \subseteq Codes \X Nat
    BY DEF FrontInv, ParseInv, ParsedOK
  <2>3. \A d \in DOMAIN program : program[d] # <<>>
    <3>1. PICK D : D = Seq(Symbols) \ {<<>>} OBVIOUS
    <3>2. program \in Seq(D) BY <2>2, <3>1
    <3>3. \A d \in DOMAIN program : program[d] \in D BY <3>2
    <3>. QED BY <3>1, <3>3
  <2>4. \A e \in errors : e[1] \in {"E101", "E102", "E104", "E105", "E300"} /\ e[2] \in Nat
    BY <2>2 DEF Codes
  <2>5. /\ dir \in [Packages -> States] /\ phase \in [Callers -> Phases]
        /\ stage \in Stages /\ answered \in [Callers -> Answers]
    BY DEF FrontInv, CacheInv, CacheTypeOK
  <2>. QED BY <2>1, <2>2, <2>3, <2>4, <2>5 DEF FrontTypeOK, States, Phases, Stages, Answers
<1>. QED BY <1>1, FrontInvariant, PTL

\* Whatever is compiled, the parser returns only at the end of the tokens: each call
\* and each catch has the loop of parse_program behind it (parser.cpp 49-60).
THEOREM ParsedToTheEnd == Spec => []ReadToTheEnd
<1>1. FrontInv => ReadToTheEnd
  <2>. SUFFICES ASSUME FrontInv, stage \in {"accepted", "rejected"}, ~garbled PROVE Current = "eof"
    BY DEF ReadToTheEnd
  <2>1. todo = <<>> /\ ParseInv BY DEF FrontInv
  <2>2. ~StackOK(todo, node) BY <2>1 DEF StackOK, Founded
  <2>. QED BY <2>1, <2>2 DEF ParseInv
<1>. QED BY <1>1, FrontInvariant, PTL

\* When the block of an arm has been parsed, what it is cut off at is there, and it
\* is behind the first node of the declaration: of a match only the arms are dropped.
ArmIsThere == Doing("drop") => \E i \in 2 .. Len(node) : node[i] = "arm"

\* Whatever is compiled, the block of an arm is dropped and nothing before it
\* (parser.cpp 415), however errors and exceptions cut the match short.
THEOREM ArmsAreDropped == Spec => []ArmIsThere
<1>1. FrontInv => ArmIsThere
  <2>. SUFFICES ASSUME FrontInv, Doing("drop") PROVE \E i \in 2 .. Len(node) : node[i] = "arm"
    BY DEF ArmIsThere
  <2>1. PICK s, n : s = todo /\ n = node OBVIOUS
  <2>2. StackOK(s, n) /\ s # <<>> /\ Head(s).do = "drop"
    BY <2>1 DEF FrontInv, ParseInv, Doing
  <2>3. PICK m : m = SelectLastInSeq(n, LAMBDA t : t = "arm") OBVIOUS
  <2>4. m \in 2 .. Len(n) /\ n[m] = "arm" BY <2>2, <2>3, ArmDropped
  <2>. QED BY <2>1, <2>4
<1>. QED BY <1>1, FrontInvariant, PTL
===============================================================================
