------------------------------- MODULE Frontend -------------------------------
(***************************************************************************)
(* The first stages of main.cpp: one compilation lexes and parses its      *)
(* source.  An import of a package calls the package manager from within   *)
(* the parser, while other processes use the same cache.                    *)
(***************************************************************************)
EXTENDS Parser, PkgCache, FiniteSets

CONSTANTS
  Sources,   \* the sources under consideration, each with the tree it was
             \* written from, or <<>> where it was mistyped
  Compiler   \* the compilation

ASSUME FrontendAssumption == Compiler \in Compilations
ASSUME SourcesAssumption == \A s \in Sources : s.text \in Seq(STRING)

VARIABLES
  meant,   \* the tree the source was written from
  stage    \* lexing, parsing, accepted, rejected or killed

vars == <<lexVars, parseVars, cacheVars, meant, stage>>

Init ==
  /\ \E s \in Sources : LexInit(s.text) /\ meant = s.tree
  /\ ParseInit /\ CacheInit
  /\ stage = "lexing"

\* The loop of main over the tokens.
Lex == /\ stage = "lexing" /\ at <= Len(source)
       /\ Scan
       /\ UNCHANGED <<parseVars, cacheVars, meant, stage>>

EndLex == /\ stage = "lexing" /\ at > Len(source)
          /\ stage' = IF garbled THEN "rejected" ELSE "parsing"
          /\ UNCHANGED <<lexVars, parseVars, cacheVars, meant>>

ParseOn == /\ stage = "parsing"
           /\ Parse
           /\ UNCHANGED <<lexVars, cacheVars, meant, stage>>

\* parse_import: resolve is called, runs, and returns.  It never returns a text to
\* a compilation (FetchedIsReturned), so there is nothing to parse.
CallResolve ==
  /\ stage = "parsing" /\ Doing("resolve")
  /\ Begin(Compiler)
  /\ Do(<<Call("resolving")>>)
  /\ UNCHANGED <<lexVars, passed, meant, stage>>
RunResolve ==
  /\ Resolve(Compiler)
  /\ stage' = IF phase'[Compiler] = "dead" THEN "killed" ELSE stage
  /\ UNCHANGED <<lexVars, parseVars, meant>>
ReturnResolve ==
  /\ stage = "parsing" /\ Doing("resolving") /\ phase[Compiler] = "idle"
  /\ Do(<<>>)
  /\ UNCHANGED <<lexVars, passed, cacheVars, meant, stage>>

EndParse == /\ stage = "parsing" /\ todo = <<>>
            /\ stage' = IF errors = {} THEN "accepted" ELSE "rejected"
            /\ UNCHANGED <<lexVars, parseVars, cacheVars, meant>>

Compile == Lex \/ EndLex \/ ParseOn \/ CallResolve \/ RunResolve \/ ReturnResolve \/ EndParse

\* The other processes; they matter only to a source that imports a package.
Imports == \E k \in 2..Len(source) : source[k - 1] = ">" /\ source[k] \in Strings
Get(c) == /\ Imports
          /\ Begin(c) \/ Resolve(c)
          /\ UNCHANGED <<lexVars, parseVars, meant, stage>>

Over == stage \in {"accepted", "rejected", "killed"} /\ UNCHANGED vars

Next == Compile \/ (\E c \in Callers \ {Compiler} : Get(c)) \/ Over

\* The compilation is a process of its own that is run as long as it can.
Spec == Init /\ [][Next]_vars /\ WF_vars(Compile)

-----------------------------------------------------------------------------
(* Properties.                                                              *)

\* The types of the variables.
FrontTypeOK ==
  /\ at \in 1 .. Len(source) + 2 /\ garbled \in BOOLEAN
  /\ pos \in Nat \ {0} /\ Len(tokens) <= Len(source) /\ passed \subseteq Nat \ {0}
  /\ \A d \in DOMAIN program : program[d] # <<>>
  /\ \A e \in errors : e[1] \in {"E101", "E102", "E104", "E105", "E300"} /\ e[2] \in Nat
  /\ stage \in {"lexing", "parsing", "accepted", "rejected", "killed"}
  /\ \A p \in Packages : dir[p] \in {"absent", "partial", "whole"}
  /\ \A c \in Callers : /\ phase[c] \in {"idle", "looking", "cloning", "fetching", "sweeping", "dead"}
                        /\ answered[c] \in {"failed", "nothing", "partial", "whole"}

\* A source that was written by the grammar is accepted, and the tree is the one
\* it was written from: names, annotations, types, the nesting of blocks, the
\* grouping of operators.
AcceptedAsWritten ==
  meant # <<>> /\ stage \in {"accepted", "rejected"} =>
    stage = "accepted" /\ program = meant

\* The tokens are read to their end before a compilation is judged: no error, no
\* exception and no rest of a declaration makes parse_program return before it
\* (parser.cpp 49-60), and what follows is never left unparsed in silence.
ReadToTheEnd == stage \in {"accepted", "rejected"} /\ ~garbled => Current = "eof"

\* Where declarations begin in the tokens, outside of all braces.
Outside(k) == Cardinality({i \in 1 .. k - 1 : tokens[i] = "{"})
                = Cardinality({i \in 1 .. k - 1 : tokens[i] = "}"})
Declares(k) == /\ tokens[k] \in {"fn", "Agt", "Dat", "Enm"} /\ Outside(k)
               /\ k < Len(tokens) /\ tokens[k + 1] \in Names \ {"trc", "prot"}
Begins(k) == /\ tokens[k] \in {"fn", "Agt", "Dat", "Enm", "#[", "+>"} \cup Annotations
             /\ Outside(k)

\* A literal no machine number holds hides the declaration it is in and what comes
\* up to the next function or block of annotations; before a function, its
\* annotations.
Hides(j, k) ==
  /\ tokens[j] \in OutOfRange
  /\ IF j > k THEN \A i \in k + 1 .. j : ~Begins(i)
              ELSE \A i \in j .. k : tokens[i] \notin {"fn", "#["}
Hidden(k) == \E j \in DOMAIN tokens : Hides(j, k)

\* The annotations written before declaration k, of the kinds parse_annotation knows.
Header(k) == {i \in 1 .. k - 1 : /\ tokens[i] \in Annotations \ {"@trace", "@prot"}
                                 /\ \A j \in i .. k : tokens[j] \notin {"}", ";"}}
Spoiled(k) == \E i \in Header(k) : \E j \in i .. k : tokens[j] \in OutOfRange

\* Whatever was mistyped: in an accepted source no declaration is missing from the
\* tree, and a function has the annotations before it, on which its effects and
\* capabilities rest.  Recovery from errors, skipped tokens and loops that end at
\* the wrong bracket lose nothing without an error, but for Hidden and Spoiled, and
\* for what the loops of @correct and of the arms of a match passed over: an @correct
\* without its closing parenthesis takes the next functions with it, up to theirs.
NothingLost ==
  stage = "accepted" =>
    \A k \in DOMAIN tokens : Declares(k) /\ ~Hidden(k) /\ k \notin passed =>
      \E d \in DOMAIN program :
        /\ \E i \in 1 .. Len(program[d]) - 1 :
             program[d][i] = tokens[k] /\ program[d][i + 1] = tokens[k + 1]
        /\ tokens[k] \in {"fn", "Agt"} /\ ~Spoiled(k) =>
             \A h \in Header(k) : \E i \in DOMAIN program[d] : program[d][i] = tokens[h]

\* At a variant that is no name, parse_enm reports it and stays where it is.
Stuck == /\ stage = "parsing" /\ todo # <<>> /\ Head(todo) = Variants
         /\ Current \notin Names \cup {"(", ",", ";", "}", "eof"}

\* Every source is accepted or rejected in the end, however it is mistyped, unless
\* the parser gets stuck in an enum or is killed: every loop reads on.
ParseEnds == <>(stage \in {"accepted", "rejected", "killed"} \/ Stuck)

===============================================================================
