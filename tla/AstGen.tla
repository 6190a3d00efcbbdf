------------------------------- MODULE AstGen --------------------------------
(***************************************************************************)
(* The programs the parser can build from a set of statements              *)
(* (Parser::parse_block, Parser::parse_stmt), enumerated by length: blocks *)
(* are properly nested and a `^(e)' ends the block it stands in.            *)
(*                                                                          *)
(* A skeleton is a program with a hole: prog, the declaration `at' whose   *)
(* body is filled in, the statements `items' and the greatest number of    *)
(* them, `length'.                                                          *)
(***************************************************************************)
EXTENDS Ast

\* The blocks open after item i is read.
OpenAfter(open, i) ==
  CASE i.op = "if"  -> Append(open, "then")
    [] i.op = "for" -> Append(open, "for")
    [] i.op = "else" -> Append(SubSeq(open, 1, Len(open) - 1), "else")
    [] i.op \in {"endif", "endfor"} -> SubSeq(open, 1, Len(open) - 1)
    [] OTHER -> open

\* parse_block: a statement may come next unless a tail has ended the block; a
\* closing marker needs the block it closes.
MayFollow(s, i) ==
  LET top   == IF s.open = <<>> THEN "none" ELSE s.open[Len(s.open)]
      ended == s.body # <<>> /\ s.body[Len(s.body)].op = "tail"
  IN  CASE i.op = "else"   -> top = "then"
        [] i.op = "endif"  -> top \in {"then", "else"}
        [] i.op = "endfor" -> top = "for"
        [] OTHER           -> ~ended

\* ProgramsOf(skeletons), of a function to skeletons: grow[k] holds the bodies of
\* at most k items that the room left for further items can still close.
ProgramsOf(skeletons) ==
  LET keys  == DOMAIN skeletons
      items == UNION {skeletons[s].items : s \in keys}
      start == {[key |-> s, body |-> <<>>, open |-> <<>>, room |-> skeletons[s].length] :
                  s \in keys}
      longest == CHOOSE n \in {s.room : s \in start} : \A s \in start : s.room <= n
      mayGrow(s, i) ==
        /\ Len(OpenAfter(s.open, i)) < s.room
        /\ MayFollow(s, i)
        /\ i \in skeletons[s.key].items
      next(s, i) == [s EXCEPT !.body = Append(@, i), !.open = OpenAfter(@, i), !.room = @ - 1]
      grow[k \in 0..longest] ==
        IF k = 0 THEN start
        ELSE {IF g[2] = {} THEN g[1] ELSE next(g[1], CHOOSE i \in g[2] : TRUE) :
                g \in {h \in grow[k - 1] \X ({{}} \cup {{i} : i \in items}) :
                         \A i \in h[2] : mayGrow(h[1], i)}}
      fill(s) == [skeletons[s.key].prog EXCEPT ![skeletons[s.key].at].body = s.body]
  IN  {fill(s) : s \in {g \in grow[longest] : g.open = <<>>}}

==============================================================================
