-------------------------------- MODULE Parser --------------------------------
(***************************************************************************)
(* The parser (parser/parser.cpp): recursive descent over the tokens, with *)
(* the call stack made visible.  `todo' holds what the functions that were *)
(* called have left to do, the innermost first; each parse function is an  *)
(* action that replaces its call by its body, and each helper (expect,     *)
(* match, advance) an action on one token.                                  *)
(*                                                                          *)
(* The AST of a declaration is the sequence of its names, literals and     *)
(* node kinds, operators behind their operands.                             *)
(***************************************************************************)
EXTENDS Lexer, SequencesExt

VARIABLES
  pos,      \* pos_
  todo,     \* the call stack
  node,     \* the declaration under construction
  program,  \* ProgramNode::decls
  errors,   \* errors_, as a set of <<code, position>>
  passed    \* where a loop advanced over what a function should have parsed (history)

parseVars == <<pos, todo, node, program, errors, passed>>

Peek(k) == IF pos + k \in DOMAIN tokens THEN tokens[pos + k] ELSE "eof"
Current == Peek(0)

-----------------------------------------------------------------------------
(* What a parse function is made of.                                        *)

\* Operators by how tightly they bind, and those that bind at least so.
Precedence(t) == CASE t \in {"+", "-"}            -> 6
                   [] t \in {"<", ">", "<=", ">="} -> 5
                   [] t \in {"=", "!="}           -> 4
                   [] t \in {"?p", "."}           -> 9
                   [] OTHER                       -> 0
Operators  == {"+", "-", "<", ">", "<=", ">=", "=", "!=", "?p", "."}
AtLeast(n) == {t \in Operators : Precedence(t) >= n}

Task(what, of, then) == [do |-> what, of |-> of, then |-> then]
Expect(S)     == Task("expect", S, <<>>)      \* expect
Take(S)       == Task("take", S, <<>>)        \* expect, and keep its value
Number(S)     == Task("number", S, <<>>)      \* the same, through stoi, stoull, ...
Match(S)      == Task("match", S, <<>>)       \* match, whatever it answers
If(S, then)   == Task("if", S, then)          \* if (match(...)) ...
Skip          == Task("skip", {}, <<>>)       \* advance
Keep          == Task("keep", {}, <<>>)       \* advance, and keep the value
Mark(kind)    == Task("mark", {kind}, <<>>)   \* the kind of a node
Until(S)      == Task("until", S, <<>>)       \* while (!check(...) && !at_end()) advance(); over what
                                              \* is a block or a closure
While(S, then) == Task("while", S, then)      \* while (!check(...) && !at_end()) ...
List(sep, then) == Task("list", sep, then)    \* the same up to `)', with break
Call(f)       == Task(f, {}, <<>>)
Push          == Task("push", {}, <<>>)       \* push_back of the finished declaration
Infix(n)      == Task("infix", AtLeast(n), <<>>)  \* the loop of parse_expr_prec
Expr(n)       == <<Call("unary"), Infix(n)>>  \* parse_expr_prec
Expression    == Expr(0)                      \* parse_expr

Doing(what) == todo # <<>> /\ Head(todo).do = what
Of   == Head(todo).of
Then == Head(todo).then

\* The function goes on with the tasks, the current token still to be read.
Do(tasks) == /\ todo' = tasks \o Tail(todo)
             /\ UNCHANGED <<pos, node, program, errors>>
Go(step, kept) ==
  /\ pos' = pos + step
  /\ node' = node \o kept
  /\ UNCHANGED <<program, errors>>
Report(code) == errors' = errors \cup {<<code, pos>>}

\* Mutant of Throw: the try of parse_program is around its loop.
ThrowOut == todo' = <<Call("synchronize")>> /\ node' = <<>>

\* throw: nothing is left of the declaration; parse_program catches and goes on.
Throw == todo' = <<Call("synchronize"), Call("program")>> /\ node' = <<>>

DoExpect ==
  /\ Doing("expect") \/ Doing("take")
  /\ todo' = Tail(todo)
  /\ IF Current \in Of THEN Go(1, IF Doing("take") THEN <<Current>> ELSE <<>>)
     ELSE Report("E102") /\ UNCHANGED <<pos, node, program>>

\* expect, then the conversion of what it returned.
DoNumber ==
  /\ Doing("number")
  /\ pos' = pos + (IF Current \in Of THEN 1 ELSE 0)
  /\ IF Current \in Of THEN UNCHANGED errors ELSE Report("E102")
  /\ IF Current \in (Literals \ Strings) \ OutOfRange
     THEN todo' = Tail(todo) /\ node' = Append(node, Current)
     ELSE Throw
  /\ UNCHANGED program

DoMatch == /\ Doing("match") \/ Doing("skip") \/ Doing("keep")
           /\ todo' = Tail(todo)
           /\ Go(IF Doing("match") /\ Current \notin Of THEN 0 ELSE 1,
                 IF Doing("keep") THEN <<Current>> ELSE <<>>)

DoIf == /\ Doing("if")
        /\ IF Current \in Of THEN todo' = Then \o Tail(todo) /\ Go(1, <<>>)
                             ELSE todo' = Tail(todo) /\ Go(0, <<>>)

DoMark == /\ Doing("mark")
          /\ todo' = Tail(todo)
          /\ Go(0, <<CHOOSE kind \in Of : TRUE>>)

DoWhile == /\ Doing("while")
           /\ Do(IF Current \in Of \cup {"eof"} THEN <<>> ELSE Append(Then, Head(todo)))

DoUntil == /\ Doing("until")
           /\ IF Current \in Of \cup {"eof"}
              THEN todo' = Tail(todo) /\ passed' = passed /\ Go(0, <<>>)
              ELSE todo' = todo /\ passed' = passed \cup {pos} /\ Go(1, <<>>)

DoList ==
  /\ Doing("list")
  /\ Do(IF Current \in {")", "eof"} THEN <<>>
        ELSE Then \o <<If(Of, <<List(Of, Then)>>)>>)

Help == \/ DoExpect \/ DoNumber \/ DoMatch \/ DoIf \/ DoMark
        \/ DoWhile \/ DoList

-----------------------------------------------------------------------------
(* The program and its declarations.                                        *)

ParseProgram ==
  /\ Doing("program")
  /\ Do(CASE Current = "eof" -> <<>>
          [] Current = "+>"  -> <<Call("import"), Call("program")>>
          [] OTHER           -> <<Call("top_level"), Call("program")>>)

Synchronize == Doing("synchronize") /\ Do(<<Skip, While({"fn", "#["}, <<Skip>>)>>)

\* Behind a text, resolve is called, and what it returns parsed.
ParseImport ==
  /\ Doing("import")
  /\ Do(<<Expect({"+>"})>>
          \o IF Peek(1) \in Strings THEN <<Skip, Expect({";"}), Call("resolve")>>
                                   ELSE <<Call("module")>>)
ParseModule ==
  /\ Doing("module")
  /\ Do(IF Current \notin Names THEN <<Expect({";"})>>
        ELSE IF Peek(1) = "::" THEN <<Skip, Skip, Call("module")>>
        ELSE <<Skip, Expect({";"})>>)

Annotations == {"#>", "#$", "#!", "#@", "#~", "#?", "#*", "#^", "#&",
                "@trace", "@prot", "@ffi"}

\* Mutant of ParseTopLevel: nothing is reported of what is no declaration.
ParseTopLevelSilently ==
  /\ Doing("top_level")
  /\ IF Current \in {"fn", "Agt", "Dat", "Enm", "#["} \cup Annotations
     THEN /\ Do(CASE Current = "#["           -> <<Call("block_of_annotations"), Call("top_level")>>
                  [] Current \in Annotations -> <<Call("annotation"), Call("top_level")>>
                  [] OTHER                   -> <<Call(Current), Push>>)
     ELSE Throw /\ pos' = pos + 1 /\ UNCHANGED <<program, errors>>

ParseTopLevel ==
  /\ Doing("top_level")
  /\ IF Current \in {"fn", "Agt", "Dat", "Enm", "#["} \cup Annotations
     THEN /\ Do(CASE Current = "#["           -> <<Call("block_of_annotations"), Call("top_level")>>
                  [] Current \in Annotations -> <<Call("annotation"), Call("top_level")>>
                  [] OTHER                   -> <<Call(Current), Push>>)
     ELSE Report("E104") /\ Throw /\ pos' = pos + 1 /\ UNCHANGED program

\* Mutant of PushDecl: the declaration has been moved from before it is pushed.
PushDeclMoved ==
  /\ Doing("push")
  /\ node' = <<>>
  /\ program' = Append(program, node')
  /\ todo' = Tail(todo)
  /\ UNCHANGED <<pos, errors>>

PushDecl ==
  /\ Doing("push")
  /\ program' = Append(program, node)
  /\ node' = <<>>
  /\ todo' = Tail(todo)
  /\ UNCHANGED <<pos, errors>>

ParseAnnotationBlock ==
  /\ Doing("block_of_annotations")
  /\ Do(<<Expect({"#["}), While({"]"}, <<Call("annotation")>>), Expect({"]"})>>)

\* A word in parentheses, several of them, costs with or without a value.
Paren(tasks) == <<Keep, Expect({"("})>> \o tasks \o <<Expect({")"})>>
Flags == List({"|"}, <<Take(Names)>>)
CostList == List({"|"}, <<Take(Names), If({":"}, <<Take(Ints)>>)>>)

\* The kind of an annotation that is none of these is never set; "unset" stands for
\* whatever it is.
ParseAnnotation ==
  /\ Doing("annotation")
  /\ Current \notin Names \ {"trc", "prot"}
  /\ Do(CASE Current = "#>"            -> <<Keep, Take(Strings)>>
          [] Current = "#$"            -> Paren(<<CostList>>)
          [] Current \in {"#!", "#&"}  -> Paren(<<Flags>>)
          [] Current = "#~"            -> Paren(<<Skip>>)
          [] Current = "#@"            -> Paren(<<Take(Names), Expect({":"})>> \o Expression)
          [] Current = "#?"            -> Paren(<<Number(Floats)>>)
          [] Current = "#*"            -> Paren(<<Number(Ints), If({":"}, <<Number(Ints)>>)>>)
          [] Current \in {"#^", "@ffi"} -> Paren(<<Take(Strings)>>)
          [] Current \in {"trc", "prot"} -> <<Keep, Expect({":"}), Take(Names)>>
          [] OTHER                     -> <<Skip, Mark("unset")>>)
UnknownAnnotation ==
  /\ Doing("annotation")
  /\ Current \in Names \ {"trc", "prot"}
  /\ errors' = errors \cup {<<"E101", pos + 1>>}
  /\ pos' = pos + 2
  /\ todo' = Tail(todo)
  /\ node' = Append(node, "unset")
  /\ UNCHANGED program

ParseFn == Doing("fn") /\ Do(<<Expect({"fn"}), Call("named")>>)
ParseNamed ==
  /\ Doing("named")
  /\ IF Current \in Names
     THEN Do(<<Mark("fn"), Keep, Call("params"), Expect({"->"}), Call("type"), Call("body")>>)
     ELSE Report("E101") /\ Throw /\ UNCHANGED <<pos, program>>
ParseBody == Doing("body") /\ Do(IF Current = ";" THEN <<Skip, Mark("extern")>>
                                                  ELSE <<Call("block")>>)
ParseParams ==
  /\ Doing("params")
  /\ Do(IF Current = "()" THEN <<Skip>>
        ELSE <<Expect({"("}), List({","}, <<Call("param")>>), Expect({")"})>>)
ParseParam ==
  /\ Doing("param")
  /\ Do((IF Current = "~" THEN <<Keep>> ELSE <<Match({"$"})>>)
          \o <<Take(Names), Expect({":"}), Call("type")>>)

ParseAgent ==
  /\ Doing("Agt")
  /\ Do(<<Keep, Take(Names), Expect({"{"}), Call("inner"), Call("fn"), Expect({"}"})>>)
ParseInner ==
  /\ Doing("inner")
  /\ Do(IF Current = "#[" THEN <<Call("block_of_annotations")>> ELSE <<>>)

\* The annotations before a Dat or Enm are dropped.
ParseDat ==
  /\ Doing("Dat")
  /\ todo' = <<Skip, Mark("Dat"), Take(Names), Expect({"{"}),
               While({"}"}, <<Take(Names), Expect({":"}), Call("type"),
                              Match({";"}), Match({","})>>),
               Expect({"}"})>> \o Tail(todo)
  /\ node' = <<>>
  /\ UNCHANGED <<pos, program, errors>>

Variants == While({"}"}, <<Take(Names), If({"("}, <<Call("type"), Expect({")"})>>),
                           Match({","}), Match({";"})>>)
ParseEnm ==
  /\ Doing("Enm")
  /\ todo' = <<Skip, Mark("Enm"), Take(Names), Expect({"{"}), Variants, Expect({"}"})>>
               \o Tail(todo)
  /\ node' = <<>>
  /\ UNCHANGED <<pos, program, errors>>

ParseDeclaration == \/ ParseFn \/ ParseNamed \/ ParseBody \/ ParseParams \/ ParseParam
                    \/ ParseAgent \/ ParseInner \/ ParseDat \/ ParseEnm

-----------------------------------------------------------------------------
(* Types.                                                                   *)

ParseType ==
  /\ Doing("type")
  /\ Do(<<Call("primary_type"),
          If({"?r", "?", "?p"}, <<Call("primary_type"), Mark("result")>>)>>)

Angled(tasks) == <<Keep, Expect({"<"})>> \o tasks \o <<Expect({">"})>>
Inner == Call("primary_type")

\* Mutant of ParsePrimaryType: it does not advance past what is no type.
ParsePrimaryTypeStay ==
  /\ Doing("primary_type")
  /\ IF Current \in PlainTypes \cup GenericTypes \cup Names \cup {"Str", "Map", "Bnd"}
     THEN Do(CASE Current = "Str"   -> <<Keep, If({"<"}, <<Number(Ints), Expect({">"})>>)>>
               [] Current = "Map"   -> Angled(<<Inner, Expect({","}), Inner>>)
               [] Current = "Bnd"   -> Angled(<<Inner, Expect({","})>> \o Expression
                                                \o <<Expect({","})>> \o Expression)
               [] Current = "AgtR"  -> Angled(<<Call("type")>>)
               [] Current \in GenericTypes -> Angled(<<Inner>>)
               [] OTHER             -> <<Keep>>)
     ELSE Report("E300") /\ todo' = Tail(todo) /\ UNCHANGED <<pos, node, program>>

ParsePrimaryType ==
  /\ Doing("primary_type")
  /\ IF Current \in PlainTypes \cup GenericTypes \cup Names \cup {"Str", "Map", "Bnd"}
     THEN Do(CASE Current = "Str"   -> <<Keep, If({"<"}, <<Number(Ints), Expect({">"})>>)>>
               [] Current = "Map"   -> Angled(<<Inner, Expect({","}), Inner>>)
               [] Current = "Bnd"   -> Angled(<<Inner, Expect({","})>> \o Expression
                                                \o <<Expect({","})>> \o Expression)
               [] Current = "AgtR"  -> Angled(<<Call("type")>>)
               [] Current \in GenericTypes -> Angled(<<Inner>>)
               [] OTHER             -> <<Keep>>)
     ELSE Report("E300") /\ pos' = pos + 1 /\ todo' = Tail(todo) /\ UNCHANGED <<node, program>>

-----------------------------------------------------------------------------
(* Statements.                                                              *)

\* What stands behind the name of a binding.
ParseBinding ==
  /\ Doing("binding")
  /\ Do((IF Current = ":=" THEN <<Skip, Mark(":=")>>
         ELSE <<If({":"}, <<Call("type")>>), Expect({"="})>>)
        \o Expression \o <<Expect({";"})>>)

\* The arms of a match are skipped: their blocks are parsed and dropped.
Arms == While({"}"}, <<Until({"{"}), Call("arm")>>)
ParseArm == Doing("arm") /\ Do(<<Mark("arm"), Call("block"), Call("drop")>>)
DropArm == /\ Doing("drop")
           /\ todo' = Tail(todo)
           /\ node' = SubSeq(node, 1, SelectLastInSeq(node, LAMBDA t : t = "arm") - 1)
           /\ UNCHANGED <<pos, program, errors>>

ParseStmt ==
  /\ Doing("stmt")
  /\ Do(CASE Current \in {"$", "~"} -> <<Keep, Take(Names), Call("binding")>>
          [] Current \in Names /\ Peek(1) = "=" ->
               <<Mark("assign"), Keep, Skip>> \o Expression \o <<Expect({";"})>>
          [] Current \in Names /\ Peek(1) = "." /\ Peek(2) \in Names /\ Peek(3) = "=" ->
               <<Mark("assign"), Keep, Skip, Keep, Skip>> \o Expression \o <<Expect({";"})>>
          [] Current = "?"  -> <<Keep, Expect({"("})>> \o Expression
                                 \o <<Expect({")"}), Call("block"),
                                      If({":"}, <<Mark("else"), Call("block")>>)>>
          [] Current = ">>" -> <<Keep, Expect({"("})>> \o Expression
                                 \o <<Expect({")"}), Expect({"{"}), Arms, Expect({"}"})>>
          [] Current = "@(" -> <<Keep, Keep, Expect({"<-"})>> \o Expression
                                 \o <<Expect({")"}), Call("block")>>
          [] OTHER          -> Expression \o <<Match({";"})>>)

ParseBlock ==
  /\ Doing("block")
  /\ Do(<<Expect({"{"}), Mark("{"), Call("stmts"), Expect({"}"}), Mark("}")>>)
ParseStmts ==
  /\ Doing("stmts")
  /\ Do(CASE Current \in {"}", "eof"} -> <<>>
          [] Current \in {"^", "^!"}  -> <<Mark("tail")>> \o Expression \o <<Match({";"})>>
          [] OTHER                    -> <<Call("stmt"), Call("stmts")>>)

-----------------------------------------------------------------------------
(* Expressions.                                                             *)

\* Mutant of ParseInfix: operators of equal precedence group to the right.
ParseInfixRight ==
  /\ Doing("infix")
  /\ Do(IF Current \notin Of THEN <<>>
        ELSE (CASE Current = "?p" -> <<Skip, Mark("?")>>
                [] Current = "."  -> <<Skip, Keep, Call("no_arguments"), Mark(".")>>
                [] OTHER          -> <<Skip>> \o Expr(Precedence(Current)) \o <<Mark(Current)>>)
             \o <<Head(todo)>>)

ParseInfix ==
  /\ Doing("infix")
  /\ Do(IF Current \notin Of THEN <<>>
        ELSE (CASE Current = "?p" -> <<Skip, Mark("?")>>
                [] Current = "."  -> <<Skip, Keep, Call("no_arguments"), Mark(".")>>
                [] OTHER          -> <<Skip>> \o Expr(Precedence(Current) + 1) \o <<Mark(Current)>>)
             \o <<Head(todo)>>)
ParseNoArguments ==
  /\ Doing("no_arguments")
  /\ Do(IF Current = "()" THEN <<Skip>> ELSE <<If({"("}, <<Expect({")"})>>)>>)

ParseUnary ==
  /\ Doing("unary")
  /\ Do(CASE Current = "!"          -> <<Skip, Call("unary"), Mark("!")>>
          [] Current \in {"^", "^!"} ->
               <<Skip, Expect({"("})>> \o Expression \o <<Expect({")"}), Mark(Current)>>
          [] Current = "@par"       -> <<Keep, Expect({"{"}), While({"}"}, <<Call("field")>>),
                                         Expect({"}"})>>
          [] Current = "@syn"       -> <<Keep, If({"!"}, <<Mark("!")>>), Match({";"})>>
          [] OTHER                  -> <<Call("primary")>>)
ParseField ==
  /\ Doing("field")
  /\ Do(IF Current \in Names /\ Peek(1) = ":"
        THEN <<Keep, Skip>> \o Expression \o <<Match({","})>>
        ELSE <<Skip>>)

\* What may stand in parentheses behind @budget and @mem; what @correct skips.
Selected == If({"("}, <<Keep, Expect({")"})>>)
Skipped(from, to) == If({from}, <<Until({to}), Expect({to})>>)

ParsePrimary ==
  /\ Doing("primary")
  /\ IF Current \in Literals \cup Names \cup {"()", "@spn", "@snd", "@rcv", "@budget",
                                              "@mem", "@correct"}
     THEN Do(CASE Current \in Literals \ (Strings \cup {"1b", "0b"}) -> <<Number({Current})>>
               [] Current \in Names -> <<Keep, If({"::"}, <<Mark("::"), Keep>>), Call("arguments")>>
               [] Current = "@spn"  -> <<Keep, Call("agent_name"), Match({";"})>>
               [] Current = "@snd"  -> <<Skip, Expect({"("})>> \o Expression
                                         \o <<Match({","}), Call("payload"), Expect({")"}), Mark("@snd")>>
               [] Current = "@rcv"  -> <<Skip, Expect({"("})>> \o Expression
                                         \o <<Expect({")"}), Mark("@rcv")>>
               [] Current \in {"@budget", "@mem"} -> <<Keep, Selected>>
               [] Current = "@correct" -> <<Keep, Skipped("{", "}"), Skipped("(", ")")>>
               [] OTHER             -> <<Keep>>)
     ELSE Report("E105") /\ pos' = pos + 1 /\ todo' = Tail(todo) /\ UNCHANGED <<node, program>>
ParseArguments ==
  /\ Doing("arguments")
  /\ Do(IF Current = "()" THEN <<Skip, Mark("call")>>
        ELSE <<If({"("}, <<List({","}, Expression), Expect({")"}), Mark("call")>>)>>)
ParsePayload == Doing("payload") /\ Do(IF Current = ")" THEN <<>> ELSE Expression)
ParseAgentName == Doing("agent_name") /\ Do(IF Current \in Names THEN <<Keep>> ELSE <<>>)

ParseExpr == \/ ParseInfix \/ ParseNoArguments \/ ParseUnary \/ ParseField
             \/ ParsePrimary \/ ParseArguments \/ ParsePayload \/ ParseAgentName

-----------------------------------------------------------------------------
ParseFunction ==
  \/ ParseProgram \/ Synchronize \/ ParseImport \/ ParseModule
  \/ ParseTopLevel \/ PushDecl
  \/ ParseAnnotationBlock \/ ParseAnnotation \/ UnknownAnnotation
  \/ ParseDeclaration
  \/ ParseType \/ ParsePrimaryType
  \/ ParseBinding \/ ParseArm \/ DropArm \/ ParseStmt \/ ParseBlock \/ ParseStmts
  \/ ParseExpr

Parse == \/ DoUntil
         \/ (Help \/ ParseFunction) /\ UNCHANGED passed

ParseInit == /\ pos = 1 /\ todo = <<Call("program")>> /\ node = <<>> /\ program = <<>>
             /\ errors = {} /\ passed = {}

==============================================================================
