------------------------------- MODULE CodeGen -------------------------------
(***************************************************************************)
(* The LLVM back end (codegen/codegen.cpp): one action per gen_* function  *)
(* over the bodies of the program in order.  A function is a graph of      *)
(* basic blocks; what an instruction computes is left out, the slots it    *)
(* reads and writes, the functions it calls and the LLVM types are kept.   *)
(*                                                                          *)
(* LLVM is external.  Building an ill-typed instruction is undefined here: *)
(* it appends a "bad" instruction, which verifyFunction rejects, or ends   *)
(* the compiler on an assertion.                                            *)
(***************************************************************************)
EXTENDS Compilation

\* Functions have different names, none that of a runtime function.
NamesAssumption ==
  \A p \in Programs : \A i, j \in DOMAIN p :
    i # j /\ p[i].kind # "agent" /\ p[j].kind # "agent" => p[i].name # p[j].name
ASSUME NamesAssumption

VARIABLES
  gcur,      \* index of the declaration being generated
  gpc,       \* 0 before its body is entered, else the next item
  fn,        \* the function under construction: blocks, insertion point
  ifs,       \* the ifs being generated, outermost first
  values,    \* values_: the slot of each name, never cleared
  emitted,   \* the blocks of the functions generated so far
  diags,     \* errors_
  entry,     \* what the C entry point `main' runs
  crashed    \* the compiler died

gvars == <<prog, gcur, gpc, fn, ifs, values, emitted, diags, entry, crashed>>

gdecl == prog[gcur]
gitem == gdecl.body[gpc]

-----------------------------------------------------------------------------
(* LLVM types.                                                              *)

\* llvm_type: the trust and ownership wrappers have the type of their payload.
LlvmOf(t) == CASE t = "unit" -> "void"
               [] t \in {"i32", "u32"} -> "i32"
               [] t = "bool" -> "i1"
               [] t \in ResultTypes -> "res"    \* {i1, i64}
               [] t = "agtE" -> "ptr"
               [] OTHER -> "str"                \* {ptr, i64}
LlvmTypes == {"void", "i1", "i32", "i64", "ptr", "str", "res"}
Structs   == {"str", "res"}
Width(ty) == CASE ty = "i1" -> 1 [] ty = "i32" -> 32 [] ty = "i64" -> 64 [] OTHER -> 0

\* The conversion before a store or an argument, "bad" where LLVM has none:
\* an i64 is taken for the address of a C string, integers are widened, and a
\* struct is left as it is, whatever is expected.
Coerce(from, to) ==
  IF from = to THEN to
  ELSE IF from \in Structs THEN from
  ELSE IF to \in Structs THEN IF from = "i64" THEN "str" ELSE from
  ELSE IF 0 < Width(from) /\ Width(from) < Width(to) THEN to ELSE "bad"

\* The runtime functions gen_call maps a qualified name to, with their
\* parameters and result (declare_runtime_fns).
RuntimeNames == {"io::rd", "io::wr", "io::ex", "io::del", "io::ls", "net::get", "net::post",
                 "val::tru", "val::san", "val::bnd", "val::vch", "ctx::infer", "ctx::embed",
                 "agc_print"}
Runtime ==
  [f \in RuntimeNames |->
     [params |-> IF f \in {"io::wr", "net::post", "val::vch"} THEN <<"str", "str">>
                 ELSE IF f = "val::bnd" THEN <<"i64", "i64", "i64">> ELSE <<"str">>,
      ret    |-> IF f = "io::ex" THEN "i1" ELSE IF f = "agc_print" THEN "void" ELSE "res"]]

\* functions_ after the first pass (gen_fn_decl): a Str parameter of an external
\* function is a char pointer.
Declared(f) == {i \in DOMAIN prog : prog[i].kind # "agent" /\ prog[i].name = f}
DeclOf(f) == prog[CHOOSE i \in Declared(f) : \A j \in Declared(f) : j <= i]
HasFunction(f) == f \in RuntimeNames \/ Declared(f) # {}
Signature(f) ==
  IF f \in RuntimeNames THEN Runtime[f]
  ELSE LET d == DeclOf(f)
           param(t) == IF d.kind = "extern" /\ KindOf(t) = "Str" THEN "ptr" ELSE LlvmOf(t)
       IN  [params |-> [k \in DOMAIN d.params |-> param(d.params[k].type)], ret |-> LlvmOf(d.ret)]
IsFfi(f) == f \notin RuntimeNames /\ DeclOf(f).kind = "extern"

-----------------------------------------------------------------------------
(* Functions under construction.                                            *)

\* An alloca: the item of the declaration that made it (0: its parameters).
Slot == [decl : Nat, at : Nat, type : LlvmTypes]
NoSlot == [decl |-> 0, at |-> 0, type |-> "void"]

\* An instruction; that of a call has the place of the call for a slot.
Here == [decl |-> gcur, at |-> gpc, type |-> "void"]
Instr(op, name, slot) == [op |-> op, name |-> name, slot |-> slot]

\* A basic block: its instructions, its terminator ("none" while it has none),
\* the type of the value a ret returns, and the successors.
Terms == {"none", "br", "if", "prop", "ret_ok", "ret_err", "ret_end"}
NewBlock == [code |-> <<>>, term |-> "none", type |-> "void", succ |-> <<>>]

\* val is the LLVM type of the value of the last expression, "null" for the
\* nullptr of gen_return_*; unknown collects what gen_* reports by error().
NewFunction == [blocks |-> <<NewBlock>>, cur |-> 1, val |-> "void", unknown |-> {}]

Emit(g, op, name, slot) == [g EXCEPT !.blocks[g.cur].code = Append(@, Instr(op, name, slot))]
Value(g, ty)  == [g EXCEPT !.val = ty]
Bad(g)        == Emit(g, "bad", NoName, NoSlot)
BadIf(g, wrong) == IF wrong THEN Bad(g) ELSE g
Poison(g)     == Value(g, "i64")
Unknown(g, n) == Poison([g EXCEPT !.unknown = @ \cup {n}])

\* Ends the current block; new blocks follow, and one of them is current.
End(g, term, type, succ) ==
  [g EXCEPT !.blocks[g.cur].term = term, !.blocks[g.cur].type = type,
            !.blocks[g.cur].succ = succ]
Fresh(g, new, cur) == [g EXCEPT !.blocks = @ \o new, !.cur = cur]

-----------------------------------------------------------------------------
(* Expressions: gen_expr.                                                   *)

GenLiteral(g, t) == Value(g, LlvmOf(t))

GenIdent(g, x) ==
  IF values[x] = NoSlot THEN Unknown(g, x)
  ELSE Value(Emit(g, "load", x, values[x]), values[x].type)

GenLeaf(g, leaf) == IF leaf.kind = "lit" THEN GenLiteral(g, leaf.val) ELSE GenIdent(g, leaf.val)

\* The k-th argument of a call of f; an argument too many is passed as it is.
Pass(v, f, k) ==
  LET params == Signature(f).params
      pointer == v.val \in Structs /\ params[k] = "ptr" /\ IsFfi(f)
  IN  BadIf(v, k \in DOMAIN params /\ ~pointer /\ Coerce(v.val, params[k]) # params[k])

Passed(f, arg, k) == Pass(GenLeaf(NewFunction, arg), f, k)
ArgumentCode(f, args) ==
  LET upTo[k \in 0 .. Len(args)] ==
        IF k = 0 THEN <<>> ELSE upTo[k - 1] \o Passed(f, args[k], k).blocks[1].code
  IN  upTo[Len(args)]

GenCall(g, f, args) ==
  IF ~HasFunction(f) THEN Unknown(g, f)
  ELSE LET done   == [g EXCEPT !.blocks[g.cur].code = @ \o ArgumentCode(f, args),
                               !.unknown = @ \cup UNION {Passed(f, args[k], k).unknown : k \in DOMAIN args}]
           called == BadIf(done, Len(args) # Len(Signature(f).params))
       IN  Value(Emit(called, "call", f, Here), Signature(f).ret)

\* gen_propagate: a branch on the flag; the error path returns a Result, the
\* other goes on with the i64 payload.  Extracting from a Str compiles, but its
\* first field is no condition.
GenPropagate(g) ==
  LET n   == Len(g.blocks)
      b   == BadIf(g, g.val # "res")
      err == [NewBlock EXCEPT !.term = "ret_err", !.type = "res"]
  IN  Poison(Fresh(End(b, "prop", "void", <<n + 1, n + 2>>), <<NewBlock, err>>, n + 1))

GenAtom(g, a) ==
  LET v == CASE a.kind = "lit"   -> GenLiteral(g, a.val)
             [] a.kind = "ident" -> GenIdent(g, a.val)
             [] OTHER            -> GenCall(g, a.val, a.args)
  IN  IF a.prop THEN GenPropagate(v) ELSE v

\* gen_binary: the narrower operand is widened (the width of an operand that is
\* no integer is undefined).
Combine(wrap, left, g) ==
  LET wide == IF Width(left) < Width(g.val) THEN g.val ELSE left
      ints == Width(left) > 0 /\ Width(g.val) > 0
  IN  Value(BadIf(g, ~ints), IF wrap = "compare" THEN "i1" ELSE wide)
GenBinary(g, wrap, a, b) ==
  LET lhs == GenAtom(g, a) IN Combine(wrap, lhs.val, GenAtom(lhs, b))

\* gen_return_ok and gen_return_err: the function returns, what follows is
\* generated into a block without predecessor.  The operand of ^!(e) is not
\* generated.
Dead(g) == Value(Fresh(g, <<NewBlock>>, Len(g.blocks) + 1), "null")
ReturnOf(v, ret) ==
  CASE ret = "void" -> End(v, "ret_ok", "void", <<>>)
    [] ret = "res"  -> End(BadIf(v, v.val \in {"void", "res"}), "ret_ok", "res", <<>>)
    [] OTHER        -> End(v, "ret_ok", v.val, <<>>)
GenReturnOk(g, a) == Dead(ReturnOf(GenAtom(g, a), LlvmOf(gdecl.ret)))
GenReturnErr(g) == Dead(End(g, "ret_err", "res", <<>>))

\* Everything gen_expr has no case for is an undefined i64.
GenExpr(g, e) ==
  CASE e.wrap = "none" -> GenAtom(g, e.atoms[1])
    [] e.wrap \in {"arith", "compare"} -> GenBinary(g, e.wrap, e.atoms[1], e.atoms[2])
    [] e.wrap = "ok"   -> GenReturnOk(g, e.atoms[1])
    [] e.wrap = "err"  -> GenReturnErr(g)
    [] OTHER           -> Poison(g)

-----------------------------------------------------------------------------
(* Statements: gen_stmt.  gen_block generates a statement only while the    *)
(* current block has no terminator.                                         *)

Open(g) == g.blocks[g.cur].term = "none"
Running == gcur \in DOMAIN prog /\ ~crashed

Gen(ops) == /\ Running /\ gpc \in DOMAIN gdecl.body
            /\ gitem.op \in ops
            /\ gitem.op \notin {"else", "endif"} => Open(fn)
            /\ UNCHANGED <<prog, gcur, emitted, diags, entry>>

\* The slot of a binding of the given type, and the store of v to it unless v
\* is null.
Bind(v, type) ==
  LET slot == [decl |-> gcur, at |-> gpc, type |-> type]
      a    == BadIf(Emit(v, "alloca", gitem.name, slot), type = "void")
      s    == BadIf(a, Coerce(v.val, type) = "bad")
  IN  /\ fn' = IF v.val = "null" THEN a ELSE Emit(s, "store", gitem.name, slot)
      /\ values' = [values EXCEPT ![gitem.name] = slot]
      /\ gpc' = gpc + 1
      /\ UNCHANGED <<ifs, crashed>>

\* A binding without annotation has the type of its value, and an i64 for null.
BindingType(v) ==
  IF gitem.type # NoType THEN LlvmOf(gitem.type)
  ELSE IF v.val = "null" THEN "i64" ELSE v.val

\* Mutant of GenBinding: the type of null is not replaced.
GenBindingNull ==
  /\ Gen({"let", "mut"})
  /\ LET v == GenExpr(fn, gitem.expr)
     IN  Bind(v, IF gitem.type = NoType THEN v.val ELSE LlvmOf(gitem.type))
GenBinding ==
  /\ Gen({"let", "mut"})
  /\ LET v == GenExpr(fn, gitem.expr) IN Bind(v, BindingType(v))

\* The right-hand side of an assignment to an unknown name is not generated; one
\* that returns leaves a nullptr, which is dereferenced.
StoreTo(slot, v) ==
  IF v.val = "null" THEN crashed' = TRUE /\ UNCHANGED fn
  ELSE /\ fn' = Emit(BadIf(v, Coerce(v.val, slot.type) = "bad"), "store", gitem.name, slot)
       /\ UNCHANGED crashed
GenAssign ==
  /\ Gen({"assign"})
  /\ IF values[gitem.name] = NoSlot THEN UNCHANGED <<fn, crashed>>
     ELSE StoreTo(values[gitem.name], GenExpr(fn, gitem.expr))
  /\ gpc' = gpc + 1
  /\ UNCHANGED <<ifs, values>>

GenExprStmt ==
  /\ Gen({"expr"})
  /\ fn' = GenExpr(fn, gitem.expr)
  /\ gpc' = gpc + 1
  /\ UNCHANGED <<ifs, values, crashed>>

\* gen_match and gen_for_in are empty, an inferred binding has no case, and
\* gen_block does not look at block_tail.
GenNothing ==
  /\ Gen({"match", "walrus", "tail", "for"})
  /\ gpc' = IF gitem.op = "for" THEN CloseOf(gdecl.body, gpc) + 1 ELSE gpc + 1
  /\ UNCHANGED <<fn, ifs, values, crashed>>

\* A branch of the current block to an existing one, which becomes current.
Goto(g, merge, cur) == [End(g, "br", "void", <<merge>>) EXCEPT !.cur = cur]

\* The three blocks of an if with condition v, its successors in order.
IfOn(v, arms) ==
  LET n == Len(v.blocks)
  IN  IF v.val = "null" THEN crashed' = TRUE /\ UNCHANGED <<fn, ifs>>
      ELSE /\ fn' = Fresh(End(BadIf(v, Width(v.val) = 0), "if", "void", <<n + arms[1], n + arms[2]>>),
                          <<NewBlock, NewBlock, NewBlock>>, n + 1)
           /\ ifs' = Append(ifs, [orelse |-> n + 2, merge |-> n + 3, within |-> "then"])
           /\ UNCHANGED crashed

\* Mutant of GenIf: the two successors of the branch are swapped.
GenIfSwapped ==
  /\ Gen({"if"})
  /\ IfOn(GenExpr(fn, gitem.expr), <<2, 1>>)
  /\ gpc' = gpc + 1
  /\ UNCHANGED values
GenIf ==
  /\ Gen({"if"})
  /\ IfOn(GenExpr(fn, gitem.expr), <<1, 2>>)
  /\ gpc' = gpc + 1
  /\ UNCHANGED values

InnermostIf == ifs[Len(ifs)]

\* The end of the then branch, where an else branch follows.
GenElse ==
  /\ Gen({"else"}) /\ ifs # <<>> /\ InnermostIf.within = "then"
  /\ fn' = Goto(fn, InnermostIf.merge, InnermostIf.orelse)
  /\ ifs' = [ifs EXCEPT ![Len(ifs)].within = "else"]
  /\ gpc' = gpc + 1
  /\ UNCHANGED <<values, crashed>>

\* Mutant of GenEndIf: where no else branch is written, the else block is left
\* without a branch to the merge block.
GenEndIfOpen ==
  /\ Gen({"endif"}) /\ ifs # <<>>
  /\ fn' = Goto(fn, InnermostIf.merge, InnermostIf.merge)
  /\ ifs' = SubSeq(ifs, 1, Len(ifs) - 1)
  /\ gpc' = gpc + 1
  /\ UNCHANGED <<values, crashed>>

\* The end of an if; an else branch that was not written is an empty one.
GenEndIf ==
  /\ Gen({"endif"}) /\ ifs # <<>>
  /\ LET g == IF InnermostIf.within = "then"
              THEN Goto(fn, InnermostIf.merge, InnermostIf.orelse) ELSE fn
     IN  fn' = Goto(g, InnermostIf.merge, InnermostIf.merge)
  /\ ifs' = SubSeq(ifs, 1, Len(ifs) - 1)
  /\ gpc' = gpc + 1
  /\ UNCHANGED <<values, crashed>>

-----------------------------------------------------------------------------
(* verifyFunction, as far as the code can fail it.                          *)

\* The blocks reachable from the entry block by paths that avoid block b.
ReachableAvoiding(blocks, b) ==
  LET next(S) == UNION {{blocks[i].succ[k] : k \in DOMAIN blocks[i].succ} : i \in S}
      step(S) == S \cup (next(S) \ {b})
      reach[n \in 0..Len(blocks)] == IF n = 0 THEN {1} \ {b} ELSE step(reach[n - 1])
  IN  reach[Len(blocks)]

\* The slot is allocated before instruction j of block i on every path to it;
\* a slot of another function never is.
Dominates(blocks, slot, i, j) ==
  \E b \in DOMAIN blocks : \E k \in DOMAIN blocks[b].code :
    /\ blocks[b].code[k] = Instr("alloca", blocks[b].code[k].name, slot)
    /\ IF b = i THEN k < j ELSE i \notin ReachableAvoiding(blocks, b)

\* Mutant of Verified: no check of dominance.
VerifiedShape(blocks, ret) ==
  \A i \in DOMAIN blocks :
    /\ blocks[i].term # "none"
    /\ blocks[i].term \in {"ret_ok", "ret_err", "ret_end"} => blocks[i].type = ret
    /\ \A j \in DOMAIN blocks[i].code : blocks[i].code[j].op # "bad"

Verified(blocks, ret) ==
  \A i \in DOMAIN blocks :
    /\ blocks[i].term # "none"
    /\ blocks[i].term \in {"ret_ok", "ret_err", "ret_end"} => blocks[i].type = ret
    /\ \A j \in DOMAIN blocks[i].code :
         LET c == blocks[i].code[j]
         IN  /\ c.op # "bad"
             /\ c.op \in {"load", "store"} => Dominates(blocks, c.slot, i, j)

IllTyped(blocks) == \E i \in DOMAIN blocks : \E j \in DOMAIN blocks[i].code :
                      blocks[i].code[j].op = "bad"

-----------------------------------------------------------------------------
(* gen_program and gen_fn_body.                                             *)

\* External functions are only declared, agents not even that.
SkipDecl ==
  /\ Running /\ gdecl.kind # "fn"
  /\ gcur' = gcur + 1
  /\ UNCHANGED <<prog, gpc, fn, ifs, values, emitted, diags, entry, crashed>>

\* The parameters are copied into slots, the last of a name hiding the others.
BeginBody ==
  /\ Running /\ gdecl.kind = "fn" /\ gpc = 0
  /\ LET params == gdecl.params
         slot(k) == [decl |-> gcur, at |-> 0, type |-> LlvmOf(params[k].type)]
         named(x) == {k \in DOMAIN params : params[k].name = x}
     IN  /\ fn' = [NewFunction EXCEPT !.blocks[1].code =
                     [k \in DOMAIN params |->
                        Instr(IF slot(k).type = "void" THEN "bad" ELSE "alloca",
                              params[k].name, slot(k))]]
         /\ values' = [x \in Vars |-> IF named(x) = {} THEN values[x]
                                      ELSE slot(MaxOf(named(x)))]
  /\ gpc' = 1 /\ ifs' = <<>>
  /\ UNCHANGED <<prog, gcur, emitted, diags, entry, crashed>>

\* A default return (nothing, 0 or an undefined value) ends the last block; then
\* the function is verified, an assertion having caught an ill-typed one before.
FinishBody ==
  /\ Running /\ gdecl.kind = "fn" /\ gpc = Len(gdecl.body) + 1 /\ ifs = <<>>
  /\ LET ret  == LlvmOf(gdecl.ret)
         done == End(fn, "ret_end", ret, <<>>)
         fails == IF Verified(done.blocks, ret) THEN {} ELSE {"verify"}
     IN  \/ /\ fn' = done
            /\ emitted' = Append(emitted, [decl |-> gcur, blocks |-> done.blocks])
            /\ diags' = diags \cup done.unknown \cup fails
            /\ gcur' = gcur + 1 /\ gpc' = 0
            /\ UNCHANGED crashed
         \/ /\ IllTyped(done.blocks)
            /\ crashed' = TRUE
            /\ UNCHANGED <<fn, emitted, diags, gcur, gpc>>
  /\ UNCHANGED <<prog, ifs, values, entry>>

\* The entry point, when no function is called main: it runs run_agent, if there
\* is one, without arguments and without verification, and returns 0.
GenMain ==
  /\ gcur = Len(prog) + 1 /\ ~crashed
  /\ entry' = IF Declared("main") # {} THEN "main"
              ELSE IF Declared("run_agent") # {} THEN "run_agent" ELSE "empty"
  /\ gcur' = gcur + 1
  /\ UNCHANGED <<prog, gpc, fn, ifs, values, emitted, diags, crashed>>

Generated == gcur = Len(prog) + 2
\* CodeGen::generate returned true.
Built == Generated /\ diags = {}

GenTerminating == (Generated \/ crashed) /\ UNCHANGED gvars

GenStart ==
  /\ gcur = 1 /\ gpc = 0
  /\ fn = NewFunction /\ ifs = <<>>
  /\ values = [x \in Vars |-> NoSlot]
  /\ emitted = <<>> /\ diags = {}
  /\ entry = "none" /\ crashed = FALSE

GenInit == prog \in Programs /\ GenStart

GenStep ==
  \/ SkipDecl \/ BeginBody \/ FinishBody \/ GenMain
  \/ GenBinding \/ GenAssign \/ GenExprStmt \/ GenNothing
  \/ GenIf \/ GenElse \/ GenEndIf

GenNext == GenStep \/ GenTerminating

GenSpec == GenInit /\ [][GenNext]_gvars

-----------------------------------------------------------------------------
(* Properties.                                                              *)

BlockSet == [code : Seq([op : {"alloca", "load", "store", "call", "bad"},
                         name : Vars \cup FnNames \cup {NoName}, slot : Slot]),
             term : Terms, type : LlvmTypes, succ : Seq(Nat)]

\* The types of the variables.
GenTypeOK ==
  /\ prog \in Seq(Decl)
  /\ gcur \in 1..(Len(prog) + 2)
  /\ gpc \in Nat
  /\ fn.blocks \in Seq(BlockSet) /\ fn.cur \in DOMAIN fn.blocks
  /\ fn.val \in LlvmTypes \cup {"null"} /\ fn.unknown \subseteq Vars \cup FnNames
  /\ ifs \in Seq([orelse : Nat, merge : Nat, within : {"then", "else"}])
  /\ values \in [Vars -> Slot]
  /\ emitted \in Seq([decl : Nat, blocks : Seq(BlockSet)])
  /\ diags \subseteq Vars \cup FnNames \cup {"verify"}
  /\ entry \in {"none", "main", "run_agent", "empty"}
  /\ crashed \in BOOLEAN

\* The blocks an if still has to fill: its merge block, and its else block until
\* the then branch has ended.
Waiting ==
  {ifs[k].merge : k \in DOMAIN ifs}
    \cup {ifs[k].orelse : k \in {n \in DOMAIN ifs : ifs[n].within = "then"}}

\* The insertion point is never a block that has ended, and no block is
\* forgotten: while a body is generated, the blocks without a terminator are the
\* current one and those the open ifs wait for.  So gen_block never skips a
\* statement, and the checks for a terminator in gen_if are never false.
BlocksPending ==
  gpc > 0 /\ ~crashed =>
    /\ {b \in DOMAIN fn.blocks : fn.blocks[b].term = "none"} = {fn.cur} \cup Waiting
    /\ fn.cur \notin Waiting

\* Every block of a function that was generated ends in a terminator, its
\* successors are blocks of the function, and none is the entry block.
EmittedClosed ==
  \A f \in DOMAIN emitted :
    LET blocks == emitted[f].blocks
    IN  \A b \in DOMAIN blocks :
          /\ blocks[b].term # "none"
          /\ \A k \in DOMAIN blocks[b].succ : blocks[b].succ[k] \in DOMAIN blocks \ {1}

\* values_ is not cleared between functions, yet in a program that was built no
\* function reads or writes a slot of another one.
OwnSlots ==
  Built =>
    \A f \in DOMAIN emitted : \A b \in DOMAIN emitted[f].blocks :
      \A k \in DOMAIN emitted[f].blocks[b].code :
        LET c == emitted[f].blocks[b].code[k]
        IN  c.op \in {"load", "store"} => c.slot.decl = emitted[f].decl

==============================================================================
