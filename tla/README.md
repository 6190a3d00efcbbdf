# A verification project for AgentC

AgentC (`src/agentc`) is a compiler for a small language in which every function
declares its intent, its effects, its capabilities and its budget, and in which
values carry ownership and trust in their types. This directory holds TLA+ models
of the parts that decide whether a program is accepted and what is compiled and
run, TLC configurations that check them on bounded instances, and theorems that
TLAPS proves for every instance.

All paths below are relative to `src/agentc` unless they start with `src/runtime`.

## 1. The system

| Part | State it keeps | Operations | Interacts with |
|---|---|---|---|
| Lexer (`src/lexer`) | position, errors | `next` | called by `main`, the parser (imports) and the language server |
| Parser (`src/parser`) | tokens, position, errors | `parse_*`, recovery by `synchronize` | calls the package manager for `+> "uri"` |
| Type checker (`src/typechecker`) | scope stack, registries, errors, warnings | `check_*`, `infer_*`, `enforce_*` | reads and keeps the AST |
| Code generator (`src/codegen`) | LLVM module, current block, `values_`, `functions_`, errors | `gen_*`, `emit_ir`, `emit_executable` | LLVM; clang; `/tmp/agentc_out.ll` |
| Driver (`src/main.cpp`) | none | the stages read, lex, parse, check, generate, emit | all of the above |
| Interactive session (`src/toolchain/repl.cpp`) | `session_buffer_`, files under `/tmp` | `run` | runs the driver as a process, then the binary |
| Package manager (`src/toolchain/pkg.cpp`) | `~/.agentc/pkg` | `resolve` | git; called while parsing |
| Language server (`src/lsp`) | table of documents | `handle_*`, `publish_diagnostics` | an editor over stdin and stdout; the front end |
| Runtime (`runtime`) | budget counters, trace, per thread | `agc_*` | linked into each binary |
| `src/runtime/snapshot.cpp` | budget, checkpoints, traces | `rollbackBudget`, `nestedCheckpoint`, `restore` | stand-alone |

The front end and the code generator run once, sequentially, in one process; what
is hard there is the state they carry from one statement, block or function to the
next, and that two passes with different walks of the same tree must agree. What
is concurrent is around them: processes that share files with fixed names, the
package cache, the editor. What makes each part correct:

* **Type checker** – the scope stack mirrors the program; a name means what
  lexical scoping says; no moved value is used and no move error is raised
  without cause; assignments hit mutable bindings; no untrusted value is stored
  as trusted; each capability is required exactly where it is used.
* **Code generator** – no block is lost or written after its end; only own,
  already allocated slots are used; the compiled paths are the source's paths.
* **Pipeline** – nothing is compiled that was rejected; what is compiled has the
  properties the checker established.
* **Driver and sessions** – a rejected program is never run, whatever the races
  and failures; an undisturbed session runs what was typed.
* **Lexer and parser** – what was written by the grammar is accepted as it was
  meant; what was mistyped loses no declaration and no annotation without an error;
  every recovery ends.
* **Package manager** – what the cache holds is whole, whoever else uses it.
* **Language server** – diagnostics are those of the latest text of a document;
  replies come in order and about the right text; every request is answered; the
  server ends with its editor.
* **Runtime** – counters, reports and chunks are the account of the calls, in
  whatever order the program makes them.

## 2. The modules

| Module | Models | Notes |
|---|---|---|
| `Lexer` | `lexer.cpp`, `is_type_token` | a scanning loop over words and symbol characters |
| `Parser` | `parser.cpp` | a stack of what remains to be parsed; one definition per `parse_*` |
| `PkgCache` | `pkg.cpp` | several callers of `resolve`; git is external |
| `Frontend` | stages 1 to 3 of `main.cpp` | EXTENDS the three above |
| `Grammar` | programs as their author means them | pairs of a source and its tree, for TLC; models no code |
| `Ast` | the AST as the two later passes see it | no behaviour; reference definitions of scoping over a body |
| `Compilation` | the `Program` that `main` hands from pass to pass | one variable; EXTENDed by the two passes |
| `AstGen` | the bodies `parse_stmt` and `parse_block` can build | enumerates programs for TLC |
| `TypeChecker` | `typechecker.cpp`, `typeenv.cpp`, `rules.cpp` | one action per `check_*` function |
| `CodeGen` | `codegen.cpp` | one action per `gen_*` statement; expressions are operators |
| `AgentC` | stages 4 and 5 of `main.cpp` | EXTENDS the checker and the generator |
| `Claims` | statements of the documents about accepted programs | EXTENDS `AgentC` |
| `Driver` | `main.cpp` as a process, `emit_*`, `repl.cpp` | sessions and users share files |
| `Protocol` | `protocol.cpp` | the messages, and what extraction makes of a text |
| `Conversation` | – | the abstract specification of the language server |
| `LspServer` | `lsp_server.cpp`, and `check` and `get_hover` as far as it depends on them | editor (external), two pipes, the loop |
| `Runtime` | `ctx.cpp` (budget, chunk), `trc.cpp` | one action per exported function |
| `SetLemmas`, `TypeCheckerProofs`, `CodeGenProofs`, `AgentCProofs`, `DriverProofs`, `FrontendProofs`, `LspServerProofs`, `RuntimeProofs` | – | lemmas and theorems |
| `MC*` | – | instances for TLC |

### Lexer, Parser, PkgCache and Frontend

| Variable | Code |
|---|---|
| `source`, `at`, `tokens`, `garbled` | `source_`, `pos_`, the vector of `main`, `has_errors()` |
| `pos`, `todo` | `pos_` of the parser, and its call stack |
| `node`, `program`, `errors` | the node being built, `Program::decls`, `errors_` |
| `dir`, `phase`, `wanted`, `answered` | the directories of `~/.agentc/pkg`, where each caller of `resolve` is, its argument and result |
| `meant`, `killed` | history: the tree the source was written from, packages of which a clone was killed |

A source is a sequence of words, literals, symbol characters and blanks; an
identifier is one word. What the lexer does with them is kept: the longest symbol
wins, `?` is one of three tokens depending on the token before it, `//` runs to the
end of the line, a character that starts no token is an error that also swallows the
next piece. The parser is a stack machine: each `parse_*` function replaces itself by
the sequence of what it does (expect a token, repeat while, call another function),
and an exception of `stoll`, `stoull` or `stod` unwinds the stack to `parse_program`
(`Throw`), which goes on with the next declaration. The tree is the prefix sequence
of the node's kinds and names.

`PkgCache` has a process per caller. A directory is absent, partial or whole; a
clone that fails removes what it made, one that is killed does not. Compilations
look for a directory whose name has the quotes of the string token in it, which is
never there, while the shell clones into the one without; `agentc get` does not.
`Frontend` composes: an import calls `resolve` from within the parser while `agentc
get` works on the same cache.

What the model shows of this front end without any property being violated: `f()?`
and `x??` never parse, since behind `)` and `?` the lexer does not make the same
token twice; `Tru<Str<256>>` is rejected because `>>` is one token; `Bnd<..>` never
parses; `Aim`, `Cst` and `Cnf` are E300. These are grammar, and `Grammar` writes only
what the parser means to take. Two facts stand in the properties by name: a literal
out of range hides the declaration it stands in (`Hidden`, `Spoiled`), and an enum
with a variant that is no name is a loop without end (`Stuck`).

### Ast and AstGen

A body is the *sequence* of its statements in source order; `else`, `endif` and
`endfor` are marker items that keep the nesting. The checker and the generator then
walk the body with an index (`pc`, `gpc`), which is what their recursion does. An
expression is a wrapper (the enclosing node) around atoms; an atom is a literal, an
identifier or a call of literals and identifiers, possibly followed by `?`. Deeper
nesting is left out. Types are names, one per kind a rule looks at. `AstGen` grows
bodies item by item as `parse_block` accepts them: blocks nest, and `^(e)` ends its
block (`parser.cpp:431`).

### TypeChecker

| Variable | Code |
|---|---|
| `cur`, `pc` | the loops of `check_program` and `check_block` |
| `scopes` | `TypeEnv::scopes_`: bindings, return type, annotations of each scope |
| `open` | the blocks being walked: the call stack of `check_block` |
| `errors`, `warnings` | `errors_` (code, declaration, item) and W701 |

A statement is one step with everything it causes: the inference of its expression
with the moves (`Consume`) and the diagnostics (`InferErrors`), the rules of the
statement, the definition. `BeginFn` and `FinishFn` are the two halves of `check_fn`
around the body; `FinishFn` includes the effect and budget checks. `SkipLocalInfer`
is the missing case of `check_stmt` for `:=`. The codes E301 and E209 are used by
two rules each; the model keeps the category beside the code. The budget cap wraps
at `BudgetRange`, 2^32 in the code (`budget_cap_from_annotations`). A number that is
no unsigned long (`BudgetRange` squared) makes `std::stoul` throw, which nothing
catches: the checker stops at that declaration (`Thrown`), and the compiler aborts.

### CodeGen

A function is a graph of basic blocks (`fn.blocks`) with an insertion point
(`fn.cur`); `values` is `values_`, which is never cleared. Instructions keep their
slot, callee and type; what they compute is left out. LLVM is external: an ill-typed
instruction is a `bad` one that verification rejects or an assertion stops
(`FinishBody` chooses), a null operand crashes (`crashed`), and `Verified` is
`verifyFunction` as far as this code can fail it, dominance of slots included. The
function `GenNothing` names what has no code: `@iter`, `match`, `:=` and tails.

### AgentC and Claims

`AgentC` runs the checker to its end, then the generator, and stops at the first
stage with errors, as `main` does. It defines the *paths* of a compiled function
(walks through its graph) and the paths of its source (by recursion on the body and
lexical resolution, without scopes or slots) so that the two can be compared.

### Driver

Processes are interactive sessions and command line users. Each goes through: enter
a line or a file, front end (a verdict on the content), open and print
`/tmp/agentc_out.ll`, clang, run. All sessions share the shadow source and binary;
everybody shares the LLVM file. Files are opened (which empties them) and written
in separate steps, and clang reads the LLVM code before its linker makes the binary
anew and fills it; two writers may leave a mixture, and one of two linkers may write
into a file that the other has replaced. Emission and clang may fail at
any time, which `main` does not look at. `intact` and `ran` are history variables.

### Protocol, Conversation and LspServer

The editor is external: it initializes first, changes and closes only what it has
opened, asks about documents that are open, closed or were never opened, sends on
without waiting for answers, and may close its end or die at any time. The server reads, handles and answers one message in a
step, which is what `run` does; nothing else touches `documents_`. `said` and
`output` are the two pipes with all that was ever in them, `heard` and `shown` how
far the other side has read. `Received` is what `extract_json_field` and
`unescape_json` make of a text in a message: brackets are counted without regard to
strings, escapes of control characters are not undone; a text it leaves alone
`Survives`. Checking a text may not end (the enum above; `RunOut` is the end of the
memory), may kill the process (`Aborts`: a cost out of the range of `std::stoul`, types
that contain each other), and may print into the stream (the package manager).

`Conversation` knows no documents, pipes or loop: messages are said, and each that
calls for a reply gets one, in order, about the text the editor had at that time, or
about an empty text where it has given the document none.
`LspServer` implements it with `replies` being the replies of `output`.

### Runtime

One thread (`thread_local` state) of a program that calls in any order. `cap`,
`used`, `peak`, `ops`, `begun` are `g_budget_*` and `g_trace`; there is one trace for
all that are open, so a trace in which another began or a cap was set is excepted
(`intact`). `agc_chunk` is a loop of its own: the product of size and four may
overflow (an integer has `IntRange` values; it wraps, as the build does), a size of zero grows the vector
until memory is out, a negative position throws through C code (`AbortChunk`).
`ledger` and `traced` are history variables.

## 3. The runs

| Run | Question | Bound | States |
|---|---|---|---|
| `frontend` | is what was written parsed as meant, is nothing mistyped lost, is everything read, does every parse end, is the cache whole? | every form of the grammar, pairs of statements and declarations, every slip of one piece in three programs; one compilation and one `agentc get` | 793 185 |
| `checker` | do names, moves, mutability, trust and capabilities follow the language? | bodies of 5 items over two alphabets; two declarations, 18 headers, bodies of 2 (3 where an agent follows) | 153 033 |
| `codegen` | is the graph well formed, whatever the input? | bodies of 3 items, 6 for branches, after a function that leaves slots behind | 39 271 |
| `agentc` | is what is compiled what was written? | bodies of 4 items, 2 for corner cases | 41 734 |
| `driver` | do races and failures let a wrong program run? | two sessions, one user, three entries | 4 864 931 |
| `lsp` | are replies right, fresh, in order and sent; do server and editor end? | two documents, seven texts, five messages | 236 513 |
| `runtime` | are budget, traces and chunks the account of the calls, does cutting end? | four calls, two open traces, integers of 64 values | 397 582 |
| `claim_*` | do five statements of the repository hold? | smaller instances | (violated) |

**Why the bounds are enough.** The checker's state that outlives a statement is
the scope stack and the moved flags. Confusing two bindings of a name takes a
definition, a scope around one of them and a use: with five items a definition or
use can stand before, inside and after an `@iter` body (two markers) and a second
use can follow; the `checker` mutants (a lookup from the wrong end, a forgotten pop,
a flag that survives a redefinition, a move marked in the wrong scope) are each
found with bodies of at most that length. For the generator the interesting depth is
one branch nested in another with statements around it, six items of a smaller
alphabet; for whole compilations four items are enough to bind a name in one arm of a
branch, or shadow it there, and read it after the branch. A wrong binary needs two compilations that overlap; the third entry lets a
process come back to the files the others left. `BudgetRange` is 64 in the runs so
that the wrap of the cap is reached by small caps.

The front end has no state that outlives a declaration but its position and its
errors, so pairs of declarations are enough; within one, recovery depends on the
nesting of loops (`{`, `[`, `(` and lists), and the three programs that are mistyped
have each of them. One slip per source is enough to enter every recovery; the
second error that recovery causes by itself is included. A conversation needs a text,
a later text, a question between them and one after: with `initialize` that is five
messages, and a message beyond what is waiting can only repeat them. The counters of
the runtime are compared with sums over the calls: a cap, two charges around it and a
third after a refund are four calls; 64 values of an integer make a chunk of eight tokens overflow.

The bounds by name: `MaxEntries` (`Driver`), `NameLength`, `RuleLength`,
`BodyLength`, `ControlLength` (lengths of bodies), `BudgetRange`, `MaxMessages`
(`LspServer`), `MaxCalls`, `MaxTraces`, `MaxCut` and `IntRange` (`Runtime`). Deadlock is
checked in every run but `runtime`, whose program may stop calling; elsewhere the end
of the work is an explicit stuttering action.

What each property says stands before its definition. The ones a reader should know:

* `LexicalScoping` compares `lookup` with a definition of scoping over the body
  alone (`Definitions` in `Ast`): the latest definition of the name that no finished
  `@iter` contains. Blocks of an `if` share the scope around them – that is what
  `check_if` does, and the property says so.
* `TypesInferred` adds the types: a lookup has the type written or inferred at the
  definition the name refers to, along the definitions that one depends on.
* `NoUseAfterMove` and `MoveErrorsJustified` are the two directions of the move
  rule, again stated over the body. A loop body is walked once by the checker, so a
  move in a loop is one use; branches are walked in sequence, so a value moved in
  both branches of an `if` is reported.
* `CompiledFaithfully` says that the compiled paths *are* the source paths, with
  each variable resolved lexically, although the generator has one name table for
  everything and the checker has scopes. What the generator has no code for is left
  out of the source (`Unmapped`), which is the price of the property: `:=` bindings,
  matches, loops and the last `^(e)` of a block, and the operands of `^!(e)`, which
  `gen_return_err` ignores, and of `!`, `@par`, methods, `@snd`, `@rcv`, `@spn`, `@syn`,
  `@mem` and `@budget`, which `gen_expr` takes for its default and answers with an
  undefined value. The guide shows such code running (`README.md:216`-`224`, a receive
  and two calls in an `@par`); it is accepted, and the calls are not compiled.
  `ReturnsAreLifted` shows one such case as a violation; the others are listed
  under the hazards. It also says that no function of the source is missing and none
  emitted twice, and that their order is that of the source.
* `CapabilitiesEmitted` is the sandbox at the level of the generated code. Operands
  of operators, which `infer` does not visit, are excepted by name.
* `RejectedNeverRun` holds of every interleaving and failure; `IntactRunsOwn` speaks of
  entries that no other process and no failure came between, and permits the empty
  program, which a file that is missing compiles to.
* `AcceptedAsWritten` compares trees, not acceptance alone: precedence, nesting,
  the annotations and parameters of every function.
* `NothingLost` is about accepted sources only: an error may lose anything, silence
  nothing. It is what the rules of the checker rest on, which see only the tree.
  Excepted are literals out of range (`Hidden`, `Spoiled`) and what the loops of
  `@correct` and of the arms of a match advance over (`passed`, a history variable):
  an `@correct` that lacks a closing parenthesis takes the functions up to the next
  one with it, in a source that is accepted.
* `ReadToTheEnd` is the half of it that holds of any source: no error, no exception and
  no rest of a declaration makes the parser return before the end of the tokens.
* `CachedWhole` permits a partial directory only while its clone runs or after a
  killed one: what `resolve` takes for the package in these two cases is listed
  under the hazards.
* `ParseEnds` excepts one loop, that over the variants of an enum (`Stuck`).
* `ConversationKept` is the refinement; `FreshWhenQuiet` what the user of the editor
  sees. Both leave open what is said about a text that does not survive the parser of
  the messages (`Survives`: one that closes a bracket it has not opened, or that JSON
  writes with `\u`). `RepliesArrive` and `NoOrphan` are liveness.
* `EndsForAReason` is an account of every end of the service, the bad ones included:
  a text whose check never ends or dies ends it, and an import loses the editor.
* `BudgetIsAccount`, `ReportsExact` and `ChunksAreText` compare the state of the
  runtime with the calls that led to it; `AbortsUncountable` says which sizes of a
  chunk end the program, and `ChunkReturns` that with all others the call returns.
  Excepted are traces in which another began or a cap was set (`intact`), and chunks
  of size 0, which never end (`Countable`).

**The claims.** Each statement is quoted with its line under "findings" in
`PROJECT.json`: effects in conditions are not seen (`claim_purity`), arguments of
calls are not checked for trust (`claim_sinks`), a `^(e)` that ends a block is not
generated (`claim_returns`), and a failed link makes a session run the binary of an
earlier line (`claim_once`). An import of a package never returns the text of the
package (`claim_import`): the directory that is cloned and the one that is searched
have different names. What the guide says of `@correct` (`a.md:113`) is no claim of a run,
since the grammar of the runs writes its closure without parentheses: with a call in it, as
the guide shows it, the loop of `parse_primary` ends at the call's `)` and the rest is
rejected.

**Fairness.** Three specifications assume it, each weak fairness of a loop that runs
as long as there is something to do, in a process the system schedules:

* `Frontend`: `WF_vars(Compile)`. `main` is one thread without waits but for git,
  which ends (it finishes, fails or is killed). `agentc get`, the other user of the
  cache, has none: a compilation does not depend on it, and `ParseEnds` shows so.
* `LspServer`: `WF_vars(Serve)`, the loop of `run`, whose only wait is for input,
  and `WF_vars(Receive)`, the editor reading its pipe. Saying and closing are never
  assumed. Whether the check of a text ends is not assumed either; one that does not
  end stands in `RepliesArrive`.
* `Runtime`: `WF_vars(Chunk)`, a loop in the program's own thread. The program need
  not call anything.

The checker and the generator take a step per item of a finite body, and the
sessions of `Driver` promise nothing about progress, so these assume none.

## 4. The proofs

A theorem here is about every value of the constants and programs of any length,
under the assumptions the modules name:

| Assumption | Says | Because |
|---|---|---|
| `ProgramsAssumption`, `NestingAssumption` (`Ast`) | declarations and statements have their types; a construct that is opened is closed | the linear form of a tree, as `parse_block` builds it |
| `DeclaredNamesAssumption` (`TypeChecker`), `NamesAssumption` (`CodeGen`) | what a program declares has names that are none of the special ones | names come from the source |
| `FrontendAssumption`, `SourcesAssumption` (`Frontend`) | the compilation is one of the callers of `resolve`; a source is a finite sequence of pieces | a file is finite |
| `BudgetRangeAssumption`, `RuntimeAssumption` | ranges are positive, amounts are numbers, lengths are not negative | C++ types |

Every module with an assumption is extended by an instance that TLC runs, so the
assumptions hold there. Assumed about git, clang, LLVM and the editor is what their
actions say.

`SetLemmas` proves what the CHOOSE expressions and the recursive functions rest on: a
nonempty finite set of positions has a greatest element; how the number of
occurrences of a value in a sequence changes when an element is appended or dropped;
that a set closed step by step stops growing (`Saturates`); and that a function
defined by recursion exists, over positions (`FoldExists`) or along any ranks that
grow from argument to argument (`RecursionExists`). The last two are what lets the
theorems speak of definitions by recursion, the types of definitions, the code of a
list of arguments, the paths of a graph and the account of the calls: existence from
these lemmas, facts about all positions from the least one, or the one of greatest
rank, that lacks them.

`TypeCheckerProofs` proves, for every set of names and programs:

* `TypeCorrect`: `Spec => []TypeOK`. One step per action; the work is in showing
  that inference is total – a bound name has a home scope, a registered function a
  last declaration.
* `ScopeBalance`: `Spec => []ScopesBalanced`. Not inductive alone: that a
  declaration is entered with no block open has to be carried along (`Balanced`).
  Opening and closing an `@iter` change the number of open `for` blocks by one
  (`OccurrencesAppend`, `OccurrencesFront`), everything else leaves it.
* `CapabilityRule`: `Spec => []CapErrorsExact`. The rule reads the annotations of
  the outermost scope, so the invariant needs that this scope is that of the current
  declaration (`Anchored`, which rests on `ScopeBalance`), and, since an error once
  reported stays, that no error exists for an item not reached yet (`Reached`).
* `LookupIsLexical`: `Spec => []LexicalScoping`. The property speaks of the binding a
  lookup finds, the inductive invariant (`Mirrors`) of every scope: the stack is one
  higher than the depth in `@iter` bodies, and its *l*-th scope binds a name exactly
  to the latest definition in scope at depth *l* - 1. A lemma per kind of statement
  (`BindingDefined`, `LoopBegun`, `LoopEnded`, `NothingDefined`, `FunctionBegun`)
  keeps it; that the innermost scope with the name also has its latest definition
  (`LookupIsLatest`) follows from what it means to be in scope.
* `AssignmentsAreToMutables`: `Spec => []AssignmentsMutable`. Each assignment checked
  has a mutable target or left an error (`AssignsReported`), which uses the above at
  the moment the assignment is checked.
* `TypesAreInferred`: `Spec => []TypesInferred`. The types of a body are given by
  recursion along the definitions (`DefTypes`); `Carries` says that *every* binding
  of the stack, found by a lookup or not, has the type of the definition it records,
  and that it is marked as moved exactly if a statement walked has used that
  definition and its type is owned. A definition that is shadowed now is found again
  when its `@iter` ends, which is why the invariant may not speak of lookups alone.
* `MovesAreFinal` and `MoveErrorsHaveCauses`: both directions of the move rule. With
  `Carries`, the check of a statement sees the mark exactly if an earlier use exists
  (`MoveJustified`); that a second use was reported stays true of all statements
  walked (`MovesReported`).
* `TrustIsKept`: `Spec => []TrustedStores`, from the types of `Carries` and
  `DistrustReported`: a statement walked that stores what is untrusted in what is
  trusted has left an error.

`CodeGenProofs` proves, for every program, accepted or not:

* `NoBlockForgotten` and `GraphsClosed`. The invariant (`GraphInv`) says of the
  function under construction that its current block has not ended and its branches
  lead to its blocks other than the entry block (`Live`), that the other blocks that
  have not ended are those the open ifs wait for, and that the blocks of an if are
  behind those of the ifs around it (`IfsOK`), so that closing one takes nothing from
  another. What an expression may do to the graph is one relation (`Grown`), which
  every `gen_*` of an expression is shown to satisfy; what is inside a block does not
  matter for it.
* `GenTypeCorrect`: `GenSpec => []GenTypeOK`, which does look inside: each generator
  of an expression takes a well-formed function under construction to one
  (`Building`) and leaves a value of an LLVM type (`Valued`).
* `SlotsAreOwn`: `GenSpec => []OwnSlots`. It is false of a function under
  construction, since `values_` is never cleared. What rejects the slot of another
  function is `Verified`: a load or store needs an alloca of its slot that dominates
  it, and all a function *allocates* is its own (`Written`, in `FnInv` and
  `EmittedInv`).
* `StoreHolds`, a lemma for what follows: `GraphInv`, where blocks also have ranks
  that branches go up (`Ranked`), so that what is emitted has no cycle (nothing
  the generator knows is compiled to a loop); and `StoreInv`, that right behind the
  allocation of a binding's slot stands its store or ill-typed code, or else the
  block is one no branch leads to: a binding behind a `return` in its own expression.
  An expression only adds to what there is (`Continues`).

`AgentCProofs` is about the two together. A step of the compiler is one of the type
checker or of the code generator or of neither, and none changes the program:
`CompilerChecks` (`ASpec => Spec`) and `CompilerGenerates` (`ASpec => GenSpec`), so that
everything above holds of the compiler. `StageInv` adds that a stage is left only
without errors. From these comes `SandboxKept`, `ASpec => []CapabilitiesEmitted`: a call
in emitted code is that of an item of the source (`CodeInv`); an item that calls
without the capability was reported (`CapabilityRule`) unless its function was
unknown to the checker, which is reported as well (`CallsUnknown`).

`ReadsAreWritten`, `ASpec => []WrittenBeforeRead`, speaks of all paths of a graph.
That `CompiledPaths` is what its recursive definition says is not free: it needs a
graph without cycles (`PathsExist`). Then, if a path from a block has a load with no
store of the slot before it, the load stands in a block that is reached around every
other block that has the store (`Exposure`, `ExposedFrom`, from the block of greatest
rank where it fails). But code that was verified has an allocation that dominates the
load (`Dominates`), and by `StoreInv` the store is right behind it; the exception, a
block no branch leads to, is not on the way either (`LoadsCovered`).

`CompilesAsWritten`, `ASpec => []CompiledFaithfully`, compares all paths of a graph with
all paths of a body, without what has no code (`Unmapped`), both defined by recursion. Neither recursion can be unfolded to its
end while a function is under construction, so the invariant (`PathInv`) speaks of what
is to come:

* *Generating leads on* (`Leads`). Give every block that has ended the paths of its
  successors (`Solves`), and the insertion point of a later state of the function any
  paths: then the insertion point of an earlier state has the runs of what was generated
  in between, followed by these. `Leads` composes as `Then` does; that the code of each
  form of expression leads by the runs of its source (`AtomLeads`, `ExprLeads`) is where
  order, branches and error returns are looked at.
* *A function is on its way* (`OnItsWay`) behind some items of its body if, given the
  paths the source has from there on (`IsSource`), and given to the blocks the open ifs
  wait for the paths behind their ends, it says the source (`Homeward`). Each statement
  keeps that; the last one, that returns, leaves a graph whose only solution is
  `CompiledPaths` (`FinishedHome`). If the function has ill-typed code, or a slot of
  another function, the promise is void (`Spoilt`), since it is not emitted then.
* *The names are right* (`Slotted`): for each name with a definition in scope `values_`
  has the slot of that definition, for any other name none of this function. This is
  where lexical scoping and a table without scopes meet; they agree because nothing is
  generated for an `@iter`, and what is defined in it is out of scope behind it
  (`LoopScoped`).
* *The body nests* (`NestInv`, of the type checker: `check_block` walks what
  `parse_block` nested), so that the items the open ifs were opened by (`Opens`) are
  those the source paths jump over, and every assignment has a target
  (`AssignmentsAreToMutables`): the generator runs on accepted programs only
  (`Orderly`, from `StageInv`).

That every function is emitted, once and in order, is an invariant of its own
(`EmissionInOrder`): of the declarations the generator is done with, the functions are
those emitted. It is kept because a function is emitted only when the position moves on.

`DriverProofs` proves all three properties of `Driver` for any number of sessions,
users and entries. Types need that a process at work has an entry (`AtWork`).
`RejectedIsNotRun` rests on `AllVetted`: whatever is one program, in the LLVM code, a
compiler or a binary, was accepted; a mixture is one program only if one of its parts
is (`WritingKeeps`). `IntactIsOwn` needs what an undisturbed process finds at each of
its places (`OwnAt`), and that nobody else is at work then, so that only its own steps
have to be looked at (`OnlyMine`, `EntryAlone`).

`FrontendProofs` proves `CachedWhole` for any packages, compilations, users and
sources: a clone that runs has made its directory and is the only one of its package
(`OneClone`, a theorem of its own), although nothing but `exists` stands between two
processes. All the front end does beside `resolve` leaves the cache alone
(`OnlyCallersTouchTheCache`).

It also proves, for any source whatever, `FrontTypeCorrect` (`Spec => []FrontTypeOK`),
of which two parts are not about types: that no declaration pushed to the program is
empty, and that the lexer makes no more tokens than there are pieces. The first needs an
invariant of the call stack (`StackOK`), since only the stack says what is still to be
done to the declaration under construction:

* the tasks on the stack are those the parse functions leave, nested at most so deep
  (`Flat`, `Nested`, `Listing`, `Inside`; `Parts` and `LoopParts` show it of each);
* while the declaration is empty, only tasks that keep nothing (`Early`) come before
  one that begins a node (`Starter`), and such a one comes before the push (`Begun`,
  `Ordered`), so that `Pushed` finds a node;
* the arms of a match whose blocks are still to be dropped are not more than the marks
  in the declaration behind its first node (`Paired`), so that dropping an arm never
  cuts off the beginning (`ArmDropped`; `ArmsAreDropped` is the theorem);
* whatever is on the stack, the loop of `parse_program` comes last (`Founded`), and it
  is left at the end of the tokens only, so the stack is empty nowhere else
  (`ParsedToTheEnd`, `Spec => []ReadToTheEnd`).

There is one lemma for each group of parse functions and helpers (`TokensKept` to
`EndsKept`, together `ParseKept`), one for the scanner (`LexKept`), and an exception
empties both stack and declaration (`ThrowKept`).

`LspServerProofs` proves, for any documents, texts, messages and length of a session
and any `MaxMessages`:

* `LspTypeCorrect`, which needs that what was said is a message of the protocol
  (`WellSaid`);
* `ConversationImplemented`, the refinement: initial states map to initial states, a
  step of the editor to `Say`, a handled message to `Answer`, everything else to a
  stutter. The invariant carries that `documents_` holds what was received last, and
  nothing or the empty text where nothing was (`DocumentsKept`), that replies are in order (`RepliesOrdered`) and that no message
  that was read and calls for a reply has none (`NothingOwed`);
* `DiagnosticsFresh`, from the same invariant (`LspInv`);
* `ServiceEndsForAReason`, from an invariant of its own (`EndInv`), and that what is
  received has no pieces the text has not (`NothingAdded`).

`RuntimeProofs` proves every invariant of `Runtime`, for any caps, amounts, texts and
sizes, any range of integers and any number of calls:

* `CountersAreAccount`, `OverflowsAreTold` and `TracesAreReported`, from `CountersInv`:
  the counters are the account of the ledger, and of the open traces only the
  innermost can be intact, and then the one record is its own (`TraceInv`). The report
  of a trace is looked at after it was made, so `ReportsExact` is kept by every call
  that leaves the answer. How the account of a ledger grows by a call is `FoldsGrow`.
* `ChunksTile` and `CountableNeverAborts`, from `ChunkInv`: the pieces cut so far are
  the text up to the position of the loop (`Tiled`), which is negative only if the
  product of the size wrapped around to a negative number; then the first piece was
  the whole text.

**Only model-checked.** `AcceptedAsWritten`: it compares what the parser builds with a
tree that the constant `Sources` pairs with the text, by induction over trees.
`NothingLost`: whether a token is outside of all braces is counted by hand there, which
is what the parser sees only in texts near well-formed ones, since after a `.` or in
`@(` any token is taken for a name; of arbitrary texts it is no theorem. Liveness
(`ParseEnds`, `RepliesArrive`, `NoOrphan`, `ChunkReturns`) is out of the provers' reach.

## 5. Not modelled, and what is left

Not modelled: the debugger (it writes a script and starts lldb); the io, net, val and
std parts of the runtime (stateless wrappers of the C library and libcurl), and of
ctx the calls of the model service; `src/runtime/snapshot.cpp`, a demonstration that
nothing links, with one fixed sequence of calls; the quick fixes of the editor
extension; the items of completion, the texts of hover and the ranges of diagnostics,
which are pure functions of the text the model says they are computed from; wording
of diagnostics; values computed by compiled code.

Left out of modelled parts: nested calls and deeper expressions in the checker and the
generator (the parser has them); Dat and Enm types in the checker, and with them the
recursion of `is_assignable`; `gen_loop` and `check_loop`, which no syntax reaches;
`mem_scope_tier`, which the parser never sets; `--debug` and the printing of `get`.
`Frontend` and `AgentC` are not composed: the tree of the one is a sequence of words,
that of the other abstracts from what the first keeps.

What is left, in the order of importance:

1. Dat types in `Ast` and `TypeChecker`, with an assignability that follows fields.
2. A tree common to `Frontend` and `AgentC`, so that `NothingLost` and
   `CapabilitiesEmitted` become one statement about the text.
3. An abstract compiler (accept or reject by the reference definitions, then emit)
   which `AgentC` implements.
