# A verification model of the Auto Vector PLX compiler

The repository holds a compiler for a small Pascal-like language (`.p0`). It
lexes, parses and type-checks a program, makes three-address code of it,
optimizes that code, with `-v` also vectorizes its loops, and writes x86-64
assembly. This directory holds TLA+ modules of all of it but the writing of the
assembly file, the TLC configurations that check them on small instances, and proofs of what holds for
every instance.

Paths below are relative to the repository's root. `file.cpp:12-20` names lines.

## 1. Inventory

The compiler is one thread. There are no callbacks from outside, no retries and
nothing persistent; what is hard is *state that several passes and several
tables share and that is rewritten while it is walked over*, and the order of
containers sorted by pointer.

| Part | State it keeps | Operations | What must be true of it |
|---|---|---|---|
| Lexer (`src/lexer.cpp`, `tables/*.csv`) | position, line and column in the text, state of a table-driven automaton, and the token table, which a lookup extends by an entry nobody reads again | `lex`, `scan_token`, `choose_action` | longest match; every character in exactly one token, blank or error; a token is where it says |
| Parser (`src/parser.cpp`) | cursor in the tokens, call stack, stack of scopes | one `parse…` per rule, `enterNewScope`, `exitOldScope` | the tree says what the text says; scopes are paired; it ends |
| Symbol table (`src/symbol_table.cpp`) | what the names of a scope are bound to, the scope around it | `insert`, `lookup` | a name means its first declaration in its procedure, or else in the program |
| Type checker (`src/past.cpp`) | types in the nodes | `typeChecker` per class, children first | a program that passes has the names and calls the generator relies on |
| Syntax tree, code generation (`src/past.cpp`) | the tree; counters of labels and temporaries | `generateCode` per class | the code does what the tree says; every jump and call goes to one place |
| Three-address code (`src/3ac.cpp`) | instruction list, counters | `makeQuad`, classification | operands are where each pass looks for them |
| Preprocessor (`optimizer/preprocessing.cpp`) | the code, a window of two, names of array elements | erase a redundant temporary, convert a jump | meaning is kept; a converted jump stands behind its own comparison and decides as it did; the pass ends |
| Blocker and blocks (`optimizer/blocker.cpp`, `basic_block.cpp`) | blocks, label map, edges, definitions known | cut, connect | blocks are basic; edges are where control goes (for the jump of the first block they are not) |
| Graphs and CFG (`optimizer/graphs.cpp`, `cfg.cpp`) | entry, postorder, back edges, loops | one graph per procedure | loops are the loops of the program |
| Dominator tree (`optimizer/dominator.cpp`) | immediate dominators | passes to a fixpoint, `dominates` | answers dominance; ends |
| Reaching definitions (`optimizer/reach.cpp`) | `in`, `out`, worklist | pick, merge, transfer | ends; invents and loses nothing; finds all that flows in |
| Natural loops (`optimizer/natural_loop.cpp`) | invariants, induction variables | find them, copy a loop | the copy is the loop |
| Loop vectorizer, strip profile (`optimizer/loop_vectorizer.cpp`, `strip_profile.cpp`) | iterator, directions, vector and serial instructions | decide, strip, unroll | a vectorized loop computes what the loop did; the compiler survives |
| Code generator and tables (`codegen2/*`) | register table, address table, globals, stack, liveness | one method per operation, request a register, spill, end of block | the two tables agree; every request is answered; the code does what the block says |
| Main program (`src/main.cpp`) | – | calls the phases, stops at the first that fails | the phases fit together |
| Options, assembly file, logging, run-time library | – | – | not modelled |

**How they interact.** `main.cpp` calls the phases one after the other. The
parser asks the lexer's tokens through one cursor, and every node of the tree
keeps the scope it was made in, in which the type checker and the code generation
look its names up much later, when the stack of scopes is long gone.
`Optimizer` runs the preprocessor on the instruction vector in place, hands it
to the blocker, and `Graphs` builds one control flow graph for the main code and
one per procedure; the constructor of a graph runs the dominator, reach, the
loop search and, with `-v`, the vectorizer, which rewrites blocks and edges of
the shared block set while other loops and graphs still wait. The code generator
walks over the blocks in the order of their identifiers and asks its tables.

**Hard behaviours.** An automaton that never goes back to the last word it could
have ended; scopes entered
and left by hand on the way through a recursive descent; lookups that fall back on
another scope, or fail, without a word; a cursor that stays at the end of the
tokens, where a loop would go round for ever. A window over a vector that is erased from; a worklist
whose `std::set::merge` *moves* definitions out of the predecessor, in an order
given by addresses; a kill set that depends on which blocks were built before;
edges that are missing for the first block; a tree built on that graph; copies
of blocks patched by hand, several times; two tables that must agree though
they are written separately, with registers that run out; definitions followed
by recursion with no end. The hazards, by line, with the properties that cover each, are in `PROJECT.json`.

## 2. Modules

| Module | Models | State and actions |
|---|---|---|
| `Lexer` | `lexer.cpp`, for any automaton | `source` and the scanner in it, `current_state`, `token_table`, `token_stream`; `StartToken`, `Move`, `Recognize`, `Fail`, `Finish` |
| `Words` | the two CSV tables and the reserved words | the rows of the tables, and the automaton made of them as a function; what a word is |
| `SymbolTable` | `symbol_table.cpp` | operators on the sequence of all tables |
| `Parser` | `parser.cpp` | `tokens`, `current_token`, `tables`, `scopes`; `todo` is the call stack, as what the called functions still have to do, `values` their local variables; one action per function, each up to its next call |
| `TypeChecker` | `typeChecker` in `past.cpp`, the checks of a call | recursive operators on trees and tables |
| `FrontEnd` | the first half of `main.cpp` | composes `Parser`, `TypeChecker` and `Past`; `stage`, `code`; `Parse`, `CheckTypes`, `GenerateCode` |
| `Tac` | `3ac.h`, `3ac.cpp`: operations, operands, classes | operators only |
| `GeneratedCode` | what `past.cpp` hands over | the shapes of its instructions; `Names`, `Labels`, `Programs` |
| `Reach` | `reach.cpp:50-122`, kill sets of `basic_block.cpp:231-244` | `in`, `out`, `changed`; `Pick`, `Merge` (one predecessor each), `Transfer`, `Finish`. `rank` is the order of addresses |
| `CodeGen` | `code_generator.cpp` and its tables | `regTable`, `addressTable`, `globals`, `stack`; `Fetch`, one action per way of getting a register, one per generate method, `FreeRegisters`; `machine` executes what is emitted beside `reference`, which executes the three-address code |
| `Past` | `generateCode` of every class in `past.cpp` | recursive operators; `After` says what a tree means |
| `Preprocessor` | `preprocessing.cpp` | `instructions`, `at`, `isArray`; `Rewrite` (erases; the window stays), `Advance`, `Finish` |
| `Blocker` | `blocker.cpp` | `blocks`, `labelBlock`, `followsJump`; `previous` and `saved`; `successors`, `predecessors`; first instruction, the rest, then one action per kind of neighbor |
| `Dominator` | `graphs.cpp`, `cfg.cpp`, `dominator.cpp` | `StartGraph`, one block of a pass per step, `NextPass`, `FindLoops` |
| `Optimizer` | `optimizer.cpp` | composes the three above on one `instructions`, `blocks` and edges; starts from the code `Past` generates |
| `NaturalLoop`, `LoopVectorizer`, `StripProfile` | what the loop analysis answers | operators on the body of a loop |
| `Vectorizer` | the constructor of a graph with `-v`, the copy of a loop | composes `Optimizer` with the three above; `pending` loops, `placed` copies; `Vectorize`, `Leave`, `Die` |

`MC…` modules give the instances; `…_proofs` modules hold the theorems, and
`Induction` the lemmas by which they reason about sequences of any length. Each
composition shares the variables of its components (`INSTANCE`, in `FrontEnd`
`EXTENDS`): a component's `Next` is a disjunct, guarded by `phase`, and the
composition keeps the variables of the others unchanged.

Choices of abstraction:

* **The alphabet** of `Words` has one letter, one digit and one blank for all that the
  tables treat alike; the letters `o` and `d` are kept apart, for the tables spell the
  operator `odd` with states of its own.
* **Reading the tree** (`Yield`, `ValueOfText`, `DeclarationsOf` in `FrontEnd`) is
  defined on the text, not on the grammar of the code: a reference, not a model.
* An entry that `lookup` left uninitialized is any of `Uninitialized` in `Parser`.
* Names, labels and literals are strings compared for equality. Text, offsets
  and the printing of graphs are left out.
* **Orders of addresses** (`std::set<BBP>`, the set of back edges) are any order:
  `rank` in `Reach`, `\E l \in pending` in `Vectorizer`.
* **Uninitialized entries**: for a temporary, a lookup leaves the entry as it
  was; `looks` in `Vectorizer` is any of the outcomes (constant, variable, or
  neither, on which the code asserts).
* **What reach answers about a loop** is left open in `Vectorizer` (any set),
  since `Reach` shows that it depends on addresses.
* **Freed strings**: `strip_profile.cpp:165,178-179` pushes back a reference into the
  vector it has just cleared. A short name is still read from where it was; one of
  sixteen characters or more (`LongNames`), which is kept on the heap, may be read as it
  was or as something else (`intact` in `Vectorizer`).
* **Machine code** in `CodeGen`: arithmetic and output destroy the flags; `vaddpd` is taken
  for the addition it is meant as, and that `vmovapd` wants aligned addresses is left out.
* **Faults**: a failed assertion, a null pointer, `map::at` on a missing key, or
  a recursion without end sets `fault` and stops the model.
* The machine in `Optimizer.tla` (`Executed` and its helpers) and `After` in
  `Past.tla` are references, not models of code: what three-address code and
  trees are meant to do. They give code with a negation no meaning (`HasMeaning`), for `odd x`
  does not compute whether `x` is odd. Integers are not wrapped: no property is about width.
* An empty program, for which the blocker dereferences the end of an empty
  set, is left out of the instances of `Optimizer`.

## 3. Runs

Bounds are in the MC modules and cfg files; every bound has a name.

| Run | Instance | Shows |
|---|---|---|
| `lexer` | all texts of up to two characters, of three from 14 and of four from 8 characters, pairs of words on two lines | type; a token has the text of its place; tokens are the longest match and nothing is lost, against a reference on the text; a word is one token; every scan advances |
| `front_end` | 34 programs with every construct, right and wrong, each of them also with any one token missing; writes of all expressions of up to five tokens and some longer | type; scopes are nested and paired; the tree says what was read, sums and products group as written; names mean their declaration; jumps, calls and parameters are connected; it ends |
| `reach` | four graphs of the kinds the blocker builds, 6 blocks, 5 definitions, all 720 orders of addresses | type; nothing invented (against the least solution); no definition vanishes; whoever is off the worklist has been offered what is offered; `in` grows only; it ends |
| `reach_flow` | the same | **violated** |
| `codegen` | all blocks up to 3 of the menu of scalar instructions, some with negations and parameters, up to 4 of crowded or vector menus, output among vectors, two that run out of registers of one kind, pairs of small blocks, a temporary spilled and renewed; 4 general and 5 vector registers, 5 scalars, so that registers run out | tables agree; globals always have a home; scalar code always gets a register; for the disciplined blocks the code does what the block says and no assertion fails |
| `codegen_assert` | the start of `test/test_code/test8.p0` | **violated** |
| `blocker` | all code of up to six instructions over an assignment, two labels, jumps on a condition and without one, and the two ends of a procedure; labels may be missing, procedures are closed and not nested | blocks basic; edges are the flow but for the jump of the first block, also where nothing comes before a procedure and where one ends the code |
| `optimizer` | programs of two or three statements or nests side by side or inside one another, up to three deep, `odd`, arguments, none to two procedures, with and without declarations, four starting environments | each rewriting step keeps the meaning (strict comparisons); a converted jump stays behind its comparison, whatever is erased; the code is what the blocker relies on (`CodeCanBeCut`); the types of all components; the tree is dominance; loops have one entrance and are the whiles; the compiler dies only at a program that starts with a loop or a procedure; it ends |
| `optimizer_jumps` | the same | **violated** |
| `optimizer_edges` | the same | **violated** |
| `vectorizer` | about 300 programs with one to three loops, of every shape of `test10` to `test13` and others, counted to 3, 4 and 8, one by an iterator with a long name | compiler stops for known reasons only; simple loops are two blocks; the copy is the loop; edges are the flow after any number of vectorized loops; map loops keep their meaning if their iterations are a multiple of four |
| `vectorizer_meaning` | the same | **violated** |

*Why the bounds are enough.* Every state of the automaton is reached
with at most three characters (`odd` is the longest way), and those of words and numbers,
where it could go wrong behind that, are in the alphabet of four characters. Programs with
one token missing put every function of the parser in front of a token it does not
expect, deep in a text that was right so far. Five tokens hold a sum, a product or a
parenthesis in one another; the longer expressions hold all three. `MCMaximumArguments` is 3 (16 in the code), so
that the limit is met. Six blocks hold a loop in a loop and a branch in a
loop, where moving and killing interfere. Five scalars and four registers
force each of the four ways to get a register. Six instructions hold a
procedure with something before, in and behind it, or two procedures side by side with
one instruction in each. The trees cover each pair of
statement kinds in sequence and nested, which is all that a window of two and a
neighbor relation can tell apart. Trip counts 3, 4 and 8 are less than, equal to
and twice the strip. `Fuel` (8 and 22 iterations or calls) bounds only the
programs compared: one that has not ended by then is not compared.

*Fairness.* `WF_vars(Next)` where a run checks termination (`reach`,
`optimizer`, and of `FrontEndNext` in `front_end`): the compiler is one thread that is
never blocked, so it takes a step as long as one is possible. No fairness between components is assumed. The
other runs state no liveness. Deadlock is not an error in any run: each model
stops when the phase is done or the compiler has died.

### What the violated runs show

* `reach_flow`: `std::set::merge` (`reach.cpp:79`) moves definitions, so only the
  first visited successor of a branch sees them.
* `codegen_assert`: a constant has no address in the block after the one that
  sets it. The sample programs test2, test5 and test8 stop with this assertion.
* `optimizer_jumps`: the jumps made for `=` and `#` are taken on the condition itself
  and not on its negation; `<=` becomes JMP_GE and `>=` JMP_LE, which is wrong only when the
  operands are equal (`preprocessing.cpp:57-75`). `<` and `>` become JMP_GE and JMP_LE,
  which is right, though the comment in `preprocessing.h:57-58` has jg and jl.
* `optimizer_edges`: "any block that jumps to another shares a successor/predecssor pair"
  (`blocker.cpp:78-83`), but the loop that makes the edges starts at the second block
  (`blocker.cpp:88`). A program without procedures that has an `if` before its first loop has
  no edge past the body of that `if`: the declarations are in the same block.
* `vectorizer_meaning`: the strip is entered under the old condition, and
  overshoots when the iterations are not a multiple of four.

The models show more of what the code does, without a run of its own:

* A sign, "Optional plus and minus" (`parser.cpp:685`), is read, `is_unary` is never
  set, and the sign is dropped: `x := -x` is compiled as `x := x`.
* The kill set (`basic_block.cpp:232`) is all definitions known when the block was
  made, so a definition does not survive later blocks that leave its variable alone
  (`Reach` has the set as it is).
* After `z := x + y` the table may still locate `x` in the register that now holds `z`
  (`code_generator.cpp:176`). The blocks free of this and similar shapes are
  `Disciplined` in `CodeGen.tla`, which lists them: mem-to-mem copies, a comparison
  of a variable already in a register, an array element copied by its address,
  constants used in another block, two-operand division.
* Three shapes are on that list because the proof of `EffectIsCorrect` did not go
  through without them, and TLC finds the block once it is looked for. The index of an
  access may be an element of another array (`a[b[i]]`): its register then holds the
  element and no longer the address, and a later use of the place is wrong (`Handled`).
  A sum whose result was in another register leaves itself in the register table
  there, and is stored a second time, with the old value, when a register is needed
  (`MaySpill`; such a block is in `Crowded` of `MCCodeGen`). A temporary that was ever
  sent to the stack is taken for stored there when a later block uses its name again
  (`NothingOnStack`; `Spilled` and `Renewed` of `MCCodeGen`).
* `vsubpd` is printed as `lhs, rhs, result` (`code_generator.cpp:285-288`), which in the
  order of this assembler is rhs - lhs. `EmitVector` has it so, and only the subtraction of a
  vector from itself is `Disciplined`.
* Output saves every register in use with `pushq`, vector registers included
  (`code_generator.cpp:615-622`), which have no such instruction: output behind a vector
  instruction of its block is not `Disciplined`.
* A negation ends the generator (`code_generator.cpp:105-110`), so no program with `odd` is
  compiled; JMP_L and JMP_G would too (`:584`, `:611`), but nothing makes them. Parameters
  are passed over without a word (`:72-73`).
* What the first block lacks, `EdgesBehindTheFirst` says exactly: it has the edge to what
  follows it and none that control does not take.
* Every operator groups to the right: `4 - 2 - 1` is 4 - (2 - 1) (`parser.cpp:735`);
  `TreeIsWhatWasRead` compares values of sums and products only.
* A procedure named `no0` has the label of the first jump (`3ac.h:265`);
  `ClashingLabels` in `FrontEnd` is what `CodeIsConnected` leaves out.
* `odd x` negates `x` in place (`past.cpp`), and the variable a procedure declares for
  its result is read by no code (`past.cpp:247`).

## 4. Proofs

TLAPS checks these for every value of the constants that meets the named
assumptions of the module (`ASSUME` in `Reach`, `CodeGen`, `GeneratedCode`, `Lexer`, `Parser`,
`Blocker`).

* `Reach_proofs`, from `CFGsAssumption` (edges are mirrored, as the blocker makes
  them): `TypeCorrect`; `InGrows`; `NoInvention` by `FlowInv`, which adds that an out
  set holds only what is generated or arrives and survives; `WorklistSettles`,
  `OffersSettled` and `DefinitionsSurvive` by `WorklistInv`: `OutIsOfferedToAll` is not
  inductive, for a block may lose definitions to `merge`, so `PassedOn` adds that what
  flows through a settled block is in its out set or was moved to a successor.
* `CodeGen_proofs`: `TypeCorrect`, `HomesKept`, `LocatedTaken`, `ScalarRegisters` from
  one invariant `Inv`. `Quota` says that the registers asked for and got are as many
  as the instruction uses, `Boundary` that nothing but jumps is generated
  after the registers were freed, and `ScalarOnly` that until the generator comes to a
  vector instruction of its block no vector register is taken, which is what makes the faulty comparison in
  `registers.cpp:85-86` harmless there.
* `Effect_proofs`, the largest proof of the project: `EffectCorrect` and `CodeGenerated`,
  for any program, any number of blocks and any two sets of registers, from the
  assumptions of `CodeGen`: a name is of one kind only, and there are as many vector
  registers as general ones, and one at least (sixteen and thirteen in `registers.cpp`).
  It says that the code of a block does what its three-address code says if the block
  is a `GoodBlock`: `WellFormed`, which is what the parser, the type checker and `Past` see
  to (declared before mentioned, defined before used, operands of the right kind, and, after the
  preprocessor, a conditional jump right behind its comparison), and `Disciplined`, which is
  a list of what the generator gets wrong and claims nothing of blocks with any of it. Both properties speak of the end of a block only, so they are far from
  inductive. `EffectInv` says what holds in between:
  * `StateFaithful`, of the tables and the machine, name by name and only where anybody
    may still look (`Wanted`): a scalar is right in memory unless its register is newer,
    and then right there (`ScalarsRight`); a temporary or a constant that is defined and
    still to be used is in a register with its value, or with its address if it is an
    array element (`ValuesKept`); an array's register holds its address; no two wanted names share a
    register (`Unshared`). Stale entries of names nobody wants are allowed, for the code
    leaves them (`code_generator.cpp:176`); to say more would be false.
  * `NewRequests` and `AnswersRight`, of the instruction at hand: what it has asked for
    and was given so far, and that each register given still is the one of its operand
    while the next is asked for.
  * `RegistersCounted`, why a register is always found: the registers in use are no more than the
    members of `Taken(Block)` that have been asked for (`Claimed`), or else the block has
    only scalars in registers and the register table is right about each of them, so
    that one can be sent home (`OwnersRight`).
  * `TableInv`, of declarations and homes, which holds of every block, good or not, and
    `StackMeansFault`: a temporary or a constant gets to the stack only from a block that
    was not disciplined, so that `CodeGenerated` needs no condition on the stack.

  `Faithful` is proved one action at a time: fetching, the ways to get a register
  (`Delivered` is what all of them establish), each instruction emitted, the end of a
  block and the beginning of the next (`RestingFaithful`). `NeverFails` shows that the
  step that sets `fault` is not possible in a good block.
* `Preprocessor_proofs`: `TypeCorrect` and `ConversionIsLocal`, which says where a converted
  jump stands and not which jump it is; the invariant says
  that a converted jump has the comparison of its kind right before it, that a comparison
  without a result has a jump right after it, and that before the next instruction
  to look at no jump on a comparison is left to convert.
* `Lexer_proofs`, from `TablesAssumption` (the first state is not final, nothing leads on
  from the end of the text): `TypeCorrect`, `TokensInPlace`, `ScansAdvance`. The
  invariant follows the token being scanned from its first character (`TokenInv`); a
  token without characters is in the first state (`StartInv`), which counts as final only
  once it was looked up at the end (`TableInv`). `OnePlace` shows that a line and a column
  name one place, so that a scan that ends elsewhere has read something.
  `TokensAreLongest` and `NothingLost` also use `NoWayBackAssumption`: a final state
  leads on to final states only, which is what lets the lexer do without going back,
  and white space is skipped one character at a time. `MatchInv` says that the automaton
  is where the characters read so far take it, and `LostInv` that each character before
  the token being scanned is in exactly one token, blank or reported, and that no
  token claims one beyond. A run of the automaton is a function on the places of the
  word (`RunOfWord`), so that a word and what it begins with go through the same states
  (`RunOfBeginning`).
  For the automaton of the two CSV tables (`Words`), `WordsAreWhole`: a scan that begins
  where a word does runs through the states of words to its end (`WordsRound`,
  `GoesOn`), and no token reaches into a word from what is before it (`NoneReachesIn`),
  for a state that is reached with any other character has no way on with a letter or
  an underscore (`Steps`).
* `Parser_proofs`, from `StreamsAssumption` (a token to begin with): `TypeCorrect` and
  `ScopesNested`. `ScopesAreNested` is not inductive: that the assertion of
  `exitOldScope` holds depends on what is still to do. `Work` says that everything on
  the call stack, done in its order, takes the open scopes to the global one and never
  below it (`Depths` numbers them); each function replaces its item by
  items that keep the number of scopes (`Neutral`) or by a pair around such items
  (`Scoped`), and `MoreWork` joins the two.
* `Blocker_proofs`, from `CodeAssumption`: `BasicBlocks`, `TypeCorrect`,
  `EdgesFollowControl`, for code of any length with any number of procedures. The last is
  `EdgesBehindTheFirst`: nothing is claimed of an edge for the jump of the first block, which
  is not made (see `optimizer_edges`); of every other block the edges are the flow.
  `BlocksAreBasic` alone is not inductive: `CutInv` adds that `followsJump` tells whether
  control leaves by the last instruction scanned, and that each entry of the label map
  is a block that begins with that label. Nor is `EdgesBehindTheFirst`: an edge past
  a procedure is made when the code behind it is reached, from a block remembered since
  the procedure was entered. `Remembers` says which one: inside of a procedure the
  block before is `previous` and the last block outside is `saved`, outside the last
  block outside is `previous`. `Edged` says of the blocks below `current` what
  `EdgesBehindTheFirst` says of all, and that the edges are mirrored, which is what
  `CFGsAssumption` of `Reach` takes for granted.
  `CodeAssumption` is what the generated code is like: a procedure is neither begun in
  another one nor left open, no label is there twice, and the first instruction is no
  jump and ends no procedure. The run `optimizer` checks that
  the preprocessor hands over such code (`CodeCanBeCut`). It does not hold of a program
  whose procedure is named like a numbered label; such programs are in no instance of `Optimizer`.

`TypeOK` of `Preprocessor` and of `Blocker` are conjuncts of the one that the run
`optimizer` checks, which also checks `JumpsTestTheirComparison`; every other theorem states a
property of its component's run, or a strengthening of one (`WorklistSettles`).

*Induction.* What recursive functions compute is proved from `Induction`: `Induct`
is stated of a set that is closed under the successor instead of a predicate, and
`Recursion` says that a function defined from the value before exists, from which the
functions of the model (`Targets`, `Starts`, the run of an automaton) are known to
meet their definitions.

Only model-checked: termination of `Reach`, of the optimizer and of the parser
(liveness), and what needs recursive operators on trees or the machine (`Past`, `TypeChecker`,
`Optimizer`, `FrontEnd`): the properties that compare meanings, or texts with trees.
Of `Dominator`, that the tree is dominance and that it ends, which rest on
recursions that no number counts down (`Walk`, `Meet`); of `Vectorizer`, all of it.

## 5. Not modelled, and the plan

1. *Proofs*: `Dominator` (type correctness, off the tree); lemmas about `NaturalLoop` and `StripProfile` (a squashed loop has nothing serial);
   that the code `Past` generates is what the blocker relies on (`CodeCanBeCut`).
2. *Code generator over several blocks*: an abstract specification, memory after
   each block, refined by `CodeGen`; the spill that is never stored
   (`code_generator.cpp:565`) and intended liveness (`liveness.h:24`).
3. *The reader of the CSV tables* in `lexer.h`: `Words` has the tables as they are read.
4. *Tree and tables of the parser as input of the optimizer*: `Optimizer` starts from trees
   built by the operators of `Past`, of the same shape, with the constants, literals and
   arrays of its instances given by hand.

Left out for good: printing of graphs, logging, file output, `std/stdio.s`.

## 6. Running

    tlc -workers 2 -config MCReach.cfg MCReach
    tlapm Reach_proofs.tla

Every run takes a minute or two at most on two cores. The proofs take seconds to a few
minutes each, `Effect_proofs` the longest. `PROJECT.json` names the runs, the
source lines of every definition, and for every property a mutation of
the model, kept beside the definition it changes, that breaks it.
