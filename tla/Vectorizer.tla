----------------------------- MODULE Vectorizer -----------------------------
(***************************************************************************)
(* The optimizer with -v: when the loops of a graph are known, and before  *)
(* the next graph is built, every loop that can be vectorized is copied    *)
(* behind itself and its body is made into one that does four iterations   *)
(* at once; the copy is there for the iterations that are left.            *)
(*                                                                         *)
(* The loops come in the order of the addresses of their blocks, which is  *)
(* any order.  What reach.cpp answers about a loop is left open here.      *)
(***************************************************************************)
EXTENDS Past, FiniteSets

CONSTANTS
  Trees,      \* the syntax trees of the programs to compile
  Names,      \* variables, literals and temporaries
  TempNames,  \* those that start with $
  Labels,     \* labels and procedures
  LongNames,  \* those of sixteen characters or more
  Envs,       \* what the variables may hold when a program starts
  Fuel        \* bound: calls and iterations of the runs that are compared

VARIABLES
  tree, phase, fault,
  instructions, at, isArray,
  scanned, blocks, followsJump, labelBlock,
  current, previous, saved, successors, predecessors,
  entry, postorder, iDoms, position, changed, loops,
  pending,    \* loops of the graph that have not been looked at
  placed      \* for each copy of a block, its identifiers: major and minor

optimizing == <<tree, phase, instructions, at, isArray,
                scanned, followsJump, labelBlock, current, previous, saved,
                entry, postorder, iDoms, position, changed, loops>>
edges == <<blocks, successors, predecessors>>
vars == <<optimizing, edges, fault, pending, placed>>

Opt == INSTANCE Optimizer WITH Programs <- {}
Profile == INSTANCE StripProfile WITH Constants <- DOMAIN ValueOf

Init ==
  /\ Opt!Init
  /\ pending = {} /\ placed = <<>>

(* The constructor of a graph goes on to vectorize its loops. *)
Optimize ==
  /\ pending = {}
  /\ Opt!Next
  /\ pending' = loops' \ loops
  /\ UNCHANGED placed

-----------------------------------------------------------------------------
BodyBlocks(l) == Opt!Analysis!Body(l.header, l.footer)
Body(l) == FlattenSeq([k \in 1 .. Len(blocks) |-> IF k \in BodyBlocks(l) THEN blocks[k] ELSE <<>>])

(***************************************************************************)
(* What reach.cpp says matters for what a variable is counted by, and what *)
(* an entry is that nobody filled in, for a temporary a subscript is made  *)
(* of, and whether a long name outlives its string.                        *)
(***************************************************************************)
Counted(body) ==
  UNION {({i.arg1, i.arg2} \ {i.result}) \ DOMAIN ValueOf :
           i \in {j \in ToSet(body) : j.op \in {"ADD", "SUB"} /\ j.result \in {j.arg1, j.arg2}}}

Subscripts(body) ==
  FoldLeft(LAMBDA found, i : found \union ({IF i.op = "ARRAY_INDEX" THEN i.arg2
                                           ELSE IF i.result \in found THEN i.arg1 ELSE NoName} \intersect TempNames),
           {}, Reverse(body))

Guesses(l) ==
  UNION {[constantsInside : SUBSET Counted(body),
          looks : [Subscripts(body) -> {"constant", "variable", "other"}],
          intact : {TRUE, \A i \in ToSet(body) : i.result \notin LongNames}] :
           body \in {Body(l)}}

IndexOf(l, guess) == Profile!Index(blocks[l.header], Body(l), guess.constantsInside)
Stripped(l, guess) == Profile!Strip(Front(blocks[l.footer]), IndexOf(l, guess), guess.intact)

Verdict(l, guess) ==
  LET can == Profile!CanBeVectorized(blocks[l.header], Body(l), guess.constantsInside, guess.looks)
      should == Profile!ShouldBeVectorized(Body(l), IndexOf(l, guess))
  IN  IF can # "yes" THEN can
      ELSE IF should # "yes" THEN should
      ELSE IF Stripped(l, guess).endless THEN "endless"
      ELSE "yes"

(* getExit: the first successor of the header that does not dominate it. *)
Exit(l) ==
  LET out == SelectSeq(successors[l.header], LAMBDA b : ~Opt!Analysis!Dominates(b, l.header))
  IN  Head(out)

FirstLabel(b) == Head(SelectSeq(b, LAMBDA i : i.op = "LABEL")).arg1

Renamed(b) ==
  [k \in DOMAIN b |-> IF b[k].op \in Jumps \union {"LABEL"} THEN [b[k] EXCEPT !.arg1 = @ \o "C"] ELSE b[k]]

JumpingTo(b, label) == [b EXCEPT ![Len(b)].arg1 = label]

(* A mutation of Without: the edge stays. *)
WithoutNothing(s, b) == s

Without(s, b) == RemoveFirst(s, b)
Minor == Cardinality(DOMAIN placed) + 1

(* A mutation of Places: the copies keep the order they were made in. *)
PlacesAsMade(l, header, footer) ==
  [b \in DOMAIN placed \union {header, footer} |->
     CASE b = header -> <<l.footer, Minor + 1>> [] b = footer -> <<l.footer, Minor>> [] OTHER -> placed[b]]

(* The copy of the footer is made first; then the minor identifiers are swapped. *)
Places(l, header, footer) ==
  [b \in DOMAIN placed \union {header, footer} |->
     CASE b = header -> <<l.footer, Minor>> [] b = footer -> <<l.footer, Minor + 1>> [] OTHER -> placed[b]]

(***************************************************************************)
(* duplicateLoopAfterThisLoop and stripMineLoop, for a loop of two blocks: *)
(* the header jumps to the copy instead of the exit, the copy to the exit. *)
(***************************************************************************)
Vectorize(l) ==
  \E g \in Guesses(l) :
    /\ Verdict(l, g) = "yes"
    /\ \E exit \in {Exit(l)}, body \in {Profile!Unrolled(Stripped(l, g))} :
         LET footer == Len(blocks) + 1
             header == Len(blocks) + 2
             headerCopy == JumpingTo(Renamed(blocks[l.header]), FirstLabel(blocks[exit]))
             ToCopy == JumpingTo(blocks[l.header], FirstLabel(headerCopy))
         IN  /\ blocks' = [blocks EXCEPT ![l.header] = ToCopy, ![l.footer] = Append(body, Last(@))]
                            \o <<Renamed(blocks[l.footer]), headerCopy>>
             /\ successors' = [successors EXCEPT ![l.header] = Append(Without(@, exit), header)]
                                \o <<<<header>>, <<footer, exit>>>>
             /\ predecessors' = [predecessors EXCEPT ![exit] = <<footer, header>>]
                                  \o <<<<header>>, <<footer>>>>
             /\ placed' = Places(l, header, footer)
    /\ pending' = pending \ {l}
    /\ UNCHANGED <<optimizing, fault>>

(* A loop that cannot or should not be vectorized stays as it is. *)
Leave(l) ==
  /\ \E g \in Guesses(l) : Verdict(l, g) = "no"
  /\ pending' = pending \ {l}
  /\ UNCHANGED <<optimizing, edges, fault, placed>>

(* A definition is followed without end, or looked up where there is none. *)
Die(l) ==
  /\ \E g \in Guesses(l) :
       /\ Verdict(l, g) \notin {"yes", "no"}
       /\ fault' = Verdict(l, g)
  /\ UNCHANGED <<optimizing, edges, pending, placed>>

VectorizeLoops ==
  /\ fault = "none"
  /\ \E l \in pending : Vectorize(l) \/ Leave(l) \/ Die(l)

Next == Optimize \/ VectorizeLoops

Spec == Init /\ [][Next]_vars

-----------------------------------------------------------------------------
(* The blocks in the order of BlockSet, and their code. *)
Place(b) == IF b \in DOMAIN placed THEN placed[b] ELSE <<b, 0>>

Before(a, b) ==
  LET p == Place(a)
      q == Place(b)
  IN  p[1] < q[1] \/ (p[1] = q[1] /\ p[2] < q[2])

Layout == SortSeq([b \in DOMAIN blocks |-> b], Before)
CodeOf(contents) ==
  LET layout == Layout
  IN  FlattenSeq([k \in DOMAIN layout |-> contents[layout[k]]])
Code == CodeOf(blocks)

-----------------------------------------------------------------------------
(* The compiler stops for the known reasons only, and copies are among the blocks. *)
TypeOK ==
  /\ fault \in {"none", "unknown label", "null block", "off the tree", "endless", "undefined", "assertion"}
  /\ pending \subseteq loops
  /\ DOMAIN placed \subseteq DOMAIN blocks
  /\ \A b \in DOMAIN successors : ToSet(successors[b]) \union ToSet(predecessors[b]) \subseteq DOMAIN blocks

(***************************************************************************)
(* natural_loop.h: "no control flow structures and no procedure calls.     *)
(* This would imply then that the loops of interest contain only a header  *)
(* and footer node": a loop that passes for simple is two blocks, before   *)
(* and after other loops of the graph were vectorized.                     *)
(***************************************************************************)
SimpleLoopsAreTwoBlocks ==
  fault = "none" =>
    \A l \in pending : Profile!IsSimpleLoop(Body(l)) => BodyBlocks(l) = {l.footer}

(* The strip a header stands before, when the copy is behind it. *)
StripHeaders ==
  {l.header : l \in {k \in loops : \E c \in DOMAIN placed : placed[c][1] = k.footer}}

(* The code in which no strip is ever entered. *)
WithoutStrips ==
  CodeOf([b \in DOMAIN blocks |->
            IF b \in StripHeaders THEN [blocks[b] EXCEPT ![Len(blocks[b])].op = "UNCOND_JMP"] ELSE blocks[b]])

(***************************************************************************)
(* loop_vectorizer.h copies the loop behind the strip for the iterations   *)
(* that are left.  The copy is the loop: if control never entered a strip, *)
(* the program would still do what it says, wherever the loop stands,      *)
(* whatever its body, and whichever other loops were vectorized before.    *)
(***************************************************************************)
CopyIsTheLoop ==
  phase = "done" /\ Opt!ConvertedStrictOnly(instructions) => \A code \in {WithoutStrips} : Opt!MeansTheProgram(code)

(* Where control goes from a block, as the code is laid out. *)
FollowsInLayout(b) ==
  {c \in DOMAIN blocks : Before(b, c) /\ \A d \in DOMAIN blocks : ~(Before(b, d) /\ Before(d, c))}

FlowInLayout(b) ==
  LET last == Last(blocks[b])
  IN  (IF last.op = "UNCOND_JMP" THEN {} ELSE FollowsInLayout(b))
        \union {c \in DOMAIN blocks : last.op \in Jumps /\ Head(blocks[c]) = Instr("LABEL", NoName, last.arg1, NoName)}

(***************************************************************************)
(* Vectorizing a loop rewires it: afterwards the successors of the blocks  *)
(* of every loop, strip and copy are again where control goes from them.   *)
(***************************************************************************)
LoopEdgesAreTheFlow ==
  \A b \in DOMAIN placed \union {l.header : l \in loops} \union {l.footer : l \in loops} :
    ToSet(successors[b]) = FlowInLayout(b)

-----------------------------------------------------------------------------
(***************************************************************************)
(* The loops strip_profile.cpp is written for: "c[i] = a[i] + b[i]" and    *)
(* "c[i] = a[i] + c", from 0 to a bound, by 1; or elements computed from   *)
(* the iterator alone.  The iterator's name is a short one: what becomes   *)
(* of a long one is open.                                                  *)
(***************************************************************************)
RECURSIVE Assigned(_)
Assigned(node) ==
  CASE node.kind = "assign" /\ node.left.kind = "variable" -> {node.left.name}
    [] node.kind = "read" -> {node.operand.name}
    [] node.kind = "list" -> UNION {Assigned(child) : child \in ToSet(node.children)}
    [] OTHER -> {}

ElementAt(node, i) == node.kind = "element" /\ node.right = i
Steady(node, body) == node.kind = "number" \/ (node.kind = "variable" /\ node.name \notin Assigned(body))

IsMap(s, i, body) ==
  /\ s.kind = "assign" /\ ElementAt(s.left, i)
  /\ \/ Steady(s.right, body)
     \/ /\ s.right.kind = "binary" /\ s.right.name \in {"ADD", "SUB"}
        /\ \A operand \in {s.right.left, s.right.right} : ElementAt(operand, i) \/ Steady(operand, body)
        /\ \E operand \in {s.right.left, s.right.right} : ElementAt(operand, i)

IsFill(s, i, body) ==
  /\ s.kind = "assign" /\ ElementAt(s.left, i)
  /\ \/ s.right = i
     \/ /\ s.right.kind = "binary"
        /\ {i} \subseteq {s.right.left, s.right.right}
        /\ \A operand \in {s.right.left, s.right.right} : operand = i \/ Steady(operand, body)

IsMapLoop(node) ==
  LET i == node.left.left
      body == node.right
      statements == ToSet(Front(body.children))
  IN  /\ node.left.name = "LESS_THAN" /\ i.kind = "variable" /\ i.name \notin LongNames
      /\ Steady(node.left.right, body)
      /\ body.kind = "list" /\ body.children # <<>>
      /\ Last(body.children) = Assign(i, Binary("ADD", i, Number("1")))
      /\ (\A s \in statements : IsMap(s, i, body)) \/ (\A s \in statements : IsFill(s, i, body))

RECURSIVE HasLoop(_)
HasLoop(node) ==
  CASE node.kind = "while" -> TRUE
    [] node.kind \in {"if", "procedure"} -> HasLoop(node.right)
    [] node.kind = "list" -> \E child \in ToSet(node.children) : HasLoop(child)
    [] OTHER -> FALSE

(* Every inner loop is one of them, and starts right after i := 0. *)
RECURSIVE HasOnlyMapLoops(_)
HasOnlyMapLoops(node) ==
  CASE node.kind = "while" -> HasLoop(node.right) /\ HasOnlyMapLoops(node.right)
    [] node.kind \in {"if", "procedure"} -> HasOnlyMapLoops(node.right)
    [] node.kind = "list" ->
         \A k \in DOMAIN node.children :
           \/ HasOnlyMapLoops(node.children[k])
           \/ /\ k > 1 /\ node.children[k].kind = "while" /\ IsMapLoop(node.children[k])
              /\ node.children[k - 1] = Assign(node.children[k].left.left, Number("0"))
    [] OTHER -> TRUE

(* The bounds of the inner loops. *)
RECURSIVE Bounds(_)
Bounds(node) ==
  CASE node.kind = "while" -> IF HasLoop(node.right) THEN Bounds(node.right) ELSE {node.left.right}
    [] node.kind \in {"if", "procedure"} -> Bounds(node.right)
    [] node.kind = "list" -> UNION {Bounds(child) : child \in ToSet(node.children)}
    [] OTHER -> {}

(***************************************************************************)
(* The compiler survives such a program and, when the iterations of every  *)
(* loop are a multiple of four, the vectorized code does what it says.     *)
(***************************************************************************)
MapLoopsKeepTheirMeaning ==
  HasOnlyMapLoops(tree) =>
    /\ fault = "none"
    /\ phase = "done" =>
         \A env \in Envs :
           (\A bound \in Bounds(tree) : Value(bound, Started(env, 0)) % Profile!Factor = 0)
             => \A code \in {Code} : Opt!MeansTheProgramFrom(env, code)

(***************************************************************************)
(* loop_vectorizer.h: vectorization is performed on a loop "if             *)
(* vectorization is determined to be possible without affecting program    *)
(* correctness".                                                           *)
(***************************************************************************)
VectorizingKeepsMeaning ==
  phase = "done" /\ Opt!ConvertedStrictOnly(instructions) => \A code \in {Code} : Opt!MeansTheProgram(code)

=============================================================================
