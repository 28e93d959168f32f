----------------------------- MODULE Optimizer -----------------------------
(***************************************************************************)
(* The optimizer, optimizer.cpp, on the code of a program: the             *)
(* preprocessor rewrites the code past.cpp generates, the blocker cuts it  *)
(* into blocks and connects them, and a control flow graph is analyzed for *)
(* the main code and for every procedure.  Each component works on what    *)
(* the one before it left; phase says whose turn it is.                    *)
(***************************************************************************)
EXTENDS Past, GeneratedCode, FiniteSets

CONSTANTS
  Trees,      \* the syntax trees of the programs to compile
  Envs,       \* what the variables may hold when a program starts
  Fuel        \* bound: calls and iterations of the runs that are compared

VARIABLES
  tree,       \* the program that is compiled
  phase, fault,
  instructions, at, isArray,
  scanned, blocks, followsJump, labelBlock,
  current, previous, saved, successors, predecessors,
  entry, postorder, iDoms, position, changed, loops

preprocessing == <<at, isArray>>
blocking == <<scanned, followsJump, labelBlock, current, previous, saved>>
edges == <<blocks, successors, predecessors>>
analyzing == <<entry, postorder, iDoms, position, changed, loops>>
vars == <<tree, phase, fault, instructions, preprocessing, blocking, edges, analyzing>>

(* Each component starts from what the one before it left, not from its Init. *)
Rewriter == INSTANCE Preprocessor
Cutter == INSTANCE Blocker WITH Code <- {}
Analysis == INSTANCE Dominator WITH Graphs <- {}

Init ==
  /\ tree \in Trees
  /\ phase = "preprocessing"
  /\ instructions = Generated(tree)
  /\ Rewriter!Idle /\ Cutter!Idle /\ Analysis!Idle

Preprocess ==
  Rewriter!Next /\ UNCHANGED <<tree, fault, blocking, edges, analyzing>>

Block ==
  Cutter!Next /\ UNCHANGED <<tree, preprocessing, analyzing>>

Analyze ==
  Analysis!Next /\ UNCHANGED <<tree, instructions, preprocessing, blocking>>

Next == Preprocess \/ Block \/ Analyze

Spec == Init /\ [][Next]_vars

(* The compiler is one thread that goes on until it is done or dies. *)
FairSpec == Spec /\ WF_vars(Next)

(* Each component keeps the types of its own state while the others work. *)
TypeOK ==
  /\ phase \in {"preprocessing", "blocking", "connecting", "analyzing", "tree", "done"}
  /\ Rewriter!TypeOK /\ Cutter!TypeOK /\ Analysis!TypeOK

-----------------------------------------------------------------------------
(***************************************************************************)
(* A machine that executes three-address code as the code generator means  *)
(* it to be executed.  The result of an array index is a place until it    *)
(* is named by a variable; a conditional jump tests the last comparison.   *)
(***************************************************************************)
Labelled(code, label) == CHOOSE k \in 1 .. Len(code) : code[k].op = "LABEL" /\ code[k].arg1 = label

(* Where a procedure ends that is declared here. *)
EndOf(code, k) == CHOOSE e \in k .. Len(code) : code[e].op = "EXIT_PROC" /\ code[e].arg1 = code[k].arg1

Garbage == 77  \* what a temporary holds that nothing was put in

Operand(m, name) ==
  IF name \in DOMAIN m.places THEN At(m.cells, m.places[name])
  ELSE IF name \in DOMAIN m.env THEN m.env[name]
  ELSE IF name \in DOMAIN ValueOf THEN ValueOf[name]
  ELSE Garbage

Store(m, name, value) ==
  IF name \in DOMAIN m.places
  THEN [m EXCEPT !.cells = With(@, m.places[name], value)]
  ELSE [m EXCEPT !.env = With(@, name, value)]

(* A vector register holds four neighbors of an array, or a value four times. *)
Lanes == 0 .. 3
Vector(m, name) ==
  IF name \in DOMAIN m.vectors THEN m.vectors[name] ELSE [n \in Lanes |-> Operand(m, name)]

LoadedVector(m, array, first) == [n \in Lanes |-> At(m.cells, <<array, first + n>>)]
StoredVector(cells, array, first, vector) ==
  FoldLeft(LAMBDA c, n : With(c, <<array, first + n>>, vector[n]), cells, <<0, 1, 2, 3>>)

(* The comparison a jump is taken on: jump if it holds. *)
TakenOn ==
  [JMP_E |-> "EQUALS", JMP_NE |-> "NOT_EQUALS", JMP_L |-> "LESS_THAN",
   JMP_G |-> "GREATER_THAN", JMP_LE |-> "LE_THAN", JMP_GE |-> "GE_THAN"]

Taken(m, i) ==
  IF i.op = "JMP_ZERO" THEN ~Holds(m.flags.op, m.flags.a, m.flags.b)
  ELSE Holds(TakenOn[i.op], m.flags.a, m.flags.b)

Executed(m, code) ==
  LET i == code[m.pc]
      a == Operand(m, i.arg1)
      b == Operand(m, i.arg2)
      next == [m EXCEPT !.pc = @ + 1, !.fuel = @ - 1]
  IN  CASE i.op = "ASSIGN" -> IF i.arg1 = NoName THEN next ELSE Store(next, i.result, a)
        [] i.op \in Arithmetic -> Store(next, i.result, Arith(i.op, a, b))
        [] i.op \in Comparisons -> [next EXCEPT !.flags = [op |-> i.op, a |-> a, b |-> b]]
        [] i.op = "ARRAY_INDEX" ->
             IF i.result \in TempNames
             THEN [next EXCEPT !.places = With(@, i.result, <<i.arg1, b>>)]
             ELSE Store(next, i.result, At(m.cells, <<i.arg1, b>>))
        [] i.op = "READ" -> Store(next, i.arg1, Input)
        [] i.op = "WRITE" -> [next EXCEPT !.output = Append(@, a)]
        [] i.op \in ConditionalJumps ->
             IF Taken(m, i) THEN [next EXCEPT !.pc = Labelled(code, i.arg1)] ELSE next
        [] i.op = "UNCOND_JMP" -> [next EXCEPT !.pc = Labelled(code, i.arg1)]
        [] i.op = "CALL" -> [next EXCEPT !.pc = Labelled(code, i.arg1), !.stack = Append(@, m.pc + 1)]
        [] i.op = "EXIT_PROC" -> [next EXCEPT !.pc = Last(m.stack), !.stack = Front(@)]
        [] i.op = "ENTER_PROC" -> [next EXCEPT !.pc = EndOf(code, m.pc) + 1]
        [] i.op \in {"LABEL", "PROC_PARAM"} -> next
        [] i.op = "VLOAD" -> [next EXCEPT !.vectors = With(@, i.result, LoadedVector(m, i.arg1, b))]
        [] i.op = "VASSIGN" -> [next EXCEPT !.vectors = With(@, i.result, Vector(m, i.arg1))]
        [] i.op = "VSTORE" ->
             [next EXCEPT !.cells = StoredVector(@, i.arg1, b, Vector(m, i.result))]
        [] i.op \in {"VADD", "VSUB"} ->
             LET x == Vector(m, i.arg1)
                 y == Vector(m, i.arg2)
                 scalar == IF i.op = "VADD" THEN "ADD" ELSE "SUB"
             IN  [next EXCEPT !.vectors = With(@, i.result, [n \in Lanes |-> Arith(scalar, x[n], y[n])])]

RECURSIVE Execute(_, _)
Execute(m, code) ==
  IF m.fuel = 0 \/ m.pc > Len(code) THEN m ELSE Execute(Executed(m, code), code)

(* An iteration or a call executes an instruction at most once, and so does *)
(* what follows one.                                                        *)
Steps(code) == (2 * Fuel + 1) * Len(code)

Outcome(code, env) ==
  Execute([env |-> env, cells |-> <<>>, output |-> <<>>, fuel |-> Steps(code), pc |-> 1,
           places |-> <<>>, vectors |-> <<>>, stack |-> <<>>, flags |-> [op |-> "EQUALS", a |-> 0, b |-> 0]],
          code)

(* A program that has come to its end does in the code what it does.       *)
MeansTheProgramFrom(env, code) ==
  LET meant == After(tree, tree, Started(env, Fuel))
      done == Outcome(code, env)
  IN  meant.fuel > 0 =>
        /\ done.pc = Len(code) + 1
        /\ done.cells = meant.cells /\ done.output = meant.output
        /\ \A v \in DOMAIN env : done.env[v] = meant.env[v]

MeansTheProgram(code) == \A env \in Envs : MeansTheProgramFrom(env, code)

(* The comparisons that have a jump of their own to negate them. *)
Strict == {"LESS_THAN", "GREATER_THAN"}

NotBlockedYet == phase = "preprocessing" \/ (phase = "blocking" /\ scanned = 0)

ConvertedStrictOnly(code) ==
  \A k \in 2 .. Len(code) :
    code[k].op \in ConditionalJumps \ {"JMP_ZERO"} => code[k - 1].op \in Strict

(* The code generator gives up on the negation odd is made into. *)
HasMeaning(code) == \A i \in ToSet(code) : i.op # "NEGATE"

(***************************************************************************)
(* The code past.cpp generates computes what the program says, and no      *)
(* rewriting step changes that: not the erasure of temporaries, beside     *)
(* array elements, labels and jumps, and not the conversion of the jumps   *)
(* on < and >.  (On the others it may: see JumpsDecideAsWritten.)          *)
(***************************************************************************)
RewritingKeepsMeaning ==
  NotBlockedYet /\ HasMeaning(instructions) /\ ConvertedStrictOnly(instructions) => MeansTheProgram(instructions)

(***************************************************************************)
(* preprocessing.h: "$0 = op1 cond op2 / jump if $0 is zero / This can be  *)
(* converted into a more compact form", for = # < > <= and >=: the         *)
(* converted jump is taken when the condition is false.                    *)
(***************************************************************************)
JumpsDecideAsWritten ==
  phase = "blocking" /\ scanned = 0 /\ HasMeaning(instructions) => MeansTheProgram(instructions)

(* See Preprocessor: a converted jump stands right behind its comparison. *)
JumpsTestTheirComparison == Rewriter!JumpsTestTheirComparison

-----------------------------------------------------------------------------
(***************************************************************************)
(* What the preprocessor leaves of the code past.cpp generates is what the *)
(* blocker relies on without a check: labels are defined once, procedures  *)
(* are bracketed one after the other, and nothing leaves from the first    *)
(* instruction, of which the blocker makes nothing.                        *)
(***************************************************************************)
CodeCanBeCut == phase = "blocking" /\ scanned = 0 => Cutter!Cuttable(instructions)

(* See Blocker: a block that jumps has an edge to where it jumps. *)
JumpsHaveEdges == Cutter!JumpsHaveEdges

(* See Dominator: the tree answers whether every path passes through a block. *)
DominatesIsDominance == Analysis!DominatesIsDominance

(* See Dominator: a loop is entered at its header and returns to it. *)
LoopsHaveOneEntrance == Analysis!LoopsHaveOneEntrance

(***************************************************************************)
(* The compiler dies in the optimizer only on a program that begins with   *)
(* a loop or a procedure, without a declaration: in the blocker, which     *)
(* makes nothing of the first instruction, and never in the analysis.      *)
(***************************************************************************)
OnlyTheFrontFails ==
  fault # "none" =>
    /\ phase = "connecting"
    /\ Generated(tree)[1].op \in {"LABEL", "ENTER_PROC"}

(***************************************************************************)
(* When the optimizer is done it has found the loops the programmer wrote: *)
(* one for every while, in the graph of the code it stands in, from the    *)
(* block of its label to the block that jumps back, through two rewritings *)
(* of the program.                                                         *)
(***************************************************************************)
RECURSIVE Whiles(_)
Whiles(node) ==
  CASE node.kind = "while" -> 1 + Whiles(node.right)
    [] node.kind \in {"if", "procedure"} -> Whiles(node.right)
    [] node.kind = "list" -> FoldLeft(LAMBDA n, child : n + Whiles(child), 0, node.children)
    [] OTHER -> 0

GraphOf(b) ==
  IF Cutter!Outside(b) THEN 1
  ELSE CHOOSE e \in 1 .. b : Cutter!Has(e, "ENTER_PROC") /\ \A c \in e + 1 .. b : ~Cutter!Has(c, "ENTER_PROC")

LoopsAreWhiles ==
  phase = "done" =>
    /\ Cardinality(loops) = Whiles(tree)
    /\ loops = {[graph |-> GraphOf(b), header |-> Cutter!LabelOf(Cutter!Ends(b).arg1), footer |-> b] :
                  b \in {c \in 1 .. Len(blocks) : Cutter!EndsWithUnconditionalJump(c)}}

(***************************************************************************)
(* The optimizer comes to an end on every program: the window of the       *)
(* preprocessor moves on though it erases what it looks at, and the passes *)
(* over the dominator tree stop changing it.                               *)
(***************************************************************************)
Terminates == <>(phase = "done" \/ fault # "none")
=============================================================================
