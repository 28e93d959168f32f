------------------------------ MODULE Blocker ------------------------------
(***************************************************************************)
(* The blocker, blocker.cpp: the preprocessed code is cut into basic       *)
(* blocks, one instruction at a time, and then the blocks are connected,   *)
(* one block at a time.  A block is known by its place in program order.   *)
(***************************************************************************)
EXTENDS Tac, Naturals, Sequences, FiniteSets

CONSTANTS
  Code  \* the code to cut into blocks

Marks == {"ENTER_PROC", "EXIT_PROC"}

(***************************************************************************)
(* What past.cpp generates: a label is defined once (unless a procedure is *)
(* named like a numbered label), a procedure is neither begun in another   *)
(* one nor left open, and code does not begin with what ends a loop, a     *)
(* condition or a procedure.  That a label jumped to is there is not taken *)
(* for granted: looking it up throws.                                      *)
(***************************************************************************)
Cuttable(code) ==
  LET Is(k, op) == code[k].op = op
      Unmarked(j, k) == \A i \in j + 1 .. k - 1 : code[i].op \notin Marks
  IN  /\ code \in Seq(Shape(STRING, STRING, STRING, STRING)) /\ code # <<>>
      /\ code[1].op \notin Jumps \union {"EXIT_PROC"}
      /\ \A j, k \in 1 .. Len(code) :
           Is(j, "LABEL") /\ Is(k, "LABEL") /\ code[j].arg1 = code[k].arg1 => j = k
      /\ \A k \in 1 .. Len(code) :
           /\ Is(k, "ENTER_PROC") => \E e \in k + 1 .. Len(code) : Is(e, "EXIT_PROC") /\ Unmarked(k, e)
           /\ Is(k, "EXIT_PROC") => \E e \in 1 .. k - 1 : Is(e, "ENTER_PROC") /\ Unmarked(e, k)

ASSUME CodeAssumption == \A code \in Code : Cuttable(code)

VARIABLES
  phase,         \* "blocking", "connecting", then the optimizer's next phase
  instructions,
  scanned,       \* how many instructions are in a block
  blocks,        \* basicBlocks, each the sequence of its instructions
  followsJump,
  labelBlock,    \* labelLocationInBlock
  current,       \* the block being connected
  previous, saved,    \* previousBlock and savedPreviousBlock
  successors, predecessors,
  fault          \* a lookup of no label, or a null block

blocking == <<scanned, blocks, followsJump, labelBlock>>
connecting == <<current, previous, saved, successors, predecessors>>
vars == <<phase, instructions, blocking, connecting, fault>>

NoBlock == 0

Idle ==
  /\ scanned = 0 /\ blocks = <<>> /\ followsJump = FALSE
  /\ labelBlock = <<>>
  /\ current = 2 /\ previous = 1 /\ saved = NoBlock
  /\ successors = <<>> /\ predecessors = <<>>
  /\ fault = "none"

Init == phase = "blocking" /\ instructions \in Code /\ Idle

-----------------------------------------------------------------------------
(* computeBasicBlocks *)

Instruction == instructions[scanned + 1]

(* A mutation of IsLeader: the end of a procedure stays in its last block. *)
IsLeaderUnlessExit(i) == followsJump \/ i.op \in {"LABEL", "ENTER_PROC"}

IsLeader(i) == followsJump \/ i.op \in {"LABEL", "ENTER_PROC", "EXIT_PROC"}

(* The first instruction starts a block, and nothing else is made of it. *)
InsertFirst ==
  /\ phase = "blocking" /\ scanned = 0
  /\ blocks' = <<<<Instruction>>>>
  /\ scanned' = 1
  /\ UNCHANGED <<phase, instructions, followsJump, labelBlock, connecting, fault>>

Insert ==
  /\ phase = "blocking" /\ scanned > 0 /\ scanned < Len(instructions)
  /\ blocks' = IF IsLeader(Instruction)
               THEN Append(blocks, <<Instruction>>)
               ELSE [blocks EXCEPT ![Len(blocks)] = Append(@, Instruction)]
  /\ labelBlock' =
       IF Instruction.op = "LABEL" /\ Instruction.arg1 \notin DOMAIN labelBlock
       THEN [l \in DOMAIN labelBlock \union {Instruction.arg1} |->
               IF l = Instruction.arg1 THEN Len(blocks') ELSE labelBlock[l]]
       ELSE labelBlock
  /\ followsJump' = (TransfersControl(Instruction) \/ Instruction.op = "EXIT_PROC")
  /\ scanned' = scanned + 1
  /\ UNCHANGED <<phase, instructions, connecting, fault>>

Connect ==
  /\ phase = "blocking" /\ scanned > 0 /\ scanned = Len(instructions)
  /\ phase' = "connecting"
  /\ successors' = [b \in 1 .. Len(blocks) |-> <<>>]
  /\ predecessors' = [b \in 1 .. Len(blocks) |-> <<>>]
  /\ UNCHANGED <<instructions, blocking, current, previous, saved, fault>>

-----------------------------------------------------------------------------
(* computeControlFlowInformation: every block but the first is connected.  *)

Has(b, op) == \E i \in 1 .. Len(blocks[b]) : blocks[b][i].op = op
EndsWithUnconditionalJump(b) == blocks[b][Len(blocks[b])].op = "UNCOND_JMP"

(* Where the jumps of a block go, in the order of its instructions. *)
Targets(block, location) ==
  LET Upto[n \in 0 .. Len(block)] ==
        IF n = 0 THEN <<>>
        ELSE IF TransfersControl(block[n]) THEN Append(Upto[n - 1], location[block[n].arg1]) ELSE Upto[n - 1]
  IN  Upto[Len(block)]

(* A mutation of JumpTargets: control goes on behind the block of the label. *)
JumpTargetsBehind(b) == Targets(blocks[b], [l \in DOMAIN labelBlock |-> labelBlock[l] + 1])

JumpTargets(b) == Targets(blocks[b], labelBlock)

(* How often something is in a sequence. *)
Times(s, x) == Cardinality({k \in 1 .. Len(s) : s[k] = x})

LabelsKnown(b) ==
  \A i \in 1 .. Len(blocks[b]) :
    TransfersControl(blocks[b][i]) => blocks[b][i].arg1 \in DOMAIN labelBlock

Connecting == phase = "connecting" /\ fault = "none" /\ current <= Len(blocks)

(* Edges from the previous block, if it falls through, and along the jumps. *)
Edges(fromPrevious) ==
  LET before == IF fromPrevious /\ ~EndsWithUnconditionalJump(previous) THEN <<previous>> ELSE <<>>
      targets == JumpTargets(current)
  IN  /\ successors' = [b \in DOMAIN successors |->
           (IF <<b>> = before THEN Append(successors[b], current) ELSE successors[b])
             \o (IF b = current THEN targets ELSE <<>>)]
      /\ predecessors' = [b \in DOMAIN predecessors |->
           (IF b = current THEN predecessors[b] \o before ELSE predecessors[b])
             \o [k \in 1 .. Times(targets, b) |-> current]]
      /\ current' = current + 1

(* A mutation of EnterProcedure: nothing is saved for later. *)
EnterProcedureUnsaved ==
  /\ Connecting /\ LabelsKnown(current)
  /\ Has(current, "ENTER_PROC")
  /\ previous' = current
  /\ Edges(FALSE)
  /\ UNCHANGED <<phase, instructions, blocking, saved, fault>>

(* A procedure's first block: what comes before it is saved for later. *)
EnterProcedure ==
  /\ Connecting /\ LabelsKnown(current)
  /\ Has(current, "ENTER_PROC")
  /\ saved' = previous /\ previous' = current
  /\ Edges(FALSE)
  /\ UNCHANGED <<phase, instructions, blocking, fault>>

(* A mutation of ExitProcedure: control falls out of the procedure. *)
ExitProcedureFallsOn ==
  /\ Connecting /\ LabelsKnown(current) /\ previous # NoBlock
  /\ ~Has(current, "ENTER_PROC") /\ Has(current, "EXIT_PROC")
  /\ previous' = current /\ saved' = NoBlock
  /\ Edges(TRUE)
  /\ UNCHANGED <<phase, instructions, blocking, fault>>

(* Its last block: the code after it follows what came before it. *)
ExitProcedure ==
  /\ Connecting /\ LabelsKnown(current) /\ previous # NoBlock
  /\ ~Has(current, "ENTER_PROC") /\ Has(current, "EXIT_PROC")
  /\ previous' = saved /\ saved' = NoBlock
  /\ Edges(TRUE)
  /\ UNCHANGED <<phase, instructions, blocking, fault>>

Neighbor ==
  /\ Connecting /\ LabelsKnown(current) /\ previous # NoBlock
  /\ ~Has(current, "ENTER_PROC") /\ ~Has(current, "EXIT_PROC")
  /\ previous' = current
  /\ Edges(TRUE)
  /\ UNCHANGED <<phase, instructions, blocking, saved, fault>>

(* map::at throws for a label it does not know. *)
UnknownLabel ==
  /\ Connecting
  /\ Has(current, "ENTER_PROC") \/ previous # NoBlock
  /\ ~LabelsKnown(current)
  /\ fault' = "unknown label"
  /\ UNCHANGED <<phase, instructions, blocking, connecting>>

(* No block was saved when the procedure was entered: a null pointer. *)
NullPrevious ==
  /\ Connecting
  /\ ~Has(current, "ENTER_PROC") /\ previous = NoBlock
  /\ fault' = "null block"
  /\ UNCHANGED <<phase, instructions, blocking, connecting>>

Finish ==
  /\ phase = "connecting" /\ fault = "none" /\ current > Len(blocks)
  /\ phase' = "analyzing"
  /\ UNCHANGED <<instructions, blocking, connecting, fault>>

Next ==
  \/ InsertFirst \/ Insert \/ Connect
  \/ EnterProcedure \/ ExitProcedure \/ Neighbor
  \/ UnknownLabel \/ NullPrevious
  \/ Finish

Spec == Init /\ [][Next]_vars

-----------------------------------------------------------------------------
(* The blocks are made of code, the map and the edges of blocks that were made. *)
TypeOK ==
  /\ scanned \in 0 .. Len(instructions)
  /\ \A b \in 1 .. Len(blocks) : Len(blocks[b]) > 0
  /\ followsJump \in BOOLEAN
  /\ \A l \in DOMAIN labelBlock : labelBlock[l] \in 1 .. Len(blocks)
  /\ current \in Nat /\ previous \in Nat /\ saved \in Nat
  /\ \A b \in DOMAIN successors : \A k \in DOMAIN successors[b] : successors[b][k] \in 1 .. Len(blocks)
  /\ \A b \in DOMAIN predecessors : \A k \in DOMAIN predecessors[b] : predecessors[b][k] \in 1 .. Len(blocks)
  /\ fault \in {"none", "unknown label", "null block"}

-----------------------------------------------------------------------------
(* Where the blocks are: how many instructions are before each of them. *)
Starts(parts) ==
  LET Before[b \in 1 .. Len(parts)] == IF b = 1 THEN 0 ELSE Before[b - 1] + Len(parts[b - 1])
  IN  Before

(***************************************************************************)
(* The blocks, one after the other, are the code; control enters a block   *)
(* only at its first instruction and leaves it only at its last, whatever  *)
(* jumps, labels and procedures the code has.                              *)
(***************************************************************************)
BlocksAreBasic ==
  LET before == Starts(blocks)
  IN  scanned > 0 =>
    /\ before[Len(blocks)] + Len(blocks[Len(blocks)]) = scanned
    /\ \A b \in 1 .. Len(blocks) : \A i \in 1 .. Len(blocks[b]) :
         /\ blocks[b][i] = instructions[before[b] + i]
         /\ blocks[b][i].op \in {"LABEL", "ENTER_PROC", "EXIT_PROC"} => i = 1
         /\ TransfersControl(blocks[b][i]) \/ blocks[b][i].op = "EXIT_PROC" =>
              i = Len(blocks[b])

(***************************************************************************)
(* The flow of control of the code, block by block and without the tables  *)
(* of the blocker: a jump goes to its label, anything but an unconditional *)
(* jump goes on, past the procedures that are declared there, and the end  *)
(* of a procedure goes nowhere.                                            *)
(***************************************************************************)
LabelOf(l) == CHOOSE b \in 1 .. Len(blocks) : blocks[b][1].op = "LABEL" /\ blocks[b][1].arg1 = l
Ends(b) == blocks[b][Len(blocks[b])]

Outside(b) ==
  LET entered == {c \in 1 .. b : Has(c, "ENTER_PROC")}
      left == {c \in 1 .. b - 1 : Has(c, "EXIT_PROC")}
  IN  \A c \in entered : \E d \in left : d > c

FallsTo(b) ==
  IF Outside(b)
  THEN {c \in b + 1 .. Len(blocks) : Outside(c) /\ \A d \in b + 1 .. c - 1 : ~Outside(d)}
  ELSE {b + 1}

Onwards(b) == IF Ends(b).op \in {"UNCOND_JMP", "EXIT_PROC"} THEN {} ELSE FallsTo(b)
Jumped(b) == IF TransfersControl(Ends(b)) THEN {LabelOf(Ends(b).arg1)} ELSE {}

Successors(b) == {successors[b][k] : k \in 1 .. Len(successors[b])}
Predecessors(b) == {predecessors[b][k] : k \in 1 .. Len(predecessors[b])}

Connected == phase \notin {"preprocessing", "blocking", "connecting"}

(***************************************************************************)
(* Once connected, a block has an edge to the block control goes on to,    *)
(* and a block behind the first one to wherever its jump goes as well; no  *)
(* block has an edge control does not take, and predecessors mirror        *)
(* successors, as often as the edge occurs.                                *)
(***************************************************************************)
EdgesBehindTheFirst ==
  Connected =>
    \A b \in 1 .. Len(blocks) :
      /\ Onwards(b) \subseteq Successors(b)
      /\ \A c \in Successors(b) \ Onwards(b) : c \in Jumped(b)
      /\ b # 1 => Jumped(b) \subseteq Successors(b)
      /\ \A c \in 1 .. Len(blocks) : Times(successors[b], c) = Times(predecessors[c], b)

(***************************************************************************)
(* blocker.cpp: "Any block that jumps to another shares a                  *)
(* successor/predecssor pair."  That goes for the first block too.         *)
(***************************************************************************)
JumpsHaveEdges ==
  Connected =>
    \A b \in 1 .. Len(blocks) : \A c \in Jumped(b) : c \in Successors(b) /\ b \in Predecessors(c)
=============================================================================
