-------------------------------- MODULE Tac --------------------------------
(***************************************************************************)
(* Three-address code, include/3ac.h and src/3ac.cpp: the operations the   *)
(* compiler passes between its phases and the predicates it asks of an     *)
(* instruction.  An instruction is a record of an operation and three      *)
(* names; an operand or a result that is absent is the empty name.         *)
(***************************************************************************)

NoName == ""

Arithmetic == {"ADD", "SUB", "DIV", "MULT"}
Comparisons == {"LESS_THAN", "GREATER_THAN", "GE_THAN", "LE_THAN", "EQUALS", "NOT_EQUALS"}
ConditionalJumps == {"JMP_E", "JMP_L", "JMP_G", "JMP_LE", "JMP_GE", "JMP_NE", "JMP_ZERO"}
Jumps == ConditionalJumps \union {"UNCOND_JMP"}
VectorOperations == {"VADD", "VSUB", "VASSIGN", "VLOAD", "VSTORE"}

(* The operations between TAC_ASSIGN and TAC_ARRAY_INDEX in the enum. *)
ValueOperations == {"ASSIGN", "ARRAY_INDEX"} \union Arithmetic \union Comparisons

Instr(op, result, arg1, arg2) ==
  [op |-> op, result |-> result, arg1 |-> arg1, arg2 |-> arg2]

(* The instructions of some operations, with operands from the sets given. *)
Shape(operations, results, firsts, seconds) ==
  [op : operations, result : results, arg1 : firsts, arg2 : seconds]

(* A call is no transfer of control: the block goes on after it. *)
TransfersControl(i) == i.op \in Jumps

IsComparison(i) == i.op \in Comparisons

HasResult(i) == i.result # NoName

(* A comparison that leaves only flags is no longer a binary operation. *)
IsBinaryOperation(i) == HasResult(i) /\ i.op \in ValueOperations

(* The instructions liveness is computed for. *)
IsSimple(i) ==
  /\ i.arg1 # NoName \/ i.arg2 # NoName
  /\ i.op \in {"NEGATE"} \union ValueOperations \union VectorOperations

Operands(i) == {i.arg1, i.arg2} \ {NoName}
Mentions(i) == Operands(i) \union ({i.result} \ {NoName})
=============================================================================
