---------------------------- MODULE Preprocessor ----------------------------
(***************************************************************************)
(* The preprocessor, preprocessing.cpp: one pass over the three-address    *)
(* code with a window of two instructions, rewriting it in place.          *)
(***************************************************************************)
EXTENDS GeneratedCode, Naturals, SequencesExt

(* What past.cpp generates, and what rewriting makes of it. *)
Instruction ==
  Generable
    \union Shape(Comparisons, {NoName}, Names, Names)
    \union Shape(ConditionalJumps, {NoName}, Labels, {NoName})

VARIABLES
  phase,         \* "preprocessing", then the optimizer's next phase
  instructions,
  at,            \* the second instruction of the window
  isArray        \* results of array indexing seen so far

vars == <<phase, instructions, at, isArray>>

First == instructions[at - 1]
Second == instructions[at]

Idle == at = 2 /\ isArray = {}

Init == phase = "preprocessing" /\ instructions \in Programs /\ Idle

(* A mutation of IsRedundant: a place in an array is rewritten too. *)
IsRedundantEverywhere(i1, i2, arrays) ==
  /\ IsBinaryOperation(i1) /\ i2.op = "ASSIGN"
  /\ i2.arg1 = i1.result /\ i1.result \in TempNames

(* t := x op y; z := t becomes z := x op y, unless z is a place in an array. *)
IsRedundant(i1, i2, arrays) ==
  /\ IsBinaryOperation(i1) /\ i2.op = "ASSIGN"
  /\ i2.arg1 = i1.result /\ i1.result \in TempNames
  /\ i2.result \notin arrays

(***************************************************************************)
(* The jump that replaces a jump on a false comparison.  (The comment in   *)
(* preprocessing.h has jg for < and jl for >, which convertLoopOperation   *)
(* does not make.)                                                         *)
(***************************************************************************)
JumpFor ==
  [EQUALS |-> "JMP_E", NOT_EQUALS |-> "JMP_NE", GREATER_THAN |-> "JMP_LE",
   LESS_THAN |-> "JMP_GE", LE_THAN |-> "JMP_GE", GE_THAN |-> "JMP_LE"]

(* A mutation of Converted: the comparison keeps its result. *)
ConvertedOnlyTheJump(code, k) ==
  IF k <= Len(code) /\ IsComparison(code[k - 1]) /\ code[k].op = "JMP_ZERO"
  THEN [code EXCEPT ![k].op = JumpFor[code[k - 1].op]]
  ELSE code

(* convertLoopOperation: a comparison and the jump on it become cmp and jcc. *)
Converted(code, k) ==
  IF k <= Len(code) /\ IsComparison(code[k - 1]) /\ code[k].op = "JMP_ZERO"
  THEN [code EXCEPT ![k - 1].result = NoName, ![k].op = JumpFor[code[k - 1].op]]
  ELSE code

Arrays == isArray \union (IF Second.op = "ARRAY_INDEX" THEN {Second.result} ELSE {})

InWindow == phase = "preprocessing" /\ at <= Len(instructions)

(* A mutation of Rewrite: the window moves past what took the erased place. *)
RewriteAndAdvance ==
  /\ InWindow
  /\ IsRedundant(First, Second, Arrays)
  /\ instructions' =
       Converted(RemoveAt([instructions EXCEPT ![at - 1].result = Second.result], at), at)
  /\ isArray' = Arrays
  /\ at' = at + 1
  /\ UNCHANGED phase

(***************************************************************************)
(* The second instruction is erased and the window stays where it is: the  *)
(* conversion that follows in the same step already sees what moved up.    *)
(***************************************************************************)
Rewrite ==
  /\ InWindow
  /\ IsRedundant(First, Second, Arrays)
  /\ instructions' =
       Converted(RemoveAt([instructions EXCEPT ![at - 1].result = Second.result], at), at)
  /\ isArray' = Arrays
  /\ UNCHANGED <<phase, at>>

Advance ==
  /\ InWindow
  /\ ~IsRedundant(First, Second, Arrays)
  /\ instructions' = Converted(instructions, at)
  /\ isArray' = Arrays
  /\ at' = at + 1
  /\ UNCHANGED phase

Finish ==
  /\ phase = "preprocessing" /\ at > Len(instructions)
  /\ phase' = "blocking"
  /\ UNCHANGED <<instructions, at, isArray>>

Next == Rewrite \/ Advance \/ Finish

Spec == Init /\ [][Next]_vars

-----------------------------------------------------------------------------
(* The window stays in the code, or just past its end, though the code shrinks. *)
TypeOK ==
  /\ instructions \in Seq(Instruction)
  /\ at \in 2 .. Len(instructions) + 1 \union {2}
  /\ isArray \subseteq Names

(***************************************************************************)
(* The code generator emits a conditional jump without an operand: it      *)
(* tests the flags.  Whatever is erased around them, every jump of the     *)
(* finished code that was converted directly follows the comparison it     *)
(* was converted for, and that comparison leaves nothing but flags.        *)
(***************************************************************************)
JumpsTestTheirComparison ==
  phase # "preprocessing" =>
    \A k \in 1 .. Len(instructions) :
      /\ instructions[k].op \in ConditionalJumps \ {"JMP_ZERO"} =>
           k > 1 /\ IsComparison(instructions[k - 1]) /\ ~HasResult(instructions[k - 1])
      /\ instructions[k].op = "JMP_ZERO" => k = 1 \/ ~IsComparison(instructions[k - 1])
      /\ IsComparison(instructions[k]) /\ ~HasResult(instructions[k]) =>
           k < Len(instructions) /\ instructions[k + 1].op \in ConditionalJumps
=============================================================================
