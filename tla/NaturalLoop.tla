---------------------------- MODULE NaturalLoop ----------------------------
(***************************************************************************)
(* What natural_loop.cpp says of a loop: which names do not change in it,  *)
(* which variables it counts with, which of these decides when it ends.    *)
(* A body is the sequence of the instructions of the blocks in it.         *)
(***************************************************************************)
EXTENDS Tac, Naturals, Sequences, SequencesExt, FiniteSets

CONSTANTS
  Constants  \* literals, and variables declared const

(* A mutation of IsSimpleLoop: only calls are looked for. *)
IsSimpleLoopWithoutCalls(body) == \A i \in ToSet(body) : i.op # "CALL"

(* isSimpleLoop: no decision and no call in the body. *)
IsSimpleLoop(body) ==
  \A i \in ToSet(body) : i.op \notin ConditionalJumps \union {"CALL"}

(***************************************************************************)
(* findInvariants: constants, the variables reach.cpp says come into the   *)
(* loop and do not leave it, and what is computed from nothing else.       *)
(***************************************************************************)
Invariants(body, constantsInside) ==
  LET results == {i \in ToSet(body) : HasResult(i)}
      given == constantsInside \union (UNION {Operands(i) : i \in results} \intersect Constants)
      Computed(known) == known \union {i.result : i \in {j \in results : {j.arg1, j.arg2} \subseteq known}}
  IN  FoldLeft(LAMBDA known, i : Computed(known), given, body)

(* x := x op c or x := c op x, and its c. *)
Counts(i, invariants) ==
  /\ i.op \in {"ADD", "SUB"}
  /\ (i.result = i.arg1 /\ i.arg2 \in invariants) \/ (i.result = i.arg2 /\ i.arg1 \in invariants)

StepOf(i, invariants) ==
  IF i.result = i.arg1 /\ i.arg2 \in invariants THEN i.arg2 ELSE i.arg1

(* Each with its step: the first update of a variable is the one that counts. *)
SimpleInductionVariables(body, invariants) ==
  LET updates == SelectSeq(body, LAMBDA i : Counts(i, invariants))
  IN  [x \in {i.result : i \in ToSet(updates)} |->
         StepOf(Head(SelectSeq(updates, LAMBDA i : i.result = x)), invariants)]

(* identifyLoopIterator: the one that is compared in the header, if one is. *)
Iterators(header, variables) ==
  LET compared == FlattenSeq([k \in DOMAIN header |->
                    IF IsComparison(header[k]) THEN <<header[k].arg1, header[k].arg2>> ELSE <<>>])
  IN  SelectSeq(compared, LAMBDA x : x \in variables)

HasIterator(header, variables) == Len(Iterators(header, variables)) = 1
=============================================================================
