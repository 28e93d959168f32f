--------------------------- MODULE LoopVectorizer ---------------------------
(***************************************************************************)
(* When loop_vectorizer.cpp vectorizes a loop, and what strip_profile.cpp  *)
(* then makes of its body.  Both follow definitions through the body; a    *)
(* definition in a circle is followed without end, and a variable that the *)
(* body does not define is looked up where it is not.                      *)
(***************************************************************************)
EXTENDS NaturalLoop

(* How many elements a vector register holds, and its literal. *)
Factor == 4
FactorLiteral == "4"

Definitions(body, x) == SelectSeq(body, LAMBDA i : i.result = x)

(* More steps than a chain of definitions has that is not a circle. *)
Far(body) == Len(body) + 2

(***************************************************************************)
(* LoopVectorizer::isVariableDependentOnIndex: "yes", "no" or "endless".   *)
(* Of an instruction, the second operand is asked first.                   *)
(***************************************************************************)
Depends(body, index, x) ==
  LET Asked[n \in Nat, y \in STRING] ==
        IF y = NoName THEN "no"
        ELSE IF y = index THEN "yes"
        ELSE IF Definitions(body, y) = <<>> THEN "no"
        ELSE IF n = 0 THEN "endless"
        ELSE LET d == Head(Definitions(body, y))
                 second == Asked[n - 1, d.arg2]
             IN  IF second = "no" THEN Asked[n - 1, d.arg1] ELSE second
  IN  Asked[Far(body), x]

InstructionDepends(body, index, i) ==
  LET second == Depends(body, index, i.arg2)
  IN  IF second = "no" THEN Depends(body, index, i.arg1) ELSE second

(***************************************************************************)
(* getDirectionVectorFromVariable, for the subscript x: "same" element as  *)
(* the iterator, "free" of it, "unknown", or what ends the compiler.  Of a *)
(* definition both operands are meant to be asked; the code asks the first *)
(* one twice.  A temporary is in no symbol table: what the lookup leaves   *)
(* in its entry is whatever was there, looks[x].                           *)
(***************************************************************************)
Direction(body, index, looks, x) ==
  LET Asked[n \in Nat, y \in STRING] ==
        IF y = index THEN "same"
        ELSE IF y \in Constants THEN "free"
        ELSE IF y \in DOMAIN looks /\ looks[y] # "variable"
             THEN (IF looks[y] = "constant" THEN "free" ELSE "assertion")
        ELSE IF Definitions(body, y) = <<>> THEN "undefined"
        ELSE IF Len(Definitions(body, y)) > 1 \/ Head(Definitions(body, y)).op \notin Arithmetic THEN "unknown"
        ELSE IF n = 0 THEN "endless"
        ELSE Asked[n - 1, Head(Definitions(body, y)).arg1]
  IN  Asked[Far(body), x]

(* A mutation of Directions: a direction that is not known is no answer. *)
DirectionsKnown(body, index, looks) ==
  LET indexed == SelectSeq(body, LAMBDA i : i.op = "ARRAY_INDEX")
      found == [k \in DOMAIN indexed |-> Direction(body, index, looks, indexed[k].arg2)]
      refused == SelectSeq(found, LAMBDA d : d \notin {"same", "free"})
  IN  IF refused = <<>> THEN "yes" ELSE Head(refused)

(***************************************************************************)
(* computeDirectionVectors and the test that follows it: every subscript   *)
(* has a direction, in the order of the instructions.                      *)
(***************************************************************************)
Directions(body, index, looks) ==
  LET indexed == SelectSeq(body, LAMBDA i : i.op = "ARRAY_INDEX")
      found == [k \in DOMAIN indexed |-> Direction(body, index, looks, indexed[k].arg2)]
      refused == SelectSeq(found, LAMBDA d : d \notin {"same", "free"})
  IN  IF refused = <<>> THEN "yes" ELSE IF Head(refused) = "unknown" THEN "no" ELSE Head(refused)

Steps(body, constantsInside) == SimpleInductionVariables(body, Invariants(body, constantsInside))
Index(header, body, constantsInside) == Head(Iterators(header, DOMAIN Steps(body, constantsInside)))

(* checkCanLoopBeVectorized: a simple loop that counts by the literal 1. *)
CanBeVectorized(header, body, constantsInside, looks) ==
  LET steps == Steps(body, constantsInside)
      index == Index(header, body, constantsInside)
  IN  IF ~IsSimpleLoop(body) \/ ~HasIterator(header, DOMAIN steps) \/ steps[index] # "1" THEN "no"
      ELSE Directions(body, index, looks)

(***************************************************************************)
(* shouldVectorizeLoop: an element that depends on the iterator is         *)
(* assigned after it is indexed.                                           *)
(***************************************************************************)
ShouldBeVectorized(body, index) ==
  LET Indexes(k) == body[k].op = "ARRAY_INDEX" /\ InstructionDepends(body, index, body[k]) = "yes"
      Places(k) == {body[j].result : j \in {m \in 1 .. k - 1 : Indexes(m)}}
  IN  IF \E i \in ToSet(body) : i.op = "ARRAY_INDEX" /\ InstructionDepends(body, index, i) = "endless"
      THEN "endless"
      ELSE IF \E k \in 1 .. Len(body) : ~Indexes(k) /\ body[k].result \in Places(k)
      THEN "yes" ELSE "no"
=============================================================================
