---------------------------- MODULE StripProfile ----------------------------
(***************************************************************************)
(* strip_profile.cpp: the body of a loop that is vectorized is made into   *)
(* vector instructions, for four iterations at once, and what cannot be    *)
(* made into them is repeated four times after them.                       *)
(***************************************************************************)
EXTENDS LoopVectorizer

CONSTANT
  LongNames  \* names of sixteen characters or more

Garbled == "#freed"  \* no name of a program

(***************************************************************************)
(* StripProfile::isVariableDependentOnIndex: as in the vectorizer, but an  *)
(* element is taken as it is and the first operand is asked first.         *)
(***************************************************************************)
ComputedFrom(body, index, x) ==
  LET Asked[n \in Nat, y \in STRING] ==
        LET definitions == SelectSeq(Definitions(body, y), LAMBDA i : i.op # "ARRAY_INDEX")
        IN  IF y = NoName THEN "no"
            ELSE IF y = index THEN "yes"
            ELSE IF definitions = <<>> THEN "no"
            ELSE IF n = 0 THEN "endless"
            ELSE LET first == Asked[n - 1, Head(definitions).arg1]
                 IN  IF first = "no" THEN Asked[n - 1, Head(definitions).arg2] ELSE first
  IN  Asked[Far(body), x]

(* getNextUseOfResult, among the instructions after the k-th; itself if none. *)
NextUse(body, k) ==
  LET uses == {j \in k + 1 .. Len(body) : body[k].result \in {body[j].arg1, body[j].arg2, body[j].result}}
  IN  IF uses = {} THEN k ELSE CHOOSE j \in uses : \A m \in uses : j <= m

(* arrayExpressionUsesIterator *)
UsesIterator(body, index, k) ==
  LET next == NextUse(body, k)
  IN  IF next = k THEN "no"
      ELSE IF body[next].arg1 = body[k].arg1 THEN ComputedFrom(body, index, body[next].arg2)
      ELSE ComputedFrom(body, index, body[next].arg1)

As(op, i) == Instr(op, i.result, i.arg1, i.arg2)

(* std::map::insert leaves what is there. *)
Insert(f, x, value) == [y \in DOMAIN f \union {x} |-> IF y \in DOMAIN f THEN f[y] ELSE value]

VectorOf == [ADD |-> "VADD", SUB |-> "VSUB"]

(***************************************************************************)
(* insertVectorInstructions, one instruction of the body at a time: what   *)
(* stays scalar, the vector instructions, the instruction that stands for  *)
(* each name that holds a vector, and whether the compiler still lives.    *)
(***************************************************************************)
NothingStripped == [serial |-> <<>>, vector |-> <<>>, arrays |-> <<>>, endless |-> FALSE]

Loads(s, x) == IF x \in DOMAIN s.arrays THEN <<As("VLOAD", s.arrays[x])>> ELSE <<>>

Kept(s, i) == [s EXCEPT !.serial = Append(@, i)]

(* An element is loaded or stored when it is used, unless the iterator is in it. *)
Indexed(body, index, k, s) ==
  LET used == UsesIterator(body, index, k)
  IN  IF used = "no" THEN [s EXCEPT !.arrays = Insert(@, body[k].result, body[k])]
      ELSE [Kept(s, body[k]) EXCEPT !.endless = @ \/ used = "endless"]

Summed(s, i) ==
  LET sum == As(VectorOf[i.op], i)
  IN  [s EXCEPT !.vector = @ \o Loads(s, i.arg1) \o Loads(s, i.arg2) \o <<sum>>,
                !.arrays = Insert(@, i.result, sum)]

Stored(s, i) == [s EXCEPT !.vector = @ \o <<As("VASSIGN", i), As("VSTORE", s.arrays[i.result])>>]

Stripped(body, index, k, s) ==
  LET i == body[k]
  IN  CASE i.op = "ARRAY_INDEX" /\ InstructionDepends(body, index, i) = "yes" -> Indexed(body, index, k, s)
        [] i.op \in {"ADD", "SUB"} /\ {i.arg1, i.arg2} \intersect DOMAIN s.arrays # {} -> Summed(s, i)
        [] i.op = "ASSIGN" /\ i.result \in DOMAIN s.arrays -> Stored(s, i)
        [] OTHER -> Kept(s, i)

(* A mutation of Squashed: the loop still counts by one. *)
SquashedByOne(s, intact) == [s EXCEPT !.serial = <<>>, !.vector = Append(@, Head(s.serial))]

(* A string that was destroyed: one of sixteen characters or more is freed. *)
Destroyed(name, intact) == IF name \in LongNames /\ ~intact THEN Garbled ELSE name

(***************************************************************************)
(* When only the iterator's update is left, it counts by four instead.  It *)
(* is appended through a reference into the vector that was just cleared:  *)
(* a short name is still read from where it was, a long one, kept on the   *)
(* heap, reads as whatever is there, which may be the name still (intact). *)
(***************************************************************************)
Squashed(s, intact) ==
  LET i == Head(s.serial)
      by4 == IF i.arg1 \in Constants THEN [i EXCEPT !.arg1 = FactorLiteral]
             ELSE IF i.arg2 \in Constants THEN [i EXCEPT !.arg2 = FactorLiteral]
             ELSE i
      read == Instr(i.op, Destroyed(by4.result, intact), Destroyed(by4.arg1, intact), Destroyed(by4.arg2, intact))
  IN  [s EXCEPT !.serial = <<>>, !.vector = Append(@, read)]

Strip(body, index, intact) ==
  LET s == FoldLeft(LAMBDA t, k : Stripped(body, index, k, t), NothingStripped, [k \in DOMAIN body |-> k])
  IN  IF Len(s.serial) = 1 THEN Squashed(s, intact) ELSE s

(* unroll: each part is inserted before the last. *)
Unrolled(s) == s.vector \o FlattenSeq([n \in 1 .. Factor |-> s.serial])
=============================================================================
