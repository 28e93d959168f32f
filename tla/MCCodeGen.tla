----------------------------- MODULE MCCodeGen -----------------------------
(***************************************************************************)
(* Instances of CodeGen for TLC: every short block over a menu of          *)
(* instructions, after the block that declares the variables.              *)
(***************************************************************************)
EXTENDS CodeGen, SequencesExt, TLC

CONSTANTS r1, r2, r3, r4

MCScalars == {"x", "y", "z", "w", "v"}
MCArrays == {"a", "b"}
MCConsts == {"c"}
MCTemps == {"$t0", "$t1", "$t2", "$t3"}
MCLabels == {"$Lp", "$Le"}
MCLiterals == {"0", "7"}
MCLargeImmediate == [l \in MCLiterals |-> IF l = "0" THEN "LIM0" ELSE "LIM7"]

Declare(v) == Instr("ASSIGN", v, "", "")
Declarations ==
  <<Declare("x"), Declare("y"), Declare("z"), Declare("w"), Declare("v"), Declare("a"), Declare("b")>>

Copies ==
  {Instr("ASSIGN", "x", "7", ""), Instr("ASSIGN", "x", "y", ""), Instr("ASSIGN", "y", "$t0", ""),
   Instr("ASSIGN", "x", "$t1", ""), Instr("ASSIGN", "$t0", "0", ""), Instr("ASSIGN", "c", "0", ""),
   Instr("ASSIGN", "y", "c", "")}
Totals ==
  {Instr("ADD", "$t0", "x", "y"), Instr("SUB", "x", "x", "7"), Instr("MULT", "y", "x", "y"),
   Instr("ADD", "$t1", "$t0", "x"), Instr("SUB", "$t1", "7", "$t0"), Instr("DIV", "$t0", "y", "7"),
   Instr("SUB", "y", "y", "c")}
Indexing ==
  {Instr("ARRAY_INDEX", "$t0", "a", "x"), Instr("ARRAY_INDEX", "$t1", "a", "7"),
   Instr("ARRAY_INDEX", "y", "a", "x")}
Tests == {Instr("LESS_THAN", "", "x", "y"), Instr("EQUALS", "", "$t0", "7"), Instr("GE_THAN", "", "0", "x")}
StoredTest == Instr("LE_THAN", "$t1", "y", "x")
Effects ==
  {Instr("WRITE", "", "x", ""), Instr("WRITE", "", "$t0", ""), Instr("READ", "", "y", ""),
   Instr("CALL", "", "$Lp", "")}
Menu == UNION {Copies, Totals, Indexing, {StoredTest}, Effects}

(* What odd and a call with an argument leave. *)
Unhandled == {Instr("NEGATE", "x", "x", ""), Instr("NEGATE", "$t0", "$t0", ""), Instr("PROC_PARAM", "", "y", "")}

(* A temporary is defined before it is used, and assigned only as a place. *)
TempsInOrder(b) ==
  \A i \in {j \in 1 .. Len(b) : b[j].op # "NEGATE"} :
    LET defined == {b[j].result : j \in 1 .. i - 1}
        places == {b[j].result : j \in {k \in 1 .. i - 1 : b[k].op = "ARRAY_INDEX"}}
    IN  /\ Operands(b[i]) \intersect MCTemps \subseteq defined
        /\ b[i].op = "VSTORE" => b[i].result \in defined
        /\ b[i].result \in MCTemps /\ b[i].op # "VSTORE" =>
             b[i].result \in (IF b[i].op = "ASSIGN" THEN places ELSE MCTemps \ defined)

UpTo(n, menu) == {b \in UNION {[1 .. m -> menu] : m \in 1 .. n} : TempsInOrder(b)}

Bodies == UpTo(3, Menu) \union UpTo(2, Menu \union Unhandled)

(* A comparison that leaves only flags stands right before its jump. *)
Exiting ==
  {b \in {c \o <<t, Instr("JMP_GE", "", "$Le", "")>> : c \in {<<>>} \union UpTo(2, Menu), t \in Tests} : TempsInOrder(b)}
    \union {Append(c, Instr("UNCOND_JMP", "", "$Le", "")) : c \in UpTo(2, Menu)}
    \union {<<t, Instr(op, "", "$Le", "")>> : op \in {"JMP_L", "JMP_G"}, t \in Tests}

(* Five scalars for four registers. *)
Spend(b) == <<Instr("SUB", "v", "v", "7")>> \o b
Crowded ==
  {Spend(b) : b \in UpTo(4, {Instr("SUB", "x", "x", "7"), Instr("MULT", "y", "x", "y"), Instr("ADD", "z", "z", "x"),
           Instr("ADD", "w", "w", "y"), Instr("SUB", "z", "7", "z"), Instr("ASSIGN", "x", "7", "")})}
  \union
    {Spend(<<Instr("SUB", "z", "z", "7"), Instr("ADD", "z", "x", "y"), Instr("SUB", "w", "w", "7"), Instr("SUB", "y", "y", "7")>>),
     Spend(<<Instr("ADD", "$t0", "w", "x"), Instr("SUB", "y", "y", "7"), Instr("SUB", "z", "z", "7"),
             Instr("SUB", "x", "x", "7"), Instr("ASSIGN", "y", "$t0", "")>>)}

(* What StripProfile emits for c[i] := a[i] + b[i] and c[i] := a[i] + 7. *)
VectorMenu ==
  {Instr("VLOAD", "$t0", "a", "x"), Instr("VLOAD", "$t1", "b", "x"), Instr("VASSIGN", "$t1", "7", ""),
   Instr("VADD", "$t2", "$t0", "$t1"), Instr("VSTORE", "$t2", "a", "x"), Instr("VSTORE", "$t0", "b", "y"),
   Instr("ADD", "x", "x", "7"), Instr("VADD", "$t2", "$t1", "$t0"), Instr("VSUB", "$t2", "$t0", "$t0"),
   Instr("VSUB", "$t2", "$t0", "$t1"), Instr("VASSIGN", "$t0", "0", ""), Instr("VASSIGN", "$t2", "y", ""),
   Instr("VASSIGN", "$t2", "7", "")}
Vectors == UpTo(4, VectorMenu) \union UpTo(3, VectorMenu \union {Instr("WRITE", "", "x", "")})

(* As many vectors as there are general registers, and more of both together. *)
Count(v) == Instr("ADD", v, v, "7")
Exhausting ==
  {<<Instr("VASSIGN", "$t0", "7", ""), Instr("VASSIGN", "$t1", "7", ""), Instr("VASSIGN", "$t2", "7", ""),
     Instr("VASSIGN", "$t3", "7", ""), Count("x")>>,
   <<Instr("VLOAD", "$t0", "a", "x"), Count("y"), Instr("VASSIGN", "$t1", "7", ""), Count("z"), Count("w")>>}

(* Two blocks after the declarations: what one leaves, the next finds. *)
Small ==
  UpTo(1, Menu) \union
    {<<Instr("ASSIGN", "c", "7", ""), Instr("SUB", "x", "x", "c")>>,
     <<Instr("ARRAY_INDEX", "$t0", "a", "y"), Instr("ASSIGN", "$t0", "7", "")>>,
     <<Instr("SUB", "x", "x", "7"), Instr("LESS_THAN", "", "y", "x"), Instr("JMP_GE", "", "$Le", "")>>}

(* A temporary is spilled in one block, and its name used again in another. *)
Spilled ==
  {Spend(<<Instr("ADD", "$t0", "w", "x"), Instr("SUB", "y", "y", "7"), Instr("SUB", "z", "z", "7"), Instr("SUB", "x", "x", "7")>>)}
Renewed ==
  {<<Instr("ADD", "$t0", "x", "y"), Instr("EQUALS", "", "$t0", "7"), Instr("WRITE", "", "$t0", "")>>}

MCPrograms ==
  {<<Declarations, b>> : b \in UNION {Bodies, Exiting, Crowded, Vectors, Exhausting}}
    \union {<<Declarations, b, d>> : b \in Spilled, d \in Renewed}
    \union {<<Declarations, b, d>> : b, d \in Small}

(* The start of test8.p0: const cap; var i; i := 0; while i < cap do ... *)
ConstantPrograms ==
  {<<<<Instr("ASSIGN", "c", "7", ""), Declare("x"), Instr("ASSIGN", "x", "0", "")>>,
     <<Instr("LABEL", "", "$Lp", ""), Instr("LESS_THAN", "", "x", "c"), Instr("JMP_GE", "", "$Le", "")>>>>}

Symmetry == Permutations({r1, r2, r3, r4})
=============================================================================
