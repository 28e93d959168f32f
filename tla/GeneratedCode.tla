--------------------------- MODULE GeneratedCode ---------------------------
(***************************************************************************)
(* The code past.cpp hands to the optimizer: the names it is made of, and  *)
(* the operands each of its instructions carries.                          *)
(***************************************************************************)
EXTENDS Tac, Sequences

CONSTANTS
  Names,     \* variables, literals and temporaries
  TempNames, \* those that start with $
  Labels,    \* labels and procedures
  Programs   \* the code of some programs

(* A negation, which odd is, has its operand for a result. *)
Generable ==
  Shape(Arithmetic \union Comparisons \union {"ARRAY_INDEX"}, Names, Names, Names)
    \union Shape({"ASSIGN"}, Names, Names \union {NoName}, {NoName})
    \union Shape({"NEGATE"}, Names, Names, {NoName})
    \union Shape({"READ", "WRITE", "PROC_PARAM"}, {NoName}, Names, {NoName})
    \union Shape({"JMP_ZERO", "UNCOND_JMP", "LABEL", "CALL", "ENTER_PROC", "EXIT_PROC"},
                 {NoName}, Labels, {NoName})

ASSUME NamesAssumption == NoName \notin Names
ASSUME ProgramsAssumption == \A p \in Programs : p \in Seq(Generable)
=============================================================================
