----------------------------- MODULE MCBlocker -----------------------------
(***************************************************************************)
(* Code for the blocker that no program need have: every sequence of       *)
(* assignments, labels, jumps and procedures with up to MaxLength          *)
(* instructions, the labels of some jumps missing.                         *)
(***************************************************************************)
EXTENDS Blocker

CONSTANTS
  MaxLength  \* bound: the instructions of the code

Alphabet ==
  {Instr("ASSIGN", "x", "y", NoName), Instr("ENTER_PROC", NoName, "p", NoName), Instr("EXIT_PROC", NoName, "p", NoName)}
    \union {Instr(op, NoName, label, NoName) : op \in {"LABEL", "JMP_ZERO", "UNCOND_JMP"}, label \in {"l", "m"}}

Sequences == UNION {[1 .. n -> Alphabet] : n \in 1 .. MaxLength}

MCCode ==
  LET Marked(code) == {k \in 1 .. Len(code) : code[k].op \in Marks}
      NextMarks(code, k) == {j \in Marked(code) : j > k /\ \A i \in Marked(code) : i > k => j <= i}
      FirstMarks(code) == {j \in Marked(code) : \A i \in Marked(code) : j <= i}
  IN  {code \in Sequences :
         /\ code[1].op \notin Jumps \union {"EXIT_PROC"}
         /\ \A j, k \in 1 .. Len(code) : code[j].op = "LABEL" /\ code[k] = code[j] => j = k
         /\ \A k \in Marked(code) :
              /\ code[k].op = "ENTER_PROC" => \E j \in NextMarks(code, k) : code[j].op = "EXIT_PROC"
              /\ code[k].op = "EXIT_PROC" => \A j \in NextMarks(code, k) : code[j].op = "ENTER_PROC"
         /\ \A k \in FirstMarks(code) : code[k].op = "ENTER_PROC"}
=============================================================================
