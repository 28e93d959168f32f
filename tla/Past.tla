-------------------------------- MODULE Past --------------------------------
(***************************************************************************)
(* The syntax tree of past.h and the three-address code its generateCode   *)
(* methods make, and beside it what a program means: a big-step semantics  *)
(* of the tree, the reference the generated code is compared with.         *)
(***************************************************************************)
EXTENDS Tac, Integers, Sequences, SequencesExt

CONSTANTS
  TempName,    \* newTemp: the name of the n-th temporary
  LabelName,   \* newLabel: the name of the n-th label
  ProcLabel,   \* customLabel: the label of a procedure
  ValueOf      \* the value of a literal, by its name

Name(kind, name) == [kind |-> kind, name |-> name]
Number(literal) == Name("number", literal)
Variable(v) == Name("variable", v)
Element(array, index) == [kind |-> "element", name |-> array, right |-> index]
Binary(op, left, right) == [kind |-> "binary", name |-> op, left |-> left, right |-> right]
Assign(left, right) == [kind |-> "assign", left |-> left, right |-> right]
Declare(v) == Name("declare", v)
ReadInto(target) == [kind |-> "read", operand |-> target]
Write(value) == [kind |-> "write", operand |-> value]
Odd(value) == [kind |-> "odd", operand |-> value]
CallWith(procedure, arguments) == [kind |-> "call", name |-> procedure, arguments |-> arguments]
Call(procedure) == CallWith(procedure, <<>>)
List(children) == [kind |-> "list", children |-> children]
If(condition, body) == [kind |-> "if", left |-> condition, right |-> body]
While(condition, body) == [kind |-> "while", left |-> condition, right |-> body]
Procedure(name, body) == [kind |-> "procedure", name |-> name, right |-> body]

-----------------------------------------------------------------------------
(***************************************************************************)
(* generateCode.  The generator's state is what has been generated, the    *)
(* two counters of TACGenerator, and the address of the last expression.   *)
(***************************************************************************)
NothingYet == [code |-> <<>>, temps |-> 0, labels |-> 0, value |-> NoName]

Push(g, instruction) == [g EXCEPT !.code = Append(@, instruction)]

(* makeQuad for an operation with a result of its own. *)
PushBinary(g, op, arg1, arg2) ==
  LET result == TempName[g.temps]
  IN  [Push(g, Instr(op, result, arg1, arg2)) EXCEPT !.temps = @ + 1, !.value = result]

Jump(op, label) == Instr(op, NoName, label, NoName)
NewLabel(g) == LabelName[g.labels]

(* A mutation of AfterLabel: a label is not counted before it is placed. *)
AfterLabelUncounted(g) == g

AfterLabel(g) == [g EXCEPT !.labels = @ + 1]

ReturnAddress == "$return"

RECURSIVE Generate(_, _)
Generate(g, node) ==
  CASE node.kind \in {"number", "variable"} -> [g EXCEPT !.value = node.name]
    [] node.kind = "binary" ->
         LET left == Generate(g, node.left)
             right == Generate(left, node.right)
         IN  PushBinary(right, node.name, left.value, right.value)
    [] node.kind = "element" ->
         LET index == Generate(g, node.right)
         IN  PushBinary(index, "ARRAY_INDEX", node.name, index.value)
    [] node.kind = "assign" ->
         LET left == Generate(g, node.left)
             right == Generate(left, node.right)
         IN  Push(right, Instr("ASSIGN", left.value, right.value, NoName))
    [] node.kind = "declare" -> Push(g, Instr("ASSIGN", node.name, NoName, NoName))
    [] node.kind = "read" ->
         LET target == Generate(g, node.operand)
         IN  Push(target, Instr("READ", NoName, target.value, NoName))
    [] node.kind = "write" ->
         LET value == Generate(g, node.operand)
         IN  Push(value, Instr("WRITE", NoName, value.value, NoName))
    [] node.kind = "odd" ->
         LET operand == Generate(g, node.operand)
         IN  Push(operand, Instr("NEGATE", operand.value, operand.value, NoName))
    [] node.kind = "call" ->
         LET pass(h, argument) ==
               LET value == Generate(h, argument)
               IN  Push(value, Instr("PROC_PARAM", NoName, value.value, NoName))
         IN  [Push(FoldLeft(pass, g, node.arguments), Jump("CALL", ProcLabel[node.name]))
                EXCEPT !.value = ReturnAddress]
    [] node.kind = "list" -> FoldLeft(Generate, g, node.children)
    [] node.kind = "nullptr" -> g
    [] node.kind = "if" ->
         LET condition == Generate(g, node.left)
             skip == NewLabel(condition)
             body == Generate(Push(AfterLabel(condition), Jump("JMP_ZERO", skip)), node.right)
         IN  Push(body, Jump("LABEL", skip))
    [] node.kind = "while" ->
         LET header == NewLabel(g)
             condition == Generate(Push(AfterLabel(g), Jump("LABEL", header)), node.left)
             exit == NewLabel(condition)
             body == Generate(Push(AfterLabel(condition), Jump("JMP_ZERO", exit)), node.right)
         IN  Push(Push(body, Jump("UNCOND_JMP", header)), Jump("LABEL", exit))
    [] node.kind = "procedure" ->
         LET entered == Push(Push(g, Jump("ENTER_PROC", node.name)), Jump("LABEL", ProcLabel[node.name]))
         IN  Push(Generate(entered, node.right), Jump("EXIT_PROC", node.name))

Generated(program) == Generate(NothingYet, program).code

-----------------------------------------------------------------------------
(***************************************************************************)
(* What a program means.  A state holds the variables, the elements that   *)
(* were stored, what was written, and how much may still be executed.      *)
(***************************************************************************)
At(cells, place) == IF place \in DOMAIN cells THEN cells[place] ELSE 0
With(f, x, value) == [y \in DOMAIN f \union {x} |-> IF y = x THEN value ELSE f[y]]

Arith(op, a, b) ==
  CASE op = "ADD" -> a + b
    [] op = "SUB" -> a - b
    [] op = "MULT" -> a * b

Holds(op, a, b) ==
  CASE op = "LESS_THAN" -> a < b
    [] op = "GREATER_THAN" -> a > b
    [] op = "LE_THAN" -> a <= b
    [] op = "GE_THAN" -> a >= b
    [] op = "EQUALS" -> a = b
    [] op = "NOT_EQUALS" -> a # b

RECURSIVE Value(_, _)
Value(node, s) ==
  CASE node.kind = "number" -> ValueOf[node.name]
    [] node.kind = "variable" -> s.env[node.name]
    [] node.kind = "element" -> At(s.cells, <<node.name, Value(node.right, s)>>)
    [] node.kind = "binary" -> Arith(node.name, Value(node.left, s), Value(node.right, s))

IsTrue(condition, s) ==
  Holds(condition.name, Value(condition.left, s), Value(condition.right, s))

Put(target, value, s) ==
  IF target.kind = "element"
  THEN [s EXCEPT !.cells = With(@, <<target.name, Value(target.right, s)>>, value)]
  ELSE [s EXCEPT !.env[target.name] = value]

Input == 2  \* what every read reads

ProcedureOf(program, name) ==
  CHOOSE p \in ToSet(program.children) : p.kind = "procedure" /\ p.name = name

RECURSIVE After(_, _, _)
After(program, node, s) ==
  IF s.fuel = 0 THEN s
  ELSE CASE node.kind = "assign" -> Put(node.left, Value(node.right, s), s)
         [] node.kind = "read" -> Put(node.operand, Input, s)
         [] node.kind = "write" -> [s EXCEPT !.output = Append(@, Value(node.operand, s))]
         [] node.kind = "call" ->
              After(program, ProcedureOf(program, node.name).right, [s EXCEPT !.fuel = @ - 1])
         [] node.kind = "list" ->
              FoldLeft(LAMBDA t, child : After(program, child, t), s, node.children)
         [] node.kind = "if" -> IF IsTrue(node.left, s) THEN After(program, node.right, s) ELSE s
         [] node.kind = "while" ->
              IF IsTrue(node.left, s)
              THEN After(program, node, After(program, node.right, [s EXCEPT !.fuel = @ - 1]))
              ELSE s
         [] OTHER -> s

Started(env, fuel) == [env |-> env, cells |-> <<>>, output |-> <<>>, fuel |-> fuel]
=============================================================================
