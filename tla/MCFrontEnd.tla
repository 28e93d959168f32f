----------------------------- MODULE MCFrontEnd -----------------------------
(***************************************************************************)
(* Texts for the front end: programs with every construct, right ones and  *)
(* wrong ones, and each of them with one token missing; and the writes of  *)
(* all expressions of up to five tokens.                                   *)
(***************************************************************************)
EXTENDS FrontEnd

ClassOf ==
  "." :> "PERIOD" @@ "?" :> "READ_OP" @@ "!" :> "WRITE_OP" @@ "," :> "COMMA" @@ ";" :> "SEMICOLON"
    @@ ":=" :> "DEFINE_EQUALS" @@ "=" :> "EQUALS" @@ "(" :> "LEFT_PAREN" @@ ")" :> "RIGHT_PAREN"
    @@ "[" :> "LEFT_SQUARE_BRACKET" @@ "]" :> "RIGHT_SQUARE_BRACKET" @@ "odd" :> "ODD_OP"
    @@ "const" :> "CONST_KEYWORD" @@ "var" :> "VAR_KEYWORD" @@ "procedure" :> "PROCEDURE_KEYWORD"
    @@ "int" :> "INT_TYPE_KEYWORD" @@ "float" :> "FLOAT_TYPE_KEYWORD" @@ "call" :> "CALL_KEYWORD"
    @@ "begin" :> "BEGIN_KEYWORD" @@ "end" :> "END_KEYWORD" @@ "if" :> "IF_KEYWORD" @@ "then" :> "THEN_KEYWORD"
    @@ "while" :> "WHILE_KEYWORD" @@ "do" :> "DO_KEYWORD"
    @@ [op \in {"+", "-"} |-> "ADD_OP"] @@ [op \in {"*", "/"} |-> "MUL_OP"] @@ [op \in {"<", ">"} |-> "COMPARE_OP"]
    @@ [n \in {"1", "2", "3"} |-> "INT_NUMBER_LITERAL"] @@ "2.5" :> "FLOAT_NUMBER_LITERAL"
    @@ [v \in {"a", "n", "x", "y", "p", "q", "no0"} |-> "IDENTIFIER"]

(* The bits of 2.5 are those of an integer that is none of the others. *)
MCValueOf == "1" :> 1 @@ "2" :> 2 @@ "3" :> 3 @@ "2.5" :> 25

MCOperationOf ==
  "+" :> "ADD" @@ "-" :> "SUB" @@ "*" :> "MULT" @@ "/" :> "DIV" @@ "<" :> "LESS_THAN" @@ ">" :> "GREATER_THAN"
    @@ "=" :> "EQUALS"

MCMaximumArguments == 3

(* A constant of another program, or none. *)
MCUninitialized ==
  {NotFound, VariableEntry([type |-> "INT", is_array |-> FALSE, array_size |-> 0], TRUE, 7, 0)}

MaxNames == 9
MCTempName == [n \in 0 .. MaxNames |-> "$t" \o ToString(n)]
MCLabelName == [n \in 0 .. MaxNames |-> "$Lno" \o ToString(n)]
MCProcLabel == [p \in {"a", "n", "x", "y", "p", "q", "no0"} |-> "$L" \o p]

-----------------------------------------------------------------------------
N == <<"const", "int", "n", "=", "2", ";">>
X == <<"var", "int", "x", ";">>
P == <<"procedure", "p", ";">>
Px == <<"procedure", "p", "(", "int", "x", ")", ";">>
Q == <<"procedure", "q", ";">>
Array == <<"int", "[", "n", "]", "a">>
Write2 == <<"!", "2">>
Writes(name) == <<"!", name>>
Sets(name, value) == <<name, ":=", value>>
CallsP(arguments) == <<"call", "p">> \o arguments
Then == <<";">>

Programs == {
  (* statements in one another *)
  <<>>,
  <<"var", "int", "x", ",", "int", "y", ";", "begin", "x", ":=", "2", ";", "y", ":=", "x", "*", "3", "-", "1", ";", "!", "y", "end">>,
  X \o <<"begin", "while", "x", ">", "1", "do", "begin", "if", "odd", "x", "then", "!", "x", ";", "x", ":=", "x", "-", "1", "end", ";", "end">>,
  X \o <<"while", "x", "<", "2", "do", "if", "odd", "x", "then", "while", "x", "=", "3", "do", "?", "x">>,
  <<"begin", "if", "2", "=", "3", "then", "!", "2", ";", "while", "2", "<", "3", "do", "!", "3", "end">>,
  <<"begin", "begin", "!", "2", "end", ";", "begin", "begin", "end", "end", "end">>,
  <<"!", "2.5", "*", "(", "2.5", "+", "2.5", ")", "*", "2.5">>,
  (* constants, sizes and elements *)
  <<"const", "int", "n", "=", "3", ",", "float", "y", "=", "2.5", ";", "var">> \o Array
    \o <<";", "begin", "a", "[", "2", "]", ":=", "n", ";", "!", "a", "[", "n", "-", "1", "]", "end">>,
  <<"const", "int", "n", "=", "-", "3", ";", "var">> \o Array \o <<";", "a", "[", "1", "]", ":=", "2">>,
  <<"var", "int", "[", "3", "]", "a", ";", "?", "a", "[", "1", "]">>,
  <<"var">> \o Array \o Then \o Write2,
  <<"var", "int", "n", ",">> \o Array \o Then \o Write2,
  <<"const", "float", "n", "=", "2.5", ";", "var">> \o Array \o Then \o Write2,
  (* names of procedures and of the program *)
  N \o P \o <<"const", "int", "n", "=", "3", ";", "var">> \o Array \o Then \o Writes("a") \o Then \o Writes("n"),
  N \o P \o <<"var">> \o Array \o Then \o Writes("a") \o Then \o Writes("n"),
  P \o N \o Writes("n") \o Then \o Q \o <<"var">> \o Array \o Then \o Write2 \o Then \o Write2,
  X \o P \o <<"var", "float", "x", ";">> \o Sets("x", "2.5") \o Then \o Sets("x", "3"),
  X \o <<"procedure", "p", "(", "float", "x", ")", ";">> \o Sets("x", "2.5") \o Then \o CallsP(<<"(", "2.5", ")">>),
  P \o X \o Sets("x", "2") \o Then \o Q \o Sets("x", "3") \o Then \o Write2,
  <<"var", "int", "x", ",", "float", "x", ";">> \o Sets("x", "2"),
  N \o <<"var", "float", "n", ";">> \o Sets("n", "3"),
  P \o Write2 \o Then \o Sets("p", "3"),
  X \o <<"call", "x">>,
  <<"var", "int", "p", ";">> \o P \o Write2 \o Then \o CallsP(<<>>),
  (* calls *)
  Px \o <<"if", "x", ">", "1", "then", "call", "p", "(", "x", "-", "1", ")">> \o Then \o CallsP(<<"(", "2", ")">>),
  Px \o Writes("x") \o Then \o CallsP(<<>>),
  Px \o Writes("x") \o Then \o CallsP(<<"(", "2.5", ")">>),
  Px \o Writes("x") \o Then \o CallsP(<<"(", "2", ",", "3", ")">>),
  P \o Write2 \o Then \o CallsP(<<"(", "2", ")">>),
  <<"procedure", "p", "(", "int", "x", ",", "float", "y", ")", "int", "a", ";">> \o Sets("a", "x") \o Then
    \o <<"begin", "call", "p", "(", "2", ",", "2.5", ")", ";", "call", "p", "(", "3", "*", "2", ",", "2.5", ")", "end">>,
  <<"procedure", "p", "(", "int", "x", ",", "int", "y", ",", "int", "a", ")", ";">> \o Write2 \o Then \o Write2,
  P \o Write2 \o Then \o Q \o CallsP(<<>>) \o Then \o <<"begin", "call", "q", ";", "call", "p", "end">>,
  P \o Write2 \o Then \o P \o Writes("3") \o Then \o CallsP(<<>>),
  <<"procedure", "no0", ";">> \o Write2 \o Then \o <<"if", "2", "<", "3", "then", "call", "no0">>
}

Without(text, i) == SubSeq(text, 1, i - 1) \o SubSeq(text, i + 1, Len(text))
OneMissing(text) == {text} \union {Without(text, i) : i \in DOMAIN text}

Expressions ==
  UNION {[1 .. n -> {"2", "+", "*", "(", ")"}] : n \in 1 .. 5}
    \union {<<"2", "*", "(", "3", "+", "1", ")">>, <<"(", "3", "+", "1", ")", "*", "2">>, <<"2", "+", "3", "*", "1", "+", "2">>,
            <<"2", "*", "3", "+", "3", "*", "2", "*", "3">>, <<"(", "2", "*", "3", ")", "*", "(", "+", "2", "+", "2", ")">>}

Ended(text) == [i \in 1 .. Len(text) |-> [type |-> ClassOf[text[i]], lexeme |-> text[i]]] \o <<[type |-> "END_OF_FILE", lexeme |-> ""]>>

Texts == UNION {OneMissing(Append(p, ".")) : p \in Programs} \union {<<"!">> \o e \o <<".">> : e \in Expressions}

MCStreams == {Ended(text) : text \in Texts}
=============================================================================
