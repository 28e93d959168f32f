------------------------------ MODULE FrontEnd ------------------------------
(***************************************************************************)
(* The first half of main.cpp: what the lexer answers is parsed, the tree  *)
(* is checked, and three-address code is generated from it.                *)
(***************************************************************************)
EXTENDS Parser, TypeChecker

CONSTANTS TempName, LabelName, ProcLabel

AST == INSTANCE Past

VARIABLES
  stage,  \* "parser", "checked", "generated" or "rejected"
  code

frontEndVars == <<vars, stage, code>>

Tree == Last(values)

FrontEndInit == Init /\ stage = "parser" /\ code = <<>>

Parse == Next /\ UNCHANGED <<stage, code>>

CheckTypes ==
  /\ stage = "parser" /\ phase = "parsed"
  /\ stage' = IF Passes(tables, Tree) THEN "checked" ELSE "rejected"
  /\ UNCHANGED <<vars, code>>

GenerateCode ==
  /\ stage = "checked"
  /\ IF CallsFit(tables, Tree)
     THEN stage' = "generated" /\ code' = AST!Generated(Tree)
     ELSE stage' = "rejected" /\ UNCHANGED code
  /\ UNCHANGED vars

FrontEndNext == Parse \/ CheckTypes \/ GenerateCode

FrontEndSpec == FrontEndInit /\ [][FrontEndNext]_frontEndVars /\ WF_frontEndVars(FrontEndNext)

-----------------------------------------------------------------------------
(***************************************************************************)
(* The front end comes to an end with every text, also one that stops in   *)
(* the middle: every loop of the parser takes a token in each round.       *)
(***************************************************************************)
Ends == <>(phase \in {"rejected", "died"} \/ stage \in {"generated", "rejected"})

-----------------------------------------------------------------------------
(* The tokens that carry the meaning of a program, without its punctuation. *)
Kept ==
  {"IDENTIFIER", "INT_NUMBER_LITERAL", "FLOAT_NUMBER_LITERAL", "EQUALS", "DEFINE_EQUALS", "COMPARE_OP",
   "MUL_OP", "ADD_OP", "ODD_OP", "READ_OP", "WRITE_OP", "CALL_KEYWORD", "IF_KEYWORD", "WHILE_KEYWORD",
   "PROCEDURE_KEYWORD", "BEGIN_KEYWORD", "END_KEYWORD"}

TypeKeywords == {"INT_TYPE_KEYWORD", "FLOAT_TYPE_KEYWORD"}
EndsOperand == {"IDENTIFIER", "INT_NUMBER_LITERAL", "FLOAT_NUMBER_LITERAL", "RIGHT_PAREN", "RIGHT_SQUARE_BRACKET"}

ClassAt(i) == IF i \in DOMAIN tokens THEN tokens[i].type ELSE "none"

IsSign(i) == ClassAt(i) = "ADD_OP" /\ ClassAt(i - 1) \notin EndsOperand
IsArraySize(i) == ClassAt(i - 1) = "LEFT_SQUARE_BRACKET" /\ ClassAt(i - 2) \in TypeKeywords

(* An identifier right behind a type. *)
IsDeclaration(i) ==
  /\ ClassAt(i) = "IDENTIFIER"
  /\ \/ ClassAt(i - 1) \in TypeKeywords
     \/ ClassAt(i - 1) = "RIGHT_SQUARE_BRACKET" /\ IsArraySize(i - 2)

Operators == {"MUL_OP", "ADD_OP", "COMPARE_OP", "EQUALS"}

(* At the token behind a declared name there is an equals sign, if it is kept. *)
MeaningAt(i) ==
  IF ClassAt(i) = "DEFINE_EQUALS" \/ IsDeclaration(i - 1) THEN "ASSIGN"
  ELSE IF ClassAt(i) \in Operators THEN OperationOf[tokens[i].lexeme]
  ELSE tokens[i].lexeme

IsKept(i) == ClassAt(i) \in Kept /\ ~IsSign(i) /\ ~IsArraySize(i)
Read == 1 .. current_token

MeaningOfText ==
  LET places == SelectSeq([i \in Read |-> i], IsKept)
  IN  [n \in DOMAIN places |-> MeaningAt(places[n])]

(* What a tree says, from left to right. *)
RECURSIVE Yield(_)
YieldAll(children) == FoldLeft(LAMBDA text, child : text \o Yield(child), <<>>, children)
Lexemes(prototype) == [i \in DOMAIN prototype |-> tokens[prototype[i].token].lexeme]

Yield(node) ==
  CASE node.kind = "nullptr" -> <<>>
    [] node.kind \in {"number", "variable", "declare"} -> <<node.name>>
    [] node.kind = "element" -> <<node.name>> \o Yield(node.right)
    [] node.kind \in {"binary", "assign"} -> Yield(node.left) \o <<node.name>> \o Yield(node.right)
    [] node.kind = "read" -> <<"?">> \o Yield(node.operand)
    [] node.kind = "write" -> <<"!">> \o Yield(node.operand)
    [] node.kind = "odd" -> <<"odd">> \o Yield(node.operand)
    [] node.kind = "call" -> <<"call", node.name>> \o YieldAll(node.arguments)
    [] node.kind \in {"if", "while"} -> <<node.kind>> \o Yield(node.left) \o Yield(node.right)
    [] node.kind = "list" -> <<"begin">> \o YieldAll(node.children) \o <<"end">>
    [] node.kind = "procedure" ->
         <<"procedure", node.name>> \o Lexemes(node.arguments) \o Lexemes(node.returned) \o YieldAll(node.right.children)

-----------------------------------------------------------------------------
(* How many parentheses opened in lo .. i are open. *)
Level(lo, i) ==
  Cardinality({j \in lo .. i : ClassAt(j) = "LEFT_PAREN"}) - Cardinality({j \in lo .. i : ClassAt(j) = "RIGHT_PAREN"})

SplitsOf(lo, hi, class) == {i \in lo .. hi : ClassAt(i) = class /\ Level(lo, i) = 0 /\ ~IsSign(i)}
Greatest(places) == CHOOSE j \in places : \A k \in places : k <= j

(* The value of an expression of numbers: split at the last + outside of    *)
(* parentheses, or else at the last *, or else inside of the parentheses.   *)
RECURSIVE ValueOfText(_, _)
ValueOfText(lo, hi) ==
  LET sums == SplitsOf(lo, hi, "ADD_OP")
      products == SplitsOf(lo, hi, "MUL_OP")
      at == Greatest(IF sums # {} THEN sums ELSE products)
  IN  IF IsSign(lo) THEN ValueOfText(lo + 1, hi)
      ELSE IF sums # {} THEN ValueOfText(lo, at - 1) + ValueOfText(at + 1, hi)
      ELSE IF products # {} THEN ValueOfText(lo, at - 1) * ValueOfText(at + 1, hi)
      ELSE IF ClassAt(lo) = "LEFT_PAREN" THEN ValueOfText(lo + 1, hi - 1)
      ELSE ValueOf[tokens[lo].lexeme]

IsOneWrite ==
  /\ ClassAt(1) = "WRITE_OP"
  /\ \A i \in Read : ClassAt(i) # "IDENTIFIER" /\ tokens[i].lexeme \notin {"-", "/"}

WritesWhatIsWritten ==
  AST!After(Tree, Tree, AST!Started(<<>>, 1)).output = <<ValueOfText(2, current_token - 1)>>

(***************************************************************************)
(* The tree of an accepted text says what the text says: every name,       *)
(* number, operator, statement and block of it, in its order and at its    *)
(* depth, nothing twice and nothing left out but the signs, which the      *)
(* parser reads as optional and forgets; and sums, products and            *)
(* parentheses group as they do in the text.  Subtraction and division are *)
(* left out of the second part, for the parser makes every operation group *)
(* to the right: "4 - 2 - 1" is 4 - (2 - 1).                               *)
(***************************************************************************)
TreeIsWhatWasRead ==
  phase = "parsed" =>
    /\ YieldAll(Tree.children) = MeaningOfText
    /\ IsOneWrite => WritesWhatIsWritten

-----------------------------------------------------------------------------
(* The procedure whose text a token is in, as its place; or none.  The main *)
(* statement comes after all procedures.                                    *)
Outside == 0

RegionOf(i) ==
  LET before == SelectSeq(Tree.children, LAMBDA child : child.token <= i)
  IN  IF before # <<>> /\ Last(before).kind = "procedure" THEN Last(before).token ELSE Outside

Declared(name, region, i) ==
  {j \in 1 .. i : IsDeclaration(j) /\ tokens[j].lexeme = name /\ RegionOf(j) = region}

(* The first declaration of a name in the procedure around it, or else in   *)
(* the program.                                                             *)
DeclarationsOf(name, i) ==
  IF Declared(name, RegionOf(i), i) # {} THEN Declared(name, RegionOf(i), i) ELSE Declared(name, Outside, i)

First(places) == CHOOSE j \in places : \A k \in places : j <= k

UsesMeanTheirDeclaration ==
  \A node \in {subtree \in Subtrees(Tree) : subtree.kind \in {"variable", "element", "declare"}} :
    /\ DeclarationsOf(node.name, node.token) # {}
    /\ Named(tables, node).token = First(DeclarationsOf(node.name, node.token))

(* The literal behind the name and the equals sign, maybe behind a sign. *)
ConstantAt(j) == ValueOf[tokens[IF IsSign(j + 2) THEN j + 3 ELSE j + 2].lexeme]

SizeOf(entry) == entry.token - 2

SizesMeanTheirDeclaration ==
  \A t \in DOMAIN tables : \A name \in DOMAIN tables[t].symbolTable :
    LET entry == tables[t].symbolTable[name]
    IN  IsVariable(entry) /\ entry.isArray /\ ClassAt(SizeOf(entry)) = "IDENTIFIER" =>
          LET places == DeclarationsOf(tokens[SizeOf(entry)].lexeme, SizeOf(entry))
          IN  places # {} =>
                /\ ClassAt(First(places) + 1) = "EQUALS" /\ ClassAt(First(places) - 1) = "INT_TYPE_KEYWORD"
                /\ entry.arraySize = ConstantAt(First(places))

(***************************************************************************)
(* In a program that is checked, each name of a variable is bound to its   *)
(* first declaration in the procedure it is used in, or else in the        *)
(* program: never to one of another procedure or of a begin, and never to  *)
(* one that comes after its use.  An array whose size is a name that is    *)
(* declared has the size that name was declared with there, as an integer  *)
(* constant.  (Of a name that is not declared the size is whatever the     *)
(* uninitialized entry holds.)                                             *)
(***************************************************************************)
NamesMeanTheirDeclaration ==
  stage \in {"checked", "generated"} => UsesMeanTheirDeclaration /\ SizesMeanTheirDeclaration

-----------------------------------------------------------------------------
Of(op) == {k \in DOMAIN code : code[k].op = op}
Procedures == {child \in ToSet(Tree.children) : child.kind = "procedure"}

(* Two procedures of one name, or one with the name of a numbered label. *)
ClashingLabels ==
  \/ \E p, q \in Procedures : p # q /\ p.name = q.name
  \/ \E p \in Procedures : \E n \in DOMAIN LabelName : ProcLabel[p.name] = LabelName[n]

Targets(k) == {l \in Of("LABEL") : code[l].arg1 = code[k].arg1}

(* The parameters passed since the call before. *)
Passed(k) ==
  LET earlier == {c \in Of("CALL") : c < k}
  IN  {l \in Of("PROC_PARAM") : l < k /\ \A c \in earlier : c < l}

Expects(label) ==
  LET named == {p.token : p \in {q \in Procedures : ProcLabel[q.name] = label}}
      place == First(named)
      closing == First({i \in place .. Len(tokens) : ClassAt(i) \in {"RIGHT_PAREN", "SEMICOLON", "END_OF_FILE"}})
  IN  IF ClassAt(place + 1) = "LEFT_PAREN" THEN {i \in place .. closing : IsDeclaration(i)} ELSE {}

(***************************************************************************)
(* Every jump and every call of the generated code goes to exactly one     *)
(* place, whatever is nested in what, provided the names of the procedures *)
(* make labels of their own.  A call passes as many parameters as the      *)
(* procedure has in the text, and no parameter is passed without a call.   *)
(***************************************************************************)
CodeIsConnected ==
  stage = "generated" /\ ~ClashingLabels =>
    /\ \A k \in Of("CALL") \union Of("UNCOND_JMP") \union Of("JMP_ZERO") : Cardinality(Targets(k)) = 1
    /\ \A k \in Of("CALL") : Cardinality(Passed(k)) = Cardinality(Expects(code[k].arg1))
    /\ Of("PROC_PARAM") = UNION {Passed(k) : k \in Of("CALL")}
=============================================================================
