------------------------------- MODULE Parser -------------------------------
(***************************************************************************)
(* The recursive descent of parser.cpp.  The call stack is the sequence    *)
(* todo of what the functions that have been called still have to do, the  *)
(* trees and tokens their local variables hold are the stack values, and   *)
(* one step runs a function up to its next call.  Wherever the code stops  *)
(* with a message, phase is "rejected"; where it fails an assertion, phase *)
(* is "died".                                                              *)
(***************************************************************************)
EXTENDS SymbolTable, SequencesExt, FiniteSets

CONSTANTS
  Streams,           \* what the lexer answers, up to its END_OF_FILE
  ValueOf,           \* the value of a literal, by its lexeme
  OperationOf,       \* cmpOpMap and treeTo3acOpMap: the operation of a lexeme
  MaximumArguments,  \* MAXIMUM_ARGUMENTS, 16
  Uninitialized      \* what an entry that nothing was assigned to may hold

Token == [type : STRING, lexeme : STRING]

ASSUME StreamsAssumption == \A stream \in Streams : stream # <<>> /\ stream \in Seq(Token)

VARIABLES
  phase,             \* "parsing", "parsed", "rejected" or "died"
  tokens, current_token,
  todo, values,
  tables,            \* every symbol table that was made
  scopes             \* the stack of those that are open

vars == <<phase, tokens, current_token, todo, values, tables, scopes>>

-----------------------------------------------------------------------------
(* What a function still has to do. *)
Do(function) == <<function>>
Match(types) == <<"tryMatchTerminal", types>>
Take(type) == <<"takeToken", type>>
If(types, items) == <<"if", types, items>>
While(type, items) == <<"while", type, items>>
OperatorTail(type, function) == <<"operatorTail", type, function>>
Construct(kind, name, token) == <<"construct", kind, name, token>>
ConstructUnary(kind, token) == <<"constructUnary", kind, token>>
ConstructList(token) == <<"constructList", token>>

Init ==
  /\ phase = "parsing"
  /\ tokens \in Streams
  /\ current_token = 0
  /\ todo = <<Do("parseProgram")>>
  /\ values = <<>>
  /\ tables = <<NewTable(NoTable)>>
  /\ scopes = <<1>>

(* The last token is never passed. *)
Following == IF current_token = Len(tokens) THEN current_token ELSE current_token + 1

peekNextToken == tokens[Following]
Peek == peekNextToken.type

getNextToken == current_token' = Following

(* A mutation of currentScope: leaving a scope does not change it. *)
newestScope == Len(tables)

currentScope == Last(scopes)

Calls(function) == phase = "parsing" /\ todo # <<>> /\ Head(todo)[1] = function

(* The function goes on with these items; with none it returns. *)
Runs(items) == todo' = items \o Tail(todo)

Pushes(value) == values' = Append(values, value)
Value(depth) == values[Len(values) - depth]
Replaces(count, value) == values' = Append(SubSeq(values, 1, Len(values) - count), value)

raiseMismatchError ==
  /\ phase' = "rejected"
  /\ UNCHANGED <<tokens, current_token, todo, values, tables, scopes>>

(* Steps that leave the symbol tables alone, and those that read no token either. *)
KeepsTables == UNCHANGED <<phase, tokens, tables, scopes>>
KeepsAll == KeepsTables /\ UNCHANGED <<current_token, values>>

-----------------------------------------------------------------------------
(* The statements functions share. *)
tryMatchTerminal ==
  /\ Calls("tryMatchTerminal")
  /\ \/ /\ Peek \in Head(todo)[2]
        /\ getNextToken /\ Runs(<<>>)
        /\ KeepsTables /\ UNCHANGED values
     \/ Peek \notin Head(todo)[2] /\ raiseMismatchError

(* getNextToken and tryMatchTerminal, when the token is needed. *)
takeToken ==
  /\ Calls("takeToken")
  /\ \/ /\ Peek = Head(todo)[2]
        /\ getNextToken /\ Pushes(Following) /\ Runs(<<>>)
        /\ KeepsTables
     \/ Peek # Head(todo)[2] /\ raiseMismatchError

IfNext ==
  /\ Calls("if")
  /\ Runs(IF Peek \in Head(todo)[2] THEN Head(todo)[3] ELSE <<>>)
  /\ KeepsAll

WhileNext ==
  /\ Calls("while")
  /\ Runs(IF Peek = Head(todo)[2] THEN Append(Head(todo)[3], Head(todo)) ELSE <<>>)
  /\ KeepsAll

constructTree ==
  /\ Calls("construct")
  /\ Replaces(2, [kind |-> Head(todo)[2], name |-> Head(todo)[3], left |-> Value(1), right |-> Value(0),
                  scope |-> currentScope, token |-> Head(todo)[4]])
  /\ Runs(<<>>)
  /\ KeepsTables /\ UNCHANGED current_token

constructUnaryTree ==
  /\ Calls("constructUnary")
  /\ Runs(<<>>)
  /\ Replaces(1, [kind |-> Head(todo)[2], operand |-> Value(0), scope |-> currentScope, token |-> Head(todo)[3]])
  /\ KeepsTables /\ UNCHANGED current_token

constructListTree ==
  /\ Calls("constructList")
  /\ Runs(<<>>)
  /\ Replaces(1, [kind |-> "list", children |-> Value(0).children, scope |-> currentScope, token |-> Head(todo)[2]])
  /\ KeepsTables /\ UNCHANGED current_token

(* The children or arguments that were parsed so far. *)
NoChildren == [children |-> <<>>]
With(list, tree) == [list EXCEPT !.children = Append(@, tree)]

addChild ==
  /\ Calls("addChild")
  /\ Replaces(2, With(Value(1), Value(0)))
  /\ Runs(<<>>)
  /\ KeepsTables /\ UNCHANGED current_token

NoTree == [kind |-> "nullptr"]

addStatement ==
  /\ Calls("addStatement")
  /\ Replaces(2, IF Value(0) = NoTree THEN Value(1) ELSE With(Value(1), Value(0)))
  /\ Runs(<<>>)
  /\ KeepsTables /\ UNCHANGED current_token

(* The two errors that an if or a while with nothing to do is. *)
expectBody ==
  /\ Calls("expectBody")
  /\ \/ Value(0) # NoTree /\ Runs(<<>>) /\ KeepsAll
     \/ Value(0) = NoTree /\ raiseMismatchError

(* A mutation of enterNewScope: the new scope is open before it is made. *)
enterOpenScope ==
  /\ Calls("enterNewScope")
  /\ tables' = Append(tables, NewTable(Len(tables) + 1))
  /\ scopes' = Append(scopes, Len(tables'))
  /\ Runs(<<>>)
  /\ UNCHANGED <<phase, tokens, current_token, values>>

enterNewScope ==
  /\ Calls("enterNewScope")
  /\ tables' = Append(tables, NewTable(currentScope))
  /\ scopes' = Append(scopes, Len(tables'))
  /\ Runs(<<>>)
  /\ UNCHANGED <<phase, tokens, current_token, values>>

exitOldScope ==
  /\ Calls("exitOldScope")
  /\ \/ /\ Len(scopes) # 1
        /\ scopes' = Front(scopes)
        /\ Runs(<<>>)
        /\ UNCHANGED <<phase, tokens, current_token, values, tables>>
     \/ /\ Len(scopes) = 1
        /\ phase' = "died"
        /\ UNCHANGED <<tokens, current_token, todo, values, tables, scopes>>

-----------------------------------------------------------------------------
(* Blocks.  values holds the children of the block that is being parsed.   *)
parseProgram ==
  /\ Calls("parseProgram")
  /\ Runs(<<Do("parseRootBlock"), Match({"PERIOD"})>>)
  /\ KeepsAll

Declarations == <<If({"CONST_KEYWORD"}, <<Do("parseConstDeclarations")>>), If({"VAR_KEYWORD"}, <<Do("parseVarDeclarations")>>)>>
Body == <<Do("parseStatement"), Do("addStatement"), ConstructList(Following)>>

parseRootBlock ==
  /\ Calls("parseRootBlock")
  /\ Pushes(NoChildren)
  /\ Runs(Declarations \o <<While("PROCEDURE_KEYWORD", <<Do("parseProcedure")>>)>> \o Body)
  /\ KeepsTables /\ UNCHANGED current_token

parseBlock ==
  /\ Calls("parseBlock")
  /\ Pushes(NoChildren)
  /\ Runs(Declarations \o Body)
  /\ KeepsTables /\ UNCHANGED current_token

Constant == <<Do("parseType"), Take("IDENTIFIER"), Match({"EQUALS"}), Do("parseNumber"), Do("declareConstant")>>
Variable == <<Do("parseType"), Take("IDENTIFIER"), Do("declareVariable")>>

parseConstDeclarations ==
  /\ Calls("parseConstDeclarations")
  /\ Runs(<<Match({"CONST_KEYWORD"})>> \o Constant
            \o <<While("COMMA", <<Do("parseConstDeclarationList")>>), Match({"SEMICOLON"})>>)
  /\ KeepsAll

parseConstDeclarationList ==
  /\ Calls("parseConstDeclarationList")
  /\ Runs(<<Match({"COMMA"})>> \o Constant)
  /\ KeepsAll

parseVarDeclarations ==
  /\ Calls("parseVarDeclarations")
  /\ Runs(<<Match({"VAR_KEYWORD"})>> \o Variable
            \o <<While("COMMA", <<Do("parseVarDeclarationList")>>), Match({"SEMICOLON"})>>)
  /\ KeepsAll

parseVarDeclarationList ==
  /\ Calls("parseVarDeclarationList")
  /\ Runs(<<Match({"COMMA"})>> \o Variable)
  /\ KeepsAll

inserts(name, entry) == tables' = insert(tables, currentScope, name, entry)

VariableTree(token) ==
  [kind |-> "variable", name |-> tokens[token].lexeme, scope |-> currentScope, token |-> token]

(* The list, the type, the identifier and the number become a longer list. *)
declareConstant ==
  /\ Calls("declareConstant")
  /\ LET type == Value(2)
         token == Value(1)
         number_info == lookup(tables, currentScope, Value(0).name)
     IN  /\ inserts(tokens[token].lexeme, VariableEntry(type, TRUE, number_info.value, token))
         /\ Replaces(4, With(Value(3), [kind |-> "assign", name |-> "ASSIGN", left |-> VariableTree(token),
                                        right |-> Value(0), scope |-> currentScope, token |-> token]))
  /\ Runs(<<>>)
  /\ UNCHANGED <<phase, tokens, current_token, scopes>>

(* The value is not assigned, and not read either. *)
Changeable(type, token) == VariableEntry(type, FALSE, 0, token)

declareVariable ==
  /\ Calls("declareVariable")
  /\ LET token == Value(0)
     IN  /\ inserts(tokens[token].lexeme, Changeable(Value(1), token))
         /\ Replaces(3, With(Value(2), [kind |-> "declare", name |-> tokens[token].lexeme,
                                        scope |-> currentScope, token |-> token]))
  /\ Runs(<<>>)
  /\ UNCHANGED <<phase, tokens, current_token, scopes>>

-----------------------------------------------------------------------------
(* Procedures.  values: children, identifier, arguments, return variable.  *)
(* An argument is what Prototype keeps of it; the return variable is none  *)
(* or one of these.                                                        *)
NoReturn == <<>>

parseProcedure ==
  /\ Calls("parseProcedure")
  /\ Runs(<<Do("enterNewScope"), Match({"PROCEDURE_KEYWORD"}), Take("IDENTIFIER"), Do("noPrototype"),
            If({"LEFT_PAREN"}, <<Match({"LEFT_PAREN"}), Do("parseArguments"), Match({"RIGHT_PAREN"})>>),
            If({"INT_TYPE_KEYWORD", "FLOAT_TYPE_KEYWORD"}, <<Do("parseType"), Take("IDENTIFIER"), Do("declareReturn")>>),
            Match({"SEMICOLON"}), Do("parseBlock"), Match({"SEMICOLON"}),
            Do("exitOldScope"), Do("declareProcedure")>>)
  /\ KeepsAll

noPrototype ==
  /\ Calls("noPrototype")
  /\ values' = values \o <<<<>>, NoReturn>>
  /\ Runs(<<>>)
  /\ KeepsTables /\ UNCHANGED current_token

Argument == <<Do("parseType"), Take("IDENTIFIER"), Do("declareArgument")>>

parseArguments ==
  /\ Calls("parseArguments")
  /\ Runs(Append(Argument, While("COMMA", <<Match({"COMMA"})>> \o Argument)))
  /\ KeepsAll

declareArgument ==
  /\ Calls("declareArgument")
  /\ LET token == Value(0)
         argument == [type |-> Value(1).type, token |-> token]
     IN  /\ inserts(tokens[token].lexeme, Changeable(Value(1), token))
         /\ values' = SubSeq(values, 1, Len(values) - 4) \o <<Append(Value(3), argument), Value(2)>>
  /\ Runs(<<>>)
  /\ UNCHANGED <<phase, tokens, current_token, scopes>>

declareReturn ==
  /\ Calls("declareReturn")
  /\ LET token == Value(0)
     IN  /\ inserts(tokens[token].lexeme, Changeable(Value(1), token))
         /\ Replaces(3, <<[type |-> Value(1).type, token |-> token]>>)
  /\ Runs(<<>>)
  /\ UNCHANGED <<phase, tokens, current_token, scopes>>

(* By now the scope is the one around the procedure again. *)
declareProcedure ==
  /\ Calls("declareProcedure")
  /\ LET body == Value(0)
         returned == Value(1)
         arguments == Value(2)
         token == Value(3)
     IN  \/ /\ Len(arguments) < MaximumArguments
            /\ inserts(tokens[token].lexeme,
                       FunctionEntry([i \in DOMAIN arguments |-> arguments[i].type],
                                     IF returned = NoReturn THEN "VOID" ELSE returned[1].type))
            /\ Replaces(5, With(Value(4), [kind |-> "procedure", name |-> tokens[token].lexeme, right |-> body,
                                           arguments |-> arguments, returned |-> returned,
                                           scope |-> currentScope, token |-> token]))
            /\ Runs(<<>>)
            /\ UNCHANGED <<phase, tokens, current_token, scopes>>
         \/ Len(arguments) >= MaximumArguments /\ raiseMismatchError

-----------------------------------------------------------------------------
(* Statements. *)
Expression == Do("parseExpression")

Assignment == <<Do("parseVariable"), Match({"DEFINE_EQUALS"}), Expression, Construct("assign", "ASSIGN", Following)>>

CallOf ==
  <<Match({"CALL_KEYWORD"}), Take("IDENTIFIER"), Do("noArguments"),
    If({"LEFT_PAREN"},
       <<Match({"LEFT_PAREN"}), Expression, Do("addChild"),
         While("COMMA", <<Match({"COMMA"}), Expression, Do("addChild")>>), Match({"RIGHT_PAREN"})>>),
    Do("constructCall")>>

Writing == <<Match({"WRITE_OP"}), Expression, ConstructUnary("write", Following)>>
Reading == <<Match({"READ_OP"}), Do("parseVariable"), ConstructUnary("read", Following)>>

(* A mutation of Sequence: the semicolon before a statement is not taken. *)
SequenceBySight ==
  <<Do("enterNewScope"), Match({"BEGIN_KEYWORD"}), Do("noArguments"), Do("parseStatement"), Do("addChild"),
    While("SEMICOLON", <<Do("parseStatement"), Do("addStatement")>>),
    Match({"END_KEYWORD"}), ConstructList(Following), Do("exitOldScope")>>

(* The first statement is a child even if there is none. *)
Sequence ==
  <<Do("enterNewScope"), Match({"BEGIN_KEYWORD"}), Do("noArguments"), Do("parseStatement"), Do("addChild"),
    While("SEMICOLON", <<Match({"SEMICOLON"}), Do("parseStatement"), Do("addStatement")>>),
    Match({"END_KEYWORD"}), ConstructList(Following), Do("exitOldScope")>>

Conditional(keyword, afterwards, kind) ==
  <<Match({keyword}), Do("parseCondition"), Match({afterwards}), Do("parseStatement"), Do("expectBody"),
    Construct(kind, "", Following)>>

StartsStatement ==
  {"IDENTIFIER", "CALL_KEYWORD", "WRITE_OP", "READ_OP", "BEGIN_KEYWORD", "IF_KEYWORD", "WHILE_KEYWORD"}

parseStatement ==
  /\ Calls("parseStatement")
  /\ \/ Peek = "IDENTIFIER" /\ Runs(Assignment) /\ KeepsAll
     \/ Peek = "CALL_KEYWORD" /\ Runs(CallOf) /\ KeepsAll
     \/ Peek = "WRITE_OP" /\ Runs(Writing) /\ KeepsAll
     \/ Peek = "READ_OP" /\ Runs(Reading) /\ KeepsAll
     \/ Peek = "BEGIN_KEYWORD" /\ Runs(Sequence) /\ KeepsAll
     \/ Peek = "IF_KEYWORD" /\ Runs(Conditional("IF_KEYWORD", "THEN_KEYWORD", "if")) /\ KeepsAll
     \/ Peek = "WHILE_KEYWORD" /\ Runs(Conditional("WHILE_KEYWORD", "DO_KEYWORD", "while")) /\ KeepsAll
     \/ Peek \notin StartsStatement /\ Pushes(NoTree) /\ Runs(<<>>) /\ KeepsTables /\ UNCHANGED current_token

(* A list of children or arguments that is still empty. *)
noArguments ==
  /\ Calls("noArguments")
  /\ Pushes(NoChildren)
  /\ Runs(<<>>)
  /\ KeepsTables /\ UNCHANGED current_token

constructCall ==
  /\ Calls("constructCall")
  /\ Replaces(2, [kind |-> "call", name |-> tokens[Value(1)].lexeme, arguments |-> Value(0).children,
                  scope |-> currentScope, token |-> Value(1)])
  /\ Runs(<<>>)
  /\ KeepsTables /\ UNCHANGED current_token

parseCondition ==
  /\ Calls("parseCondition")
  /\ \/ Peek = "ODD_OP" /\ Runs(<<Match({"ODD_OP"}), Expression, ConstructUnary("odd", Following)>>)
     \/ Peek # "ODD_OP" /\ Runs(<<Expression, <<"parseComparison", Following>>>>)
  /\ KeepsAll

(* The rest of parseCondition, at the operator. *)
parseComparison ==
  /\ Calls("parseComparison")
  /\ \/ /\ Peek \in {"COMPARE_OP", "EQUALS"}
        /\ getNextToken
        /\ Runs(<<Expression, Construct("binary", OperationOf[peekNextToken.lexeme], Head(todo)[2])>>)
        /\ KeepsTables /\ UNCHANGED values
     \/ Peek \notin {"COMPARE_OP", "EQUALS"} /\ raiseMismatchError

-----------------------------------------------------------------------------
(* Expressions.  The sign in front is read and left behind. *)
parseExpression ==
  /\ Calls("parseExpression")
  /\ Runs(<<If({"ADD_OP"}, <<Match({"ADD_OP"})>>), Do("parseTerm"), OperatorTail("ADD_OP", "parseExpressionTail")>>)
  /\ KeepsAll

parseExpressionTail ==
  /\ Calls("parseExpressionTail")
  /\ Runs(<<Match({"ADD_OP"}), Do("parseTerm"), OperatorTail("ADD_OP", "parseExpressionTail")>>)
  /\ KeepsAll

parseTerm ==
  /\ Calls("parseTerm")
  /\ Runs(<<Do("parseFactor"), OperatorTail("MUL_OP", "parseTermTail")>>)
  /\ KeepsAll

(* A mutation of parseTermTail: whatever follows is a factor. *)
parseTermTailOfSums ==
  /\ Calls("parseTermTail")
  /\ Runs(<<Match({"MUL_OP"}), Expression, OperatorTail("MUL_OP", "parseTermTail")>>)
  /\ KeepsAll

parseTermTail ==
  /\ Calls("parseTermTail")
  /\ Runs(<<Match({"MUL_OP"}), Do("parseFactor"), OperatorTail("MUL_OP", "parseTermTail")>>)
  /\ KeepsAll

(* Whatever follows an operator is its right operand. *)
operatorTail ==
  /\ Calls("operatorTail")
  /\ Runs(IF Peek = Head(todo)[2]
          THEN <<Do(Head(todo)[3]), Construct("binary", OperationOf[peekNextToken.lexeme], Following)>>
          ELSE <<>>)
  /\ KeepsAll

parseFactor ==
  /\ Calls("parseFactor")
  /\ \/ Peek = "IDENTIFIER" /\ Runs(<<Do("parseVariable")>>) /\ KeepsAll
     \/ Peek \in {"INT_NUMBER_LITERAL", "FLOAT_NUMBER_LITERAL"} /\ Runs(<<Do("parseNumber")>>) /\ KeepsAll
     \/ Peek = "LEFT_PAREN" /\ Runs(<<Match({"LEFT_PAREN"}), Expression, Match({"RIGHT_PAREN"})>>) /\ KeepsAll
     \/ /\ Peek \notin {"IDENTIFIER", "INT_NUMBER_LITERAL", "FLOAT_NUMBER_LITERAL", "LEFT_PAREN"}
        /\ raiseMismatchError

LiteralType(class) == IF class = "INT_NUMBER_LITERAL" THEN "INT" ELSE "FLOAT"

parseNumber ==
  /\ Calls("parseNumber")
  /\ Runs(<<If({"ADD_OP"}, <<Match({"ADD_OP"})>>), Do("parseLiteral")>>)
  /\ KeepsAll

(* The rest of parseNumber, after the sign. *)
parseLiteral ==
  /\ Calls("parseLiteral")
  /\ \/ /\ Peek \in {"INT_NUMBER_LITERAL", "FLOAT_NUMBER_LITERAL"}
        /\ getNextToken
        /\ inserts(peekNextToken.lexeme, LiteralEntry(LiteralType(Peek), ValueOf[peekNextToken.lexeme], Following))
        /\ Pushes([kind |-> "number", name |-> peekNextToken.lexeme, type |-> LiteralType(Peek),
                   scope |-> currentScope, token |-> Following])
        /\ Runs(<<>>)
        /\ UNCHANGED <<phase, tokens, scopes>>
     \/ Peek \notin {"INT_NUMBER_LITERAL", "FLOAT_NUMBER_LITERAL"} /\ raiseMismatchError

(* A name that is bound to a procedure fails the assertion. *)
parseVariable ==
  /\ Calls("parseVariable")
  /\ LET entry == lookup(tables, currentScope, peekNextToken.lexeme)
     IN  \/ /\ Peek = "IDENTIFIER"
            /\ IsFound(entry) => IsVariable(entry)
            /\ getNextToken
            /\ Pushes(VariableTree(Following))
            /\ Runs(<<If({"LEFT_SQUARE_BRACKET"},
                         <<Match({"LEFT_SQUARE_BRACKET"}), Expression, Match({"RIGHT_SQUARE_BRACKET"}),
                           Do("constructElement")>>)>>)
            /\ KeepsTables
         \/ /\ Peek = "IDENTIFIER"
            /\ IsFound(entry) /\ ~IsVariable(entry)
            /\ phase' = "died"
            /\ UNCHANGED <<tokens, current_token, todo, values, tables, scopes>>
         \/ Peek # "IDENTIFIER" /\ raiseMismatchError

(* An element has the name of its array, as the code made from it. *)
constructElement ==
  /\ Calls("constructElement")
  /\ Replaces(2, [kind |-> "element", name |-> Value(1).name, right |-> Value(0),
                  scope |-> Value(1).scope, token |-> Value(1).token])
  /\ Runs(<<>>)
  /\ KeepsTables /\ UNCHANGED current_token

-----------------------------------------------------------------------------
(* Types. *)
TypeOfKeyword(class) == IF class = "INT_TYPE_KEYWORD" THEN "INT" ELSE "FLOAT"

parseType ==
  /\ Calls("parseType")
  /\ \/ /\ Peek \in {"INT_TYPE_KEYWORD", "FLOAT_TYPE_KEYWORD"}
        /\ getNextToken
        /\ Pushes([type |-> TypeOfKeyword(Peek), is_array |-> FALSE, array_size |-> 0])
        /\ Runs(<<If({"LEFT_SQUARE_BRACKET"},
                     <<Match({"LEFT_SQUARE_BRACKET"}), Do("arraySize"), Match({"RIGHT_SQUARE_BRACKET"})>>)>>)
        /\ KeepsTables
     \/ Peek \notin {"INT_TYPE_KEYWORD", "FLOAT_TYPE_KEYWORD"} /\ raiseMismatchError

IsSize(entry) == IsVariable(entry) /\ entry.isConstant /\ entry.type = "INT"

(* What a lookup leaves in the entry it was given. *)
Answers(entry) == IF IsFound(entry) THEN {entry} ELSE Uninitialized

SizedBy(size) ==
  /\ getNextToken
  /\ Runs(<<>>)
  /\ Replaces(1, [Value(0) EXCEPT !.is_array = TRUE, !.array_size = size])
  /\ KeepsTables

(* The rest of parseType, behind the bracket.  The answer of lookup is not *)
(* asked whether there is one.                                             *)
arraySize ==
  /\ Calls("arraySize")
  /\ \/ Peek = "INT_NUMBER_LITERAL" /\ SizedBy(ValueOf[peekNextToken.lexeme])
     \/ /\ Peek = "IDENTIFIER"
        /\ \E entry \in Answers(lookup(tables, currentScope, peekNextToken.lexeme)) :
             \/ IsSize(entry) /\ SizedBy(entry.value)
             \/ ~IsSize(entry) /\ raiseMismatchError
     \/ Peek \notin {"INT_NUMBER_LITERAL", "IDENTIFIER"} /\ raiseMismatchError

Finish ==
  /\ phase = "parsing" /\ todo = <<>>
  /\ phase' = "parsed"
  /\ UNCHANGED <<tokens, current_token, todo, values, tables, scopes>>

Shared ==
  \/ tryMatchTerminal \/ takeToken \/ IfNext \/ WhileNext \/ addChild \/ addStatement \/ expectBody
  \/ constructTree \/ constructUnaryTree \/ constructListTree \/ enterNewScope \/ exitOldScope

Blocks ==
  \/ parseProgram \/ parseRootBlock \/ parseBlock
  \/ parseConstDeclarations \/ parseConstDeclarationList \/ declareConstant
  \/ parseVarDeclarations \/ parseVarDeclarationList \/ declareVariable
  \/ parseProcedure \/ noPrototype \/ parseArguments \/ declareArgument \/ declareReturn \/ declareProcedure
  \/ parseType \/ arraySize

Statements ==
  \/ parseStatement \/ noArguments \/ constructCall \/ parseCondition \/ parseComparison
  \/ parseExpression \/ parseExpressionTail \/ parseTerm \/ parseTermTail \/ operatorTail
  \/ parseFactor \/ parseNumber \/ parseLiteral \/ parseVariable \/ constructElement

Next == Shared \/ Blocks \/ Statements \/ Finish

Spec == Init /\ [][Next]_vars

-----------------------------------------------------------------------------
(* What the parser's state is made of; a scope encloses only newer ones. *)
TypeOK ==
  /\ phase \in {"parsing", "parsed", "rejected", "died"}
  /\ tokens # <<>> /\ tokens \in Seq(Token)
  /\ current_token \in 0 .. Len(tokens)
  /\ Len(tables) > 0
  /\ \A t \in 1 .. Len(tables) :
       /\ tables[t].enclosingScope \in 0 .. t - 1
       /\ \A name \in DOMAIN tables[t].symbolTable :
            tables[t].symbolTable[name].entry_type \in {"ST_VARIABLE", "ST_LITERAL", "ST_FUNCTION"}
  /\ scopes # <<>> /\ scopes \in Seq(1 .. Len(tables))

(***************************************************************************)
(* The open scopes lie inside one another, the global one outermost: the   *)
(* scope on top of the stack reaches by its enclosing scopes just the      *)
(* others on the stack, so a name is looked up where it is visible.  And   *)
(* every scope that was entered is left, and no other, on every way        *)
(* through procedures and nested begins: exitOldScope never meets the      *)
(* global scope alone, which its assertion forbids, and only that one is   *)
(* open at the end.                                                        *)
(***************************************************************************)
ScopesAreNested ==
  /\ scopes[1] = 1 /\ tables[1].enclosingScope = NoTable
  /\ \A i \in 2 .. Len(scopes) : tables[scopes[i]].enclosingScope = scopes[i - 1]
  /\ phase = "parsed" => Len(scopes) = 1
  /\ phase = "died" => Head(todo) # Do("exitOldScope")
=============================================================================
