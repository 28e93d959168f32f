------------------------------- MODULE Lexer -------------------------------
(***************************************************************************)
(* The lexer of lexer.cpp: an automaton read from two tables scans one     *)
(* token after the other, without ever going back in the text.             *)
(***************************************************************************)
EXTENDS Integers, Sequences, SequencesExt, FiniteSets

CONSTANTS
  Chars, NUL, Newline,  \* characters; peek answers NUL at the end of the text
  States,               \* of the automaton, which starts in 0
  ScanningTable,        \* the transitions: a state for some <<state, character>>
  TokenTable,           \* the token class of each final state
  Classes,              \* token classes
  ReservedWords,        \* the class of each reserved word
  Texts,                \* source files
  Garbage               \* what an integer holds that nothing was put in

ASSUME TablesAssumption ==
  /\ NUL \in Chars /\ Newline \in Chars \ {NUL}
  /\ 0 \in States \ DOMAIN TokenTable
  /\ DOMAIN ScanningTable \subseteq States \X (Chars \ {NUL})
  /\ \A step \in DOMAIN ScanningTable : ScanningTable[step] \in States
  /\ DOMAIN TokenTable \subseteq States
  /\ \A q \in DOMAIN TokenTable : TokenTable[q] \in Classes
  /\ {"ERROR", "IDENTIFIER", "WHITESPACE", "END_OF_FILE"} \subseteq Classes
  /\ \A word \in DOMAIN ReservedWords : ReservedWords[word] \in Classes
  /\ Texts \subseteq Seq(Chars) /\ Garbage \subseteq Int

(***************************************************************************)
(* The tables are written for a lexer that never goes back in the text: a  *)
(* state that is final leads on to final states only, nothing leads back   *)
(* to the first state, and white space is skipped one character at a time. *)
(* They name no class that the lexer gives to errors and the end of file.  *)
(***************************************************************************)
ASSUME NoWayBackAssumption ==
  /\ States \subseteq Nat
  /\ \A step \in DOMAIN ScanningTable :
       /\ ScanningTable[step] # 0
       /\ step[1] \in DOMAIN TokenTable => ScanningTable[step] \in DOMAIN TokenTable
  /\ \A step \in DOMAIN ScanningTable :
       ScanningTable[step] \in DOMAIN TokenTable /\ TokenTable[ScanningTable[step]] = "WHITESPACE" => step[1] = 0
  /\ \A q \in DOMAIN TokenTable : TokenTable[q] \notin {"ERROR", "END_OF_FILE"}
  /\ \A word \in DOMAIN ReservedWords : ReservedWords[word] \notin {"ERROR", "END_OF_FILE", "WHITESPACE"}

VARIABLES
  phase,              \* "lexing": in lex, "scanning": in scan_token, "done"
  source,
  current_character, current_line, current_column,  \* of the scanner
  current_state, read_characters,
  token,              \* the token to return, kept by lex until the next one
  token_table,        \* as TokenTable, and what looking it up has inserted
  token_stream

scanner == <<current_character, current_line, current_column>>
vars == <<phase, source, scanner, current_state, read_characters, token, token_table, token_stream>>

Token == [type : Classes, lexeme : Seq(Chars), line : Int, column : Int]

Init ==
  /\ phase = "lexing"
  /\ source \in Texts
  /\ current_character = 0 /\ current_line = 1 /\ current_column = 1
  /\ current_state = 0 /\ read_characters = <<>>
  /\ \E line, column \in Garbage :
       token = [type |-> "ERROR", lexeme |-> <<>>, line |-> line, column |-> column]
  /\ token_table = TokenTable
  /\ token_stream = <<>>

peek == IF current_character < Len(source) THEN source[current_character + 1] ELSE NUL

(* A mutation of advance: the line counts before the character is looked at. *)
advanceLate ==
  /\ current_character' = current_character + 1
  /\ current_line' = IF source[current_character + 1] = Newline THEN current_line + 1 ELSE current_line
  /\ current_column' = current_column + 1

(* Scanner::next, when there is a character. *)
advance ==
  /\ current_character' = current_character + 1
  /\ IF source[current_character + 1] = Newline
     THEN current_line' = current_line + 1 /\ current_column' = 1
     ELSE current_line' = current_line /\ current_column' = current_column + 1

(* A call of next that finds the end changes nothing. *)
next == IF current_character < Len(source) THEN advance ELSE UNCHANGED scanner

(* A mutation of CanMove: a token ends as soon as it can. *)
CanMoveUnfinished ==
  <<current_state, peek>> \in DOMAIN ScanningTable /\ current_state \notin DOMAIN token_table

CanMove == <<current_state, peek>> \in DOMAIN ScanningTable
IsFinal == current_state \in DOMAIN token_table

-----------------------------------------------------------------------------
(* lex: while the scanner contains input, a token is scanned. *)
StartToken ==
  /\ phase = "lexing" /\ peek # NUL
  /\ phase' = "scanning"
  /\ current_state' = 0 /\ read_characters' = <<>>
  /\ token' = [token EXCEPT !.line = current_line, !.column = current_column]
  /\ UNCHANGED <<source, scanner, token_table, token_stream>>

Move ==
  /\ phase = "scanning" /\ CanMove
  /\ current_state' = ScanningTable[<<current_state, peek>>]
  /\ read_characters' = Append(read_characters, peek)
  /\ next
  /\ UNCHANGED <<phase, source, token, token_table, token_stream>>

(* getTokenTypeFromFinalState inserts the class 0 for a state that has none. *)
TypeOfState(q) == IF q \in DOMAIN token_table THEN token_table[q] ELSE "ERROR"
LookedUp(q) == [r \in DOMAIN token_table \union {q} |-> TypeOfState(r)]

TypeOf(q, lexeme) ==
  IF TypeOfState(q) = "IDENTIFIER" /\ lexeme \in DOMAIN ReservedWords
  THEN ReservedWords[lexeme] ELSE TypeOfState(q)

(* A mutation of Push: what could not be recognized is left out. *)
PushRecognized(t) ==
  IF t.type \in {"WHITESPACE", "ERROR"} THEN token_stream ELSE Append(token_stream, t)

Push(t) == IF t.type = "WHITESPACE" THEN token_stream ELSE Append(token_stream, t)

Return(type) ==
  /\ token' = [token EXCEPT !.type = type, !.lexeme = read_characters]
  /\ token_stream' = Push(token')
  /\ phase' = "lexing"

(* A mutation of Recognize: the character after the token is read with it. *)
RecognizeAndSkip ==
  /\ phase = "scanning" /\ ~CanMove
  /\ IsFinal \/ peek = NUL
  /\ Return(TypeOf(current_state, read_characters))
  /\ token_table' = LookedUp(current_state)
  /\ current_character' = current_character + 1
  /\ UNCHANGED <<source, current_line, current_column, current_state, read_characters>>

Recognize ==
  /\ phase = "scanning" /\ ~CanMove
  /\ IsFinal \/ peek = NUL
  /\ Return(TypeOf(current_state, read_characters))
  /\ token_table' = LookedUp(current_state)
  /\ UNCHANGED <<source, scanner, current_state, read_characters>>

(* A mutation of Fail: the character the automaton cannot take stays. *)
FailInPlace ==
  /\ phase = "scanning" /\ ~CanMove
  /\ ~IsFinal /\ peek # NUL
  /\ Return("ERROR")
  /\ UNCHANGED <<source, scanner, current_state, read_characters, token_table>>

(* The character the automaton cannot take is skipped, and in no lexeme. *)
Fail ==
  /\ phase = "scanning" /\ ~CanMove
  /\ ~IsFinal /\ peek # NUL
  /\ Return("ERROR")
  /\ next
  /\ UNCHANGED <<source, current_state, read_characters, token_table>>

(* The end of the file is where the last token was. *)
Finish ==
  /\ phase = "lexing" /\ peek = NUL
  /\ phase' = "done"
  /\ token' = [token EXCEPT !.type = "END_OF_FILE", !.lexeme = <<>>]
  /\ token_stream' = Append(token_stream, token')
  /\ UNCHANGED <<source, scanner, current_state, read_characters, token_table>>

Next == StartToken \/ Move \/ Recognize \/ Fail \/ Finish

Spec == Init /\ [][Next]_vars

-----------------------------------------------------------------------------
(* What the lexer's state is made of. *)
TypeOK ==
  /\ phase \in {"lexing", "scanning", "done"}
  /\ source \in Seq(Chars)
  /\ current_character \in 0 .. Len(source)
  /\ current_line \in Int /\ current_column \in Int
  /\ current_state \in States /\ read_characters \in Seq(Chars)
  /\ token \in Token
  /\ DOMAIN token_table \subseteq States
  /\ \A q \in DOMAIN token_table : token_table[q] \in Classes
  /\ token_stream \in Seq(Token)

(***************************************************************************)
(* Scanning one token reads at least one character, recognized or not, so  *)
(* lexing a file ends: scan_token never returns where it started.          *)
(***************************************************************************)
StartsScan == phase = "lexing" /\ phase' = "scanning"
EndsScan == phase = "scanning" /\ phase' = "lexing"

IsLocation(k, line, column) ==
  /\ line = 1 + Cardinality({j \in 1 .. k : source[j] = Newline})
  /\ \E b \in 0 .. k :
       /\ b = 0 \/ source[b] = Newline
       /\ \A j \in b + 1 .. k : source[j] # Newline
       /\ column = k - b + 1

EveryScanAdvances ==
  [][EndsScan => ~IsLocation(current_character', token.line, token.column)]_vars

(* Where in the text a token says it is. *)
Reads(k, lexeme) ==
  /\ k + Len(lexeme) <= Len(source)
  /\ \A j \in 1 .. Len(lexeme) : source[k + j] = lexeme[j]

IsAt(t, k) == IsLocation(k, t.line, t.column) /\ Reads(k, t.lexeme)

(***************************************************************************)
(* Every token is in the text where its line and column say, character by  *)
(* character: error messages, also those of the parser and of the type     *)
(* checker, point at it.  The end of the file has no place of its own.     *)
(***************************************************************************)
TokensAreWhereTheySay ==
  \A n \in DOMAIN token_stream :
    token_stream[n].type # "END_OF_FILE" =>
      \E k \in 0 .. current_character : IsAt(token_stream[n], k)

-----------------------------------------------------------------------------
(* The automaton on a whole word: where it ends, if it gets that far. *)
Stuck == -1

Follow(q, c) == IF <<q, c>> \in DOMAIN ScanningTable THEN ScanningTable[<<q, c>>] ELSE Stuck

StateAfter(word) ==
  LET Run[n \in 0 .. Len(word)] == IF n = 0 THEN 0 ELSE Follow(Run[n - 1], word[n])
  IN  Run[Len(word)]

Accepted(word) == word # <<>> /\ StateAfter(word) \in DOMAIN TokenTable

(* The class of an accepted word. *)
ClassOf(word) ==
  LET class == TokenTable[StateAfter(word)]
  IN  IF class = "IDENTIFIER" /\ word \in DOMAIN ReservedWords THEN ReservedWords[word] ELSE class

PlaceOf(t) == CHOOSE k \in 0 .. Len(source) : IsLocation(k, t.line, t.column)

WordsFrom(k) == {SubSeq(source, k + 1, j) : j \in k + 1 .. Len(source)}

(***************************************************************************)
(* A token is the longest word at its place that the tables accept, with   *)
(* the class they give it; and where an error is reported they accept no   *)
(* word at all, although the lexer never goes back to a shorter one.       *)
(***************************************************************************)
LongestMatch ==
  \A n \in DOMAIN token_stream :
    LET t == token_stream[n]
        accepted == {word \in WordsFrom(PlaceOf(t)) : Accepted(word)}
    IN  /\ t.type = "ERROR" => accepted = {}
        /\ t.type \notin {"ERROR", "END_OF_FILE"} =>
             /\ t.lexeme \in accepted
             /\ \A word \in accepted : Len(word) <= Len(t.lexeme)
             /\ t.type = ClassOf(t.lexeme)

IsWhite(c) == Accepted(<<c>>) /\ TokenTable[StateAfter(<<c>>)] = "WHITESPACE"

(***************************************************************************)
(* Between two scans, every character read so far is in exactly one token, *)
(* or is white space, or is the one on which an error was reported; and    *)
(* the lexer stops only at the end of the text or a NUL in it.             *)
(***************************************************************************)
NothingIsLost ==
  /\ phase # "scanning" =>
       \A j \in 1 .. current_character :
         LET covers(t) == j > PlaceOf(t) /\ j <= PlaceOf(t) + Len(t.lexeme)
             skips(t) == t.type = "ERROR" /\ j = PlaceOf(t) + Len(t.lexeme) + 1
             claims == {n \in DOMAIN token_stream : covers(token_stream[n]) \/ skips(token_stream[n])}
         IN  Cardinality(claims) = (IF claims = {} /\ IsWhite(source[j]) THEN 0 ELSE 1)
  /\ phase = "done" => peek = NUL
=============================================================================
