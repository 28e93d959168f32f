------------------------------- MODULE Words -------------------------------
(***************************************************************************)
(* The tables the lexer is built with, tables/scanning_table.csv and       *)
(* tables/token_table.csv, and the reserved words of lexer.h.  The letter  *)
(* "a" stands for every letter but the small o and d, the digit "0" for    *)
(* every digit, and blank for the three white characters besides newline.  *)
(***************************************************************************)
EXTENDS Lexer

Letters == {"a", "o", "d"}
Digits == {"0"}
WordChars == Letters \union Digits \union {"_"}
(* What a word begins with that does not begin with the letter of odd. *)
FirstChars == {"a", "d", "_"}
Blank == {" ", "\n"}

(***************************************************************************)
(* The rows of the scanning table: from a state, on some characters, to a  *)
(* state.  inside is what goes on with a word.                             *)
(***************************************************************************)
Rows(inside) ==
  { \* words; the reserved word odd has states of its own
    <<0, FirstChars, 5>>, <<5, inside, 5>>,
    <<0, {"o"}, 16>>, <<16, {"d"}, 17>>, <<17, {"d"}, 18>>,
    <<16, {"a", "o"}, 5>>, <<17, {"a", "o"}, 5>>, <<18, Letters, 5>>,
    \* numbers
    <<0, Digits, 14>>, <<14, Digits, 14>>, <<14, {"."}, 23>>, <<23, Digits, 23>>,
    \* operators
    <<0, {":"}, 7>>, <<7, {"="}, 8>>, <<0, {"<", ">"}, 9>>, <<9, {"="}, 10>>,
    <<0, {"#"}, 10>>, <<0, {"="}, 11>>, <<0, {"/", "*"}, 12>>, <<0, {"+", "-"}, 13>>,
    \* the rest
    <<0, {"."}, 1>>, <<0, {"?"}, 2>>, <<0, {"!"}, 3>>, <<0, {","}, 4>>, <<0, {";"}, 6>>, <<0, Blank, 15>>,
    <<0, {"("}, 19>>, <<0, {")"}, 20>>, <<0, {"["}, 24>>, <<0, {"]"}, 25>>}

Table(rows) ==
  LET steps(row) == {row[1]} \X row[2]
  IN  [step \in UNION {steps(row) : row \in rows} |-> (CHOOSE row \in rows : step \in steps(row))[3]]

(* A mutation of CsvScanningTable: no underscore after the first character. *)
TableWithoutUnderscore == Table(Rows(Letters \union Digits))

CsvScanningTable == Table(Rows(WordChars))

(* The rows of the token table: a state and the class of what it recognizes. *)
FinalRows ==
  {<<1, "PERIOD">>, <<2, "READ_OP">>, <<3, "WRITE_OP">>, <<4, "COMMA">>, <<5, "IDENTIFIER">>, <<6, "SEMICOLON">>,
   <<8, "DEFINE_EQUALS">>, <<9, "COMPARE_OP">>, <<10, "COMPARE_OP">>, <<11, "EQUALS">>, <<12, "MUL_OP">>,
   <<13, "ADD_OP">>, <<14, "INT_NUMBER_LITERAL">>, <<15, "WHITESPACE">>, <<18, "ODD_OP">>, <<19, "LEFT_PAREN">>,
   <<20, "RIGHT_PAREN">>, <<23, "FLOAT_NUMBER_LITERAL">>, <<24, "LEFT_SQUARE_BRACKET">>, <<25, "RIGHT_SQUARE_BRACKET">>}

CsvTokenTable == [q \in {row[1] : row \in FinalRows} |-> (CHOOSE row \in FinalRows : row[1] = q)[2]]

(* Of the reserved words, the one that is written with the letters above. *)
CsvReservedWords == [word \in {<<"d", "o">>} |-> "DO_KEYWORD"]

-----------------------------------------------------------------------------
(* A word of the language: as many letters, digits and underscores as there *)
(* are, not beginning with a digit.                                         *)
IsWordAt(k, word) ==
  /\ word # <<>> /\ Head(word) \notin Digits /\ ToSet(word) \subseteq WordChars
  /\ k = 0 \/ source[k] \notin WordChars
  /\ k + Len(word) = Len(source) \/ source[k + Len(word) + 1] \notin WordChars

IsToken(k, word) ==
  \E n \in DOMAIN token_stream :
    /\ PlaceOf(token_stream[n]) = k
    /\ token_stream[n].lexeme = word
    /\ token_stream[n].type = IF word \in DOMAIN ReservedWords THEN ReservedWords[word] ELSE "IDENTIFIER"

(***************************************************************************)
(* In a text that is lexed without an error every word is one token, also  *)
(* one that begins with a reserved word, like "do_" or "doo".  This holds  *)
(* of the words that do not begin with an o: the states that recognize odd *)
(* have no way on with a digit or an underscore, and the first two of them *)
(* do not accept, so "o" is an error and "odd_" is two tokens.             *)
(***************************************************************************)
WordsAreOneToken ==
  phase = "done" /\ (\A n \in DOMAIN token_stream : token_stream[n].type # "ERROR") =>
    \A k \in 0 .. current_character - 1 : \A word \in WordsFrom(k) :
      IsWordAt(k, word) /\ Head(word) # "o" /\ k + Len(word) <= current_character => IsToken(k, word)
=============================================================================
