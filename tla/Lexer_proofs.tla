---------------------------- MODULE Lexer_proofs ----------------------------
(***************************************************************************)
(* For every automaton, text and set of reserved words: each scan reads on *)
(* in the text, each token is where its line and column say and is the     *)
(* longest word there, and no character is lost or read twice.  The first  *)
(* invariant follows the token that is being scanned from its first        *)
(* character, and says when a state that was only looked up counts as a    *)
(* final one: not before the lexer has met the end.  The second ties the   *)
(* automaton's state to the word it has read; the third says what of the   *)
(* text the tokens so far account for.                                     *)
(* The last part is about the automaton of the two CSV tables of Words.    *)
(***************************************************************************)
EXTENDS Words, FiniteSetTheorems, Induction, TLAPS

(* The scanner knows where it is. *)
ScannerInv == IsLocation(current_character, current_line, current_column)

(* The characters of a token are those from the place it was started at. *)
StartsAt(k) ==
  /\ IsLocation(k, token.line, token.column)
  /\ current_character = k + Len(read_characters)
  /\ Reads(k, read_characters)

TokenInv == phase = "scanning" => \E k \in 0 .. current_character : StartsAt(k)

(* A token without a character yet is in state 0, with a character to come. *)
StartInv == phase = "scanning" /\ read_characters = <<>> => current_state = 0 /\ peek # NUL

(* The first state is final only once the end was looked up in it. *)
TableInv == 0 \in DOMAIN token_table => phase # "scanning" /\ peek = NUL

IInv == TypeOK /\ ScannerInv /\ TokenInv /\ StartInv /\ TableInv /\ TokensAreWhereTheySay

-----------------------------------------------------------------------------
(* Lines and columns. *)
LEMMA NoNewlineYet == IsLocation(0, 1, 1)
<1>1. {j \in 1 .. 0 : source[j] = Newline} = {}
  OBVIOUS
<1>2. Cardinality({j \in 1 .. 0 : source[j] = Newline}) = 0
  BY <1>1, FS_EmptySet
<1> QED BY <1>2 DEF IsLocation

(* The newlines up to a place can be counted. *)
LEMMA LinesAreCounted ==
  ASSUME NEW n \in Nat
  PROVE  /\ IsFiniteSet({j \in 1 .. n : source[j] = Newline})
         /\ Cardinality({j \in 1 .. n : source[j] = Newline}) \in Nat
<1>1. IsFiniteSet(1 .. n)
  BY FS_Interval
<1>2. {j \in 1 .. n : source[j] = Newline} \in SUBSET (1 .. n)
  OBVIOUS
<1>3. IsFiniteSet({j \in 1 .. n : source[j] = Newline})
  BY <1>1, <1>2, FS_Subset
<1> QED BY <1>3, FS_CardinalityType

(* Reading one character moves the location as Scanner::next does. *)
LEMMA NextLocation ==
  ASSUME NEW k \in Nat, NEW line \in Int, NEW column \in Int, IsLocation(k, line, column)
  PROVE  IF source[k + 1] = Newline
         THEN IsLocation(k + 1, line + 1, 1) ELSE IsLocation(k + 1, line, column + 1)
<1> DEFINE Lines(n) == {j \in 1 .. n : source[j] = Newline}
<1>1. IsFiniteSet(Lines(k)) /\ Cardinality(Lines(k)) \in Nat
  BY LinesAreCounted
<1>2. CASE source[k + 1] = Newline
  <2>1. Lines(k + 1) = Lines(k) \union {k + 1} /\ k + 1 \notin Lines(k)
    BY <1>2
  <2>2. Cardinality(Lines(k + 1)) = Cardinality(Lines(k)) + 1
    BY <1>1, <2>1, FS_AddElement
  <2>3. \A j \in (k + 1) + 1 .. k + 1 : source[j] # Newline
    OBVIOUS
  <2> HIDE DEF Lines
  <2>4. line + 1 = 1 + Cardinality(Lines(k + 1)) /\ line = 1 + Cardinality(Lines(k))
    BY <1>1, <2>2 DEF IsLocation, Lines
  <2> QED BY <1>2, <2>3, <2>4 DEF IsLocation, Lines
<1>3. CASE source[k + 1] # Newline
  <2>1. Lines(k + 1) = Lines(k)
    BY <1>3
  <2>2. PICK b \in 0 .. k :
          /\ b = 0 \/ source[b] = Newline
          /\ \A j \in b + 1 .. k : source[j] # Newline
          /\ column = k - b + 1
    BY DEF IsLocation
  <2>3. \A j \in b + 1 .. k + 1 : source[j] # Newline
    BY <1>3, <2>2
  <2>4. b \in 0 .. k + 1 /\ column + 1 = (k + 1) - b + 1
    BY <2>2
  <2>5. line = 1 + Cardinality(Lines(k + 1))
    BY <2>1 DEF IsLocation
  <2> QED BY <1>3, <2>2, <2>3, <2>4, <2>5 DEF IsLocation
<1> QED BY <1>2, <1>3

(* A line and a column name one place in the text. *)
LEMMA OnePlace ==
  ASSUME NEW k \in Nat, NEW l \in Nat, NEW line, NEW column,
         IsLocation(k, line, column), k < l
  PROVE  ~IsLocation(l, line, column)
<1> SUFFICES ASSUME IsLocation(l, line, column) PROVE FALSE
  OBVIOUS
<1> DEFINE Lines(n) == {j \in 1 .. n : source[j] = Newline}
<1>1. IsFiniteSet(Lines(l)) /\ IsFiniteSet(Lines(k))
  BY LinesAreCounted
<1>2. Cardinality(Lines(l)) \in Nat /\ Cardinality(Lines(k)) \in Nat
  BY LinesAreCounted
<1>3. Lines(k) \subseteq Lines(l)
  OBVIOUS
<1>4. Cardinality(Lines(l)) = Cardinality(Lines(k))
  <2> HIDE DEF Lines
  <2>1. 1 + Cardinality(Lines(l)) = 1 + Cardinality(Lines(k))
    BY DEF IsLocation, Lines
  <2> QED BY <1>2, <2>1
<1>5. Lines(l) = Lines(k)
  BY <1>1, <1>3, <1>4, FS_Subset
<1>6. \A j \in k + 1 .. l : source[j] # Newline
  BY <1>5
<1>7. PICK b \in 0 .. k :
        /\ b = 0 \/ source[b] = Newline
        /\ \A j \in b + 1 .. k : source[j] # Newline
        /\ column = k - b + 1
  BY DEF IsLocation
<1>8. PICK c \in 0 .. l :
        /\ c = 0 \/ source[c] = Newline
        /\ \A j \in c + 1 .. l : source[j] # Newline
        /\ column = l - c + 1
  BY DEF IsLocation
<1>9. c <= k
  BY <1>6, <1>8
<1>10. c > b
  BY <1>7, <1>8
<1> QED BY <1>7, <1>8, <1>9, <1>10
-----------------------------------------------------------------------------
(* What one step reads. *)
LEMMA PeekType ==
  ASSUME TypeOK
  PROVE  /\ peek \in Chars
         /\ peek # NUL => /\ current_character < Len(source)
                         /\ peek = source[current_character + 1]
BY TablesAssumption DEF TypeOK, peek

(* Reading goes on by one character, and the scanner knows where it is. *)
LEMMA NextStep ==
  ASSUME TypeOK, ScannerInv, peek # NUL, next, UNCHANGED source
  PROVE  /\ current_character' = current_character + 1
         /\ current_character' \in 0 .. Len(source)
         /\ current_line' \in Int /\ current_column' \in Int
         /\ ScannerInv'
<1>1. current_character < Len(source) /\ current_character \in Nat /\ Len(source) \in Nat
  BY PeekType DEF TypeOK
<1>2. advance
  BY <1>1 DEF next
<1>3. IF source[current_character + 1] = Newline
      THEN IsLocation(current_character + 1, current_line + 1, 1)
      ELSE IsLocation(current_character + 1, current_line, current_column + 1)
  BY <1>1, NextLocation DEF TypeOK, ScannerInv
<1>4. IsLocation(current_character', current_line', current_column')
  BY <1>2, <1>3 DEF advance
<1>5. ScannerInv'
  BY <1>4 DEF ScannerInv, IsLocation
<1> QED BY <1>1, <1>2, <1>5 DEF advance, TypeOK

(* A token that is returned has one of the token classes. *)
LEMMA TypeOfIsClass ==
  ASSUME TypeOK
  PROVE  /\ TypeOf(current_state, read_characters) \in Classes
         /\ DOMAIN LookedUp(current_state) \subseteq States
         /\ \A q \in DOMAIN LookedUp(current_state) : LookedUp(current_state)[q] \in Classes
<1>1. \A q : TypeOfState(q) \in Classes
  BY TablesAssumption DEF TypeOK, TypeOfState
<1>2. TypeOf(current_state, read_characters) \in Classes
  BY <1>1, TablesAssumption DEF TypeOf
<1> QED BY <1>1, <1>2 DEF LookedUp, TypeOK

LEMMA ReturnType ==
  ASSUME TypeOK, NEW type \in Classes, Return(type)
  PROVE  token' \in Token /\ token_stream' \in Seq(Token) /\ phase' = "lexing"
<1>1. token' \in Token
  BY DEF Return, TypeOK, Token
<1> QED BY <1>1 DEF Return, Push, TypeOK

LEMMA MovesOnCharacters ==
  ASSUME CanMove PROVE peek # NUL /\ ScanningTable[<<current_state, peek>>] \in States
BY TablesAssumption DEF CanMove

-----------------------------------------------------------------------------
(* The conjuncts of the invariant, one step at a time. *)
LEMMA TypeStep ==
  ASSUME TypeOK, ScannerInv, Next
  PROVE  TypeOK'
<1>1. CASE StartToken
  <2>1. token' \in Token
    BY <1>1 DEF StartToken, TypeOK, Token
  <2> QED BY <1>1, <2>1, TablesAssumption DEF StartToken, TypeOK, scanner
<1>2. CASE Move
  <2>1. /\ peek \in Chars /\ peek # NUL
        /\ current_state' \in States
    BY <1>2, PeekType, MovesOnCharacters DEF Move
  <2>2. current_character' \in 0 .. Len(source) /\ current_line' \in Int /\ current_column' \in Int
    BY <1>2, <2>1, NextStep DEF Move
  <2> QED BY <1>2, <2>1, <2>2 DEF Move, TypeOK
<1>3. CASE Recognize
  <2>1. token' \in Token /\ token_stream' \in Seq(Token) /\ phase' = "lexing"
    BY <1>3, TypeOfIsClass, ReturnType DEF Recognize
  <2>2. DOMAIN token_table' \subseteq States /\ \A q \in DOMAIN token_table' : token_table'[q] \in Classes
    BY <1>3, TypeOfIsClass DEF Recognize
  <2> QED BY <1>3, <2>1, <2>2 DEF Recognize, TypeOK, scanner
<1>4. CASE Fail
  <2>1. token' \in Token /\ token_stream' \in Seq(Token) /\ phase' = "lexing"
    BY <1>4, TablesAssumption, ReturnType DEF Fail
  <2>2. current_character' \in 0 .. Len(source) /\ current_line' \in Int /\ current_column' \in Int
    BY <1>4, NextStep DEF Fail
  <2> QED BY <1>4, <2>1, <2>2 DEF Fail, TypeOK
<1>5. CASE Finish
  <2>1. "END_OF_FILE" \in Classes /\ <<>> \in Seq(Chars)
    BY TablesAssumption
  <2>2. token' \in Token
    BY <1>5, <2>1 DEF Finish, TypeOK, Token
  <2> QED BY <1>5, <2>2 DEF Finish, TypeOK, scanner
<1> QED BY <1>1, <1>2, <1>3, <1>4, <1>5 DEF Next

LEMMA ScannerStep ==
  ASSUME TypeOK, ScannerInv, Next
  PROVE  ScannerInv' /\ source' = source /\ current_character' >= current_character
<1>1. CASE Move \/ Fail
  <2>1. next /\ peek # NUL /\ UNCHANGED source
    BY <1>1, MovesOnCharacters DEF Move, Fail
  <2> QED BY <2>1, NextStep DEF TypeOK
<1>2. CASE StartToken \/ Recognize \/ Finish
  <2>1. UNCHANGED <<source, current_character, current_line, current_column>>
    BY <1>2 DEF StartToken, Recognize, Finish, scanner
  <2>2. current_character' >= current_character
    BY <2>1 DEF TypeOK
  <2> QED BY <2>1, <2>2 DEF ScannerInv, IsLocation
<1> QED BY <1>1, <1>2 DEF Next

LEMMA TokenStep ==
  ASSUME IInv, Next
  PROVE  TokenInv'
<1> USE DEF IInv
<1>1. CASE StartToken
  <2>1. /\ IsLocation(current_character, current_line, current_column)
        /\ token'.line = current_line /\ token'.column = current_column
    BY <1>1 DEF StartToken, ScannerInv, TypeOK, Token
  <2>2. current_character \in Nat /\ current_character <= Len(source) /\ Len(source) \in Nat
    BY DEF TypeOK
  <2>3. Reads(current_character, <<>>)
    BY <2>2 DEF Reads
  <2>4. StartsAt(current_character)' /\ current_character' = current_character
    BY <1>1, <2>1, <2>2, <2>3 DEF StartToken, StartsAt, IsLocation, Reads, scanner
  <2> QED BY <2>2, <2>4 DEF TokenInv
<1>2. CASE Move
  <2>1. PICK k \in 0 .. current_character : StartsAt(k)
    BY <1>2 DEF Move, TokenInv
  <2>2. /\ current_character' = current_character + 1
        /\ current_character < Len(source) /\ peek = source[current_character + 1]
        /\ read_characters' = Append(read_characters, peek)
        /\ UNCHANGED <<source, token>>
    BY <1>2, MovesOnCharacters, NextStep, PeekType DEF Move
  <2>3. /\ Len(read_characters) \in Nat /\ Len(read_characters') = Len(read_characters) + 1
        /\ read_characters'[Len(read_characters) + 1] = peek
        /\ \A j \in 1 .. Len(read_characters) : read_characters'[j] = read_characters[j]
    BY <2>2, PeekType DEF TypeOK
  <2>4. k \in Nat /\ current_character \in Nat /\ Len(source) \in Nat
    BY <2>1 DEF TypeOK
  <2>5. Reads(k, read_characters')
    <3>1. k + Len(read_characters') <= Len(source)
      BY <2>1, <2>2, <2>3, <2>4 DEF StartsAt
    <3>2. ASSUME NEW j \in 1 .. Len(read_characters')
          PROVE  source[k + j] = read_characters'[j]
      <4>1. CASE j \in 1 .. Len(read_characters)
        BY <2>1, <2>3, <4>1 DEF StartsAt, Reads
      <4>2. CASE j = Len(read_characters) + 1
        BY <2>1, <2>2, <2>3, <2>4, <4>2 DEF StartsAt
      <4> QED BY <2>3, <4>1, <4>2
    <3> QED BY <3>1, <3>2 DEF Reads
  <2>6. StartsAt(k)'
    BY <2>1, <2>2, <2>3, <2>4, <2>5 DEF StartsAt, Reads, IsLocation
  <2> QED BY <2>1, <2>2, <2>4, <2>6 DEF TokenInv
<1>3. CASE Recognize \/ Fail \/ Finish
  BY <1>3 DEF Recognize, Fail, Finish, Return, TokenInv
<1> QED BY <1>1, <1>2, <1>3 DEF Next

LEMMA StartStep ==
  ASSUME IInv, Next
  PROVE  StartInv'
<1>1. CASE StartToken
  BY <1>1 DEF StartToken, StartInv, peek, scanner
<1>2. CASE Move
  <2>1. read_characters' # <<>>
    BY <1>2 DEF Move, IInv, TypeOK
  <2> QED BY <2>1 DEF StartInv
<1>3. CASE Recognize \/ Fail \/ Finish
  BY <1>3 DEF Recognize, Fail, Finish, Return, StartInv
<1> QED BY <1>1, <1>2, <1>3 DEF Next

LEMMA TableStep ==
  ASSUME IInv, Next
  PROVE  TableInv'
<1> USE DEF IInv, TableInv
<1>1. CASE StartToken \/ Move \/ Fail
  BY <1>1 DEF StartToken, Move, Fail
<1>2. CASE Recognize
  <2>1. phase' = "lexing" /\ peek' = peek
    BY <1>2 DEF Recognize, Return, peek, scanner
  <2>2. 0 \notin DOMAIN token_table
    BY <1>2 DEF Recognize
  <2>3. CASE IsFinal
    BY <1>2, <2>2, <2>3 DEF Recognize, LookedUp, IsFinal
  <2> QED BY <1>2, <2>1, <2>3 DEF Recognize
<1>3. CASE Finish
  BY <1>3 DEF Finish, peek, scanner
<1> QED BY <1>1, <1>2, <1>3 DEF Next

(* A token stays where it is, and a new one is where it was started. *)
LEMMA PlacesStep ==
  ASSUME IInv, Next
  PROVE  TokensAreWhereTheySay'
<1> USE DEF IInv
<1>1. source' = source /\ current_character' >= current_character
  BY ScannerStep
<1>2. current_character \in Nat /\ current_character' \in Nat
  BY TypeStep DEF TypeOK
<1>3. TokensAreWhereTheySay' <=>
        \A n \in DOMAIN token_stream' :
          token_stream'[n].type # "END_OF_FILE" =>
            \E k \in 0 .. current_character' : IsAt(token_stream'[n], k)
  BY <1>1 DEF TokensAreWhereTheySay, IsAt, IsLocation, Reads
<1>4. \A n \in DOMAIN token_stream :
        token_stream[n].type # "END_OF_FILE" =>
          \E k \in 0 .. current_character' : IsAt(token_stream[n], k)
  BY <1>1, <1>2 DEF TokensAreWhereTheySay
<1>5. CASE token_stream' = token_stream
  BY <1>3, <1>4, <1>5
<1>6. CASE /\ token_stream' = Append(token_stream, token')
           /\ token'.type # "END_OF_FILE" => \E k \in 0 .. current_character' : IsAt(token', k)
  <2>1. token_stream \in Seq(Token)
    BY DEF TypeOK
  <2> QED BY <1>3, <1>4, <1>6, <2>1
<1>7. CASE StartToken \/ Move
  BY <1>5, <1>7 DEF StartToken, Move
<1>8. CASE Recognize \/ Fail
  <2>1. PICK k \in 0 .. current_character : StartsAt(k)
    BY <1>8 DEF Recognize, Fail, TokenInv
  <2>2. PICK type : Return(type)
    BY <1>8 DEF Recognize, Fail
  <2>3. token'.line = token.line /\ token'.column = token.column /\ token'.lexeme = read_characters
    BY <2>2 DEF Return, TypeOK, Token
  <2>4. IsAt(token', k)
    BY <2>1, <2>3 DEF StartsAt, IsAt
  <2>5. token_stream' = token_stream \/ token_stream' = Append(token_stream, token')
    BY <2>2 DEF Return, Push
  <2> QED BY <1>1, <1>2, <1>5, <1>6, <2>1, <2>4, <2>5
<1>9. CASE Finish
  BY <1>6, <1>9 DEF Finish, TypeOK, Token
<1> QED BY <1>7, <1>8, <1>9 DEF Next

(* The end of a scan is behind its beginning. *)
LEMMA ScanStep ==
  ASSUME IInv, Next, EndsScan
  PROVE  ~IsLocation(current_character', token.line, token.column)
<1> USE DEF IInv
<1>1. PICK k \in 0 .. current_character : StartsAt(k)
  BY DEF EndsScan, TokenInv
<1>2. current_character \in Nat /\ current_character' \in Nat /\ k \in Nat
  BY <1>1, TypeStep DEF TypeOK
<1>3. k < current_character'
  <2>1. CASE Recognize
    <3>1. read_characters # <<>>
      BY <2>1 DEF Recognize, IsFinal, StartInv, TableInv
    <3>2. Len(read_characters) \in Nat \ {0}
      BY <3>1 DEF TypeOK
    <3> QED BY <1>1, <1>2, <2>1, <3>2 DEF Recognize, scanner, StartsAt
  <2>2. CASE Fail
    BY <1>1, <1>2, <2>2, NextStep DEF Fail
  <2>3. CASE StartToken \/ Move \/ Finish
    BY <2>3 DEF StartToken, Move, Finish, EndsScan
  <2> QED BY <2>1, <2>2, <2>3 DEF Next
<1> QED BY <1>1, <1>2, <1>3, OnePlace DEF StartsAt

-----------------------------------------------------------------------------
LEMMA InitInv == Init => IInv
<1> SUFFICES ASSUME Init PROVE IInv
  OBVIOUS
<1>1. TypeOK
  <2>1. token \in Token
    BY TablesAssumption DEF Init, Token
  <2>2. source \in Seq(Chars) /\ Len(source) \in Nat
    BY TablesAssumption DEF Init
  <2> QED BY <2>1, <2>2, TablesAssumption DEF Init, TypeOK
<1>2. ScannerInv
  BY NoNewlineYet DEF Init, ScannerInv
<1>3. TokenInv /\ StartInv /\ TokensAreWhereTheySay
  BY DEF Init, TokenInv, StartInv, TokensAreWhereTheySay
<1>4. TableInv
  BY TablesAssumption DEF Init, TableInv
<1> QED BY <1>1, <1>2, <1>3, <1>4 DEF IInv

LEMMA InvStep == IInv /\ [Next]_vars => IInv'
<1>1. ASSUME IInv, Next PROVE IInv'
  BY <1>1, TypeStep, ScannerStep, TokenStep, StartStep, TableStep, PlacesStep DEF IInv
<1>2. ASSUME IInv, UNCHANGED vars PROVE IInv'
  <2>1. UNCHANGED <<phase, source, current_character, current_line, current_column, current_state,
                    read_characters, token, token_table, token_stream>>
    BY <1>2 DEF vars, scanner
  <2>2. TypeOK' /\ ScannerInv'
    BY <1>2, <2>1 DEF IInv, TypeOK, ScannerInv, IsLocation
  <2>3. TokenInv'
    <3>1. \A k : StartsAt(k)' = StartsAt(k)
      BY <2>1 DEF StartsAt, IsLocation, Reads
    <3> QED BY <1>2, <2>1, <3>1 DEF IInv, TokenInv
  <2>4. TokensAreWhereTheySay'
    <3>1. TokensAreWhereTheySay' <=>
            \A n \in DOMAIN token_stream :
              token_stream[n].type # "END_OF_FILE" =>
                \E k \in 0 .. current_character : IsAt(token_stream[n], k)
      BY <2>1 DEF TokensAreWhereTheySay, IsAt, IsLocation, Reads
    <3> QED BY <1>2, <3>1 DEF IInv, TokensAreWhereTheySay
  <2>5. StartInv' /\ TableInv'
    BY <1>2, <2>1 DEF IInv, StartInv, TableInv, peek
  <2> QED BY <2>2, <2>3, <2>4, <2>5 DEF IInv
<1> QED BY <1>1, <1>2

LEMMA Invariant == Spec => []IInv
<1> QED BY InitInv, InvStep, PTL DEF Spec

(***************************************************************************)
(* The scanner, the token and the tables of the lexer keep their types,    *)
(* whatever automaton it is given (lexer.cpp:150).                         *)
(***************************************************************************)
THEOREM TypeCorrect == Spec => []TypeOK
<1>1. IInv => TypeOK
  BY DEF IInv
<1> QED BY Invariant, <1>1, PTL

(***************************************************************************)
(* Every token is in the text at its line and column (lexer.cpp:179), also *)
(* behind characters that were skipped as errors.                          *)
(***************************************************************************)
THEOREM TokensInPlace == Spec => []TokensAreWhereTheySay
<1>1. IInv => TokensAreWhereTheySay
  BY DEF IInv
<1> QED BY Invariant, <1>1, PTL

(***************************************************************************)
(* scan_token always reads at least one character (lexer.cpp:183), for any *)
(* tables in which the first state is not final: lexing a file ends.       *)
(***************************************************************************)
THEOREM ScansAdvance == Spec => EveryScanAdvances
<1>1. IInv /\ [Next]_vars => [EndsScan => ~IsLocation(current_character', token.line, token.column)]_vars
  BY ScanStep
<1> QED BY Invariant, <1>1, PTL DEF Spec, EveryScanAdvances

-----------------------------------------------------------------------------
(* The states an automaton goes through on a word. *)
IsRun(f, word) ==
  /\ f \in [0 .. Len(word) -> States \union {Stuck}]
  /\ f[0] = 0
  /\ \A n \in 1 .. Len(word) : f[n] = Follow(f[n - 1], word[n])

LEMMA FollowType == ASSUME NEW q, NEW c PROVE Follow(q, c) \in States \union {Stuck}
BY TablesAssumption DEF Follow

LEMMA RunOfWord ==
  ASSUME NEW word \in Seq(Chars)
  PROVE  \E f : IsRun(f, word) /\ StateAfter(word) = f[Len(word)]
<1> DEFINE S == States \union {Stuck}
           G == [p \in Nat \X S |-> Follow(p[2], word[p[1]])]
           D(f) == [n \in 0 .. Len(word) |-> IF n = 0 THEN 0 ELSE Follow(f[n - 1], word[n])]
           run == CHOOSE f : f = D(f)
<1>1. Len(word) \in Nat /\ 0 \in S
  BY TablesAssumption
<1>2. \E h \in [Nat -> S] : h[0] = 0 /\ \A n \in Nat \ {0} : h[n] = Follow(h[n - 1], word[n])
  <2>1. G \in [Nat \X S -> S]
    BY FollowType
  <2>2. PICK h : Iterates(h, S, 0, G)
    <3> HIDE DEF G, S
    <3> QED BY <1>1, <2>1, Recursion
  <2>3. ASSUME NEW n \in Nat \ {0} PROVE h[n] = Follow(h[n - 1], word[n])
    <3>1. <<n, h[n - 1]>> \in Nat \X S
      <4> HIDE DEF S
      <4> QED BY <2>2 DEF Iterates
    <3>2. h[n] = G[<<n, h[n - 1]>>]
      <4> HIDE DEF G
      <4> QED BY <2>2 DEF Iterates
    <3> QED BY <3>1, <3>2
  <2> QED BY <2>2, <2>3 DEF Iterates
<1>3. PICK h \in [Nat -> S] : h[0] = 0 /\ \A n \in Nat \ {0} : h[n] = Follow(h[n - 1], word[n])
  BY <1>2
<1> DEFINE r == [n \in 0 .. Len(word) |-> h[n]]
<1>4. r = D(r)
  <2>1. \A n \in 0 .. Len(word) : h[n] = IF n = 0 THEN 0 ELSE Follow(r[n - 1], word[n])
    BY <1>1, <1>3
  <2> QED BY <2>1
<1>5. run = D(run)
  <2> HIDE DEF D, r
  <2> QED BY <1>4
<1>6. StateAfter(word) = run[Len(word)]
  BY DEF StateAfter
<1>7. IsRun(run, word)
  <2> HIDE DEF run
  <2>1. run[0] = 0 /\ \A n \in 1 .. Len(word) : run[n] = Follow(run[n - 1], word[n])
    BY <1>1, <1>5
  <2>2. \A n \in 0 .. Len(word) : run[n] \in S
    BY <1>1, <2>1, FollowType
  <2>3. run \in [0 .. Len(word) -> S]
    BY <1>5, <2>2
  <2> QED BY <2>1, <2>3 DEF IsRun
<1> QED BY <1>6, <1>7

Begins(u, v) == Len(u) <= Len(v) /\ \A n \in 1 .. Len(u) : v[n] = u[n]

(* A word that begins another goes through the same states. *)
LEMMA RunOfBeginning ==
  ASSUME NEW u \in Seq(Chars), NEW v \in Seq(Chars), Begins(u, v)
  PROVE  \E f : IsRun(f, v) /\ StateAfter(u) = f[Len(u)] /\ StateAfter(v) = f[Len(v)]
<1>1. PICK e : IsRun(e, u) /\ StateAfter(u) = e[Len(u)]
  BY RunOfWord
<1>2. PICK f : IsRun(f, v) /\ StateAfter(v) = f[Len(v)]
  BY RunOfWord
<1> DEFINE Same == {n \in Nat : n <= Len(u) => f[n] = e[n]}
<1>3. Len(u) \in Nat /\ Len(v) \in Nat /\ Len(u) <= Len(v)
  BY DEF Begins
<1>4. 0 \in Same
  BY <1>1, <1>2 DEF IsRun
<1>5. ASSUME NEW n \in Nat, n \in Same PROVE n + 1 \in Same
  <2> SUFFICES ASSUME n + 1 <= Len(u) PROVE f[n + 1] = e[n + 1]
    OBVIOUS
  <2>1. n + 1 \in 1 .. Len(u) /\ n + 1 \in 1 .. Len(v) /\ (n + 1) - 1 = n /\ f[n] = e[n]
    BY <1>3, <1>5
  <2>2. e[n + 1] = Follow(e[n], u[n + 1]) /\ f[n + 1] = Follow(f[n], v[n + 1]) /\ v[n + 1] = u[n + 1]
    BY <1>1, <1>2, <2>1 DEF IsRun, Begins
  <2> QED BY <2>1, <2>2
<1>6. Len(u) \in Same
  <2> HIDE DEF Same
  <2> QED BY <1>3, <1>4, <1>5, Induct
<1> QED BY <1>1, <1>2, <1>6

(* Where the automaton cannot go on with a word, it accepts no longer one. *)
LEMMA StuckBehind ==
  ASSUME NEW u \in Seq(Chars), NEW v \in Seq(Chars), Begins(u, v), Len(u) < Len(v),
         <<StateAfter(u), v[Len(u) + 1]>> \notin DOMAIN ScanningTable
  PROVE  StateAfter(v) = Stuck
<1>1. PICK f : IsRun(f, v) /\ StateAfter(u) = f[Len(u)] /\ StateAfter(v) = f[Len(v)]
  BY RunOfBeginning
<1>2. Len(u) \in Nat /\ Len(v) \in Nat
  OBVIOUS
<1>3. \A c : Follow(Stuck, c) = Stuck
  BY TablesAssumption, NoWayBackAssumption DEF Follow, Stuck
<1> DEFINE Behind == {n \in Nat : n > Len(u) /\ n <= Len(v) => f[n] = Stuck}
<1>4. 0 \in Behind
  BY <1>2
<1>5. ASSUME NEW n \in Nat, n \in Behind PROVE n + 1 \in Behind
  <2> SUFFICES ASSUME n + 1 > Len(u), n + 1 <= Len(v) PROVE f[n + 1] = Stuck
    OBVIOUS
  <2>1. n + 1 \in 1 .. Len(v) /\ (n + 1) - 1 = n
    BY <1>2
  <2>2. f[n + 1] = Follow(f[n], v[n + 1])
    BY <1>1, <2>1 DEF IsRun
  <2>3. n = Len(u) \/ f[n] = Stuck
    BY <1>2, <1>5
  <2> QED BY <1>1, <1>3, <2>2, <2>3 DEF Follow
<1>6. Len(v) \in Behind
  <2> HIDE DEF Behind
  <2> QED BY <1>2, <1>4, <1>5, Induct
<1> QED BY <1>1, <1>2, <1>6

(* Behind an accepted word the automaton accepts or is stuck. *)
LEMMA AcceptedBehind ==
  ASSUME NEW u \in Seq(Chars), NEW v \in Seq(Chars), Begins(u, v),
         StateAfter(u) \in DOMAIN TokenTable, StateAfter(v) # Stuck
  PROVE  StateAfter(v) \in DOMAIN TokenTable
<1>1. PICK f : IsRun(f, v) /\ StateAfter(u) = f[Len(u)] /\ StateAfter(v) = f[Len(v)]
  BY RunOfBeginning
<1>2. Len(u) \in Nat /\ Len(v) \in Nat /\ Len(u) <= Len(v)
  BY DEF Begins
<1>3. \A c : Follow(Stuck, c) = Stuck
  BY TablesAssumption, NoWayBackAssumption DEF Follow, Stuck
<1>4. \A q \in DOMAIN TokenTable : \A c : Follow(q, c) \in DOMAIN TokenTable \union {Stuck}
  BY NoWayBackAssumption DEF Follow
<1> DEFINE Fine == {n \in Nat : n >= Len(u) /\ n <= Len(v) => f[n] \in DOMAIN TokenTable \union {Stuck}}
<1>5. 0 \in Fine
  BY <1>1, <1>2
<1>6. ASSUME NEW n \in Nat, n \in Fine PROVE n + 1 \in Fine
  <2> SUFFICES ASSUME n + 1 >= Len(u), n + 1 <= Len(v) PROVE f[n + 1] \in DOMAIN TokenTable \union {Stuck}
    OBVIOUS
  <2>1. CASE n + 1 = Len(u)
    BY <1>1, <2>1
  <2>2. CASE n >= Len(u)
    <3>1. n + 1 \in 1 .. Len(v) /\ (n + 1) - 1 = n
      BY <1>2
    <3>2. f[n + 1] = Follow(f[n], v[n + 1])
      BY <1>1, <3>1 DEF IsRun
    <3>3. f[n] \in DOMAIN TokenTable \union {Stuck}
      BY <1>2, <1>6, <2>2
    <3> QED BY <1>3, <1>4, <3>2, <3>3
  <2> QED BY <1>2, <2>1, <2>2
<1>7. Len(v) \in Fine
  <2> HIDE DEF Fine
  <2> QED BY <1>2, <1>5, <1>6, Induct
<1> QED BY <1>1, <1>2, <1>7

LEMMA EmptyWord == StateAfter(<<>>) = 0
<1>1. <<>> \in Seq(Chars) /\ Len(<<>>) = 0
  OBVIOUS
<1>2. PICK f : IsRun(f, <<>>) /\ StateAfter(<<>>) = f[Len(<<>>)]
  BY <1>1, RunOfWord
<1> QED BY <1>1, <1>2 DEF IsRun

LEMMA LongerWord ==
  ASSUME NEW word \in Seq(Chars), NEW c \in Chars
  PROVE  StateAfter(Append(word, c)) = Follow(StateAfter(word), c)
<1> DEFINE v == Append(word, c)
<1>1. /\ v \in Seq(Chars) /\ Len(v) = Len(word) + 1 /\ v[Len(word) + 1] = c
      /\ \A n \in 1 .. Len(word) : v[n] = word[n]
      /\ Len(word) \in Nat
  OBVIOUS
<1> HIDE DEF v
<1>2. Begins(word, v)
  BY <1>1 DEF Begins
<1>3. PICK f : IsRun(f, v) /\ StateAfter(word) = f[Len(word)] /\ StateAfter(v) = f[Len(v)]
  BY <1>1, <1>2, RunOfBeginning
<1>4. f[Len(word) + 1] = Follow(f[(Len(word) + 1) - 1], v[Len(word) + 1])
  BY <1>1, <1>3 DEF IsRun
<1>5. (Len(word) + 1) - 1 = Len(word)
  BY <1>1
<1> QED BY <1>1, <1>3, <1>4, <1>5 DEF v

-----------------------------------------------------------------------------
(***************************************************************************)
(* Longest match.  The automaton is where the characters read so far take  *)
(* it, and while it scans, the final states are those of the table.        *)
(***************************************************************************)
MatchInv == phase = "scanning" => StateAfter(read_characters) = current_state

TablesKept ==
  /\ DOMAIN TokenTable \subseteq DOMAIN token_table
  /\ \A q \in DOMAIN TokenTable : token_table[q] = TokenTable[q]
  /\ DOMAIN token_table # DOMAIN TokenTable => phase # "scanning" /\ peek = NUL

(* The place of the last token can be found again from its line and column. *)
StartKnown == current_character > 0 => \E k \in 0 .. Len(source) : IsLocation(k, token.line, token.column)

MInv == MatchInv /\ TablesKept /\ StartKnown

LEMMA PlaceFound ==
  ASSUME source \in Seq(Chars), NEW t, NEW k \in 0 .. Len(source), IsLocation(k, t.line, t.column)
  PROVE  PlaceOf(t) = k
<1>1. Len(source) \in Nat
  OBVIOUS
<1>2. ASSUME NEW l \in 0 .. Len(source), IsLocation(l, t.line, t.column) PROVE l = k
  <2>1. k \in Nat /\ l \in Nat /\ (k < l \/ l < k \/ k = l)
    BY <1>1
  <2> QED BY <1>2, <2>1, OnePlace
<1> QED BY <1>2 DEF PlaceOf

LEMMA MatchStep ==
  ASSUME IInv, MatchInv, Next
  PROVE  MatchInv'
<1>1. CASE StartToken
  BY <1>1, EmptyWord DEF StartToken, MatchInv, StateAfter, Follow
<1>2. CASE Move
  <2>1. StateAfter(read_characters) = current_state
    BY <1>2 DEF Move, MatchInv
  <2>2. read_characters \in Seq(Chars) /\ peek \in Chars
    BY PeekType DEF IInv, TypeOK
  <2>3. StateAfter(Append(read_characters, peek)) = Follow(current_state, peek)
    BY <2>1, <2>2, LongerWord
  <2>4. StateAfter(read_characters') = current_state'
    BY <1>2, <2>3 DEF Move, CanMove, Follow
  <2>5. MatchInv'
    BY <2>4 DEF MatchInv, StateAfter, Follow
  <2> QED BY <2>5
<1>3. CASE Recognize \/ Fail \/ Finish
  BY <1>3 DEF Recognize, Fail, Finish, Return, MatchInv
<1> QED BY <1>1, <1>2, <1>3 DEF Next

LEMMA TablesStep ==
  ASSUME IInv, TablesKept, Next
  PROVE  TablesKept'
<1> USE DEF TablesKept
<1>1. CASE StartToken \/ Move \/ Fail
  BY <1>1 DEF StartToken, Move, Fail
<1>2. CASE Recognize
  <2>1. phase' = "lexing" /\ peek' = peek /\ phase = "scanning"
    BY <1>2 DEF Recognize, Return, peek, scanner
  <2>2. token_table' = LookedUp(current_state) /\ DOMAIN token_table = DOMAIN TokenTable
    BY <1>2, <2>1 DEF Recognize
  <2>3. /\ DOMAIN token_table' = DOMAIN token_table \union {current_state}
        /\ \A q \in DOMAIN TokenTable : token_table'[q] = TokenTable[q]
    BY <2>2 DEF LookedUp, TypeOfState
  <2>4. CASE IsFinal
    BY <2>1, <2>2, <2>3, <2>4 DEF IsFinal
  <2>5. CASE peek = NUL
    BY <2>1, <2>2, <2>3, <2>5
  <2> QED BY <1>2, <2>4, <2>5 DEF Recognize
<1>3. CASE Finish
  BY <1>3 DEF Finish, peek, scanner
<1> QED BY <1>1, <1>2, <1>3 DEF Next

LEMMA KnownStep ==
  ASSUME IInv, StartKnown, Next
  PROVE  StartKnown'
<1>1. source' = source /\ current_character \in Nat /\ Len(source) \in Nat /\ current_character <= Len(source)
  BY ScannerStep DEF IInv, TypeOK
<1>2. CASE StartToken
  <2>1. token'.line = current_line /\ token'.column = current_column /\ current_character' = current_character
    BY <1>2 DEF StartToken, IInv, TypeOK, Token, scanner
  <2>2. IsLocation(current_character, token'.line, token'.column)
    BY <2>1 DEF IInv, ScannerInv
  <2>3. IsLocation(current_character, token.line, token.column)'
    BY <1>1, <2>1, <2>2 DEF IsLocation
  <2>4. current_character \in 0 .. Len(source')
    BY <1>1
  <2> QED BY <2>1, <2>3, <2>4 DEF StartKnown
<1>3. CASE Move \/ Recognize \/ Fail \/ Finish
  <2>1. token'.line = token.line /\ token'.column = token.column
    BY <1>3 DEF Move, Recognize, Fail, Finish, Return, IInv, TypeOK, Token
  <2>2. CASE phase = "scanning"
    <3>1. PICK k \in 0 .. current_character : StartsAt(k)
      BY <2>2 DEF IInv, TokenInv
    <3>2. k \in 0 .. Len(source) /\ IsLocation(k, token.line, token.column)
      BY <1>1, <3>1 DEF StartsAt
    <3>3. IsLocation(k, token.line, token.column)'
      BY <1>1, <2>1, <3>2 DEF IsLocation
    <3> QED BY <1>1, <3>2, <3>3 DEF StartKnown
  <2>3. CASE phase # "scanning"
    <3>1. Finish /\ current_character' = current_character
      BY <1>3, <2>3 DEF Move, Recognize, Fail, Finish, scanner
    <3> QED BY <1>1, <2>1, <3>1 DEF StartKnown, IsLocation
  <2> QED BY <2>2, <2>3
<1> QED BY <1>2, <1>3 DEF Next

(* The words at a place are what the text has from there. *)
LEMMA WordAt ==
  ASSUME source \in Seq(Chars), NEW k \in 0 .. Len(source), NEW word \in WordsFrom(k)
  PROVE  /\ word \in Seq(Chars) /\ word # <<>>
         /\ k + Len(word) <= Len(source)
         /\ \A n \in 1 .. Len(word) : word[n] = source[k + n]
<1>1. PICK j \in k + 1 .. Len(source) : word = SubSeq(source, k + 1, j)
  BY DEF WordsFrom
<1>2. Len(source) \in Nat /\ k + 1 \in 1 .. Len(source) /\ j \in 1 .. Len(source) /\ k \in Nat
  BY <1>1
<1>3. Len(word) = j - k
  BY <1>1, <1>2
<1>4. \A n \in 1 .. Len(word) : word[n] = source[(k + 1) + n - 1] /\ (k + 1) + n - 1 = k + n
  BY <1>1, <1>2, <1>3
<1>5. word \in Seq(Chars)
  BY <1>1, <1>2
<1>6. word # <<>> /\ k + Len(word) <= Len(source)
  BY <1>2, <1>3
<1> QED BY <1>4, <1>5, <1>6

LEMMA TextIsWord ==
  ASSUME source \in Seq(Chars), NEW k \in Nat, NEW word \in Seq(Chars), word # <<>>, Reads(k, word)
  PROVE  word \in WordsFrom(k)
<1>1. /\ Len(word) \in Nat \ {0} /\ Len(source) \in Nat /\ k + Len(word) <= Len(source)
      /\ \A n \in 1 .. Len(word) : source[k + n] = word[n]
  BY DEF Reads
<1> DEFINE v == SubSeq(source, k + 1, k + Len(word))
<1>2. k + 1 \in 1 .. Len(source) /\ k + Len(word) \in k + 1 .. Len(source)
  BY <1>1
<1>3. v \in Seq(Chars) /\ Len(v) = Len(word) /\ \A n \in 1 .. Len(word) : v[n] = source[k + n]
  <2>1. Len(v) = (k + Len(word)) - (k + 1) + 1
    BY <1>1, <1>2
  <2>2. Len(v) = Len(word)
    BY <1>1, <2>1
  <2>3. \A n \in 1 .. Len(word) : v[n] = source[(k + 1) + n - 1] /\ (k + 1) + n - 1 = k + n
    BY <1>1, <1>2, <2>2
  <2>4. v \in Seq(Chars)
    BY <1>2
  <2> QED BY <2>2, <2>3, <2>4
<1> HIDE DEF v
<1>4. v = word
  BY <1>1, <1>3
<1> QED BY <1>2, <1>4 DEF WordsFrom, v

(* What LongestMatch says of one token. *)
IsLongest(t) ==
  LET accepted == {word \in WordsFrom(PlaceOf(t)) : Accepted(word)}
  IN  /\ t.type = "ERROR" => accepted = {}
      /\ t.type \notin {"ERROR", "END_OF_FILE"} =>
           /\ t.lexeme \in accepted
           /\ \A word \in accepted : Len(word) <= Len(t.lexeme)
           /\ t.type = ClassOf(t.lexeme)

(* Where the automaton cannot move, what it has read decides what is accepted. *)
LEMMA AcceptedHere ==
  ASSUME IInv, MInv, phase = "scanning", ~CanMove, NEW k \in 0 .. current_character, StartsAt(k)
  PROVE  /\ current_state \notin DOMAIN TokenTable => \A word \in WordsFrom(k) : ~Accepted(word)
         /\ current_state \in DOMAIN TokenTable =>
              /\ read_characters \in WordsFrom(k) /\ Accepted(read_characters)
              /\ \A word \in WordsFrom(k) : Accepted(word) => Len(word) <= Len(read_characters)
<1> DEFINE w == read_characters
<1>1. /\ source \in Seq(Chars) /\ w \in Seq(Chars) /\ Len(w) \in Nat /\ Len(source) \in Nat
      /\ current_character \in 0 .. Len(source) /\ k \in 0 .. Len(source)
      /\ current_character = k + Len(w) /\ Reads(k, w)
  BY DEF IInv, TypeOK, StartsAt
<1>2. StateAfter(w) = current_state /\ current_state \in States /\ Stuck \notin States
  BY NoWayBackAssumption DEF MInv, MatchInv, IInv, TypeOK, Stuck
<1>3. ASSUME NEW word \in WordsFrom(k), Len(word) > Len(w)
      PROVE  ~Accepted(word)
  <2>1. /\ word \in Seq(Chars) /\ Len(word) \in Nat /\ k + Len(word) <= Len(source)
        /\ \A n \in 1 .. Len(word) : word[n] = source[k + n]
    BY <1>1, WordAt
  <2>2. Begins(w, word)
    <3>1. \A n \in 1 .. Len(w) : n \in 1 .. Len(word) /\ source[k + n] = w[n]
      BY <1>1, <1>3, <2>1 DEF Reads
    <3> QED BY <1>1, <1>3, <2>1, <3>1 DEF Begins
  <2>3. word[Len(w) + 1] = peek
    <3>1. Len(w) + 1 \in 1 .. Len(word) /\ k + (Len(w) + 1) = current_character + 1 /\ current_character < Len(source)
      BY <1>1, <1>3, <2>1
    <3> QED BY <2>1, <3>1 DEF peek
  <2>4. StateAfter(word) = Stuck
    BY <1>1, <1>2, <1>3, <2>1, <2>2, <2>3, StuckBehind DEF CanMove
  <2> QED BY <1>2, <2>4, TablesAssumption DEF Accepted
<1>4. ASSUME NEW word \in WordsFrom(k), Len(word) <= Len(w), Accepted(word)
      PROVE  current_state \in DOMAIN TokenTable
  <2>1. /\ word \in Seq(Chars) /\ Len(word) \in Nat
        /\ \A n \in 1 .. Len(word) : word[n] = source[k + n]
    BY <1>1, WordAt
  <2>2. Begins(word, w)
    <3>1. \A n \in 1 .. Len(word) : n \in 1 .. Len(w) /\ source[k + n] = w[n]
      BY <1>1, <1>4, <2>1 DEF Reads
    <3> QED BY <1>4, <2>1, <3>1 DEF Begins
  <2> HIDE DEF w
  <2> QED BY <1>1, <1>2, <1>4, <2>1, <2>2, AcceptedBehind DEF Accepted
<1>5. ASSUME NEW word \in WordsFrom(k) PROVE Len(word) <= Len(w) \/ Len(word) > Len(w)
  <2>1. word \in Seq(Chars)
    BY <1>1, WordAt
  <2> QED BY <1>1, <2>1
<1>6. CASE current_state \in DOMAIN TokenTable
  <2>1. w # <<>>
    BY <1>2, <1>6, EmptyWord, TablesAssumption
  <2>2. w \in WordsFrom(k) /\ Accepted(w)
    BY <1>1, <1>2, <1>6, <2>1, TextIsWord DEF Accepted
  <2> QED BY <1>3, <1>5, <1>6, <2>2
<1>7. CASE current_state \notin DOMAIN TokenTable
  BY <1>3, <1>4, <1>5, <1>7
<1> QED BY <1>6, <1>7

(* The token that is returned is the longest word at its place. *)
LEMMA TokenIsLongest ==
  ASSUME IInv, MInv, Recognize \/ Fail
  PROVE  IsLongest(token')
<1>1. PICK k \in 0 .. current_character : StartsAt(k)
  BY DEF Recognize, Fail, IInv, TokenInv
<1>2. phase = "scanning" /\ ~CanMove /\ DOMAIN token_table = DOMAIN TokenTable
  BY DEF Recognize, Fail, MInv, TablesKept
<1>3. PlaceOf(token') = k /\ token'.lexeme = read_characters
  <2>1. PICK type : Return(type)
    BY DEF Recognize, Fail
  <2>2. token'.line = token.line /\ token'.column = token.column /\ token'.lexeme = read_characters
    BY <2>1 DEF Return, IInv, TypeOK, Token
  <2>3. source \in Seq(Chars) /\ k \in 0 .. Len(source)
    BY DEF IInv, TypeOK
  <2>4. IsLocation(k, token'.line, token'.column)
    BY <1>1, <2>2 DEF StartsAt
  <2> QED BY <2>2, <2>3, <2>4, PlaceFound
<1>4. CASE current_state \in DOMAIN TokenTable
  <2>1. Recognize
    BY <1>2, <1>4 DEF Fail, IsFinal
  <2>2. token'.type = TypeOf(current_state, read_characters)
    BY <2>1 DEF Recognize, Return, IInv, TypeOK, Token
  <2>3. TypeOfState(current_state) = TokenTable[current_state]
    BY <1>2, <1>4 DEF TypeOfState, MInv, TablesKept
  <2>4. StateAfter(read_characters) = current_state
    BY <1>2 DEF MInv, MatchInv
  <2>5. token'.type = ClassOf(token'.lexeme) /\ token'.type \notin {"ERROR", "END_OF_FILE"}
    BY <1>3, <1>4, <2>2, <2>3, <2>4, NoWayBackAssumption DEF TypeOf, ClassOf
  <2> QED BY <1>1, <1>2, <1>3, <1>4, <2>5, AcceptedHere DEF IsLongest
<1>5. CASE current_state \notin DOMAIN TokenTable
  <2>1. token'.type = "ERROR"
    <3>1. CASE Recognize
      <4>1. TypeOf(current_state, read_characters) = "ERROR"
        BY <1>2, <1>5 DEF TypeOf, TypeOfState
      <4> QED BY <3>1, <4>1 DEF Recognize, Return, IInv, TypeOK, Token
    <3>2. CASE Fail
      BY <3>2 DEF Fail, Return, IInv, TypeOK, Token
    <3> QED BY <3>1, <3>2
  <2> QED BY <1>1, <1>2, <1>3, <1>5, <2>1, AcceptedHere DEF IsLongest
<1> QED BY <1>4, <1>5

LEMMA LongestStep ==
  ASSUME IInv, MInv, LongestMatch, Next
  PROVE  LongestMatch'
<1>1. source' = source /\ token_stream \in Seq(Token)
  BY ScannerStep DEF IInv, TypeOK
<1>2. LongestMatch' <=> \A n \in DOMAIN token_stream' : IsLongest(token_stream'[n])
  BY <1>1 DEF LongestMatch, IsLongest, WordsFrom, PlaceOf, IsLocation, Accepted, ClassOf, StateAfter, Follow
<1>3. \A n \in DOMAIN token_stream : IsLongest(token_stream[n])
  BY DEF LongestMatch, IsLongest
<1>4. CASE StartToken \/ Move
  BY <1>2, <1>3, <1>4 DEF StartToken, Move
<1>5. ASSUME token_stream' = Append(token_stream, token'), IsLongest(token')
      PROVE  LongestMatch'
  BY <1>1, <1>2, <1>3, <1>5
<1>6. CASE Recognize \/ Fail
  <2>1. token_stream' = token_stream \/ token_stream' = Append(token_stream, token')
    BY <1>6 DEF Recognize, Fail, Return, Push
  <2> QED BY <1>2, <1>3, <1>5, <1>6, <2>1, TokenIsLongest
<1>7. CASE Finish
  <2>1. token'.type = "END_OF_FILE" /\ token_stream' = Append(token_stream, token')
    BY <1>7 DEF Finish, IInv, TypeOK, Token
  <2> QED BY <1>5, <2>1 DEF IsLongest
<1> QED BY <1>4, <1>6, <1>7 DEF Next

-----------------------------------------------------------------------------
(***************************************************************************)
(* Nothing is lost.  The characters before the token that is being scanned *)
(* are accounted for, and no token before it reaches further; but an error *)
(* at the end of the text also claims the character that is not there.     *)
(***************************************************************************)
IsWhiteState(q) == q \in DOMAIN TokenTable /\ TokenTable[q] = "WHITESPACE"

WhiteInv ==
  phase = "scanning" =>
    /\ current_state = 0 => read_characters = <<>>
    /\ IsWhiteState(current_state) => Len(read_characters) = 1

Takes(t, j) ==
  \/ j > PlaceOf(t) /\ j <= PlaceOf(t) + Len(t.lexeme)
  \/ t.type = "ERROR" /\ j = PlaceOf(t) + Len(t.lexeme) + 1

Accounted(j) ==
  \/ IsWhite(source[j]) /\ \A n \in DOMAIN token_stream : ~Takes(token_stream[n], j)
  \/ \E n \in DOMAIN token_stream : \A m \in DOMAIN token_stream : Takes(token_stream[m], j) <=> m = n

AllAccounted(b) == \A j \in 1 .. b : Accounted(j)
NoneTaken(b) == \A n \in DOMAIN token_stream : \A j \in Nat : j > b => ~Takes(token_stream[n], j)

ScanStart == current_character - Len(read_characters)

LostInv ==
  /\ phase = "scanning" => AllAccounted(ScanStart) /\ NoneTaken(ScanStart)
  /\ phase # "scanning" => AllAccounted(current_character) /\ (peek # NUL => NoneTaken(current_character))
  /\ phase = "done" => peek = NUL

LEMMA WhiteStep ==
  ASSUME IInv, WhiteInv, Next
  PROVE  WhiteInv'
<1>1. CASE StartToken
  BY <1>1, TablesAssumption DEF StartToken, WhiteInv, IsWhiteState
<1>2. CASE Move
  <2>1. <<current_state, peek>> \in DOMAIN ScanningTable /\ current_state' = ScanningTable[<<current_state, peek>>]
    BY <1>2 DEF Move, CanMove
  <2>2. current_state' # 0
    BY <2>1, NoWayBackAssumption
  <2>3. IsWhiteState(current_state') => current_state = 0
    BY <2>1, NoWayBackAssumption DEF IsWhiteState
  <2>4. read_characters = <<>> => Len(read_characters') = 1
    BY <1>2, PeekType DEF Move, IInv
  <2> QED BY <1>2, <2>2, <2>3, <2>4 DEF Move, WhiteInv, IsWhiteState
<1>3. CASE Recognize \/ Fail \/ Finish
  BY <1>3 DEF Recognize, Fail, Finish, Return, WhiteInv
<1> QED BY <1>1, <1>2, <1>3 DEF Next

(* Where the scan of a token ends, its place is known. *)
LEMMA ScanEnds ==
  ASSUME IInv, Recognize \/ Fail
  PROVE  /\ ScanStart \in 0 .. current_character /\ Len(read_characters) \in Nat
         /\ current_character = ScanStart + Len(read_characters)
         /\ Reads(ScanStart, read_characters)
         /\ PlaceOf(token') = ScanStart /\ token'.lexeme = read_characters
         /\ token_stream' = IF token'.type = "WHITESPACE" THEN token_stream ELSE Append(token_stream, token')
         /\ source' = source /\ phase' = "lexing"
<1>1. PICK k \in 0 .. current_character : StartsAt(k)
  BY DEF Recognize, Fail, IInv, TokenInv
<1>2. PICK type : Return(type)
  BY DEF Recognize, Fail
<1>3. token'.line = token.line /\ token'.column = token.column /\ token'.lexeme = read_characters
  BY <1>2 DEF Return, IInv, TypeOK, Token
<1>4. /\ source \in Seq(Chars) /\ k \in 0 .. Len(source) /\ k \in Nat /\ Len(read_characters) \in Nat
      /\ current_character \in Nat
  BY DEF IInv, TypeOK
<1>5. PlaceOf(token') = k
  BY <1>1, <1>3, <1>4, PlaceFound DEF StartsAt
<1>6. ScanStart = k /\ current_character = k + Len(read_characters)
  BY <1>1, <1>4 DEF ScanStart, StartsAt
<1> QED BY <1>1, <1>2, <1>3, <1>4, <1>5, <1>6 DEF StartsAt, Return, Push, Recognize, Fail

(* What the token claims that is returned. *)
LEMMA TokenTakes ==
  ASSUME IInv, Recognize \/ Fail, NEW j \in Nat
  PROVE  Takes(token', j) <=> \/ j > ScanStart /\ j <= current_character
                              \/ token'.type = "ERROR" /\ j = current_character + 1
<1>1. /\ ScanStart \in 0 .. current_character /\ Len(read_characters) \in Nat
      /\ current_character = ScanStart + Len(read_characters)
      /\ PlaceOf(token') = ScanStart /\ token'.lexeme = read_characters
  BY ScanEnds
<1> QED BY <1>1 DEF Takes

(* Accounted for before and behind the place where a token is appended. *)
LEMMA AccountedAfter ==
  ASSUME IInv, Next, NEW b \in Nat, NEW c \in Nat, b <= c, AllAccounted(b),
         \A n \in DOMAIN token_stream : \A j \in b + 1 .. c : ~Takes(token_stream[n], j),
         token_stream' = Append(token_stream, token'),
         \A j \in 1 .. c : Takes(token', j) <=> j > b
  PROVE  AllAccounted(c)'
<1>1. token_stream \in Seq(Token) /\ source' = source
  BY ScannerStep DEF IInv, TypeOK
<1> DEFINE new == Len(token_stream) + 1
<1>2. /\ DOMAIN token_stream' = DOMAIN token_stream \union {new} /\ new \notin DOMAIN token_stream
      /\ token_stream'[new] = token'
      /\ \A n \in DOMAIN token_stream : token_stream'[n] = token_stream[n]
  BY <1>1
<1> HIDE DEF new
<1>3. \A t, j : Takes(t, j)' <=> Takes(t', j)
  BY <1>1 DEF Takes, PlaceOf, IsLocation
<1>4. AllAccounted(c)' <=>
        \A j \in 1 .. c :
          \/ IsWhite(source[j]) /\ \A n \in DOMAIN token_stream' : ~Takes(token_stream'[n], j)
          \/ \E n \in DOMAIN token_stream' : \A m \in DOMAIN token_stream' : Takes(token_stream'[m], j) <=> m = n
  BY <1>1 DEF AllAccounted, Accounted, IsWhite, Accepted, StateAfter, Follow, Takes, PlaceOf, IsLocation
<1>5. ASSUME NEW j \in 1 .. c, j <= b
      PROVE  \/ IsWhite(source[j]) /\ \A n \in DOMAIN token_stream' : ~Takes(token_stream'[n], j)
             \/ \E n \in DOMAIN token_stream' : \A m \in DOMAIN token_stream' : Takes(token_stream'[m], j) <=> m = n
  <2>1. Accounted(j) /\ ~Takes(token', j)
    BY <1>5 DEF AllAccounted
  <2> QED BY <1>2, <2>1 DEF Accounted
<1>6. ASSUME NEW j \in 1 .. c, j > b
      PROVE  \E n \in DOMAIN token_stream' : \A m \in DOMAIN token_stream' : Takes(token_stream'[m], j) <=> m = n
  <2>1. Takes(token', j) /\ \A n \in DOMAIN token_stream : ~Takes(token_stream[n], j)
    BY <1>6
  <2> QED BY <1>2, <2>1
<1>7. \A j \in 1 .. c : j <= b \/ j > b
  OBVIOUS
<1> QED BY <1>4, <1>5, <1>6, <1>7

(* What the claims are depends on the text and on the tokens only. *)
LEMMA SameClaims ==
  ASSUME UNCHANGED <<source, token_stream>>, NEW b
  PROVE  /\ AllAccounted(b) => AllAccounted(b)'
         /\ NoneTaken(b) => NoneTaken(b)'
<1>1. source' = source /\ token_stream' = token_stream
  OBVIOUS
<1>2. \A j : Accounted(j)' <=> Accounted(j)
  BY <1>1 DEF Accounted, IsWhite, Accepted, StateAfter, Follow, Takes, PlaceOf, IsLocation
<1>3. \A t, j : Takes(t, j)' <=> Takes(t', j)
  BY <1>1 DEF Takes, PlaceOf, IsLocation
<1>4. NoneTaken(b)' <=> NoneTaken(b)
  BY <1>1 DEF NoneTaken, Takes, PlaceOf, IsLocation
<1> QED BY <1>2, <1>4 DEF AllAccounted

(* A white character is read by a scan of its own. *)
LEMMA WhiteIsAccounted ==
  ASSUME IInv, MInv, WhiteInv, Recognize \/ Fail, token'.type = "WHITESPACE",
         NoneTaken(ScanStart), AllAccounted(ScanStart)
  PROVE  AllAccounted(current_character) /\ NoneTaken(current_character) /\ Recognize
<1>1. Recognize
  BY DEF Fail, Return, IInv, TypeOK, Token
<1>2. /\ ScanStart \in 0 .. current_character /\ Len(read_characters) \in Nat
      /\ current_character = ScanStart + Len(read_characters) /\ current_character \in Nat
      /\ Reads(ScanStart, read_characters)
  BY ScanEnds DEF IInv, TypeOK
<1>3. TypeOf(current_state, read_characters) = "WHITESPACE"
  BY <1>1 DEF Recognize, Return, IInv, TypeOK, Token
<1>4. TypeOfState(current_state) = "WHITESPACE"
  BY <1>3, NoWayBackAssumption DEF TypeOf
<1>5. current_state \in DOMAIN TokenTable /\ TokenTable[current_state] = "WHITESPACE"
  BY <1>1, <1>4 DEF TypeOfState, MInv, TablesKept, Recognize
<1>6. Len(read_characters) = 1
  BY <1>1, <1>5 DEF WhiteInv, IsWhiteState, Recognize
<1>7. read_characters = <<source[current_character]>>
  <2>1. source[ScanStart + 1] = read_characters[1] /\ ScanStart + 1 = current_character
    BY <1>2, <1>6 DEF Reads
  <2> QED BY <1>6, <2>1 DEF IInv, TypeOK
<1>8. StateAfter(read_characters) = current_state
  BY <1>1 DEF MInv, MatchInv, Recognize
<1>9. IsWhite(source[current_character])
  BY <1>5, <1>7, <1>8 DEF IsWhite, Accepted
<1>10. \A n \in DOMAIN token_stream : ~Takes(token_stream[n], current_character)
  BY <1>2, <1>6 DEF NoneTaken
<1>11. \A j \in 1 .. current_character : j \in 1 .. ScanStart \/ j = current_character
  BY <1>2, <1>6
<1>12. AllAccounted(current_character)
  BY <1>9, <1>10, <1>11 DEF AllAccounted, Accounted
<1>13. \A j \in Nat : j > current_character => j > ScanStart
  BY <1>2
<1> QED BY <1>1, <1>12, <1>13 DEF NoneTaken

LEMMA LostStep ==
  ASSUME IInv, MInv, WhiteInv, LostInv, Next
  PROVE  LostInv'
<1>1. /\ source' = source /\ token_stream \in Seq(Token)
      /\ current_character \in Nat /\ Len(source) \in Nat /\ current_character <= Len(source)
      /\ read_characters \in Seq(Chars)
  BY ScannerStep DEF IInv, TypeOK
<1>2. PICK c : c = current_character'
  OBVIOUS
<1>3. c \in Nat
  BY <1>2, TypeStep DEF IInv, TypeOK
<1>4. (AllAccounted(c))' => (AllAccounted(current_character))'
  BY <1>2 DEF AllAccounted
<1>5. (NoneTaken(c))' => (NoneTaken(current_character))'
  BY <1>2 DEF NoneTaken
<1>6. CASE StartToken
  <2>1. /\ phase = "lexing" /\ peek # NUL /\ phase' = "scanning" /\ c = current_character
        /\ UNCHANGED <<source, token_stream>> /\ read_characters' = <<>>
    BY <1>2, <1>6 DEF StartToken, scanner
  <2>2. AllAccounted(c) /\ NoneTaken(c)
    BY <2>1 DEF LostInv
  <2>3. ScanStart' = c
    BY <1>1, <1>2, <2>1 DEF ScanStart
  <2>4. (AllAccounted(c))' /\ (NoneTaken(c))'
    BY <2>1, <2>2, SameClaims
  <2>5. (AllAccounted(ScanStart))' /\ (NoneTaken(ScanStart))'
    BY <2>3, <2>4 DEF AllAccounted, NoneTaken
  <2> QED BY <2>1, <2>5 DEF LostInv
<1>7. CASE Move
  <2>1. PICK b : b = ScanStart
    OBVIOUS
  <2>2. /\ phase = "scanning" /\ phase' = "scanning" /\ UNCHANGED <<source, token_stream>>
        /\ read_characters' = Append(read_characters, peek) /\ peek \in Chars
        /\ current_character' = current_character + 1
    BY <1>7, MovesOnCharacters, NextStep, PeekType DEF Move, IInv
  <2>3. ScanStart' = b
    <3>1. Len(read_characters') = Len(read_characters) + 1 /\ Len(read_characters) \in Nat
      BY <1>1, <2>2
    <3> QED BY <1>1, <2>1, <2>2, <3>1 DEF ScanStart
  <2>4. AllAccounted(b) /\ NoneTaken(b)
    BY <2>1, <2>2 DEF LostInv
  <2>5. (AllAccounted(b))' /\ (NoneTaken(b))'
    BY <2>2, <2>4, SameClaims
  <2>6. (AllAccounted(ScanStart))' /\ (NoneTaken(ScanStart))'
    BY <2>3, <2>5 DEF AllAccounted, NoneTaken
  <2> QED BY <2>2, <2>6 DEF LostInv
<1>8. CASE Recognize \/ Fail
  <2>1. PICK b : b = ScanStart
    OBVIOUS
  <2>2. /\ b \in 0 .. current_character /\ b \in Nat
        /\ token_stream' = IF token'.type = "WHITESPACE" THEN token_stream ELSE Append(token_stream, token')
        /\ phase' = "lexing"
    BY <1>8, <2>1, ScanEnds
  <2>3. AllAccounted(b) /\ NoneTaken(b)
    BY <1>8, <2>1 DEF LostInv, Recognize, Fail
  <2>4. CASE token'.type = "WHITESPACE"
    <3>1. Recognize /\ AllAccounted(current_character) /\ NoneTaken(current_character)
      BY <1>8, <2>1, <2>3, <2>4, WhiteIsAccounted DEF AllAccounted, NoneTaken
    <3>2. c = current_character
      BY <1>2, <3>1 DEF Recognize, scanner
    <3>3. AllAccounted(c) /\ NoneTaken(c)
      BY <3>1, <3>2
    <3>4. UNCHANGED <<source, token_stream>>
      BY <1>1, <2>2, <2>4
    <3>5. (AllAccounted(c))' /\ (NoneTaken(c))'
      BY <3>3, <3>4, SameClaims
    <3> QED BY <1>4, <1>5, <2>2, <3>5 DEF LostInv
  <2>5. CASE token'.type # "WHITESPACE"
    <3>1. \A j \in Nat : Takes(token', j) <=> \/ j > b /\ j <= current_character
                                              \/ token'.type = "ERROR" /\ j = current_character + 1
      BY <1>8, <2>1, TokenTakes
    <3>2. c = current_character \/ (Fail /\ c = current_character + 1 /\ token'.type = "ERROR")
      <4>1. CASE Recognize
        BY <1>2, <4>1 DEF Recognize, scanner
      <4>2. CASE Fail
        <5>1. token'.type = "ERROR"
          BY <4>2 DEF Fail, Return, IInv, TypeOK, Token
        <5>2. current_character' = current_character + 1
          BY <4>2, NextStep DEF Fail, IInv
        <5> QED BY <1>2, <4>2, <5>1, <5>2
      <4> QED BY <1>8, <4>1, <4>2
    <3>3. \A j \in 1 .. c : Takes(token', j) <=> j > b
      BY <1>1, <2>2, <3>1, <3>2
    <3>4. \A n \in DOMAIN token_stream : \A j \in b + 1 .. c : ~Takes(token_stream[n], j)
      BY <1>3, <2>2, <2>3 DEF NoneTaken
    <3>5. token_stream' = Append(token_stream, token') /\ b <= c
      BY <1>1, <2>2, <2>5, <3>2
    <3>6. (AllAccounted(c))'
      BY <1>3, <2>2, <2>3, <3>3, <3>4, <3>5, AccountedAfter
    <3>7. ASSUME peek' # NUL PROVE (NoneTaken(c))'
      <4>1. \A j \in Nat : j > c => ~Takes(token', j)
        <5>1. CASE Fail
          <6>1. c = current_character + 1
            BY <1>2, <5>1, NextStep DEF Fail, IInv
          <6> QED BY <1>1, <2>2, <3>1, <6>1
        <5>2. CASE Recognize
          <6>1. c = current_character /\ peek' = peek
            BY <1>2, <5>2 DEF Recognize, scanner, peek
          <6>2. IsFinal
            BY <3>7, <5>2, <6>1 DEF Recognize
          <6>3. token'.type = TypeOf(current_state, read_characters)
            BY <5>2 DEF Recognize, Return, IInv, TypeOK, Token
          <6>4. current_state \in DOMAIN TokenTable /\ TypeOfState(current_state) = TokenTable[current_state]
            BY <5>2, <6>2 DEF Recognize, IsFinal, TypeOfState, MInv, TablesKept
          <6>5. token'.type # "ERROR"
            BY <6>3, <6>4, NoWayBackAssumption DEF TypeOf
          <6> QED BY <1>1, <2>2, <3>1, <6>1, <6>5
        <5> QED BY <1>8, <5>1, <5>2
      <4>2. \A n \in DOMAIN token_stream : \A j \in Nat : j > c => ~Takes(token_stream[n], j)
        BY <1>3, <2>2, <2>3, <3>5 DEF NoneTaken
      <4>3. \A n \in DOMAIN token_stream' : \A j \in Nat : j > c => ~Takes(token_stream'[n], j)
        BY <1>1, <3>5, <4>1, <4>2
      <4> QED BY <1>1, <4>3 DEF NoneTaken, Takes, PlaceOf, IsLocation
    <3> QED BY <1>4, <1>5, <2>2, <3>6, <3>7 DEF LostInv
  <2> QED BY <2>4, <2>5
<1>9. CASE Finish
  <2>1. /\ phase = "lexing" /\ peek = NUL /\ peek' = NUL /\ phase' = "done" /\ c = current_character
        /\ token_stream' = Append(token_stream, token')
        /\ token'.type = "END_OF_FILE" /\ token'.lexeme = <<>>
        /\ token'.line = token.line /\ token'.column = token.column
    BY <1>2, <1>9 DEF Finish, scanner, peek, IInv, TypeOK, Token
  <2>2. ASSUME NEW j \in 1 .. c PROVE ~Takes(token', j)
    <3>1. PICK k \in 0 .. Len(source) : IsLocation(k, token.line, token.column)
      BY <1>1, <2>1, <2>2 DEF MInv, StartKnown
    <3>2. PlaceOf(token') = k
      BY <1>1, <2>1, <3>1, PlaceFound DEF IInv, TypeOK
    <3>3. Len(<<>>) = 0 /\ k \in Nat /\ j \in Nat
      BY <1>1, <1>3, <3>1
    <3> QED BY <2>1, <3>2, <3>3 DEF Takes
  <2>3. \A j \in 1 .. c : Takes(token', j) <=> j > c
    BY <1>3, <2>2
  <2>4. AllAccounted(c)
    BY <2>1 DEF LostInv
  <2>5. \A n \in DOMAIN token_stream : \A j \in c + 1 .. c : ~Takes(token_stream[n], j)
    BY <1>3
  <2>6. (AllAccounted(c))'
    BY <1>3, <2>1, <2>3, <2>4, <2>5, AccountedAfter
  <2> QED BY <1>4, <2>1, <2>6 DEF LostInv
<1> QED BY <1>6, <1>7, <1>8, <1>9 DEF Next

-----------------------------------------------------------------------------
(* What the runs check of the tokens, with all it rests on. *)
TokensInv == IInv /\ MInv /\ WhiteInv /\ LongestMatch /\ LostInv

LEMMA TokensInit == Init => TokensInv
<1> SUFFICES ASSUME Init PROVE TokensInv
  OBVIOUS
<1>1. IInv
  BY InitInv
<1>2. MInv /\ WhiteInv /\ LongestMatch
  BY DEF Init, MInv, MatchInv, TablesKept, StartKnown, WhiteInv, LongestMatch
<1>3. AllAccounted(current_character) /\ NoneTaken(current_character)
  BY DEF Init, AllAccounted, NoneTaken
<1>4. LostInv
  BY <1>3 DEF Init, LostInv
<1> QED BY <1>1, <1>2, <1>4 DEF TokensInv

LEMMA TokensStep == TokensInv /\ [Next]_vars => TokensInv'
<1>1. ASSUME TokensInv, Next PROVE TokensInv'
  <2>1. IInv'
    BY <1>1, InvStep DEF TokensInv
  <2>2. MInv'
    BY <1>1, MatchStep, TablesStep, KnownStep DEF TokensInv, MInv
  <2>3. WhiteInv' /\ LongestMatch' /\ LostInv'
    BY <1>1, WhiteStep, LongestStep, LostStep DEF TokensInv
  <2> QED BY <2>1, <2>2, <2>3 DEF TokensInv
<1>2. ASSUME TokensInv, UNCHANGED vars PROVE TokensInv'
  <2>1. UNCHANGED <<phase, source, current_character, current_line, current_column, current_state,
                    read_characters, token, token_table, token_stream>>
    BY <1>2 DEF vars, scanner
  <2>2. IInv'
    BY <1>2, InvStep DEF TokensInv
  <2>3. MInv'
    BY <1>2, <2>1 DEF TokensInv, MInv, MatchInv, TablesKept, StartKnown, StateAfter, Follow, IsLocation, peek
  <2>4. WhiteInv'
    BY <1>2, <2>1 DEF TokensInv, WhiteInv, IsWhiteState
  <2>5. LongestMatch'
    <3>1. LongestMatch' <=> \A n \in DOMAIN token_stream' : IsLongest(token_stream'[n])
      BY <2>1 DEF LongestMatch, IsLongest, WordsFrom, PlaceOf, IsLocation, Accepted, ClassOf, StateAfter, Follow
    <3>2. \A n \in DOMAIN token_stream : IsLongest(token_stream[n])
      BY <1>2 DEF TokensInv, LongestMatch, IsLongest
    <3> QED BY <2>1, <3>1, <3>2
  <2>6. LostInv'
    <3>1. PICK b, c : b = ScanStart /\ c = current_character
      OBVIOUS
    <3>2. ScanStart' = b /\ current_character' = c /\ phase' = phase /\ peek' = peek
      BY <2>1, <3>1 DEF ScanStart, peek
    <3>3. /\ phase = "scanning" => AllAccounted(b) /\ NoneTaken(b)
          /\ phase # "scanning" => AllAccounted(c) /\ (peek # NUL => NoneTaken(c))
          /\ phase = "done" => peek = NUL
      BY <1>2, <3>1 DEF TokensInv, LostInv
    <3>4. /\ phase = "scanning" => (AllAccounted(b))' /\ (NoneTaken(b))'
          /\ phase # "scanning" => (AllAccounted(c))' /\ (peek # NUL => (NoneTaken(c))')
      BY <2>1, <3>3, SameClaims
    <3>5. /\ phase' = "scanning" => (AllAccounted(ScanStart))' /\ (NoneTaken(ScanStart))'
          /\ phase' # "scanning" => (AllAccounted(current_character))' /\ (peek' # NUL => (NoneTaken(current_character))')
      BY <3>2, <3>4 DEF AllAccounted, NoneTaken
    <3> QED BY <3>2, <3>3, <3>5 DEF LostInv
  <2> QED BY <2>2, <2>3, <2>4, <2>5, <2>6 DEF TokensInv
<1> QED BY <1>1, <1>2

LEMMA TokensInvariant == Spec => []TokensInv
<1> QED BY TokensInit, TokensStep, PTL DEF Spec

(* A character that is accounted for has one claim, or none and is white. *)
LEMMA OneClaim ==
  ASSUME NEW claims, NEW white \in BOOLEAN,
         (white /\ claims = {}) \/ \E n : claims = {n}
  PROVE  Cardinality(claims) = (IF claims = {} /\ white THEN 0 ELSE 1)
<1>1. CASE claims = {}
  BY <1>1, FS_EmptySet
<1>2. CASE claims # {}
  BY <1>2, FS_Singleton
<1> QED BY <1>1, <1>2

LEMMA AccountedIsNotLost ==
  ASSUME LostInv
  PROVE  NothingIsLost
<1> DEFINE covers(t, j) == j > PlaceOf(t) /\ j <= PlaceOf(t) + Len(t.lexeme)
           skips(t, j) == t.type = "ERROR" /\ j = PlaceOf(t) + Len(t.lexeme) + 1
           claims(j) == {n \in DOMAIN token_stream : covers(token_stream[n], j) \/ skips(token_stream[n], j)}
<1>1. ASSUME phase # "scanning", NEW j \in 1 .. current_character
      PROVE  Cardinality(claims(j)) = (IF claims(j) = {} /\ IsWhite(source[j]) THEN 0 ELSE 1)
  <2>1. Accounted(j)
    BY <1>1 DEF LostInv, AllAccounted
  <2>2. claims(j) = {n \in DOMAIN token_stream : Takes(token_stream[n], j)}
    BY DEF Takes
  <2>3. (IsWhite(source[j]) /\ claims(j) = {}) \/ \E n : claims(j) = {n}
    <3> HIDE DEF claims
    <3>1. CASE IsWhite(source[j]) /\ \A n \in DOMAIN token_stream : ~Takes(token_stream[n], j)
      BY <2>2, <3>1
    <3>2. CASE \E n \in DOMAIN token_stream : \A m \in DOMAIN token_stream : Takes(token_stream[m], j) <=> m = n
      <4>1. PICK n \in DOMAIN token_stream : \A m \in DOMAIN token_stream : Takes(token_stream[m], j) <=> m = n
        BY <3>2
      <4>2. claims(j) = {n}
        BY <2>2, <4>1
      <4> QED BY <4>2
    <3> QED BY <2>1, <3>1, <3>2 DEF Accounted
  <2>4. IsWhite(source[j]) \in BOOLEAN
    BY DEF IsWhite
  <2> HIDE DEF claims
  <2> QED BY <2>3, <2>4, OneClaim
<1>2. phase = "done" => peek = NUL
  BY DEF LostInv
<1> QED BY <1>1, <1>2 DEF NothingIsLost

(***************************************************************************)
(* The lexer never goes back (lexer.cpp:183), and yet what it returns is   *)
(* the longest word the tables accept, and where it reports an error they  *)
(* accept none: for all tables without a way back, and every text.         *)
(***************************************************************************)
THEOREM TokensAreLongest == Spec => []LongestMatch
<1>1. TokensInv => LongestMatch
  BY DEF TokensInv
<1> QED BY TokensInvariant, <1>1, PTL

(***************************************************************************)
(* Each character that was read is in exactly one token, is white space or *)
(* is the one on which an error was reported (lexer.cpp:196), and lexing   *)
(* stops at the end or at a NUL: for all tables that skip white space one  *)
(* character at a time, and every text.                                    *)
(***************************************************************************)
THEOREM NothingLost == Spec => []NothingIsLost
<1>1. TokensInv => NothingIsLost
  BY AccountedIsNotLost DEF TokensInv
<1> QED BY TokensInvariant, <1>1, PTL

-----------------------------------------------------------------------------
(***************************************************************************)
(* With the two CSV tables, a word of the language is one token, whatever  *)
(* text it stands in and whatever words are reserved: nothing that is not  *)
(* part of a word leads into a state a letter leads out of, and in a word  *)
(* the automaton goes round in one state until the word ends.              *)
(***************************************************************************)
AreCsvTables == ScanningTable = CsvScanningTable /\ TokenTable = CsvTokenTable

(* The states a letter leads out of. *)
InWord == {0, 5, 16, 17, 18}

-----------------------------------------------------------------------------
(* The tables, row by row. *)
Says(q, c, r) ==
  /\ q = 0 /\ c \in FirstChars => r = 5
  /\ q = 5 => r = 5 /\ c \in WordChars
  /\ c \in Letters \union {"_"} => q \in InWord
  /\ c \notin WordChars => r \notin InWord

Good(row) == \A c \in row[2] : Says(row[1], c, row[3])

LEMMA WordRow ==
  ASSUME NEW q \in InWord, NEW chars, NEW r, chars \subseteq WordChars, q = 0 => chars \intersect FirstChars = {} \/ r = 5,
         q = 5 => r = 5
  PROVE  Good(<<q, chars, r>>)
<1>1. ASSUME NEW c \in chars PROVE Says(q, c, r)
  BY <1>1 DEF Says
<1> QED BY <1>1 DEF Good

LEMMA OtherRow ==
  ASSUME NEW q, NEW chars, NEW r, q # 5, r \notin InWord, chars \intersect (Letters \union {"_"}) = {}
  PROVE  Good(<<q, chars, r>>)
<1>1. ASSUME NEW c \in chars PROVE Says(q, c, r)
  BY <1>1 DEF Says, FirstChars, Letters
<1> QED BY <1>1 DEF Good

LEMMA RowsAreGood == \A row \in Rows(WordChars) : Good(row)
<1>1. /\ Good(<<0, FirstChars, 5>>) /\ Good(<<5, WordChars, 5>>)
      /\ Good(<<0, {"o"}, 16>>) /\ Good(<<16, {"d"}, 17>>) /\ Good(<<17, {"d"}, 18>>)
      /\ Good(<<16, {"a", "o"}, 5>>) /\ Good(<<17, {"a", "o"}, 5>>) /\ Good(<<18, Letters, 5>>)
  <2>1. /\ FirstChars \subseteq WordChars /\ {"o"} \subseteq WordChars /\ {"d"} \subseteq WordChars
        /\ {"a", "o"} \subseteq WordChars /\ Letters \subseteq WordChars /\ {"o"} \intersect FirstChars = {}
    BY DEF WordChars, Letters, FirstChars
  <2>2. 0 \in InWord /\ 5 \in InWord /\ 16 \in InWord /\ 17 \in InWord /\ 18 \in InWord
    BY DEF InWord
  <2> QED BY <2>1, <2>2, WordRow
<1> DEFINE Signs == {".", ":", "=", "<", ">", "#", "/", "*", "+", "-", "?", "!", ",", ";", "(", ")", "[", "]"}
           Outside == {1, 2, 3, 4, 6, 7, 8, 9, 10, 11, 12, 13, 14, 15, 19, 20, 23, 24, 25}
           Fits(q, chars, r) == q # 5 /\ r \in Outside /\ chars \subseteq Signs \union Digits \union Blank
<1>2. ASSUME NEW q, NEW chars, NEW r, Fits(q, chars, r) PROVE Good(<<q, chars, r>>)
  <2>1. r \notin InWord
    <3>1. r \in Outside
      BY <1>2
    <3> QED BY <3>1 DEF InWord
  <2>2. \A c \in Signs \union Digits \union Blank : c \notin Letters \union {"_"}
    BY DEF Letters, Digits, Blank
  <2> HIDE DEF Signs
  <2>3. chars \intersect (Letters \union {"_"}) = {}
    BY <1>2, <2>2
  <2> QED BY <1>2, <2>1, <2>3, OtherRow
<1>3. Fits(0, Digits, 14) /\ Fits(14, Digits, 14) /\ Fits(23, Digits, 23) /\ Fits(0, Blank, 15) /\ Fits(14, {"."}, 23)
  <2>1. \A chars \in {Digits, Blank, {"."}} : chars \subseteq Signs \union Digits \union Blank
    OBVIOUS
  <2>2. 14 \in Outside /\ 15 \in Outside /\ 23 \in Outside
    OBVIOUS
  <2> HIDE DEF Signs, Outside
  <2> QED BY <2>1, <2>2
<1>4. /\ Fits(0, {":"}, 7) /\ Fits(7, {"="}, 8) /\ Fits(0, {"<", ">"}, 9) /\ Fits(9, {"="}, 10)
      /\ Fits(0, {"#"}, 10) /\ Fits(0, {"="}, 11) /\ Fits(0, {"/", "*"}, 12) /\ Fits(0, {"+", "-"}, 13)
  OBVIOUS
<1>5. /\ Fits(0, {"."}, 1) /\ Fits(0, {"?"}, 2) /\ Fits(0, {"!"}, 3) /\ Fits(0, {","}, 4) /\ Fits(0, {";"}, 6)
  OBVIOUS
<1>6. Fits(0, {"("}, 19) /\ Fits(0, {")"}, 20) /\ Fits(0, {"["}, 24) /\ Fits(0, {"]"}, 25)
  OBVIOUS
<1> HIDE DEF Fits
<1>7. /\ Good(<<0, Digits, 14>>) /\ Good(<<14, Digits, 14>>) /\ Good(<<14, {"."}, 23>>) /\ Good(<<23, Digits, 23>>)
      /\ Good(<<0, {":"}, 7>>) /\ Good(<<7, {"="}, 8>>) /\ Good(<<0, {"<", ">"}, 9>>) /\ Good(<<9, {"="}, 10>>)
      /\ Good(<<0, {"#"}, 10>>) /\ Good(<<0, {"="}, 11>>) /\ Good(<<0, {"/", "*"}, 12>>) /\ Good(<<0, {"+", "-"}, 13>>)
  BY <1>2, <1>3, <1>4
<1>8. /\ Good(<<0, {"."}, 1>>) /\ Good(<<0, {"?"}, 2>>) /\ Good(<<0, {"!"}, 3>>) /\ Good(<<0, {","}, 4>>)
      /\ Good(<<0, {";"}, 6>>) /\ Good(<<0, Blank, 15>>)
      /\ Good(<<0, {"("}, 19>>) /\ Good(<<0, {")"}, 20>>) /\ Good(<<0, {"["}, 24>>) /\ Good(<<0, {"]"}, 25>>)
  BY <1>2, <1>3, <1>5, <1>6
<1> QED BY <1>1, <1>7, <1>8 DEF Rows

LEMMA TableSays ==
  ASSUME AreCsvTables
  PROVE  /\ \A c \in FirstChars : <<0, c>> \in DOMAIN ScanningTable
         /\ \A c \in WordChars : <<5, c>> \in DOMAIN ScanningTable
         /\ \A step \in DOMAIN ScanningTable :
              \E row \in Rows(WordChars) :
                step[1] = row[1] /\ step[2] \in row[2] /\ ScanningTable[step] = row[3]
<1> DEFINE rows == Rows(WordChars)
           steps(row) == {row[1]} \X row[2]
           Chosen(step) == CHOOSE row \in rows : step \in steps(row)
<1>1. ScanningTable = [step \in UNION {steps(row) : row \in rows} |-> Chosen(step)[3]]
  BY DEF AreCsvTables, CsvScanningTable, Table
<1>2. <<0, FirstChars, 5>> \in rows /\ <<5, WordChars, 5>> \in rows
  BY DEF Rows
<1> HIDE DEF rows
<1>3. ASSUME NEW row \in rows, NEW c \in row[2] PROVE <<row[1], c>> \in DOMAIN ScanningTable
  BY <1>1, <1>3
<1>4. ASSUME NEW c \in FirstChars PROVE <<0, c>> \in DOMAIN ScanningTable
  <2> DEFINE row == <<0, FirstChars, 5>>
  <2>1. row \in rows /\ row[1] = 0 /\ c \in row[2]
    BY <1>2
  <2> QED BY <1>3, <2>1
<1>5. ASSUME NEW c \in WordChars PROVE <<5, c>> \in DOMAIN ScanningTable
  <2> DEFINE row == <<5, WordChars, 5>>
  <2>1. row \in rows /\ row[1] = 5 /\ c \in row[2]
    BY <1>2
  <2> QED BY <1>3, <2>1
<1>6. ASSUME NEW step \in DOMAIN ScanningTable
      PROVE  \E row \in rows : step[1] = row[1] /\ step[2] \in row[2] /\ ScanningTable[step] = row[3]
  <2>1. \E row \in rows : step \in steps(row)
    BY <1>1
  <2>2. Chosen(step) \in rows /\ step \in steps(Chosen(step))
    BY <2>1
  <2>3. ScanningTable[step] = Chosen(step)[3]
    BY <1>1
  <2> HIDE DEF Chosen
  <2>4. step[1] = Chosen(step)[1] /\ step[2] \in Chosen(step)[2]
    BY <2>2
  <2> QED BY <2>2, <2>3, <2>4
<1> QED BY <1>4, <1>5, <1>6 DEF rows

(* The scanning table, as far as words go. *)
LEMMA Steps ==
  ASSUME AreCsvTables, NEW q, NEW c
  PROVE  /\ q = 0 /\ c \in FirstChars => Follow(q, c) = 5
         /\ q = 5 /\ c \in WordChars => Follow(q, c) = 5
         /\ <<q, c>> \in DOMAIN ScanningTable =>
              /\ q = 5 => c \in WordChars
              /\ c \in Letters \union {"_"} => q \in InWord
              /\ c \notin WordChars => Follow(q, c) \notin InWord
<1>1. ASSUME <<q, c>> \in DOMAIN ScanningTable
      PROVE  \E row \in Rows(WordChars) : q = row[1] /\ c \in row[2] /\ Follow(q, c) = row[3]
  <2> DEFINE step == <<q, c>>
  <2>1. step[1] = q /\ step[2] = c /\ Follow(q, c) = ScanningTable[step]
    BY <1>1 DEF Follow
  <2>2. PICK row \in Rows(WordChars) : step[1] = row[1] /\ step[2] \in row[2] /\ ScanningTable[step] = row[3]
    BY <1>1, TableSays
  <2> QED BY <2>1, <2>2
<1>2. ASSUME <<q, c>> \in DOMAIN ScanningTable
      PROVE  Says(q, c, Follow(q, c))
  BY <1>1, <1>2, RowsAreGood DEF Good
<1>3. ASSUME <<q, c>> \in DOMAIN ScanningTable
      PROVE  /\ q = 0 /\ c \in FirstChars => Follow(q, c) = 5
             /\ q = 5 => Follow(q, c) = 5 /\ c \in WordChars
             /\ c \in Letters \union {"_"} => q \in InWord
             /\ c \notin WordChars => Follow(q, c) \notin InWord
  BY <1>2, <1>3 DEF Says
<1>4. /\ q = 0 /\ c \in FirstChars => <<q, c>> \in DOMAIN ScanningTable
      /\ q = 5 /\ c \in WordChars => <<q, c>> \in DOMAIN ScanningTable
  BY TableSays
<1> QED BY <1>3, <1>4

LEMMA WordsAreFinal ==
  ASSUME AreCsvTables
  PROVE  5 \in DOMAIN TokenTable /\ TokenTable[5] = "IDENTIFIER"
<1> DEFINE Row(q) == CHOOSE row \in FinalRows : row[1] = q
<1>1. TokenTable = [q \in {row[1] : row \in FinalRows} |-> Row(q)[2]]
  BY DEF AreCsvTables, CsvTokenTable
<1>2. <<5, "IDENTIFIER">> \in FinalRows
  BY DEF FinalRows
<1>3. \A row \in FinalRows : row[1] = 5 => row[2] = "IDENTIFIER"
  BY DEF FinalRows
<1>4. 5 \in {row[1] : row \in FinalRows}
  BY <1>2
<1>5. Row(5) \in FinalRows /\ Row(5)[1] = 5
  BY <1>2
<1> HIDE DEF Row
<1> QED BY <1>1, <1>3, <1>4, <1>5

-----------------------------------------------------------------------------
(* The automaton on a word. *)
LEMMA WordsRound ==
  ASSUME AreCsvTables, NEW word \in Seq(Chars), word # <<>>, word[1] \in FirstChars,
         \A n \in 1 .. Len(word) : word[n] \in WordChars
  PROVE  StateAfter(word) = 5 /\ Accepted(word)
<1>1. PICK f : IsRun(f, word) /\ StateAfter(word) = f[Len(word)]
  BY RunOfWord
<1>2. Len(word) \in Nat /\ Len(word) > 0
  OBVIOUS
<1> DEFINE Round == {n \in Nat : n + 1 <= Len(word) => f[n + 1] = 5}
<1>3. 0 \in Round
  <2>1. 1 \in 1 .. Len(word) /\ 1 - 1 = 0
    BY <1>2
  <2>2. f[1] = Follow(f[0], word[1]) /\ f[0] = 0
    BY <1>1, <2>1 DEF IsRun
  <2>3. f[1] = 5
    BY <2>2, Steps
  <2> QED BY <2>3
<1>4. ASSUME NEW n \in Nat, n \in Round PROVE n + 1 \in Round
  <2> SUFFICES ASSUME (n + 1) + 1 <= Len(word) PROVE f[(n + 1) + 1] = 5
    OBVIOUS
  <2>1. (n + 1) + 1 \in 1 .. Len(word) /\ ((n + 1) + 1) - 1 = n + 1 /\ n + 1 <= Len(word)
    BY <1>2
  <2>2. f[(n + 1) + 1] = Follow(f[n + 1], word[(n + 1) + 1]) /\ f[n + 1] = 5
    BY <1>1, <1>4, <2>1 DEF IsRun
  <2> QED BY <2>1, <2>2, Steps
<1>5. Len(word) - 1 \in Nat /\ (Len(word) - 1) + 1 = Len(word)
  BY <1>2
<1>6. Len(word) - 1 \in Round
  <2> HIDE DEF Round
  <2> QED BY <1>3, <1>4, <1>5, Induct
<1>7. f[Len(word)] = 5
  BY <1>2, <1>3, <1>5, <1>6
<1> QED BY <1>1, <1>7, WordsAreFinal DEF Accepted

(* On an accepted word there is always a step to take. *)
LEMMA GoesOn ==
  ASSUME NEW word \in Seq(Chars), Accepted(word), NEW n \in 0 .. Len(word) - 1
  PROVE  LET u == SubSeq(word, 1, n)
         IN  /\ <<StateAfter(u), word[n + 1]>> \in DOMAIN ScanningTable
             /\ StateAfter(SubSeq(word, 1, n + 1)) = Follow(StateAfter(u), word[n + 1])
<1> DEFINE u == SubSeq(word, 1, n)
           v == SubSeq(word, 1, n + 1)
<1>1. Len(word) \in Nat /\ n \in Nat /\ n + 1 \in 1 .. Len(word) /\ word[n + 1] \in Chars
  OBVIOUS
<1>2. u \in Seq(Chars) /\ Len(u) = n /\ \A k \in 1 .. n : u[k] = word[k]
  BY <1>1
<1>3. v \in Seq(Chars) /\ Len(v) = n + 1 /\ \A k \in 1 .. n + 1 : v[k] = word[k]
  BY <1>1
<1> HIDE DEF u, v
<1>4. v = Append(u, word[n + 1])
  <2>1. /\ Append(u, word[n + 1]) \in Seq(Chars) /\ Len(Append(u, word[n + 1])) = n + 1
        /\ \A k \in 1 .. n + 1 : Append(u, word[n + 1])[k] = word[k]
    BY <1>1, <1>2
  <2> QED BY <1>1, <1>3, <2>1
<1>5. Begins(u, word) /\ Len(u) < Len(word)
  BY <1>1, <1>2 DEF Begins
<1>6. StateAfter(word) # Stuck
  BY NoWayBackAssumption, TablesAssumption DEF Accepted, Stuck
<1>7. <<StateAfter(u), word[n + 1]>> \in DOMAIN ScanningTable
  BY <1>2, <1>5, <1>6, StuckBehind
<1> QED BY <1>1, <1>2, <1>4, <1>7, LongerWord DEF u, v

-----------------------------------------------------------------------------
(***************************************************************************)
(* Only the end of the file is returned as such, when the lexer is done;   *)
(* it has no characters, and the place of the token before it.             *)
(***************************************************************************)
IsEnd(t) == t.lexeme = <<>> /\ (current_character > 0 => PlaceOf(t) \in 0 .. Len(source))

EndInv ==
  \A n \in DOMAIN token_stream :
    token_stream[n].type = "END_OF_FILE" => phase = "done" /\ IsEnd(token_stream[n])

LEMMA EndStep ==
  ASSUME IInv, MInv, EndInv, Next
  PROVE  EndInv'
<1>1. token_stream \in Seq(Token) /\ phase # "done"
  BY DEF IInv, TypeOK, Next, StartToken, Move, Recognize, Fail, Finish
<1>2. \A n \in DOMAIN token_stream : token_stream[n].type # "END_OF_FILE"
  BY <1>1 DEF EndInv
<1>3. CASE StartToken \/ Move
  BY <1>2, <1>3 DEF StartToken, Move, EndInv
<1>4. CASE Recognize \/ Fail
  <2>1. token_stream' = token_stream \/ token_stream' = Append(token_stream, token')
    BY <1>4 DEF Recognize, Fail, Return, Push
  <2>2. token'.type # "END_OF_FILE"
    <3>1. CASE Recognize
      <4>1. token'.type = TypeOf(current_state, read_characters)
        BY <3>1 DEF Recognize, Return, IInv, TypeOK, Token
      <4>2. DOMAIN token_table = DOMAIN TokenTable /\ \A q \in DOMAIN TokenTable : token_table[q] = TokenTable[q]
        BY <3>1 DEF Recognize, MInv, TablesKept
      <4>3. TypeOfState(current_state) # "END_OF_FILE"
        BY <4>2, NoWayBackAssumption DEF TypeOfState
      <4> QED BY <4>1, <4>3, NoWayBackAssumption DEF TypeOf
    <3>2. CASE Fail
      BY <3>2 DEF Fail, Return, IInv, TypeOK, Token
    <3> QED BY <1>4, <3>1, <3>2
  <2>3. \A n \in DOMAIN token_stream' : token_stream'[n].type # "END_OF_FILE"
    BY <1>1, <1>2, <2>1, <2>2
  <2> QED BY <2>3 DEF EndInv
<1>5. CASE Finish
  <2>1. token'.lexeme = <<>> /\ token'.line = token.line /\ token'.column = token.column
    BY <1>5 DEF Finish, IInv, TypeOK, Token
  <2>2. source' = source /\ current_character' = current_character /\ source \in Seq(Chars)
    BY <1>5 DEF Finish, scanner, IInv, TypeOK
  <2>3. ASSUME current_character > 0 PROVE PlaceOf(token') \in 0 .. Len(source)
    <3>1. PICK k \in 0 .. Len(source) : IsLocation(k, token'.line, token'.column)
      BY <2>1, <2>3 DEF MInv, StartKnown
    <3>2. PlaceOf(token') = k
      BY <2>2, <3>1, PlaceFound
    <3> QED BY <3>2
  <2>4. IsEnd(token')
    BY <2>1, <2>3 DEF IsEnd
  <2>5. phase' = "done" /\ token_stream' = Append(token_stream, token')
    BY <1>5 DEF Finish
  <2>6. ASSUME NEW n \in DOMAIN token_stream', token_stream'[n].type = "END_OF_FILE"
        PROVE  IsEnd(token_stream'[n])
    BY <1>1, <1>2, <2>4, <2>5, <2>6
  <2>7. EndInv' <=> \A n \in DOMAIN token_stream' :
                      token_stream'[n].type = "END_OF_FILE" => phase' = "done" /\ IsEnd(token_stream'[n])
    BY <2>2 DEF EndInv, IsEnd, PlaceOf, IsLocation
  <2> QED BY <2>5, <2>6, <2>7
<1> QED BY <1>3, <1>4, <1>5 DEF Next

-----------------------------------------------------------------------------
(* A token is where its place is found again, and is accepted there. *)
LEMMA TokenIsThere ==
  ASSUME TokensInv, NEW n \in DOMAIN token_stream, token_stream[n].type \notin {"ERROR", "END_OF_FILE"}
  PROVE  LET t == token_stream[n]
         IN  /\ PlaceOf(t) \in 0 .. Len(source) /\ t.lexeme \in Seq(Chars) /\ t.lexeme # <<>>
             /\ Reads(PlaceOf(t), t.lexeme) /\ Accepted(t.lexeme) /\ t.type = ClassOf(t.lexeme)
             /\ \A word \in WordsFrom(PlaceOf(t)) : Accepted(word) => Len(word) <= Len(t.lexeme)
<1> DEFINE t == token_stream[n]
<1>1. source \in Seq(Chars) /\ current_character \in 0 .. Len(source) /\ token_stream \in Seq(Token)
  BY DEF TokensInv, IInv, TypeOK
<1>2. t \in Token
  BY <1>1
<1>3. PICK k \in 0 .. current_character : IsAt(t, k)
  BY DEF TokensInv, IInv, TokensAreWhereTheySay
<1>4. k \in 0 .. Len(source)
  BY <1>1
<1>5. PlaceOf(t) = k
  BY <1>1, <1>3, <1>4, PlaceFound DEF IsAt
<1>6. IsLongest(t)
  BY DEF TokensInv, LongestMatch, IsLongest
<1> HIDE DEF t
<1>7. t.lexeme \in Seq(Chars)
  BY <1>2 DEF Token
<1>8. Accepted(t.lexeme) /\ t.type = ClassOf(t.lexeme)
  BY <1>6 DEF IsLongest, t
<1>9. \A word \in WordsFrom(PlaceOf(t)) : Accepted(word) => Len(word) <= Len(t.lexeme)
  BY <1>6 DEF IsLongest, t
<1> QED BY <1>3, <1>4, <1>5, <1>7, <1>8, <1>9 DEF IsAt, Accepted, t

(* What a word is made of, and that the automaton accepts it. *)
LEMMA WordIsAccepted ==
  ASSUME AreCsvTables, source \in Seq(Chars), NEW k \in 0 .. Len(source), NEW word \in WordsFrom(k),
         IsWordAt(k, word), Head(word) # "o"
  PROVE  /\ word[1] \in FirstChars /\ \A n \in 1 .. Len(word) : word[n] \in WordChars
         /\ Accepted(word) /\ StateAfter(word) = 5
<1>1. word \in Seq(Chars) /\ word # <<>> /\ Len(word) \in Nat /\ 1 \in 1 .. Len(word)
  BY WordAt
<1>2. \A n \in 1 .. Len(word) : word[n] \in WordChars
  BY <1>1 DEF IsWordAt, ToSet
<1>3. word[1] \notin Digits /\ word[1] # "o"
  BY <1>1 DEF IsWordAt
<1>4. word[1] \in FirstChars
  BY <1>1, <1>2, <1>3 DEF WordChars, Letters, FirstChars
<1> QED BY <1>1, <1>2, <1>4, WordsRound

(* No token goes on from what is not part of a word into a word. *)
LEMMA NoneReachesIn ==
  ASSUME AreCsvTables, NEW lexeme \in Seq(Chars), Accepted(lexeme), NEW m \in 1 .. Len(lexeme) - 1,
         lexeme[m] \notin WordChars, lexeme[m + 1] \in FirstChars
  PROVE  FALSE
<1> DEFINE before == StateAfter(SubSeq(lexeme, 1, m - 1))
           between == StateAfter(SubSeq(lexeme, 1, m))
<1>1. m - 1 \in 0 .. Len(lexeme) - 1 /\ m \in 0 .. Len(lexeme) - 1 /\ (m - 1) + 1 = m
  OBVIOUS
<1>2. <<before, lexeme[m]>> \in DOMAIN ScanningTable /\ between = Follow(before, lexeme[m])
  BY <1>1, GoesOn
<1>3. <<between, lexeme[m + 1]>> \in DOMAIN ScanningTable
  BY <1>1, GoesOn
<1> HIDE DEF before, between
<1>4. between \notin InWord
  BY <1>2, Steps
<1>5. lexeme[m + 1] \in Letters \union {"_"}
  BY DEF FirstChars, Letters
<1> QED BY <1>3, <1>4, <1>5, Steps

LEMMA WordsStay ==
  ASSUME AreCsvTables, TokensInv, EndInv
  PROVE  WordsAreOneToken
<1> SUFFICES ASSUME phase = "done", \A n \in DOMAIN token_stream : token_stream[n].type # "ERROR",
                    NEW k \in 0 .. current_character - 1, NEW word \in WordsFrom(k),
                    IsWordAt(k, word), Head(word) # "o", k + Len(word) <= current_character
             PROVE  IsToken(k, word)
  BY DEF WordsAreOneToken
<1>1. /\ source \in Seq(Chars) /\ current_character \in 0 .. Len(source) /\ Len(source) \in Nat
      /\ k \in 0 .. Len(source) /\ k \in Nat /\ k + 1 \in 1 .. current_character
  BY DEF TokensInv, IInv, TypeOK
<1>2. /\ word \in Seq(Chars) /\ word # <<>> /\ Len(word) \in Nat /\ Len(word) > 0 /\ k + Len(word) <= Len(source)
      /\ \A n \in 1 .. Len(word) : word[n] = source[k + n]
  BY <1>1, WordAt
<1>3. /\ word[1] \in FirstChars /\ \A n \in 1 .. Len(word) : word[n] \in WordChars
      /\ Accepted(word) /\ StateAfter(word) = 5
  BY <1>1, WordIsAccepted
<1>4. source[k + 1] \in FirstChars
  BY <1>2, <1>3
<1>5. ~IsWhite(source[k + 1])
  <2> DEFINE c == source[k + 1]
  <2> DEFINE v == <<c>>
  <2>1. c \in Chars /\ c \in WordChars
    <3>1. k + 1 \in 1 .. Len(source)
      BY <1>1
    <3>2. c \in Chars
      BY <1>1, <3>1
    <3> QED BY <1>4, <3>2 DEF FirstChars, WordChars, Letters
  <2>2. c \in FirstChars
    BY <1>4
  <2> HIDE DEF c
  <2>3. v \in Seq(Chars) /\ v # <<>> /\ v[1] = c /\ \A m \in 1 .. Len(v) : v[m] = c
    BY <2>1
  <2>4. StateAfter(v) = 5
    <3> HIDE DEF v
    <3> QED BY <2>1, <2>2, <2>3, WordsRound
  <2> QED BY <2>4, WordsAreFinal DEF IsWhite, c
<1>6. PICK n \in DOMAIN token_stream : Takes(token_stream[n], k + 1)
  <2>1. Accounted(k + 1)
    BY <1>1 DEF TokensInv, LostInv, AllAccounted
  <2> QED BY <1>5, <2>1 DEF Accounted
<1> DEFINE t == token_stream[n]
           P == PlaceOf(t)
           lexeme == t.lexeme
<1>7. t.type \notin {"ERROR", "END_OF_FILE"}
  <2>1. t.type # "ERROR" /\ k + 1 > P /\ k + 1 <= P + Len(lexeme)
    BY <1>6 DEF Takes
  <2>2. ASSUME t.type = "END_OF_FILE" PROVE FALSE
    <3>1. lexeme = <<>> /\ P \in 0 .. Len(source)
      BY <1>1, <2>2 DEF EndInv, IsEnd
    <3> HIDE DEF t, P, lexeme
    <3> QED BY <1>1, <2>1, <3>1
  <2> QED BY <2>1, <2>2
<1>8. /\ P \in 0 .. Len(source) /\ lexeme \in Seq(Chars) /\ Len(lexeme) \in Nat
      /\ Reads(P, lexeme) /\ Accepted(lexeme) /\ t.type = ClassOf(lexeme)
      /\ \A v \in WordsFrom(P) : Accepted(v) => Len(v) <= Len(lexeme)
  BY <1>7, TokenIsThere
<1>9. k + 1 > P /\ k + 1 <= P + Len(lexeme)
  BY <1>6, <1>7 DEF Takes
<1> HIDE DEF t, P, lexeme
<1>10. P + Len(lexeme) <= Len(source) /\ \A j \in 1 .. Len(lexeme) : source[P + j] = lexeme[j]
  BY <1>8 DEF Reads
<1>11. P = k
  <2> SUFFICES ASSUME P # k PROVE FALSE
    OBVIOUS
  <2> DEFINE m == k - P
  <2> DEFINE L == Len(lexeme)
  <2>1. /\ m \in 1 .. Len(lexeme) - 1 /\ m \in 1 .. Len(lexeme) /\ m + 1 \in 1 .. Len(lexeme)
        /\ P + m = k /\ P + (m + 1) = k + 1 /\ k # 0
    <3>1. P \in Nat /\ L \in Nat /\ k \in Nat /\ k + 1 > P /\ k + 1 <= P + L
      BY <1>1, <1>8, <1>9
    <3> HIDE DEF L
    <3>2. /\ m \in 1 .. L - 1 /\ m \in 1 .. L /\ m + 1 \in 1 .. L
          /\ P + m = k /\ P + (m + 1) = k + 1 /\ k # 0
      BY <3>1
    <3> QED BY <3>2 DEF L
  <2>2. lexeme[m] = source[k] /\ lexeme[m + 1] = source[k + 1]
    BY <1>10, <2>1
  <2>3. source[k] \notin WordChars
    BY <2>1 DEF IsWordAt
  <2> HIDE DEF m
  <2> QED BY <1>4, <1>8, <2>1, <2>2, <2>3, NoneReachesIn
<1>12. Len(word) <= Len(lexeme)
  BY <1>3, <1>8, <1>11
<1>13. \A j \in 1 .. Len(word) : lexeme[j] = word[j]
  BY <1>2, <1>8, <1>10, <1>11, <1>12
<1>14. Len(lexeme) = Len(word)
  <2> SUFFICES ASSUME Len(word) < Len(lexeme) PROVE FALSE
    BY <1>2, <1>8, <1>12
  <2>1. Begins(word, lexeme)
    BY <1>12, <1>13 DEF Begins
  <2> DEFINE L == Len(lexeme)
             W == Len(word)
  <2>2. Len(word) + 1 \in 1 .. Len(lexeme) /\ P + (Len(word) + 1) = k + Len(word) + 1 /\ k + Len(word) # Len(source)
    <3>1. W \in Nat /\ L \in Nat /\ k \in Nat /\ Len(source) \in Nat /\ P = k /\ W < L /\ P + L <= Len(source)
      BY <1>1, <1>2, <1>8, <1>10, <1>11
    <3> HIDE DEF L, W
    <3>2. W + 1 \in 1 .. L /\ P + (W + 1) = k + W + 1 /\ k + W # Len(source)
      BY <3>1
    <3> QED BY <3>2 DEF L, W
  <2>3. lexeme[Len(word) + 1] \notin WordChars
    <3>1. source[k + Len(word) + 1] \notin WordChars
      BY <2>2 DEF IsWordAt
    <3>2. lexeme[Len(word) + 1] = source[P + (Len(word) + 1)]
      BY <1>10, <2>2
    <3> QED BY <2>2, <3>1, <3>2
  <2>4. <<StateAfter(word), lexeme[Len(word) + 1]>> \notin DOMAIN ScanningTable
    BY <1>3, <2>3, Steps
  <2>5. StateAfter(lexeme) = Stuck
    BY <1>2, <1>8, <2>1, <2>4, StuckBehind
  <2> QED BY <1>8, <2>5, NoWayBackAssumption, TablesAssumption DEF Accepted, Stuck
<1>15. lexeme = word
  <2>1. lexeme \in Seq(Chars) /\ word \in Seq(Chars)
    BY <1>2, <1>8
  <2> QED BY <1>13, <1>14, <2>1
<1>16. t.type = IF word \in DOMAIN ReservedWords THEN ReservedWords[word] ELSE "IDENTIFIER"
  BY <1>3, <1>8, <1>15, WordsAreFinal DEF ClassOf
<1>17. PlaceOf(token_stream[n]) = k /\ token_stream[n].lexeme = word
  BY <1>11, <1>15 DEF P, t, lexeme
<1> QED BY <1>16, <1>17 DEF IsToken, t

(***************************************************************************)
(* A word is one token (scanning_table.csv, lexer.cpp:160): in every text  *)
(* that is lexed without an error, with any words reserved.                *)
(***************************************************************************)
THEOREM WordsAreWhole == ASSUME AreCsvTables PROVE Spec => []WordsAreOneToken
<1>1. Init => EndInv
  BY DEF Init, EndInv
<1>2. TokensInv /\ EndInv /\ [Next]_vars => EndInv'
  <2>1. ASSUME UNCHANGED vars, EndInv PROVE EndInv'
    <3>1. UNCHANGED <<phase, source, current_character, token_stream>>
      BY <2>1 DEF vars, scanner
    <3>2. EndInv' <=> \A n \in DOMAIN token_stream :
                        token_stream[n].type = "END_OF_FILE" => phase = "done" /\ IsEnd(token_stream[n])
      BY <3>1 DEF EndInv, IsEnd, PlaceOf, IsLocation
    <3> QED BY <2>1, <3>2 DEF EndInv
  <2> QED BY <2>1, EndStep DEF TokensInv
<1>3. Spec => []EndInv
  BY <1>1, <1>2, TokensInvariant, PTL DEF Spec
<1>4. TokensInv /\ EndInv => WordsAreOneToken
  BY WordsStay
<1> QED BY <1>3, <1>4, TokensInvariant, PTL
=============================================================================
