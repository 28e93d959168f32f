------------------------------ MODULE MCLexer ------------------------------
(***************************************************************************)
(* All texts of up to two characters, those of three and of four from      *)
(* smaller alphabets in which words, numbers, operators and lines meet,    *)
(* and a few longer ones with two words and two lines.                     *)
(***************************************************************************)
EXTENDS Words

MCNUL == "NUL"
MCNewline == "\n"
MCChars == {step[2] : step \in DOMAIN CsvScanningTable} \union {"@", MCNUL}
MCSome == WordChars \union Blank \union {".", ":", "=", "<", ";", "@", MCNUL}
MCFew == {"a", "o", "d", "_", "0", ".", "\n", ":"}

MCStates == 0 .. 25
MCClasses == {CsvTokenTable[q] : q \in DOMAIN CsvTokenTable} \union {"ERROR", "END_OF_FILE", "DO_KEYWORD"}
MCGarbage == {1, 99}

Lines == {w \o <<"\n">> \o v : w, v \in {<<"d", "o">>, <<"o", "d", "d">>, <<"d", "_", "0">>, <<"0", ".", "a">>, <<":", "=">>}}

MCTexts ==
  UNION {[1 .. n -> MCChars] : n \in 0 .. 2} \union [1 .. 3 -> MCSome] \union [1 .. 4 -> MCFew] \union Lines
=============================================================================
