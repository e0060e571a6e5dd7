----------------------------- MODULE CommandText -----------------------------
(***************************************************************************)
(* Shell quoting as the monitor reads and writes it: tokenizeCommandLine   *)
(* (the same function in internal/server/server.go and in                  *)
(* internal/traceimport/traceimport.go) and shellQuoteValue.               *)
(*                                                                         *)
(* Text is a sequence of symbols: characters, and whole option names such  *)
(* as "-resume", which no quote or space can cut in two.  A word is the    *)
(* text of one token.                                                      *)
(***************************************************************************)
EXTENDS Integers, Sequences, SequencesExt

(* All of shellQuoteValue's special characters but space, tab, quotes and   *)
(* backslash are alike to both functions: "$" stands for them.              *)
Separators == {" ", "\t"}
Quotes == {"'", "\""}
Special == Separators \cup Quotes \cup {"\\", "$"}

-----------------------------------------------------------------------------
(* tokenizeCommandLine, one symbol at a time. *)

(* inWord tells an empty word from none; "escape" and "doubleEscape" are    *)
(* the places after a backslash.                                            *)
Start == [place |-> "plain", words |-> <<>>, word |-> <<>>, inWord |-> FALSE]

Write(s, symbols, place) ==
    [s EXCEPT !.word = @ \o symbols, !.inWord = TRUE, !.place = place]
Enter(s, place) == [s EXCEPT !.inWord = TRUE, !.place = place]
EndWord(s) ==
    IF s.inWord THEN [Start EXCEPT !.words = Append(s.words, s.word)] ELSE s

ReadPlain(s, c) ==
    CASE c = "'" -> Enter(s, "single")
      [] c = "\"" -> Enter(s, "double")
      [] c = "\\" -> Enter(s, "escape")
      [] c \in Separators -> EndWord(s)
      [] OTHER -> Write(s, <<c>>, "plain")

ReadSingle(s, c) == IF c = "'" THEN Enter(s, "plain") ELSE Write(s, <<c>>, "single")

ReadDouble(s, c) ==
    CASE c = "\"" -> Enter(s, "plain")
      [] c = "\\" -> Enter(s, "doubleEscape")
      [] OTHER -> Write(s, <<c>>, "double")

ReadDoubleEscape(s, c) ==
    Write(s, IF c \in {"\"", "\\"} THEN <<c>> ELSE <<"\\", c>>, "double")

ReadSymbol(s, c) ==
    CASE s.place = "plain" -> ReadPlain(s, c)
      [] s.place = "single" -> ReadSingle(s, c)
      [] s.place = "double" -> ReadDouble(s, c)
      [] s.place = "escape" -> Write(s, <<c>>, "plain")
      [] s.place = "doubleEscape" -> ReadDoubleEscape(s, c)

(* A backslash that ends the text stands for itself. *)
tokenizeCommandLine(text) ==
    LET s == FoldLeft(ReadSymbol, Start, text)
        end == IF s.place \in {"escape", "doubleEscape"} THEN Write(s, <<"\\">>, "plain") ELSE s
    IN  EndWord(end).words

-----------------------------------------------------------------------------
(* Writing. *)

(* Mutant: a quote inside the quotes is not escaped.                        *)
shellQuotePlainly(word) ==
    IF ToSet(word) \cap Special = {} THEN word ELSE <<"'">> \o word \o <<"'">>

(* An empty word is written as nothing at all. *)
shellQuoteValue(word) ==
    LET escaped == FlattenSeq([i \in DOMAIN word |->
                      IF word[i] = "'" THEN <<"'", "\\", "'", "'">> ELSE <<word[i]>>])
    IN  IF ToSet(word) \cap Special = {} THEN word ELSE <<"'">> \o escaped \o <<"'">>

(* Words set apart by a space each. *)
Spaced(texts) == FlattenSeq([i \in DOMAIN texts |-> <<" ">> \o texts[i]])

=============================================================================
