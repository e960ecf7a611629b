----------------------------- MODULE ConfigText -----------------------------
(***************************************************************************)
(* How Parse (srcs/Parse.cpp) makes tokens of the characters of the        *)
(* configuration, and numbers of tokens: comments, quotations, delimiters, *)
(* lines, times and sizes.  A text is a sequence of characters, "nl" is    *)
(* the end of a line.                                                      *)
(***************************************************************************)
EXTENDS Integers, FiniteSetsExt, SequencesExt

CONSTANTS Code,    \* the code of each character that may be part of a number
          Kilo     \* 1024 in the code

Blanks == {" ", "nl"}
Quotes == {"'", "''"}
Delims == {"{", "}", ";"}
Digits == {"0", "1", "2", "3", "4", "5", "6", "7", "8", "9"}

\* A blank of a quotation, which nothing takes for a blank: its negative.
Protected == [c \in Blanks |-> IF c = " " THEN "-" ELSE "-nl"]

\* cleanToken()
CleanToken(word) ==
    [n \in DOMAIN word |-> CASE word[n] = "-" -> " " [] word[n] = "-nl" -> "nl" [] OTHER -> word[n]]

----------------------------------------------------------------------------
(* From characters to tokens                                               *)

\* Mutant: a comment may begin in a quotation.
BlankedEverywhere(s, c) ==
    CASE c = "#" \/ (s.in = "comment" /\ c # "nl") -> [s EXCEPT !.in = "comment", !.out = Append(@, " ")]
      [] s.in = "comment" /\ c = "nl" -> [s EXCEPT !.in = "text", !.out = Append(@, c)]
      [] s.in = "text" /\ c \in Quotes -> [s EXCEPT !.in = c, !.out = Append(@, " ")]
      [] s.in \in Quotes /\ c = s.in -> [s EXCEPT !.in = "text", !.out = Append(@, " ")]
      [] OTHER -> [s EXCEPT !.out = Append(@, c)]

\* removeComments(), one character: s.in is "text", "comment", or the quotation mark
\* that is awaited.
Blanked(s, c) ==
    CASE s.in = "text" /\ c = "#" -> [s EXCEPT !.in = "comment", !.out = Append(@, " ")]
      [] s.in = "text" /\ c \in Quotes -> [s EXCEPT !.in = c, !.out = Append(@, " ")]
      [] s.in = "comment" /\ c = "nl" -> [s EXCEPT !.in = "text", !.out = Append(@, c)]
      [] s.in = "comment" /\ c # "nl" -> [s EXCEPT !.out = Append(@, " ")]
      [] s.in \in Quotes /\ c = s.in -> [s EXCEPT !.in = "text", !.out = Append(@, " ")]
      [] s.in \in Quotes /\ c \in Blanks -> [s EXCEPT !.out = Append(@, Protected[c])]
      [] OTHER -> [s EXCEPT !.out = Append(@, c)]

\* A quotation that is not closed is an exception.
RemoveComments(content) == FoldLeft(Blanked, [in |-> "text", out |-> <<>>], content)
Unclosed(content) == RemoveComments(content).in \in Quotes

\* insertDelimWhiteSpace(), of quotations too
InsertDelimWhiteSpace(str) ==
    FlattenSeq([i \in DOMAIN str |->
        IF str[i] \notin Delims THEN <<str[i]>>
        ELSE (IF i > 1 /\ str[i - 1] # " " THEN <<" ">> ELSE <<>>) \o <<str[i]>>
               \o (IF i < Len(str) /\ str[i + 1] # " " THEN <<" ">> ELSE <<>>)])

\* What lies between the separators in str.
Between(str, separators) ==
    LET pieces == FoldLeft(LAMBDA done, c : IF c \in separators THEN Append(done, <<>>)
                                            ELSE [done EXCEPT ![Len(done)] = Append(@, c)],
                           <<<<>>>>, str)
    IN  SelectSeq(pieces, LAMBDA piece : piece # <<>>)

\* getNextLine() and the loop of processContent(): the tokens, line by line.
Lines(content) ==
    LET lines == Between(InsertDelimWhiteSpace(RemoveComments(content).out), {"nl"})
        words == [n \in DOMAIN lines |-> Between(lines[n], {" "})]
    IN  [n \in DOMAIN words |-> [k \in DOMAIN words[n] |-> CleanToken(words[n][k])]]

----------------------------------------------------------------------------
(* From tokens to numbers                                                  *)

\* stol(), which takes any character for a digit
Stol(word) == FoldLeft(LAMBDA num, c : num * 10 + Code[c] - Code["0"], 0, word)

Refused == -1
Seconds(c) == CASE c = "s" -> 1 [] c = "m" -> 60 [] c = "h" -> 3600 [] OTHER -> 86400

\* Mutant: the suffix is taken for a digit.
CheckTimeWhole(word) ==
    IF \E n \in 1 .. Len(word) - 2 : word[n] \notin Digits THEN Refused
    ELSE IF Last(word) \in Digits THEN Stol(word)
    ELSE IF Last(word) \in {"s", "m", "h", "d"} THEN Stol(word) * Seconds(Last(word)) ELSE Refused

\* checkTime(): the last character but one is not looked at.  Of a single character
\* all_of() misses the end it is given, and stops behind it.
CheckTime(word) ==
    IF \E n \in 1 .. Len(word) - 2 : word[n] \notin Digits THEN Refused
    ELSE IF Last(word) \in Digits THEN Stol(word)
    ELSE IF Len(word) > 1 /\ Last(word) \in {"s", "m", "h", "d"}
    THEN Stol(Front(word)) * Seconds(Last(word)) ELSE Refused

\* Mutant: each letter is a thousand times the one before, but for the first.
BytesOnce(c) == CASE c \in {"k", "K"} -> 1 [] c \in {"m", "M"} -> Kilo [] OTHER -> Kilo * Kilo
Bytes(c) == CASE c \in {"k", "K"} -> Kilo [] c \in {"m", "M"} -> Kilo * Kilo [] OTHER -> Kilo * Kilo * Kilo

\* checkSize(): what follows the suffix is not looked at.
CheckSize(word) ==
    LET digits == {n \in DOMAIN word : \A k \in 1 .. n : word[k] \in Digits}
        i == Cardinality(digits)
    IN  IF i = 0 THEN Refused
        ELSE IF i = Len(word) THEN Stol(word)
        ELSE IF word[i + 1] \in {"k", "K", "m", "M", "g", "G"}
        THEN Stol(SubSeq(word, 1, i)) * Bytes(word[i + 1]) ELSE Refused

\* processTimeParameter(), processSizeParameter(): of a directive that has just one.
ProcessTimeParameter(token, no_para) == IF no_para > 1 THEN Refused ELSE CheckTime(token)
ProcessSizeParameter(token, no_para) == IF no_para > 1 THEN Refused ELSE CheckSize(token)

----------------------------------------------------------------------------
(* Properties                                                              *)

\* What the digits say, digit by digit.
Amount(digits) == MapThenSumSet(LAMBDA n : (Code[digits[n]] - Code["0"]) * 10 ^ (Len(digits) - n), DOMAIN digits)
IsNumber(word) == word # <<>> /\ \A n \in DOMAIN word : word[n] \in Digits

Numbers == UNION {[1 .. n -> DOMAIN Code] : n \in 1 .. 4}

\* A time that is written as one is read as one, with and without its unit, of any
\* length; and so is a size (Parse.cpp:285-351).
TimesRead ==
    \A word \in Numbers :
      /\ IsNumber(word) => ProcessTimeParameter(word, 1) = Amount(word)
      /\ Last(word) \in {"s", "m", "h", "d"} /\ IsNumber(Front(word)) =>
            ProcessTimeParameter(word, 1) = Amount(Front(word)) * Seconds(Last(word))

\* No size is read that does not begin with its number, and no larger unit makes a
\* size smaller.
SizesRead ==
    \A word \in Numbers :
      /\ IsNumber(word) => ProcessSizeParameter(word, 1) = Amount(word)
      /\ word[1] \notin Digits => ProcessSizeParameter(word, 1) = Refused
      /\ IsNumber(word) =>
            /\ ProcessSizeParameter(Append(word, "k"), 1) = Kilo * Amount(word)
            /\ ProcessSizeParameter(Append(word, "m"), 1) = Kilo * ProcessSizeParameter(Append(word, "k"), 1)

\* A text as it is meant: items [kind, text], of which a comment ends with its line.
Written(item) ==
    CASE item.kind = "quoted"  -> <<item.mark>> \o item.text \o <<item.mark>>
      [] item.kind = "comment" -> <<"#">> \o item.text \o <<"nl">>
      [] item.kind = "line"    -> <<"nl">>
      [] OTHER -> item.text

\* Two words in a row are kept apart by a blank, nothing else has to be.
Text(items) ==
    FlattenSeq([n \in DOMAIN items |->
        IF n > 1 /\ items[n].kind = "word" /\ items[n - 1].kind = "word"
        THEN <<" ">> \o Written(items[n]) ELSE Written(items[n])])

Meant(items) ==
    LET tokens == SelectSeq(items, LAMBDA item : item.kind \in {"word", "quoted", "delim"})
    IN  [n \in DOMAIN tokens |-> tokens[n].text]

\* Whatever stands next to what: words, quotations with blanks, marks and number
\* signs in them, and delimiters are read as they are meant, each on its line, and
\* comments not at all (Parse.cpp:101-160).
TextRead(Items) ==
    \A items \in UNION {[1 .. n -> Items] : n \in 0 .. 4} :
      LET lines == Between(items, {item \in Items : item.kind \in {"line", "comment"}})
          meant == [n \in DOMAIN lines |-> Meant(lines[n])]
      IN  /\ ~Unclosed(Text(items))
          /\ SelectSeq(Lines(Text(items)), LAMBDA line : line # <<>>)
               = SelectSeq(meant, LAMBDA line : line # <<>>)
=============================================================================
