----------------------------- MODULE RequestText -----------------------------
(***************************************************************************)
(* What the head of a request says, character by character: the start      *)
(* line, the fields, the address and the length of the body (HttpRequest,  *)
(* Http, and two functions of EmbeddedVariable).  RequestFraming knows the *)
(* heads by their kinds only.                                              *)
(*                                                                         *)
(* A text is a sequence of characters, "CR" and "LF" among them.           *)
(***************************************************************************)
EXTENDS Integers, FiniteSets, SequencesExt, TLC

CONSTANTS Lower,       \* from each upper-case letter to its lower-case letter
          Methods,     \* sequences of upper-case letters
          Bodied,      \* POST and PUT: those with a body
          Protocol,    \* HTTP/1.1
          Digit,       \* from each hexadecimal digit to its value
          Decimal,     \* the digits that are decimal
          Base,        \* 16
          Char,        \* the character of each code
          Host, Type, Length,   \* the names of the fields that are looked for
          HeaderLimit, \* how long a head may be
          Joined       \* those of the fields that may come twice

Controls == {"CR", "LF", "NUL"}
Invalid  == Controls \cup {"(", ")", "<", ">", "@", ",", ";", ":", "/", "[", "]", "?", "=", "{", "}", " ", "~"}
Spaces   == {" ", "CR", "LF"}

\* The position of the first of some characters from a position on, or the end.
First(text, from, stops) ==
    LET found == {n \in from .. Len(text) : text[n] \in stops} IN
    IF found # {} THEN CHOOSE n \in found : \A k \in found : n <= k
    ELSE IF from > Len(text) THEN from ELSE Len(text) + 1
At(text, n) == IF n \in DOMAIN text THEN text[n] ELSE "NUL"
From(text, n) == SubSeq(text, n, Len(text))

----------------------------------------------------------------------------
(* The address                                                             *)

\* checkUrl(): it looks at what follows a "$", not at what follows a "%".
CheckUrl(url) ==
    FoldLeft(LAMBDA s, n : IF s.skip > 0 THEN [s EXCEPT !.skip = @ - 1]
                           ELSE IF url[n] # "$" THEN s
                           ELSE [skip |-> 2, ok |-> s.ok /\ {At(url, n + 1), At(url, n + 2)} \subseteq DOMAIN Digit],
             [skip |-> 0, ok |-> TRUE], [n \in DOMAIN url |-> n]).ok

\* hex2alpha(): what is no digit counts as zero.
Value(c) == IF c \in DOMAIN Digit THEN Digit[c] ELSE 0
Hex2Alpha(url, n) == Char[Base * Value(At(url, n + 1)) + Value(At(url, n + 2))]

\* decodeUrl(), of a url that does not end with a "%", behind whose end it reads
DecodeUrl(url) ==
    FoldLeft(LAMBDA s, n : IF s.skip > 0 THEN [s EXCEPT !.skip = @ - 1]
                           ELSE IF url[n] # "%" THEN [s EXCEPT !.out = Append(@, url[n])]
                           ELSE [skip |-> 2, out |-> Append(s.out, Hex2Alpha(url, n))],
             [skip |-> 0, out |-> <<>>], [n \in DOMAIN url |-> n]).out

\* Http::getField()
GetField(fields, field) == IF field \in DOMAIN fields THEN fields[field] ELSE <<>>

\* Mutant: the address is decoded, then divided.
ParsePathDecoded(uri) ==
    LET url == DecodeUrl(uri)
        pos == First(url, 1, {"?"})
    IN  [path |-> SubSeq(url, 1, pos - 1), query |-> From(url, pos + 1)]

\* The address is divided, then decoded.
ParsePath(uri) ==
    LET pos == First(uri, 1, {"?"})
    IN  [path |-> DecodeUrl(SubSeq(uri, 1, pos - 1)), query |-> DecodeUrl(From(uri, pos + 1))]

\* validateUrl(): what a refused address has is not kept.
ValidateUrl(uri, fields) ==
    IF At(uri, 1) = "/" /\ CheckUrl(uri) /\ GetField(fields, Host) # <<>>
    THEN [ok |-> TRUE] @@ ParsePath(uri) ELSE [ok |-> FALSE, path |-> <<>>, query |-> <<>>]

----------------------------------------------------------------------------
(* The head                                                                *)

\* validateStartLine().  What it has found remains, also if it then fails.
ValidateStartLine(start) ==
    LET i == First(start, 1, {" "})
        j == First(start, i + 1, {" "})
        k == First(start, j + 1, {" ", "CR"})
        known == SubSeq(start, 1, i - 1) \in Methods
    IN  [method |-> IF known THEN SubSeq(start, 1, i - 1) ELSE <<>>,
         uri |-> SubSeq(start, i + 1, j - 1),
         ok |-> /\ known /\ j > i + 1
                /\ SubSeq(start, j + 1, k - 1) = Protocol
                /\ At(start, k) = "CR" /\ k = Len(start)]

\* validateField(), which makes all letters small.
ValidateField(field) == \A n \in DOMAIN field : field[n] \notin Invalid
Lowered(field) == [n \in DOMAIN field |-> IF field[n] \in DOMAIN Lower THEN Lower[field[n]] ELSE field[n]]

\* Mutant: no character of a value is looked at.
ValidateValueAny(val) == val # <<>>

\* validateValue(): the last character, which is the end of the line, may be any.
ValidateValue(val) == val # <<>> /\ \A n \in 1 .. Len(val) - 1 : val[n] \notin Controls

\* Mutant: what comes last counts.
AddHeaderFieldsLast(fields, field, val) == [ok |-> TRUE, fields |-> (field :> val) @@ fields]

\* addHeaderFields()
AddHeaderFields(fields, field, val) ==
    IF field \notin DOMAIN fields THEN [ok |-> TRUE, fields |-> (field :> val) @@ fields]
    ELSE IF field \in Joined
    THEN [ok |-> TRUE, fields |-> [fields EXCEPT ![field] = @ \o <<";", " ">> \o val]]
    ELSE [ok |-> FALSE, fields |-> fields]

\* The lines that getline() returns of a text that ends with one.
Lines(text) ==
    FoldLeft(LAMBDA done, c : IF c = "LF" THEN Append(done, <<>>) ELSE [done EXCEPT ![Len(done)] = Append(@, c)],
             <<<<>>>>, text)

\* One turn of the loop of validateHeader().  The value keeps the end of its line.
AddLine(h, token) ==
    LET pos   == First(token, 1, {":"})
        field == SubSeq(token, 1, pos - 1)
        val   == From(token, IF At(token, pos + 1) = " " THEN pos + 2 ELSE pos + 1)
        added == AddHeaderFields(h.fields, Lowered(field), val)
    IN  IF h.over THEN h
        ELSE IF token = <<"CR">> THEN [h EXCEPT !.over = TRUE]
        ELSE IF pos <= Len(token) /\ ValidateField(field) /\ ValidateValue(val) /\ Last(token) = "CR" /\ added.ok
        THEN [h EXCEPT !.fields = added.fields]
        ELSE [h EXCEPT !.over = TRUE, !.ok = FALSE]

\* validateHeader(), and validateUrl() at its end
AddLines(lines, start) == FoldLeft(AddLine, [fields |-> <<>>, over |-> ~start.ok, ok |-> start.ok], lines)
Validated(start, h) ==
    [method |-> start.method, fields |-> h.fields]
      @@ ValidateUrl(IF h.over /\ h.ok THEN start.uri ELSE <<>>, h.fields)
ValidateHeader(header) ==
    LET lines == Lines(header)
        start == ValidateStartLine(lines[1])
    IN  Validated(start, AddLines(Front(Tail(lines)), start))

\* validateBody(): the length is a number with blanks around it, or only blanks.
Trimmed(val) ==
    LET inner == {n \in DOMAIN val : val[n] \notin Spaces}
    IN  SelectSeq([n \in DOMAIN val |-> [c |-> val[n], in |-> \E a, b \in inner : a <= n /\ n <= b]],
                  LAMBDA e : e.in)
Number(val) ==
    FoldLeft(LAMBDA num, e : IF num < 0 \/ e.c \notin Decimal THEN -1 ELSE 10 * num + Digit[e.c], 0, Trimmed(val))
BodyLength(h) ==
    IF {Type, Length} \subseteq DOMAIN h.fields THEN Number(h.fields[Length]) ELSE -1

\* getValidHeader(): what the errors of a request make of its response
GetValidHeader(error) == CASE error = "malform_header" -> 400 [] error = "limit_exceed" -> 431 [] OTHER -> 0

\* addRequest(), once the empty line is there: a head that is too long is not looked at,
\* and a body is awaited of one that announces it, be it well formed or not.
Request(h, long, length) ==
    LET waits  == h.method \in Bodied
        bodied == ~long /\ waits /\ length >= 0
    IN  [status |-> GetValidHeader(CASE long -> "limit_exceed" [] ~long /\ ~h.ok -> "malform_header" [] OTHER -> "none"),
         method |-> h.method, fields |-> h.fields, path |-> h.path, query |-> h.query, has_body |-> bodied,
         content_length |-> IF bodied THEN length ELSE 0,
         ready |-> ~long /\ (~waits \/ length = 0)]
AddRequest(header) ==
    LET h == ValidateHeader(header) IN Request(h, Len(header) > HeaderLimit, BodyLength(h))

----------------------------------------------------------------------------
(* Properties                                                              *)

\* A head as it is meant: [method, uri, fields], and each field [name, blank, val].
Line(f) == f.name \o <<":">> \o (IF f.blank THEN <<" ">> ELSE <<>>) \o f.val \o <<"CR", "LF">>
Text(h) == h.method \o <<" ">> \o h.uri \o <<" ">> \o Protocol \o <<"CR", "LF">>
             \o FlattenSeq([n \in DOMAIN h.fields |-> Line(h.fields[n])]) \o <<"CR", "LF">>

\* The ways to write a path or a query: each character as its code, and those that
\* mean nothing else as themselves too.
Coded(c) == LET n == CHOOSE n \in DOMAIN Char : Char[n] = c
                Of(d) == CHOOSE e \in DOMAIN Digit : Digit[e] = d
            IN  <<"%", Of(n \div Base), Of(n % Base)>>
Written(text, raw) == FlattenSeq([n \in DOMAIN text |-> IF n \in raw THEN <<text[n]>> ELSE Coded(text[n])])
Raw(text) == {n \in DOMAIN text : text[n] \notin {"%", "?", "$", " "} \cup Controls}

\* A path and a query are what the peer meant, in whatever way it wrote them: no code
\* for a mark or a blank is taken for one (HttpRequest.cpp:124-131).
UrlsRead(Characters) ==
    \A path, query \in UNION {[1 .. n -> Characters] : n \in 0 .. 2} :
      \A raw \in SUBSET Raw(path), rawq \in SUBSET Raw(query) :
        LET h == [method |-> CHOOSE m \in Methods : m \notin Bodied,
                  uri |-> <<"/">> \o Written(path, raw) \o <<"?">> \o Written(query, rawq),
                  fields |-> <<[name |-> Host, blank |-> TRUE, val |-> <<>>]>>]
            r == AddRequest(Text(h))
        IN  r.status = 0 /\ r.path = <<"/">> \o path /\ r.query = query

\* The values that a head gives a field, in their order.
Given(h, name) == SelectSeq(h.fields, LAMBDA f : Lowered(f.name) = name)

\* A head is accepted just if it is not too long and names its host and no other field
\* twice, but for those that may be; a field is what the head says, in whatever letters and with a
\* blank before it or not; the body it announces is awaited (HttpRequest.cpp:194-269).
FieldsRead(Heads) ==
    \A h \in Heads :
      LET r == AddRequest(Text(h))
          Names == {Lowered(h.fields[n].name) : n \in DOMAIN h.fields}
          Once == \A name \in Names \ Joined : Len(Given(h, name)) = 1
          length == Given(h, Length)
      IN  /\ r.status = IF Len(Text(h)) > HeaderLimit THEN 431 ELSE IF Host \in Names /\ Once THEN 0 ELSE 400
          /\ r.status = 0 => DOMAIN r.fields = Names
          /\ r.status = 0 => \A name \in Names :
               /\ Len(Given(h, name)) = 1 => r.fields[name] = Given(h, name)[1].val \o <<"CR">>
               /\ \A n \in DOMAIN Given(h, name) : \E k \in DOMAIN r.fields[name] :
                    SubSeq(r.fields[name], k, k + Len(Given(h, name)[n].val)) = Given(h, name)[n].val \o <<"CR">>
          /\ r.status = 0 /\ h.method \in Bodied =>
               (r.ready <=> {Type, Length} \subseteq Names /\ Number(length[1].val) = 0)
          /\ h.method \notin Bodied /\ r.status # 431 => r.ready

\* What holds a head together cannot be left out: without one of its blanks, marks or
\* ends of lines it is refused, and never taken for another (HttpRequest.cpp:135-239).
Holding(text, n) == text[n] \in {"CR", "LF", ":"} \/ (text[n] = " " /\ n < First(text, 1, {"CR"}))
MalformedRefused(Heads) ==
    \A h \in Heads :
      LET text == Text(h) IN
      \A n \in 1 .. Len(text) - 4 :
        Holding(text, n) => AddRequest(SubSeq(text, 1, n - 1) \o From(text, n + 1)).status # 0
=============================================================================
