-------------------------- MODULE MCRequestFraming --------------------------
(* RequestFraming with streams of up to three requests, and the text of    *)
(* heads with up to three fields (RequestText).                            *)
EXTENDS RequestFraming, TLC

End  == <<"end1", "end2">>
Get  == <<"get">> \o End
Big  == <<"get", "fld", "fld", "fld">> \o End     \* longer than HeaderLimit
Mid  == <<"get", "fld">> \o End
Post == <<"post">> \o End \o <<"b", "b">>
Hollow == <<"post">> \o End \o End              \* its body is an empty line
Firsts == {Get, Mid, Big, Post, Hollow, <<"open">> \o End, <<"junk">> \o End, <<"late">> \o End}

\* A first request, then nothing, stray bytes, another request, or two more.
MCStreams == {f \o r : f \in Firsts,
                       r \in {<<>>, <<"b">>, Get, Post, Post \o Get, Get \o Post}}

\* Heads come in one piece, or are cut but not within an empty line, or anywhere.
MCDeliveries == {{"body"}, {"head", "body"}, {"head", "blank", "body"}}

\* Every stream here begins with a head.
ASSUME HeadsFirst

(* The text of a head: one letter for each word, four hexadecimal digits.  *)

MCLower == ("G" :> "g") @@ ("P" :> "p") @@ ("H" :> "h") @@ ("T" :> "t") @@ ("L" :> "l") @@ ("C" :> "c")
MCDigit == ("0" :> 0) @@ ("1" :> 1) @@ ("a" :> 2) @@ ("b" :> 3)
MCChar  == [n \in 0 .. 15 |-> <<"NUL", "CR", "LF", " ", "/", "?", "%", "$", ":", "0", "1", "a", "b", "x", "y", "z">>[n + 1]]

T == INSTANCE RequestText
       WITH Lower <- MCLower, Methods <- {<<"G">>, <<"P">>}, Bodied <- {<<"P">>}, Protocol <- <<"H">>,
            Digit <- MCDigit, Decimal <- {"0", "1"}, Base <- 4, Char <- MCChar,
            Host <- <<"h">>, Type <- <<"t">>, Length <- <<"l">>, Joined <- {<<"c">>}, HeaderLimit <- 31

SomeFields ==
    {[name |-> n, blank |-> TRUE, val |-> <<"x", "y">>] : n \in {<<"h">>, <<"H">>, <<"t">>, <<"c">>, <<"C">>, <<"x", "h">>}}
      \cup {[name |-> <<"l">>, blank |-> b, val |-> v] : b \in BOOLEAN,
                                        v \in {<<"1", "0">>, <<"0">>, <<"1", " ", "1">>}}
      \cup {[name |-> <<"l">>, blank |-> TRUE, val |-> <<" ", "0", " ">>],
            [name |-> <<"c">>, blank |-> FALSE, val |-> <<>>]}
SomeHeads == [method : {<<"G">>, <<"P">>}, uri : {<<"/">>}, fields : UNION {[1 .. n -> SomeFields] : n \in 0 .. 3}]

\* Of constants alone: TLC evaluates each of these once, and the invariants ask for it
\* wherever a request is routed.
AllUrls      == T!UrlsRead({"/", "?", "%", "$", " ", "a"})
AllFields    == T!FieldsRead(SomeHeads)
AllMalformed == T!MalformedRefused([method : {<<"G">>, <<"P">>}, uri : {<<"/">>, <<"/", "x", "?">>},
                                    fields : UNION {[1 .. n -> SomeFields] : n \in 0 .. 2}])

\* The address of a request is read as it was meant (HttpRequest.cpp:124-131), its
\* fields as they were sent (HttpRequest.cpp:194-269), and what is malformed is refused.
HeadsRead == at = "route" => AllUrls /\ AllFields /\ AllMalformed
=============================================================================
