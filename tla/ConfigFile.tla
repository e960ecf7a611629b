----------------------------- MODULE ConfigFile -----------------------------
(***************************************************************************)
(* What ConfigParser is to understand: a configuration as a tree, the text *)
(* of it, and its meaning, stated on the tree and not on the text.         *)
(*                                                                         *)
(* An entry is [kw, args, body]: a directive has an empty body.  A source  *)
(* is [doc, tokens, cut]: a configuration, its text, and whether one of    *)
(* its delimiters is missing.                                              *)
(***************************************************************************)
EXTENDS ConfigParser, SequencesExt

Simple(kw, args) == [kw |-> kw, args |-> args, body |-> <<>>]

\* The text of a directive, on a line of its own.
DirectiveText(e) == <<e.kw>> \o e.args \o <<";", "nl">>

\* The text of a block whose entries have the texts inside.
BlockText(e, inside) == <<e.kw>> \o e.args \o <<"{", "nl">> \o FlattenSeq(inside) \o <<"}", "nl">>

LimitText(e) == BlockText(e, [i \in DOMAIN e.body |-> DirectiveText(e.body[i])])
EntryText(e) == IF e.kw = "limit_except" THEN LimitText(e) ELSE DirectiveText(e)
LocationText(e) == BlockText(e, [i \in DOMAIN e.body |-> EntryText(e.body[i])])
ServerText(e) ==
    BlockText(e, [i \in DOMAIN e.body |-> IF e.body[i].kw = "location" THEN LocationText(e.body[i])
                                          ELSE EntryText(e.body[i])])
Text(doc) == FlattenSeq([i \in DOMAIN doc |-> ServerText(doc[i])])

\* A text, as it is and with each of its delimiters missing in turn.
Whole(doc) == [doc |-> doc, tokens |-> Text(doc), cut |-> FALSE]
Cut(doc) ==
    LET text == Text(doc) IN
    {[doc |-> doc, tokens |-> RemoveAt(text, n), cut |-> TRUE] :
        n \in {n \in DOMAIN text : text[n] \in {"{", "}", ";"}}}

----------------------------------------------------------------------------
(* The meaning of a block is what its own entries say.                     *)

Entries(body, kws) == SelectSeq(body, LAMBDA e : e.kw \in kws)
Args(body, kw) == FlattenSeq([i \in DOMAIN Entries(body, {kw}) |-> Entries(body, {kw})[i].args])

\* The parameter of the last directive of a kind counts.
Said(body, kws) == IF Entries(body, kws) = <<>> THEN Unset ELSE Last(Entries(body, kws)).args[1]

Mappings(body) ==
    LET actions == Entries(body, {"action"}) IN
    {actions[i].args : i \in {i \in DOMAIN actions :
        \A j \in DOMAIN actions : j > i => actions[j].args[1] # actions[i].args[1]}}

Rules(e) == [i \in DOMAIN e.body |-> <<e.body[i].kw, e.body[i].args[1]>>]
Ranges(body) ==
    LET limits == Entries(body, {"limit_except"})
    IN  FlattenSeq([i \in DOMAIN limits |-> Rules(limits[i])])

InfoMeaning(body) ==
    [root |-> Said(body, {"root", "alias"}), alias |-> Entries(body, {"alias"}) # <<>>,
     cgi_timeout |-> Said(body, {"cgi_timeout"}), index |-> Args(body, "index"),
     cgi_mapping |-> Mappings(body), methods |-> Args(body, "limit_except"), ranges |-> Ranges(body)]

LocationMeaning(e) ==
    LET return == Args(e.body, "return") IN
    [info |-> InfoMeaning(e.body), path |-> e.args[1],
     code |-> IF return = <<>> THEN Unset ELSE IF return[1] = "http://" THEN "302" ELSE return[1],
     uri  |-> IF return = <<>> THEN Unset ELSE IF return = <<"404">> THEN Unset ELSE Last(return)]

ServerMeaning(e) ==
    LET locs == Entries(e.body, {"location"})
        listens == Entries(e.body, {"listen"})
    IN  [info |-> InfoMeaning(e.body), listen |-> [i \in DOMAIN listens |-> listens[i].args],
         location |-> [i \in DOMAIN locs |-> LocationMeaning(locs[i])]]

Meaning(doc) == [i \in DOMAIN doc |-> ServerMeaning(doc[i])]

----------------------------------------------------------------------------
(* Properties                                                              *)

Accepted == done /\ ~parser.failed

\* A configuration is accepted, and understood: servers, locations, limits and
\* settings are those that were written, each in its own block.
Understood ==
    ~source.cut =>
      /\ ~parser.failed
      /\ done => parser.servers = Meaning(source.doc)

\* A configuration in which a brace or a semicolon is missing is refused, and
\* never read as something else.
CutRefused == source.cut => ~Accepted

\* The brackets determine whether a directive belongs to the server or to the
\* location (Parse.cpp:570): one that follows a location belongs to the server.
BracketsDecide ==
    done /\ ~source.cut =>
      [i \in DOMAIN parser.servers |-> parser.servers[i].listen]
        = [i \in DOMAIN source.doc |-> ServerMeaning(source.doc[i]).listen]
=============================================================================
