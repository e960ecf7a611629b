----------------------------- MODULE Directives -----------------------------
(***************************************************************************)
(* The tables of a block that several directives fill: the pages of errors *)
(* (ErrorPage) and the interpreters of scripts (cgi_mapping), from the     *)
(* parameters that Parse counts to what a Client is told.                  *)
(*                                                                         *)
(* A directive is [name, parameters]; a parameter is a word, some of which *)
(* are numbers.                                                            *)
(***************************************************************************)
EXTENDS Integers, SequencesExt

CONSTANTS Number,   \* what the words that consist of digits are to atoi()
          Wide      \* the range of a short: 2 ^ 16 in the code

Parameters == <<"client_body_timeout", "client_max_body_size", "disable_symlinks", "error_page", "etag",
                "if_modified_since", "root", "index", "autoindex", "autoindex_exact_size", "autoindex_format",
                "autoindex_localtime", "cgi", "add_handler", "action", "cgi_timeout">>

\* checkMatch(): a place in a table that starts at 0, or -1
CheckMatch(parameter, str) == SelectInSeq(parameter, LAMBDA known : known = str) - 1

\* processInfoBlock(): how many parameters, and whether just so many
Limits(directive) ==
    CASE CheckMatch(Parameters, directive) = 3         -> [para_limit |-> 2, exact |-> FALSE]
      [] CheckMatch(Parameters, directive) \in {7, 13} -> [para_limit |-> 1, exact |-> FALSE]
      [] CheckMatch(Parameters, directive) = 14        -> [para_limit |-> 2, exact |-> TRUE]
      [] OTHER                                         -> [para_limit |-> 1, exact |-> TRUE]

\* checkParameterEnd()
CheckParameterEnd(limits, no_para) ==
    IF limits.exact THEN no_para = limits.para_limit ELSE no_para >= limits.para_limit

----------------------------------------------------------------------------
(* The tables, and how they grow                                           *)

Tables == [error_page |-> <<>>, cgi_mapping |-> <<>>, parsing_buffer |-> "", refused |-> FALSE]

NewPage == [codes |-> <<>>, path |-> ""]

\* ErrorPage::inputStr(): nothing may follow the path.  A code is cut to a short.
InputStr(page, token) ==
    IF token \in DOMAIN Number THEN [page EXCEPT !.codes = Append(@, Number[token] % Wide)]
                               ELSE [page EXCEPT !.path = token]

\* addErrorPage(token): into the page of this directive, which is the last.
AddErrorPage(tables, token) ==
    IF Last(tables.error_page).path # "" THEN [tables EXCEPT !.refused = TRUE]
    ELSE [tables EXCEPT !.error_page = Front(@) \o <<InputStr(Last(@), token)>>]

\* Mutant: every directive adds to one page.
ProcessErrorPageOnce(tables, no_para, token) ==
    AddErrorPage(IF tables.error_page = <<>> THEN [tables EXCEPT !.error_page = <<NewPage>>] ELSE tables, token)

\* processErrorPage()
ProcessErrorPage(tables, no_para, token) ==
    AddErrorPage(IF no_para = 1 THEN [tables EXCEPT !.error_page = Append(@, NewPage)] ELSE tables, token)

\* Mutant: a handler takes the interpreter away.
AddHandlerBare(tables, ext) == [tables EXCEPT !.cgi_mapping = [e \in {ext} |-> ""] @@ @]

\* addCgiMapping(ext): what is there stays.
AddHandler(tables, ext) == [tables EXCEPT !.cgi_mapping = @ @@ [e \in {ext} |-> ""]]

\* addCgiMapping(ext, interpret), processAction(): the extension waits for the rest.
AddAction(tables, ext, interpret) == [tables EXCEPT !.cgi_mapping = [e \in {ext} |-> interpret] @@ @]
ProcessAction(tables, no_para, token) ==
    IF no_para = 1 THEN [tables EXCEPT !.parsing_buffer = token] ELSE AddAction(tables, tables.parsing_buffer, token)

Process(tables, directive, no_para, token) ==
    CASE directive = "error_page"  -> ProcessErrorPage(tables, no_para, token)
      [] directive = "add_handler" -> AddHandler(tables, token)
      [] directive = "action"      -> ProcessAction(tables, no_para, token)

\* processDirective(), up to the semicolon.  What is too much is not processed.
ProcessDirective(tables, d) ==
    LET limits == Limits(d.name)
        one(t, n) == IF t.refused THEN t
                     ELSE IF limits.exact /\ n > limits.para_limit THEN [t EXCEPT !.refused = TRUE]
                     ELSE Process(t, d.name, n, d.parameters[n])
        read == FoldLeft(one, tables, [n \in DOMAIN d.parameters |-> n])
    IN  [read EXCEPT !.refused = @ \/ ~CheckParameterEnd(limits, Len(d.parameters))]

Read(directives) ==
    FoldLeft(LAMBDA t, d : IF t.refused THEN t ELSE ProcessDirective(t, d), Tables, directives)

----------------------------------------------------------------------------
(* What a client is told                                                   *)

\* ErrorPage::findError(), InfoBlock::findErrorPath(): "" is no page.
FindError(page, status) == Contains(page.codes, status)
FindErrorPath(tables, status) ==
    LET n == SelectInSeq(tables.error_page, LAMBDA page : FindError(page, status))
    IN  IF n = 0 THEN "" ELSE tables.error_page[n].path

IsCgi(tables, ext) == ext \in DOMAIN tables.cgi_mapping
GetCgiBin(tables, ext) == IF IsCgi(tables, ext) THEN tables.cgi_mapping[ext] ELSE ""

\* processContentCgiHelper(): the location, and then the server.
ContentCgi(location, server, ext) ==
    IF ~IsCgi(location, ext) /\ ~IsCgi(server, ext) THEN "file"
    ELSE IF GetCgiBin(location, ext) # "" THEN GetCgiBin(location, ext) ELSE GetCgiBin(server, ext)

----------------------------------------------------------------------------
(* Properties                                                              *)

\* The pages are read if each directive has a code and something else, and nothing
\* but a code before its end; and the first one that has a status says its page, as
\* far as codes go: one beyond a short is that of another status
\* (ErrorPage.cpp:30-50).
PagesFound(Lists, Statuses) ==
    \A lists \in Lists :
      LET tables == Read([n \in DOMAIN lists |-> [name |-> "error_page", parameters |-> lists[n]]])
          has(n, status) == \E w \in ToSet(lists[n]) \cap DOMAIN Number : Number[w] % Wide = status
          first(status)  == SelectInSeq([n \in DOMAIN lists |-> n], LAMBDA n : has(n, status))
      IN  /\ tables.refused <=>
               \E n \in DOMAIN lists : Len(lists[n]) < 2 \/ ~(ToSet(Front(lists[n])) \subseteq DOMAIN Number)
          /\ ~tables.refused => \A status \in Statuses :
               FindErrorPath(tables, status) =
                 IF first(status) = 0 \/ Last(lists[first(status)]) \in DOMAIN Number THEN ""
                 ELSE Last(lists[first(status)])

\* A file is a script if its location or the server names its extension, and is given
\* to the last interpreter the location names for it, or else the last one of the
\* server, whichever handlers are added before or behind (InfoBlock.cpp:356-375).
Named(directives, ext) == \E n \in DOMAIN directives : Head(directives[n].parameters) = ext
Interpreters(directives, ext) ==
    SelectSeq(directives, LAMBDA d : d.name = "action" /\ Head(d.parameters) = ext)
ScriptsFound(Blocks, ext) ==
    \A location, server \in Blocks :
      ContentCgi(Read(location), Read(server), ext) =
        IF ~Named(location, ext) /\ ~Named(server, ext) THEN "file"
        ELSE LET said == Interpreters(server, ext) \o Interpreters(location, ext) IN
             IF said = <<>> THEN "" ELSE Last(Last(said).parameters)
=============================================================================
