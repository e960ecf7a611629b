----------------------------- MODULE MCRouting -----------------------------
(* Routing with servers of up to four locations over a small tree of files, *)
(* the decisions of AccessControl that it rests on, and what Pages makes of *)
(* its answers.                                                             *)
EXTENDS Routing

MCWidth == [v4 |-> 2, v6 |-> 2]
V4(bits) == [family |-> "v4", bits |-> bits]
V6(bits) == [family |-> "v6", bits |-> bits]

\* Names as getaddrinfo() resolves them: one with a slash is no name to it.
MCResolve == [a |-> <<V4(<<0, 1>>)>>, b |-> <<V4(<<1, 0>>)>>, c |-> <<V6(<<0, 1>>)>>,
              local |-> <<V6(<<1, 1>>), V4(<<1, 1>>)>>, net |-> <<>>]
MCLength == [n \in DOMAIN MCResolve |-> IF n = "net" THEN 1 ELSE "no length"]

Limit == INSTANCE AccessControl
           WITH Width <- MCWidth, Resolve <- MCResolve, Length <- MCLength, Everyone <- "all"

\* Of constants alone: TLC evaluates each of these once, and the invariants ask for it
\* wherever a request was answered.
RulesStand  == Limit!EarlierRuleStands
RulesApart  == Limit!FamiliesApart
RulesDecide ==
    \A rules \in Limit!RuleLists, methods \in SUBSET {"GET", "POST"} :
      LET l == Limit!Limits(methods, rules) IN
      \A peer \in Limit!Addresses, method \in {"GET", "POST"} :
        Limit!CheckAccess(l, peer, method) =
          Access([methods |-> methods, range |-> Limit!Verdict(l, peer)], method)

\* What a peer is told does not depend on rules that follow the one that decides
\* (LimitExcept.cpp:83), nor on those for the other family (LimitExcept.cpp:146); and what
\* Routing takes checkAccess() to be is what it is: the methods and the verdict of the
\* ranges are all that counts (LimitExcept.cpp:129-164).
AccessDecided == asked # <<>> => RulesStand /\ RulesApart /\ RulesDecide

(* The instance of Routing *)

Unset == [root |-> <<>>, index |-> <<>>, autoindex |-> "undefined", error_page |-> <<>>,
          client_max_body_size |-> 0, cgi_mapping |-> {}, alias |-> FALSE,
          limit_except |-> [methods |-> {}, range |-> "none"]]
AnyLocation == Unset @@ [path |-> <<"/">>, internal |-> FALSE, return_ |-> [code |-> 0, uri |-> <<>>]]
AnyServer == Unset @@ [location |-> <<>>, merge_slash |-> FALSE]

MCDefaultRoot  == <<"p">>
MCDefaultIndex == <<<<"x">>>>

Dirs  == {<<"p">>, <<"p", "/", "a">>, <<"p", "/", "a", "/", "d">>, <<"p", "/", "b">>,
          <<"q">>, <<"q", "/", "d">>, <<"q", "/", "b">>, <<"r">>, <<"r", "/", "d">>}
Plains == {<<"p", "/", "f">>, <<"p", "/", "a", "/", "x">>, <<"p", "/", "a", "/", "s", ".", "y">>,
           <<"p", "/", "e">>, <<"q", "/", "x">>, <<"q", "/", "f">>, <<"q", "/", "e">>,
           <<"q", "/", "b", "/", "f">>, <<"r", "/", "f">>, <<"r", "/", "d", "/", "x">>,
           <<"r", "/", "x">>, <<"r", "/", "s", ".", "y">>, <<"p", "/", "a", "/", ".", "h">>, <<"p", "/", "a", "a">>}
MCFiles == [p \in Dirs |-> "directory"] @@ [p \in Plains |-> "file"]
           @@ [p \in {<<"p", "/", "o">>, <<"q", "/", "a">>} |-> "other"]
           @@ [p \in {<<"p", "/", "u">>} |-> "unreadable"]

\* A location of each kind that a configuration can give, of which none is internal:
\* processInternal() does nothing.
Own     == [AnyLocation EXCEPT !.path = <<"/", "b">>, !.root = <<"q">>,
                !.limit_except = [methods |-> {"GET"}, range |-> "deny"]]
Longer  == [AnyLocation EXCEPT !.path = <<"/", "b", "/">>, !.autoindex = "on",
                !.index = <<<<"w">>, <<"x">>>>, !.client_max_body_size = 2]
Alias   == [AnyLocation EXCEPT !.path = <<"/", "i", "/">>, !.root = <<"r", "/">>, !.alias = TRUE,
                !.cgi_mapping = {<<"y">>}]
Return  == [AnyLocation EXCEPT !.path = <<"/", "m">>, !.return_ = [code |-> 302, uri |-> <<"f">>]]
Gone    == [AnyLocation EXCEPT !.path = <<"/", "g">>, !.return_ = [code |-> 404, uri |-> <<>>]]
Rooted  == [AnyLocation EXCEPT !.path = <<"/", "h">>, !.root = <<"q">>]
Shut    == [AnyLocation EXCEPT !.path = <<"/", "a", "/">>, !.index = <<<<"d">>>>,
                !.limit_except = [methods |-> {"GET"}, range |-> "allow"]]
Nowhere == [AnyLocation EXCEPT !.path = <<"/", "n">>, !.root = <<"z">>]

Pages == <<[codes |-> {404, 403}, path |-> <<"e">>], [codes |-> {404, 500}, path |-> <<"f">>]>>

MCServers ==
    { [AnyServer EXCEPT !.location = <<Own, Longer, Alias, Return>>],
      [AnyServer EXCEPT !.location = <<Longer, Own, Rooted, Shut>>, !.error_page = Pages,
                        !.merge_slash = TRUE, !.cgi_mapping = {<<"y">>}],
      [AnyServer EXCEPT !.location = <<Alias, Gone, Nowhere>>, !.root = <<"q">>, !.error_page = Pages,
                        !.limit_except = [methods |-> {"GET"}, range |-> "allow"],
                        !.client_max_body_size = 1],
      [AnyServer EXCEPT !.autoindex = "on", !.merge_slash = TRUE,
                        !.limit_except = [methods |-> {"POST"}, range |-> "none"]],
      [AnyServer EXCEPT !.autoindex = "on", !.merge_slash = TRUE, !.location = <<Own, Shut, Alias>>] }

Paths == {<<"/">>, <<"/", "f">>, <<"/", "a">>, <<"/", "a", "/">>, <<"/", "a", "/", "x">>,
          <<"/", "a", "/", "d">>, <<"/", "a", "/", "s", ".", "y">>, <<"/", "o">>, <<"/", "u">>,
          <<"/", "b">>, <<"/", "b", "/">>, <<"/", "b", "/", "f">>, <<"/", "b", "f">>,
          <<"/", "i", "/", "f">>, <<"/", "i", "/", "d">>, <<"/", "i", "/", "d", "/">>,
          <<"/", "i", "/", "s", ".", "y">>, <<"/", "m">>, <<"/", "g">>, <<"/", "h", "/", "f">>,
          <<"/", "n">>, <<"/", "/", "b", "/", "f">>, <<"/", "a", "/", "/", "x">>,
          <<"/", "a", "/", "/">>, <<"/", "b", "/", "/">>, <<"/", "a", "/", "/", "d">>}
MCRequests == [path : Paths, method : {"GET", "POST"}, length : {0, 1, 2}]

\* What names of files are made of.
Parts == UNION {{SubSeq(p, m, n) : m \in 1 .. Len(p), n \in 1 .. Len(p)} : p \in Dirs \cup Plains}

ASSUME NothingReturned /\ AliasesEnd /\ ExtensionsPlain /\ IndexesPlain /\ FilesInDirectories(Parts)

(* What is sent *)

MCRank == [c \in {".", "/", "a", "b", "d", "e", "f", "h", "o", "s", "u", "x", "y"} |->
             CASE c = "." -> 1 [] c = "/" -> 2 [] c = "a" -> 3 [] c = "b" -> 4 [] c = "d" -> 5 [] c = "e" -> 6
               [] c = "f" -> 7 [] c = "h" -> 8 [] c = "o" -> 9 [] c = "s" -> 10 [] c = "u" -> 11
               [] c = "x" -> 12 [] c = "y" -> 13]

Sent == INSTANCE Pages WITH Rank <- MCRank, Column <- 4

\* What readdir() returns of a directory, with a time and a size of each entry's own.
Within(dir) == {p \in DOMAIN Files : IsPrefix(dir \o <<"/">>, p) /\ p # dir \o <<"/">>
                                     /\ \A n \in Len(dir) + 2 .. Len(p) : p[n] # "/"}
Entry(name, type) == [name |-> name, type |-> type, size |-> Len(name), time |-> name]
ReadDir(dir) ==
    {Entry(SubSeq(p, Len(dir) + 2, Len(p)), IF Files[p] = "directory" THEN "directory" ELSE "file") : p \in Within(dir)}
Dots == <<Entry(<<".">>, "directory"), Entry(<<".", ".">>, "directory")>>

\* The directories that are listed well, found once for all.
Listable == {dir \in Dirs : Sent!ListedOnce(Dots, ReadDir(dir), <<"/", "u">>)}

\* A listing is that of the directory it was asked for, and is complete (AutoIndex.cpp:190).
ListedOnce ==
    (answer.kind = "listing" /\ Lookup(answer.path) = "directory") => Bare(Merged(answer.path)) \in Listable

\* Every answer but that of a script has one status line, one length and the type of its
\* body (HttpResponse.cpp:97-130).
Headed ==
    answer.kind \notin {"none", "script"} =>
        \A length \in 0 .. 1, ext \in {"html", "json", "y"} : Sent!Headed(answer, length, ext)

\* What is sent is what was decided.
AnswersSent == ListedOnce /\ Headed
=============================================================================
