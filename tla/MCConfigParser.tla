--------------------------- MODULE MCConfigParser ---------------------------
(* ConfigFile with small configurations, and what it leaves out: characters *)
(* and numbers (ConfigText), the settings one by one (Settings), and the    *)
(* parameters of listen (ListenDirective).                                 *)
EXTENDS ConfigFile

MCCode == ("0" :> 48) @@ ("1" :> 49) @@ ("7" :> 55) @@ ("m" :> 109) @@ ("s" :> 115) @@ ("x" :> 120)

T == INSTANCE ConfigText WITH Code <- MCCode, Kilo <- 4

\* A word, quotations that hold blanks, a number sign, the other mark and nothing
\* but a blank, comments that hold a mark and a delimiter, the delimiters.
MCItems ==
    {[kind |-> "word", text |-> <<"a", "b">>],
     [kind |-> "quoted", mark |-> "'", text |-> <<"a", " ", "nl", "b">>],
     [kind |-> "quoted", mark |-> "'", text |-> <<"#">>],
     [kind |-> "quoted", mark |-> "''", text |-> <<"'", " ">>],
     [kind |-> "comment", text |-> <<"a", "'", " ", "#">>],
     [kind |-> "comment", text |-> <<"}">>],
     [kind |-> "delim", text |-> <<";">>],
     [kind |-> "line"]}

\* Of constants alone, here and below: TLC evaluates each of these once, and the
\* invariants ask for it wherever a configuration was read to its end.
TextsRead   == T!TextRead(MCItems)
AllTimes    == T!TimesRead
AllSizes    == T!SizesRead

\* Comments, quotations and delimiters are read as they are meant, times and sizes are the
\* numbers that were written (Parse.cpp:101-160,285-351).
TextRead == done => TextsRead /\ AllTimes /\ AllSizes

S == INSTANCE Settings

\* Two servers, of two locations and of one, and some of these five blocks say d, the
\* others say another of the same kind, or nothing.
Saying(d, here, others, at) == IF at \in here THEN <<[directive |-> d, value |-> at]>> ELSE others
Layout(d, e, own, locations) ==
    LET inServer(at) == Saying(d, own, <<>>, at)
        inLocation(at) == Saying(d, locations, e, at)
    IN  <<[own |-> inServer("first"), location |-> <<inLocation("a"), inLocation("b")>>],
          [own |-> inServer("second"), location |-> <<inLocation("c")>>]>>
Elses == {<<>>, <<[directive |-> "alias", value |-> "else"], [directive |-> "index", value |-> "else"]>>}
Layouts ==
    {Layout(d, e, own, locations) : d \in S!ServerDirectives \cap S!LocationDirectives, e \in Elses,
                                    own \in SUBSET {"first", "second"}, locations \in SUBSET {"a", "b", "c"}}
      \cup {Layout(d, e, {}, locations) : d \in S!LocationDirectives, e \in Elses,
                                         locations \in SUBSET {"a", "b", "c"}}
      \cup {Layout(d, e, own, {}) : d \in S!ServerDirectives, e \in Elses,
                                   own \in SUBSET {"first", "second"}}

LayoutsOwn == S!SettingsOwn(Layouts)

\* No block is given a setting of another block before it (Parse.cpp:228-243).
SettingsOwn == done => LayoutsOwn

MCHosts   == {<<":", ":">>, <<"h">>, <<"h", "1">>}
MCResolve == [h \in MCHosts |-> IF h = <<"h">> THEN <<"v6", "v4">> ELSE IF h = <<"h", "1">> THEN <<"v4">> ELSE <<"v6">>]

L == INSTANCE ListenDirective WITH Hosts <- MCHosts, Resolve <- MCResolve, Wide <- 16, SomaxConn <- 8

\* Directives with no option, one and two: each that is understood, and some that are not.
SomeOptions ==
    {[name |-> o, value |-> L!NoValue] : o \in {"default_server", "reuseport", "ipv6only",
                                                "so_keepalive=on", "so_keepalive=off"}}
      \cup {[name |-> o, value |-> v] : o \in {"backlog", "rcvbuf"}, v \in {0, 12}}
      \cup {[name |-> "sndbuf", value |-> 3], [name |-> "rcvbuf", value |-> L!Refused]}
SomeListens ==
    {[address |-> a, options |-> o] : a \in {<<"8">>, <<"h", ":", "1">>},
                                      o \in {<<>>} \cup {<<a>> : a \in SomeOptions}}
      \cup {[address |-> <<"h">>, options |-> <<a, b>>] : a, b \in SomeOptions}

AllApart     == L!ListensApart(SomeListens)
AllAddresses == L!AddressRead({"h", "1", "8", ":", "*"})

D == INSTANCE Directives WITH Number <- ("404" :> 404) @@ ("500" :> 500) @@ ("1428" :> 1428), Wide <- 1024

\* Up to two error_page directives of up to three words; handlers and actions of two
\* extensions, up to three in a block.
PageLists == UNION {[1 .. n -> UNION {[1 .. k -> {"404", "500", "1428", "a", "b"}] : k \in 1 .. 3}] : n \in 0 .. 2}
Handlers  == {[name |-> "add_handler", parameters |-> p] : p \in {<<"x">>, <<"y">>}}
             \cup {[name |-> "action", parameters |-> <<e, bin>>] : e \in {"x", "y"}, bin \in {"1", "2"}}

AllPagesFound   == D!PagesFound(PageLists, {404, 500})
AllScriptsFound == D!ScriptsFound(UNION {[1 .. n -> Handlers] : n \in 0 .. 3}, "x")

\* No listen directive is given an option of another before it, and its address is read as
\* it is written (Parse.cpp:841-954); the page of an error is that of the first error_page
\* that has it, and a script is given to the interpreter that is meant for it
\* (InfoBlock.cpp:356-405).
DirectivesRead == done => AllApart /\ AllAddresses /\ AllPagesFound /\ AllScriptsFound

A == INSTANCE AddressLists

\* Up to three servers with up to three listen directives of one address or two.
SomeServers  == UNION {[1 .. n -> 1 .. 2] : n \in 0 .. 3}
AllListsOwned == A!ListsOwned(UNION {[1 .. n -> SomeServers] : n \in 1 .. 3})

\* Each address list has one owner, who frees it once (ListenSocket.cpp:61-65).
ListsOwned == done => AllListsOwned

(* The instance of ConfigFile *)

Block(kw, args, body) == [kw |-> kw, args |-> args, body |-> body]
Maybe(E) == {<<>>} \cup {<<e>> : e \in E}

Root    == Simple("root", <<"x">>)
Alias   == Simple("alias", <<"y">>)
Timeout == Simple("cgi_timeout", <<"x">>)
Index   == Simple("index", <<"x", "y">>)
ListenX  == Simple("listen", <<"x", "reuseport">>)
ListenY == Simple("listen", <<"y">>)
Actions == <<Simple("action", <<"x", "x">>), Simple("action", <<"x", "y">>)>>
Limit   == Block("limit_except", <<"GET", "POST">>,
                 <<Simple("deny", <<"x">>), Simple("allow", <<"y">>)>>)
Bare    == Block("limit_except", <<"GET">>, <<>>)
Loc(body) == Block("location", <<"x">>, body)

LocBodies ==
    {b \o l : b \in Maybe({Root, Alias, Index, Simple("internal", <<>>)}) \cup {Actions}, l \in Maybe({Limit, Bare})}
      \cup {<<Simple("return", r)>> : r \in {<<"404">>, <<"http://">>, <<"404", "y">>}}
      \cup {<<Limit, Root>>}
Locs == {Loc(b) : b \in LocBodies}

\* A server: directives, a limit, locations; and a smaller one to come second.
Firsts == {Block("server", <<>>, d \o l \o locs) :
             d \in {<<>>, <<Root>>, <<ListenX, ListenY>>, <<Index>>, Actions}, l \in Maybe({Limit}),
             locs \in Maybe(Locs) \cup {<<a, Loc(<<Root>>)>> : a \in Locs}}
Seconds == {Block("server", <<>>, b) : b \in {<<>>, <<Timeout, ListenY, Limit>>, <<Loc(<<>>), Loc(<<Index, Limit>>)>>}}

Docs == {<<f>> : f \in Firsts} \cup {<<f, s>> : f \in Firsts, s \in Seconds}
CutDocs == {<<f>> : f \in {f \in Firsts : Len(f.body) <= 3}}
             \cup {<<f, s>> : f \in {f \in Firsts : Len(f.body) <= 1}, s \in Seconds}

WholeSources == {Whole(d) : d \in Docs}
CutSources == UNION {Cut(d) : d \in CutDocs}

MCSources == WholeSources \cup CutSources

\* One directive that follows a location.
LateSources == {Whole(<<Block("server", <<>>, <<Loc(<<>>), ListenX>>)>>)} \cup WholeSources
=============================================================================
