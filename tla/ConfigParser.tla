---------------------------- MODULE ConfigParser ----------------------------
(***************************************************************************)
(* Parse: the automaton that reads the configuration, token by token.      *)
(*                                                                         *)
(* A file is the sequence of its tokens, with "nl" where a line ends (only *)
(* there can a directive be cut).  Comments are blank by then and braces   *)
(* and semicolons stand alone.  One directive stands for each way in which *)
(* the code counts and stores parameters; what a value must look like (a   *)
(* size, a time, on or off) is only modelled for return and listen.        *)
(***************************************************************************)
EXTENDS Integers, Sequences

CONSTANTS Words,      \* parameters that are not words of the language
          Sources     \* what may be read: records with a field tokens

InfoDirectives     == {"root", "cgi_timeout", "index", "action"}
ServerDirectives   == InfoDirectives \cup {"listen"}
LocationDirectives == InfoDirectives \cup {"alias", "internal", "return"}
LimitDirectives    == {"allow", "deny"}
Methods            == {"GET", "POST"}
Tokens == ServerDirectives \cup LocationDirectives \cup LimitDirectives \cup Methods \cup Words
            \cup {"server", "location", "limit_except", "{", "}", ";", "nl",
                  "404", "http://", "reuseport"}

ASSUME SourcesAssumption == \A s \in Sources : s.tokens \in Seq(Tokens)

VARIABLES source,   \* the file
          rest,     \* what has not been read
          parser,   \* the members of Parse
          done      \* processContent() is over

vars == <<source, rest, parser, done>>

\* InfoBlock: what a server and a location have in common.
Unset == ""
InfoBlock == [root |-> Unset, alias |-> FALSE, cgi_timeout |-> Unset, index |-> <<>>,
              cgi_mapping |-> {}, methods |-> <<>>, ranges |-> <<>>]

\* ServerInfo, with what was read of it, and its empty state
ServerInfo == [info |-> InfoBlock, listen |-> <<>>, location |-> <<>>]
\* Location
Location == [info |-> InfoBlock, path |-> Unset, code |-> Unset, uri |-> Unset]

\* Mutant: reset() forgets the list of indexes.
ResetInfoKeeps(b) == [InfoBlock EXCEPT !.cgi_timeout = b.cgi_timeout, !.index = b.index]

\* InfoBlock::reset(): everything but cgi_timeout.
ResetInfo(b) == [InfoBlock EXCEPT !.cgi_timeout = b.cgi_timeout]

Start == [bracket_no |-> 0, isServer |-> FALSE, isLocation |-> FALSE, isLimitExcept |-> FALSE,
          block_id |-> "nothing_here", directive |-> Unset, no_para |-> 0, ptr |-> "serverinfo",
          parsing_buffer |-> Unset, listen_socket |-> <<>>,
          serverinfo |-> ServerInfo, location |-> Location, servers |-> <<>>, failed |-> FALSE]

\* An exception: parseConfigFile() is left.
Fail(p) == [p EXCEPT !.failed = TRUE]

----------------------------------------------------------------------------
(* Blocks: checkBlockId                                                    *)

\* Mutant: braces are only counted.
MayOpenAny(p) == p.bracket_no < 3

MayOpen(p) ==
    CASE p.bracket_no = 0 -> p.isServer /\ ~p.isLocation /\ ~p.isLimitExcept
      [] p.bracket_no = 1 -> p.isServer /\ (p.isLocation \/ p.isLimitExcept)
      [] p.bracket_no = 2 -> p.isServer /\ p.isLocation /\ p.isLimitExcept
      [] OTHER -> FALSE

Open(p) == IF MayOpen(p) THEN [p EXCEPT !.bracket_no = @ + 1] ELSE Fail(p)

CloseLimitExcept(p, outer) ==
    [p EXCEPT !.bracket_no = @ - 1, !.isLimitExcept = FALSE, !.block_id = outer]

CloseLocation(p) ==
    [p EXCEPT !.bracket_no = 1, !.isLocation = FALSE, !.block_id = "location_",
              !.serverinfo.location = Append(@, p.location),
              !.location = [Location EXCEPT !.info = ResetInfo(p.location.info)]]

CloseServer(p) ==
    [p EXCEPT !.bracket_no = 0, !.isServer = FALSE, !.block_id = "nothing_here",
              !.servers = Append(@, p.serverinfo),
              !.serverinfo = [ServerInfo EXCEPT !.info = ResetInfo(p.serverinfo.info)]]

Close(p) ==
    CASE p.bracket_no = 3 /\ p.isServer /\ p.isLocation /\ p.isLimitExcept ->
           CloseLimitExcept(p, "location_")
      [] p.bracket_no = 2 /\ p.isServer /\ p.isLimitExcept -> CloseLimitExcept(p, "server_")
      [] p.bracket_no = 2 /\ p.isServer /\ p.isLocation /\ ~p.isLimitExcept -> CloseLocation(p)
      [] p.bracket_no = 1 /\ p.isServer /\ ~p.isLocation /\ ~p.isLimitExcept -> CloseServer(p)
      [] OTHER -> Fail(p)

Keyword(p, t) ==
    CASE t = "server"       -> [p EXCEPT !.isServer = TRUE, !.block_id = "server_"]
      [] t = "location"     -> [p EXCEPT !.isLocation = TRUE, !.block_id = "location_"]
      [] t = "limit_except" -> [p EXCEPT !.isLimitExcept = TRUE, !.block_id = "limitexcept_"]

----------------------------------------------------------------------------
(* Directives                                                              *)

\* para_limit and exact_para_limit
ParaLimit(d) == CASE d = "action" -> 2 [] d = "internal" -> 0 [] OTHER -> 1
ExactParaLimit(d) == d \notin {"index", "listen", "return"}

\* The beginning of processServer(), processLocation(), processLimitExcept().
Begin(p, t, known, block) ==
    IF t \in known THEN [p EXCEPT !.directive = t, !.ptr = block] ELSE Fail(p)

\* The setters of the block that ptr leads to.
Set(p, field, value) ==
    IF p.ptr = "location" THEN [p EXCEPT !.location.info[field] = value]
                          ELSE [p EXCEPT !.serverinfo.info[field] = value]
Get(p, field) ==
    IF p.ptr = "location" THEN p.location.info[field] ELSE p.serverinfo.info[field]

\* InfoBlock::addCgiMapping(): the last interpreter of an extension counts.
WithMapping(mapping, ext, bin) == {m \in mapping : m[1] # ext} \cup {<<ext, bin>>}

Return(p, t) ==
    IF p.no_para = 1
    THEN CASE t = "http://" -> [p EXCEPT !.location.code = "302", !.location.uri = t]
           [] t = "404"     -> [p EXCEPT !.location.code = t]
           [] OTHER         -> Fail(p)
    ELSE IF p.location.uri # Unset THEN Fail(p) ELSE [p EXCEPT !.location.uri = t]

\* processListen(): an address, then options.
Listen(p, t) ==
    IF p.no_para = 1 \/ t = "reuseport" THEN [p EXCEPT !.listen_socket = Append(@, t)] ELSE Fail(p)

\* The function that processDirective() calls for a parameter.
Process(p, t) ==
    CASE p.directive \in {"root", "cgi_timeout"} -> Set(p, p.directive, t)
      [] p.directive = "index" -> Set(p, "index", Append(Get(p, "index"), t))
      [] p.directive = "action" ->
           IF p.no_para = 1 THEN [p EXCEPT !.parsing_buffer = t]
           ELSE Set(p, "cgi_mapping", WithMapping(Get(p, "cgi_mapping"), p.parsing_buffer, t))
      [] p.directive = "listen" -> Listen(p, t)
      [] p.directive = "alias" -> [p EXCEPT !.location.info.root = t, !.location.info.alias = TRUE]
      [] p.directive = "return" -> Return(p, t)
      [] p.directive \in LimitDirectives ->
           Set(p, "ranges", Append(Get(p, "ranges"), <<p.directive, t>>))
      [] OTHER -> p

\* checkParameterEnd()
EnoughParameters(p) ==
    IF ExactParaLimit(p.directive) THEN p.no_para = ParaLimit(p.directive)
                                   ELSE p.no_para >= ParaLimit(p.directive)

\* The semicolon; "listen" is only stored now.
EndDirective(p) ==
    LET q == [p EXCEPT !.directive = Unset, !.no_para = 0] IN
    IF ~EnoughParameters(p) THEN Fail(p)
    ELSE IF p.directive = "listen"
    THEN [q EXCEPT !.serverinfo.listen = Append(@, p.listen_socket), !.listen_socket = <<>>]
    ELSE q

\* One turn of processDirective(): line_stream is not refilled.
Directive(p, t) ==
    LET q == [p EXCEPT !.no_para = @ + 1] IN
    CASE t = "nl" -> Fail(p)
      [] t = ";" -> EndDirective(p)
      [] OTHER -> IF ExactParaLimit(p.directive) /\ q.no_para > ParaLimit(p.directive)
                  THEN Fail(p) ELSE Process(q, t)

----------------------------------------------------------------------------
(* Tokens: processToken and processContent                                 *)

\* A method of a limit_except block.
Method(p, t, block) ==
    IF t \in Methods
    THEN LET q == [p EXCEPT !.ptr = block] IN Set(q, "methods", Append(Get(q, "methods"), t))
    ELSE Fail(p)

\* A token in a limit_except block, of a location or of a server.
LimitExceptToken(p, t) ==
    CASE p.isLocation /\ p.bracket_no = 2 -> Method(p, t, "location")
      [] p.isServer /\ p.bracket_no = 1 -> Method(p, t, "serverinfo")
      [] p.isLocation /\ p.bracket_no = 3 ->
           IF p.location.info.methods = <<>> THEN Fail(p)
           ELSE Begin(p, t, LimitDirectives, "location")
      [] p.isServer /\ ~p.isLocation /\ p.bracket_no = 2 ->
           IF p.serverinfo.info.methods = <<>> THEN Fail(p)
           ELSE Begin(p, t, LimitDirectives, "serverinfo")
      [] OTHER -> Fail(p)

\* A token after the keyword location, or within its braces.
LocationToken(p, t) ==
    CASE p.bracket_no = 1 ->
           IF p.location.path # Unset THEN Fail(p) ELSE [p EXCEPT !.location.path = t]
      [] p.bracket_no = 2 /\ p.location.path # Unset ->
           Begin(p, t, LocationDirectives, "location")
      [] OTHER -> Fail(p)

\* processToken(): checkBlockId(), and then what the block makes of it.
Token(p, t) ==
    CASE t = "nl" -> p
      [] t = "{" -> Open(p)
      [] t = "}" -> Close(p)
      [] t \in {"server", "location", "limit_except"} -> Keyword(p, t)
      [] OTHER ->
           CASE p.block_id = "server_" /\ p.bracket_no = 1 ->
                  Begin(p, t, ServerDirectives, "serverinfo")
             [] p.block_id = "location_" -> LocationToken(p, t)
             [] p.block_id = "limitexcept_" -> LimitExceptToken(p, t)
             [] OTHER -> Fail(p)

Init ==
    /\ source \in Sources
    /\ rest = source.tokens
    /\ parser = Start
    /\ done = FALSE

Read ==
    /\ ~done /\ rest # <<>> /\ ~parser.failed
    /\ parser' = IF parser.directive # Unset THEN Directive(parser, Head(rest))
                                            ELSE Token(parser, Head(rest))
    /\ rest' = Tail(rest)
    /\ UNCHANGED <<source, done>>

\* Mutant: the braces are not counted at the end.
EndOfFileUnchecked ==
    /\ ~done /\ (rest = <<>> \/ parser.failed)
    /\ done' = TRUE
    /\ parser' = IF parser.directive # Unset THEN Fail(parser) ELSE parser
    /\ UNCHANGED <<source, rest>>

\* The end of the file, or of the process: a directive must be over and every
\* brace closed.
EndOfFile ==
    /\ ~done /\ (rest = <<>> \/ parser.failed)
    /\ done' = TRUE
    /\ parser' = IF parser.directive # Unset \/ parser.bracket_no > 0 THEN Fail(parser) ELSE parser
    /\ UNCHANGED <<source, rest>>

Next == Read \/ EndOfFile

Spec == Init /\ [][Next]_vars

----------------------------------------------------------------------------
(* Properties of the automaton                                             *)

\* On whichever text: the flags, the block that ptr leads to and the number of
\* open braces agree, so that no directive is stored in a block that is not open.
BlocksAgree ==
    ~parser.failed =>
      /\ parser.bracket_no \in 0 .. 3
      /\ parser.bracket_no > 0 => parser.isServer
      /\ parser.bracket_no = 2 => parser.isLocation \/ parser.isLimitExcept
      /\ parser.bracket_no = 3 => parser.isLocation /\ parser.isLimitExcept
      /\ parser.directive # Unset =>
           CASE parser.ptr = "location"   -> parser.isLocation /\ parser.bracket_no >= 2
             [] parser.ptr = "serverinfo" -> parser.bracket_no >= 1
=============================================================================
