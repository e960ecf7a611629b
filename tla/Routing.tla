------------------------------ MODULE Routing ------------------------------
(***************************************************************************)
(* What a request is answered with: the server's longest matching          *)
(* location, the settings in force there, the file or directory the path   *)
(* names, and the page of an error.  One connection and the request it is  *)
(* answered for: that is refused, it may be, while its header is not       *)
(* complete, and routed anew whenever more of the stream is received; of   *)
(* the Client, what one routing leaves to the next.                        *)
(*                                                                         *)
(* Paths are sequences of characters, "/" and "." among them.  Files maps  *)
(* those that exist (written without doubled or trailing slashes) to       *)
(* "file", "directory", "other" (neither) or "unreadable".                 *)
(*                                                                         *)
(* A setting that is not given is <<>>, {}, 0 or "undefined".              *)
(***************************************************************************)
EXTENDS Integers, Sequences, SequencesExt

CONSTANTS Servers,       \* the configurations of a server
          Requests,      \* [path, method, length] of well-formed requests
          Refusals,      \* the codes that unfinished or malformed headers get
          Files,         \* what exists
          DefaultRoot, DefaultIndex, DefaultBodySize,
          MaxFailures    \* how many open()s may fail in one routing

Path   == Seq(STRING)
Limits == [methods : SUBSET STRING, range : {"none", "allow", "deny"}]

\* What a configuration can say of a location, and of a server.
Location ==
    [path : Path, internal : BOOLEAN, return_ : [code : {0} \cup (100 .. 599), uri : Path],
     root : Path, alias : BOOLEAN, index : Seq(Path), autoindex : {"on", "off", "undefined"},
     error_page : Seq([codes : SUBSET Nat, path : Path]), client_max_body_size : Nat,
     cgi_mapping : SUBSET Path, limit_except : Limits]
ServerInfo ==
    [location : Seq(Location), merge_slash : BOOLEAN,
     root : Path, alias : BOOLEAN, index : Seq(Path), autoindex : {"on", "off", "undefined"},
     error_page : Seq([codes : SUBSET Nat, path : Path]), client_max_body_size : Nat,
     cgi_mapping : SUBSET Path, limit_except : Limits]

ASSUME ServersAssumption == Servers \subseteq ServerInfo
ASSUME RequestsAssumption ==
    /\ Requests \subseteq [path : Path, method : STRING, length : Nat]
    /\ \A q \in Requests : q.path # <<>> /\ Head(q.path) = "/"
ASSUME RootsAssumption == \A s \in Servers : \A n \in DOMAIN s.location : s.location[n].path # <<>>
ASSUME DefaultsAssumption ==
    /\ DefaultRoot \in Path /\ DefaultIndex \in Seq(Path) /\ DefaultBodySize \in Nat
    /\ DefaultRoot # <<>> /\ DefaultIndex # <<>> /\ DefaultBodySize > 0
ASSUME MaxFailuresAssumption == MaxFailures \in 0 .. 2

VARIABLES server,        \* server_ref
          root_dir,      \* the directory the last file was looked for in
          location_ref,  \* the location last chosen, 0 for none (getLocEnd())
          asked,         \* what was last asked
          answer         \* and what was answered

vars == <<server, root_dir, location_ref, asked, answer>>

----------------------------------------------------------------------------
(* Paths and files                                                         *)

Ends(p) == p # <<>> /\ Last(p) = "/"

\* A run of slashes counts as one: for the kernel, and for normalizeUri().
Merged(p) == FoldLeft(LAMBDA q, c : IF c = "/" /\ Ends(q) THEN q ELSE Append(q, c), <<>>, p)

\* CheckFile::checking(): only a directory may be named with a slash behind it.
Bare(q) == IF Ends(q) /\ Len(q) > 1 THEN Front(q) ELSE q
Named(q, bare) ==
    IF bare \notin DOMAIN Files \/ (Files[bare] # "directory" /\ bare # q) THEN "none"
    ELSE Files[bare]
Lookup(p) == Named(Merged(p), Bare(Merged(p)))

Readable(p) == Lookup(p) \in {"file", "directory", "other"}

AfterDot(p, dots) ==
    IF dots = {} THEN <<>> ELSE SubSeq(p, (CHOOSE n \in dots : \A m \in dots : m <= n) + 1, Len(p))
Extension(p) == AfterDot(p, {n \in DOMAIN p : p[n] = "."})

Join(dir, name) == dir \o (IF name # <<>> /\ Head(name) = "/" THEN name ELSE <<"/">> \o name)

----------------------------------------------------------------------------
(* Settings                                                                *)

\* defaultSetting(): of a server.
Defaults(s) ==
    [s EXCEPT !.root = IF @ = <<>> THEN DefaultRoot ELSE @,
              !.index = IF @ = <<>> THEN DefaultIndex ELSE @,
              !.autoindex = IF @ = "undefined" THEN "off" ELSE @,
              !.client_max_body_size = IF @ = 0 THEN DefaultBodySize ELSE @]

\* Mutant: a location without limit_except of its own has none.
InheritNoLimits(b, ref) ==
    [b EXCEPT !.root = IF @ = <<>> THEN ref.root ELSE @,
              !.index = IF @ = <<>> THEN ref.index ELSE @,
              !.autoindex = IF @ = "undefined" THEN ref.autoindex ELSE @,
              !.error_page = IF @ = <<>> THEN ref.error_page ELSE @,
              !.client_max_body_size = IF @ = 0 THEN ref.client_max_body_size ELSE @]

\* defaultSetting(ref): of a location.  cgi_mapping is not inherited.
Inherit(b, ref) ==
    [b EXCEPT !.root = IF @ = <<>> THEN ref.root ELSE @,
              !.index = IF @ = <<>> THEN ref.index ELSE @,
              !.autoindex = IF @ = "undefined" THEN ref.autoindex ELSE @,
              !.error_page = IF @ = <<>> THEN ref.error_page ELSE @,
              !.client_max_body_size = IF @ = 0 THEN ref.client_max_body_size ELSE @,
              !.limit_except = IF @.methods = {} THEN ref.limit_except ELSE @]

\* The settings in force in the n-th location of the server s, or in none.
Block(s, n) == IF n = 0 THEN Defaults(s) ELSE Inherit(s.location[n], Defaults(s))

\* checkAccess(): range is what the first range that holds this peer says,
\* "none" if no range does.
Access(l, method) ==
    IF l.methods = {} \/ (method \in l.methods /\ l.range # "none") THEN 200
    ELSE IF method \notin l.methods /\ l.range = "allow" THEN 405 ELSE 403
CheckAccess(b, method) == Access(b.limit_except, method)

\* findErrorPath(): the first page that is given for the status, <<>> if none is.
Given(b, status) == {n \in DOMAIN b.error_page : status \in b.error_page[n].codes}
FindErrorPath(b, status) ==
    IF Given(b, status) = {} THEN <<>>
    ELSE b.error_page[CHOOSE n \in Given(b, status) : \A m \in Given(b, status) : n <= m].path

----------------------------------------------------------------------------
(* Choosing: what the handlers do to the Client c                          *)

AddContent(c, status, name) == [c EXCEPT !.status_code = status, !.content_name = name]
AddDir(c, dir) == [c EXCEPT !.status_code = 200, !.content_name = dir, !.is_directory = TRUE]

\* Mutant: a directory is redirected to itself.
LocatedBare(c, type, fname) ==
    CASE type = "directory" -> AddContent(c, 308, fname)
      [] type = "file"      -> AddContent(c, 200, fname)
      [] OTHER              -> AddContent(c, 404, <<>>)

\* Mutant: whatever exists and is no directory is a file.
LocatedAny(c, type, fname) ==
    CASE type = "directory" -> AddContent(c, 308, Append(fname, "/"))
      [] type = "none"      -> AddContent(c, 404, <<>>)
      [] OTHER              -> AddContent(c, 200, fname)

\* searchSingleFile(), of which 200 and 308 are the successes.
Located(c, type, fname) ==
    CASE type = "directory" -> AddContent(c, 308, Append(fname, "/"))
      [] type = "file"      -> AddContent(c, 200, fname)
      [] OTHER              -> AddContent(c, 404, <<>>)
\* Mutant: the directory is added to what was there.
SearchSingleFileBehind(c, root_, fname) ==
    Located([c EXCEPT !.root_dir = @ \o root_], Lookup(root_ \o fname), fname)

SearchSingleFile(c, root_, fname) ==
    Located([c EXCEPT !.root_dir = root_], Lookup(root_ \o fname), fname)

Found(c) == c.status_code \in {200, 308}

SearchIndexes(c, b, root_) ==
    FoldLeft(LAMBDA d, name : IF Found(d) THEN d ELSE SearchSingleFile(d, root_, name),
             AddContent(c, 404, <<>>), b.index)

\* What resolveUri() makes of the search for an index.
OrListing(c, b, dir) ==
    IF Found(c) THEN c
    ELSE IF b.autoindex = "on" THEN AddDir(c, dir) ELSE AddContent(c, 403, <<>>)

\* resolveUri().  It looks at uri[length - 1]: of an empty uri that is a
\* character outside the string, stray tells whether it is a slash.
ResolveUri(c, b, uri, stray) ==
    IF Ends(uri) \/ (uri = <<>> /\ stray)
    THEN OrListing(SearchIndexes(c, b, b.root \o uri), b, b.root \o uri)
    ELSE SearchSingleFile(c, b.root, uri)

\* Mutant: nothing is taken off the path where there is an alias.
RouteInfoBlockWhole(c, b, location_, q, stray) ==
    IF CheckAccess(b, q.method) > 200 THEN AddContent(c, CheckAccess(b, q.method), <<>>)
    ELSE IF Lookup(b.root) # "directory" THEN AddContent(c, 404, <<>>)
    ELSE ResolveUri(c, b, q.path, stray)

\* InfoBlock::routingClient(): an alias takes the place of the location's path.
\* It is cut from the path as it was sent, although the location was chosen by
\* the one without doubled slashes.
RouteInfoBlock(c, b, location_, q, stray) ==
    IF CheckAccess(b, q.method) > 200 THEN AddContent(c, CheckAccess(b, q.method), <<>>)
    ELSE IF Lookup(b.root) # "directory" THEN AddContent(c, 404, <<>>)
    ELSE ResolveUri(c, b, IF b.alias THEN SubSeq(q.path, Len(location_) + 1, Len(q.path))
                          ELSE q.path, stray)

\* Location::routingClient(), routeClientReturn()
RouteLocation(c, b, q, stray) ==
    IF b.internal THEN AddContent(c, 403, <<>>)
    ELSE IF b.return_.code > 0
         THEN AddContent(c, b.return_.code,
                         IF b.return_.code \in 300 .. 399 THEN b.return_.uri ELSE <<>>)
    ELSE RouteInfoBlock(c, b, b.path, q, stray)

\* ServerInfo::routingClient(): the first of the longest matches.
PathLength(s, n) == IF n = 0 THEN 0 ELSE Len(s.location[n].path)
Chosen(s, uri) ==
    FoldLeft(LAMBDA best, n : IF IsPrefix(s.location[n].path, uri) /\ PathLength(s, n) > PathLength(s, best)
                              THEN n ELSE best,
             0, [n \in DOMAIN s.location |-> n])

\* Mutant: doubled slashes count.
UriAsSent(s, q) == q.path
Uri(s, q) == IF s.merge_slash THEN Merged(q.path) ELSE q.path

\* The settings for the Client c: those of its location, or of its server.
InForce(c) == Block(c.server_ref, c.location_ref)

\* The chosen location takes the request, or the server where there is none.
RouteChosen(c, q, stray) ==
    IF c.location_ref = 0 THEN RouteInfoBlock(c, InForce(c), <<>>, q, stray)
    ELSE RouteLocation(c, InForce(c), q, stray)

RoutingClient(c, q, stray) ==
    RouteChosen([c EXCEPT !.location_ref = Chosen(c.server_ref, Uri(c.server_ref, q))], q, stray)

----------------------------------------------------------------------------
(* Answering                                                               *)

Answered(c, kind, path) ==
    [c EXCEPT !.answer = [status |-> c.status_code, kind |-> kind, path |-> path]]

\* processResponseError(), the first failures open()s of which fail.  A page
\* that cannot be opened leaves a status of 500.
SendPage(c, failures) ==
    IF c.content_name = <<>> \/ ~Readable(c.root_dir \o <<"/">> \o c.content_name)
    THEN Answered(c, "builtin", <<>>)
    ELSE IF failures > 0 THEN Answered([c EXCEPT !.status_code = 500], "builtin", <<>>)
    ELSE Answered(c, "page", Join(c.root_dir, c.content_name))
ResponseError(c, failures) ==
    SendPage([c EXCEPT !.is_directory = FALSE,
                       !.content_name = FindErrorPath(InForce(c), c.status_code)], failures)

\* processContentCgiHelper(): what the location does not map, the server may.
IsCgi(c) ==
    Extension(c.content_name) \in
        (IF c.location_ref = 0 THEN {} ELSE c.server_ref.location[c.location_ref].cgi_mapping)
        \cup c.server_ref.cgi_mapping

ResponseSuccess(c, failures) ==
    IF c.is_directory THEN Answered(c, "listing", c.content_name)
    ELSE IF failures = 0
         THEN Answered(c, IF IsCgi(c) THEN "script" ELSE "file", Join(c.root_dir, c.content_name))
    ELSE ResponseError([c EXCEPT !.status_code = 500], failures - 1)

\* checkBodySize()
CheckBodySize(c, q) ==
    IF q.length < InForce(c).client_max_body_size THEN c ELSE [c EXCEPT !.status_code = 413]

\* routeRequest()
Respond(c, failures) ==
    CASE c.status_code \in 200 .. 299 -> ResponseSuccess(c, failures)
      [] c.status_code \in 300 .. 399 -> Answered(c, "redirect", c.content_name)
      [] OTHER                        -> ResponseError(c, failures)
Route(c, q, stray, failures) == Respond(CheckBodySize(RoutingClient(c, q, stray), q), failures)

NoAnswer == [status |-> 0, kind |-> "none", path |-> <<>>]

\* What a routing finds in the Client of the server s: the name and the status it writes
\* before it reads them, and is_directory is left TRUE only for a directory, which this
\* request then is again.
Before(s, dir, n) ==
    [server_ref |-> s, root_dir |-> dir, location_ref |-> n, content_name |-> <<>>,
     status_code |-> 0, is_directory |-> FALSE, answer |-> NoAnswer]

----------------------------------------------------------------------------
(* The connection                                                          *)

Init ==
    /\ server \in Servers
    /\ root_dir = <<>> /\ location_ref = 0
    /\ asked = <<>>
    /\ answer = NoAnswer

Put(c) == root_dir' = c.root_dir /\ location_ref' = c.location_ref /\ answer' = c.answer

IsRequest == Len(asked) = 3
Q         == asked[1]

\* clientRecvHttp(): the request is complete; it is routed again whenever more is received
\* before it is answered.  root_dir is as the routings before this one left it.
RouteRequest(q, stray, failures) ==
    /\ IsRequest => Q = q
    /\ Put(Route(Before(server, root_dir, location_ref), q, stray, failures))
    /\ asked' = <<q, stray, failures>>
    /\ UNCHANGED server

\* routeError(): its header is refused, before any location is looked for.  One that was
\* only unfinished may be completed, and routed, later.
RouteError(status, failures) ==
    /\ ~IsRequest
    /\ Put(ResponseError([Before(server, root_dir, location_ref) EXCEPT !.status_code = status], failures))
    /\ asked' = <<status, failures>>
    /\ UNCHANGED server

Next == \/ \E q \in Requests, stray \in BOOLEAN, failures \in 0 .. MaxFailures :
               RouteRequest(q, stray, failures)
        \/ \E status \in Refusals, failures \in 0 .. MaxFailures : RouteError(status, failures)

Spec == Init /\ [][Next]_vars

----------------------------------------------------------------------------
(* Properties                                                              *)

NoFailure == asked[Len(asked)] = 0

\* The longest matching location, and what it or else the server says.
Matches(s, q) == {n \in DOMAIN s.location : IsPrefix(s.location[n].path, Uri(s, q))}
Longest(s, q) ==
    IF Matches(s, q) = {} THEN 0
    ELSE CHOOSE n \in Matches(s, q) : \A m \in Matches(s, q) :
           LET a == Len(s.location[n].path)  b == Len(s.location[m].path) IN
           b < a \/ (b = a /\ n <= m)
Plain(s, n) == n = 0 \/ (~s.location[n].internal /\ s.location[n].return_.code = 0)
RootOf(s, n) ==
    IF n # 0 /\ s.location[n].root # <<>> THEN s.location[n].root
    ELSE IF s.root # <<>> THEN s.root ELSE DefaultRoot
LimitsOf(s, n) ==
    IF n # 0 /\ s.location[n].limit_except.methods # {} THEN s.location[n].limit_except
    ELSE s.limit_except
BodySizeOf(s, n) ==
    IF n # 0 /\ s.location[n].client_max_body_size # 0 THEN s.location[n].client_max_body_size
    ELSE IF s.client_max_body_size # 0 THEN s.client_max_body_size ELSE DefaultBodySize
Admitted(s, q) ==
    LET n == Longest(s, q) IN
    /\ Plain(s, n) /\ q.length < BodySizeOf(s, n)
    /\ LimitsOf(s, n).methods # {} => q.method \in LimitsOf(s, n).methods /\ LimitsOf(s, n).range # "none"

\* What the configurations at hand do not do: answer with success where there is
\* nothing to send ("return 200"), or replace a path by one that ends without a slash.
NothingReturned ==
    \A s \in Servers : \A n \in DOMAIN s.location : s.location[n].return_.code \notin 200 .. 299
AliasesEnd ==
    \A s \in Servers : \A n \in DOMAIN s.location : s.location[n].alias => Ends(RootOf(s, n))

\* Nor do they look for extensions with a slash, nor for an index under an address of its own.
ExtensionsPlain ==
    \A s \in Servers : \A n \in {0} \cup DOMAIN s.location :
      \A ext \in Block(s, n).cgi_mapping : \A i \in DOMAIN ext : ext[i] # "/"
IndexesPlain ==
    \A s \in Servers : \A n \in {0} \cup DOMAIN s.location : \A i \in DOMAIN Block(s, n).index :
      Block(s, n).index[i] # <<>> /\ Head(Block(s, n).index[i]) # "/"

\* What a file system promises: what is before a slash in the name of a file is a directory.
FilesInDirectories(names) ==
    \A p \in names, r \in names : Ends(p) /\ Lookup(p \o r) = "file" => Lookup(p) = "directory"

\* The same request, routed once.
Fresh(s, q, stray, failures) == Route(Before(s, <<>>, 0), q, stray, failures).answer

\* A file or a script that answers a request exists, and lies under the root of
\* the longest matching location, or else of the server.
ServedInside ==
    (IsRequest /\ answer.kind \in {"file", "script"}) =>
        /\ Lookup(answer.path) = "file"
        /\ IsPrefix(RootOf(server, Longest(server, Q)), answer.path)

\* Nothing is sent, listed or redirected for a request that the limits of the
\* longest matching location, or else of the server, exclude.
LimitsKept ==
    (IsRequest /\ Plain(server, Longest(server, Q)) /\ answer.kind \in {"file", "script", "listing", "redirect"})
        => Admitted(server, Q)

\* However often its header was refused while it was unfinished, and however often it was
\* routed while more of the stream was received, a request is answered as if it were
\* routed once.
AnswerUnremembered ==
    (IsRequest /\ NoFailure) => answer = Fresh(server, Q, asked[2], 0)

\* Where a client goes that is redirected, and what the server looks for there.
Target(path, to) ==
    IF Head(to) = "/" THEN to
    ELSE LET slashes == {n \in DOMAIN path : path[n] = "/"} IN
         SubSeq(path, 1, CHOOSE n \in slashes : \A m \in slashes : m <= n) \o to
Where(q, path) ==
    LET n == Longest(server, q) IN
    RootOf(server, n) \o IF n # 0 /\ server.location[n].alias
                 THEN SubSeq(path, Len(server.location[n].path) + 1, Len(path)) ELSE path

\* Where the location is an alias: one name is left of the path, after a slash.
OneName(q) ==
    LET n    == Longest(server, q)
        last == Len(server.location[n].path)
    IN  n # 0 /\ server.location[n].alias =>
          Len(q.path) > last /\ {m \in last .. Len(q.path) : q.path[m] = "/"} = {last}

\* A directory asked for without its slash is redirected to the address that
\* names it with one, in the same location; below an alias only if it is there
\* under one name.  (A path that begins with two slashes is redirected to one
\* that names a host.)
RedirectReturns ==
    (IsRequest /\ Plain(server, Longest(server, Q)) /\ answer.kind = "redirect" /\ SubSeq(Q.path, 1, 2) # <<"/", "/">>
       /\ OneName(Q)) =>
        LET there == [Q EXCEPT !.path = Target(Q.path, answer.path)] IN
        /\ Ends(there.path)
        /\ Longest(server, there) = Longest(server, Q) =>
              Merged(Where(there, there.path)) = Merged(root_dir \o <<"/">> \o answer.path)

\* With merge_slash, doubled slashes change neither the location nor the answer,
\* where there is no alias.
SlashesDoNotMatter ==
    (IsRequest /\ server.merge_slash /\ (Longest(server, Q) # 0 => ~server.location[Longest(server, Q)].alias)) =>
        LET other == Fresh(server, [Q EXCEPT !.path = Merged(@)], asked[2], asked[3])
            this  == Fresh(server, Q, asked[2], asked[3])
        IN  [this EXCEPT !.path = Merged(@)] = [other EXCEPT !.path = Merged(@)]

\* What an alias says stands for the path of the location: asked for
\* <location><rest>, the server sends the file <alias><rest>.
Aliased(q) == Longest(server, q) # 0 /\ server.location[Longest(server, q)].alias /\ Merged(q.path) = q.path
Rest(q) == SubSeq(q.path, Len(server.location[Longest(server, q)].path) + 1, Len(q.path))
AliasReplaces ==
    (IsRequest /\ NoFailure /\ Aliased(Q) /\ Admitted(server, Q)) =>
        LET file == RootOf(server, Longest(server, Q)) \o Rest(Q) IN
        (Rest(Q) # <<>> /\ Lookup(file) = "file") =>
            answer.kind \in {"file", "script"} /\ Merged(answer.path) = Merged(file)

\* Whichever way a path is written, redirected or replaced, it leads to the file it means.
PathsLead == RedirectReturns /\ SlashesDoNotMatter /\ AliasReplaces
=============================================================================
