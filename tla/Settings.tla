------------------------------ MODULE Settings ------------------------------
(***************************************************************************)
(* What becomes of the settings of a configuration: the members of         *)
(* ServerInfo and Location, the two objects that Parse fills and resets,   *)
(* one block after the other, the setters, and the defaults (InfoBlock,    *)
(* ServerInfo, Location).                                                  *)
(*                                                                         *)
(* A setting is [directive, value].  A server is [own, location]: its own  *)
(* settings, and those of each of its locations.                           *)
(***************************************************************************)
EXTENDS Naturals, SequencesExt

Nothing == "nothing"     \* undefined, zero, or the empty string
Off     == "off"
True    == "true"

Switches     == {"autoindex", "autoindex_exact_size", "autoindex_localtime"}
Lists        == {"error_page", "index", "cgi_mapping", "limit_except", "server_name"}
InfoFields   == Switches \cup {"error_page", "if_modify_since", "root", "client_body_timeout",
                  "client_max_body_size", "index", "autoindex_format", "symlinks", "etag",
                  "cgi_enabled", "cgi_mapping", "cgi_timeout", "limit_except", "alias"}
ServerFields == {"client_header_buffer_size", "client_header_timeout", "merge_slash", "server_name"}
LocationFields == {"return_"}
Fields == InfoFields \cup ServerFields \cup LocationFields

\* The directives whose setter sets a field of another name.  The header timeout is
\* taken for that of the body, so that of the header is always the default.
FieldOf(directive) ==
    CASE directive = "disable_symlinks"      -> "symlinks"
      [] directive = "if_modified_since"     -> "if_modify_since"
      [] directive = "cgi"                   -> "cgi_enabled"
      [] directive \in {"add_handler", "action"} -> "cgi_mapping"
      [] directive = "return"                -> "return_"
      [] directive = "client_header_timeout" -> "client_body_timeout"
      [] OTHER                               -> directive

ServerDirectives ==
    (InfoFields \ {"symlinks", "if_modify_since", "cgi_enabled", "cgi_mapping", "alias", "limit_except"})
      \cup {"disable_symlinks", "if_modified_since", "cgi", "add_handler", "action", "limit_except",
            "client_header_buffer_size", "client_header_timeout", "merge_slash", "server_name"}
LocationDirectives ==
    (ServerDirectives \ {"client_header_buffer_size", "client_header_timeout", "merge_slash", "server_name"})
      \cup {"alias", "return"}

----------------------------------------------------------------------------
(* The objects                                                             *)

Blank == [f \in Fields |-> IF f \in Lists THEN <<>> ELSE Nothing]

\* The constructors: the switches begin as off, not as undefined.
Constructed == [f \in Fields |-> IF f \in Switches THEN Off ELSE Blank[f]]

\* What reset() of a server or a location leaves as it is.
NotReset == {"cgi_timeout", "client_header_buffer_size", "client_header_timeout", "merge_slash"}

\* Mutant: the page for an error stays.
ResetKeepsPages(b) == [f \in InfoFields \ (NotReset \cup {"error_page"}) |-> Blank[f]] @@ b

\* The three reset(): each clears what its own class has, on top of the base.
ResetInfo(b) == [f \in InfoFields \ NotReset |-> Blank[f]] @@ b
ResetServer(b) == [ResetInfo(b) EXCEPT !.server_name = Blank.server_name]
ResetLocation(b) == [ResetInfo(b) EXCEPT !.return_ = Blank.return_]

\* The three operator=, of an object that was just constructed: member by member.
CopyInfo(b) == [f \in InfoFields |-> b[f]] @@ Constructed
CopyServer(b) == [f \in ServerFields |-> b[f]] @@ CopyInfo(b)
CopyLocation(b) == [f \in LocationFields |-> b[f]] @@ CopyInfo(b)

\* The setters of a block: lists grow, the rest is replaced.  A root after an alias
\* would be a conflict, but the exception is made and not thrown.
SetInfo(b, f, value) == [b EXCEPT ![f] = IF f \in Lists THEN Append(@, value) ELSE value]

\* Those of a server: merge_slash is on whatever is said of it, as both on and off are
\* other than zero.
SetServer(b, f, value) ==
    CASE f = "server_name" -> [b EXCEPT !.server_name = Append(@, value)]
      [] f = "merge_slash" -> [b EXCEPT !.merge_slash = True]
      [] OTHER             -> [b EXCEPT ![f] = value]

\* Those of a location: an alias is a root that is marked as one.
SetLocation(b, f, value) ==
    IF f = "alias" THEN [b EXCEPT !.alias = True, !.root = value] ELSE [b EXCEPT !.return_ = value]

Set(b, setting) ==
    LET f == FieldOf(setting.directive) IN
    CASE f \in ServerFields                     -> SetServer(b, f, setting.value)
      [] f \in LocationFields \cup {"alias"}    -> SetLocation(b, f, setting.value)
      [] OTHER                                  -> SetInfo(b, f, setting.value)

Filled(b, settings) == FoldLeft(Set, b, settings)

----------------------------------------------------------------------------
(* Reading the blocks                                                      *)

Reader == [serverinfo |-> Constructed, location |-> Constructed, open |-> <<>>, servers |-> <<>>]

\* addLocation() copies the location, which is then reset.
AddLocation(r, settings) ==
    LET b == Filled(r.location, settings)
    IN  [r EXCEPT !.open = Append(@, CopyLocation(b)), !.location = ResetLocation(b)]

\* addServerInfo() likewise.
AddServer(r, server) ==
    LET q == FoldLeft(AddLocation, r, server.location)
        b == Filled(q.serverinfo, server.own)
    IN  [q EXCEPT !.servers = Append(@, [own |-> CopyServer(b), location |-> q.open]),
                  !.serverinfo = ResetServer(b), !.open = <<>>]

Servers(doc) == FoldLeft(AddServer, Reader, doc).servers

----------------------------------------------------------------------------
(* Defaults: normalizeDefaultSetting()                                     *)

Default(f) == IF f \in {"cgi_mapping", "limit_except", "error_page", "alias", "merge_slash", "return_"}
              THEN Blank[f] ELSE IF f \in Lists THEN <<"default">> ELSE "default"

\* InfoBlock::defaultSetting(), ServerInfo::defaultSetting()
ServerInForce(b) == [f \in Fields |-> IF b[f] = Blank[f] THEN Default(f) ELSE b[f]]

\* InfoBlock::defaultSetting(ref): by value, or by a pointer to the member of the
\* server.  The scripts of a server are not handed on.
Inherited == InfoFields \ {"cgi_mapping", "alias"}
LocationInForce(b, server) ==
    [f \in Fields |-> IF b[f] = Blank[f] /\ f \in Inherited THEN ServerInForce(server)[f] ELSE b[f]]

InForce(doc) ==
    [n \in DOMAIN doc |->
        LET s == Servers(doc)[n] IN
        [own |-> ServerInForce(s.own),
         location |-> [k \in DOMAIN s.location |-> LocationInForce(s.location[k], s.own)]]]

----------------------------------------------------------------------------
(* Properties                                                              *)

\* What a block says of a field, stated on the block alone.
Said(settings, f) ==
    LET said == SelectSeq(settings, LAMBDA s : FieldOf(s.directive) = f
                                               \/ (f \in {"root", "alias"} /\ s.directive = "alias"))
    IN  IF said = <<>> THEN Blank[f]
        ELSE IF f \in Lists THEN [n \in DOMAIN said |-> said[n].value]
        ELSE IF f \in {"alias", "merge_slash"} THEN True ELSE Last(said).value

MeantServer(server, f) ==
    IF Said(server.own, f) = Blank[f] THEN Default(f) ELSE Said(server.own, f)

\* The scripts of a server are for what no location takes.
MeantLocation(server, k, f) ==
    IF Said(server.location[k], f) # Blank[f] THEN Said(server.location[k], f)
    ELSE IF f \in InfoFields \ {"cgi_mapping", "alias"} THEN MeantServer(server, f) ELSE Blank[f]

\* What does not hold: the first server and the first location begin with their
\* switches off, and the members that reset() leaves are handed on.
LeftOver(n) == IF n = 1 THEN Switches ELSE NotReset

\* A block is given what it says, a location what its server says where it says
\* nothing, and nothing of any other block before it, although all of them were read
\* into the same two objects (Parse.cpp:228-243).
SettingsOwn(Docs) ==
    \A doc \in Docs : \A n \in DOMAIN doc :
      LET s == InForce(doc)[n] IN
      /\ \A f \in (InfoFields \cup ServerFields) \ LeftOver(n) : s.own[f] = MeantServer(doc[n], f)
      /\ \A k \in DOMAIN doc[n].location : \A f \in (InfoFields \cup LocationFields) \ NotReset :
            \/ f \in Switches /\ (n = 1 \/ k = 1)
            \/ s.location[k][f] = MeantLocation(doc[n], k, f)
=============================================================================
