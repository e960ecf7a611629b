-------------------------- MODULE ListenDirective --------------------------
(***************************************************************************)
(* The listen directive: Parse::processListen() and the ListenSocket that  *)
(* it fills, adds to the server and resets.  A directive is its address, a *)
(* sequence of characters, and its options [name, value], where the value  *)
(* is NoValue if there is no "=", and Refused if it is no size.            *)
(***************************************************************************)
EXTENDS Integers, SequencesExt

CONSTANTS Hosts,      \* the names that getaddrinfo() resolves, as characters
          Resolve,    \* the families of the addresses of each
          Wide,       \* 2^16 in the code: a backlog is cut to 16 bits
          SomaxConn

Digits   == {"0", "1", "2", "3", "4", "5", "6", "7", "8", "9"}
IsDigits(word) == \A n \in DOMAIN word : word[n] \in Digits
AnyHost  == <<":", ":">>
HttpPort == <<"8", "0">>
NoValue  == -1
Refused  == -2

----------------------------------------------------------------------------
(* ListenSocket                                                            *)

\* reset()
Reset == [addrs |-> <<>>, port |-> <<>>, backlog |-> SomaxConn, rcvbuf_size |-> 65536, sndbuf_size |-> 65536,
          ipv6only |-> FALSE, reuseport |-> FALSE, default_server |-> FALSE, keepalive |-> FALSE,
          keepidle |-> -1, keepintvl |-> -1, keepcnt |-> -1]

\* Mutant: an option of the last socket stays.
ResetKeeps(s) == [Reset EXCEPT !.reuseport = s.reuseport]

Cleared(s) == Reset

\* The constructor, of the socket that the first directive fills.
Constructed == [Reset EXCEPT !.default_server = TRUE, !.keepidle = 0, !.keepintvl = 0, !.keepcnt = 0]

\* addAddress(): all addresses of the host, or those of IPv6 only.
AddAddress(s, host, port) ==
    [s EXCEPT !.addrs = @ \o SelectSeq(Resolve[host], LAMBDA f : s.ipv6only => f = "v6"), !.port = port]

----------------------------------------------------------------------------
(* The parameters                                                          *)

\* A socket, or that the configuration is refused.
Took(s) == [socket |-> s, failed |-> FALSE]
Fail    == [socket |-> Reset, failed |-> TRUE]

Colons(token) == {n \in DOMAIN token : token[n] = ":"}

\* Mutant: the port begins behind the last colon.
LastColon(token) == CHOOSE n \in Colons(token) : \A k \in Colons(token) : k <= n

\* Where the port begins: behind the first colon.  That there may be brackets is
\* tested on the address while it is still empty.
FirstColon(token) == CHOOSE n \in Colons(token) : \A k \in Colons(token) : n <= k

HostOf(token) == IF Colons(token) = {} THEN token ELSE SubSeq(token, 1, FirstColon(token) - 1)
PortOf(token) == IF Colons(token) = {} THEN <<>> ELSE SubSeq(token, FirstColon(token) + 1, Len(token))

\* processListenAddress()
ListenAddress(s, token) ==
    IF IsDigits(token) THEN Took(AddAddress(s, AnyHost, token))
    ELSE LET host == IF HostOf(token) = <<"*">> THEN AnyHost ELSE HostOf(token)
             port == IF PortOf(token) = <<>> THEN HttpPort ELSE PortOf(token)
         IN  IF IsDigits(port) /\ host \in Hosts THEN Took(AddAddress(s, host, port)) ELSE Fail

\* setBackLog(): the number is cut before it is tested.
SetBackLog(s, num) ==
    IF num % Wide > SomaxConn THEN Fail ELSE Took([s EXCEPT !.backlog = num % Wide])

\* processListenPara1(), processListenPara2(), processListenKeepAlive(), of which only
\* on and off are understood: where it looks for a size, it finds the "=".
Option(s, option) ==
    CASE option.name \in {"default_server", "reuseport"} /\ option.value = NoValue ->
           Took([s EXCEPT ![option.name] = TRUE])
      [] option.name = "ipv6only" /\ option.value = NoValue -> Took([s EXCEPT !.ipv6only = TRUE])
      [] option.name = "backlog" /\ option.value >= 0 -> SetBackLog(s, option.value)
      [] option.name = "rcvbuf" /\ option.value >= 0 -> Took([s EXCEPT !.rcvbuf_size = option.value])
      [] option.name = "sndbuf" /\ option.value >= 0 -> Took([s EXCEPT !.sndbuf_size = option.value])
      [] option.name = "so_keepalive=on"  -> Took([s EXCEPT !.keepalive = TRUE])
      [] option.name = "so_keepalive=off" -> Took(s)
      [] OTHER -> Fail

\* processListen() for each parameter in turn: the first is the address.
Parameters(s, directive) ==
    FoldLeft(LAMBDA r, option : IF r.failed THEN r ELSE Option(r.socket, option),
             ListenAddress(s, directive.address), directive.options)

\* The end of the directive: the socket goes to the server, and is reset.
AddListen(r, directive) ==
    LET p == Parameters(r.listen_socket, directive) IN
    IF r.failed \/ p.failed THEN [r EXCEPT !.failed = TRUE]
    ELSE [r EXCEPT !.listen_sockets = Append(@, p.socket), !.listen_socket = Cleared(p.socket)]

Listens(directives) ==
    FoldLeft(AddListen, [listen_socket |-> Constructed, listen_sockets |-> <<>>, failed |-> FALSE], directives)

\* ServerInfo::defaultSetting(): a server without a directive is given a socket without
\* an address: that of port 80, which is looked up, is written elsewhere (AddressLists).
InForce(directives) ==
    IF directives = <<>> THEN <<Constructed>>
    ELSE Listens(directives).listen_sockets

----------------------------------------------------------------------------
(* What is made of it                                                      *)

\* socketSetup(): which options of the socket are set, and to what.
Options(s) ==
    {<<"O_NONBLOCK", 1>>}
      \cup (IF s.reuseport THEN {<<"SO_REUSEADDR", 1>>} ELSE {})
      \cup (IF s.sndbuf_size > 0 THEN {<<"SO_SNDBUF", s.sndbuf_size>>} ELSE {})
      \cup (IF s.rcvbuf_size > 0 THEN {<<"SO_RCVBUF", s.rcvbuf_size>>} ELSE {})
      \cup (IF s.keepalive THEN {<<"SO_KEEPALIVE", 1>>} ELSE {})
      \cup (IF s.keepalive /\ s.keepcnt > 0 THEN {<<"TCP_KEEPCNT", s.keepcnt>>} ELSE {})
      \cup (IF s.keepalive /\ s.keepintvl > 0 THEN {<<"TCP_KEEPINTVL", s.keepintvl>>} ELSE {})
      \cup (IF s.keepalive /\ s.keepidle > 0 THEN {<<"TCP_KEEPIDLE", s.keepidle>>} ELSE {})

\* What the program does for a socket of a server.
Effect(s) == [addrs |-> s.addrs, port |-> s.port, backlog |-> s.backlog, options |-> Options(s)]

----------------------------------------------------------------------------
(* Properties                                                              *)

\* Each directive makes the sockets it would make alone, wherever it stands: the one
\* object that all of them fill hands nothing on (Parse.cpp:946-954).
ListensApart(Directives) ==
    \A a, b \in Directives :
      LET both == Listens(<<a, b>>) IN
      /\ both.failed <=> Listens(<<a>>).failed \/ Listens(<<b>>).failed
      /\ ~both.failed =>
           /\ Effect(both.listen_sockets[1]) = Effect(InForce(<<a>>)[1])
           /\ Effect(both.listen_sockets[2]) = Effect(InForce(<<b>>)[1])

\* An address is accepted just where it is a port, a host, or a host and a port, and
\* read as such; so that a host with colons in its name cannot be given at all.
AddressRead(Chars) ==
    \A token \in UNION {[1 .. n -> Chars] : n \in 1 .. 5} :
      LET r == Listens(<<[address |-> token, options |-> <<>>]>>)
          plain == {host \in Hosts : Colons(host) = {}} \cup {<<"*">>}
          Is(host, port) == r.listen_sockets[1].port = port
                            /\ r.listen_sockets[1].addrs = Resolve[IF host = <<"*">> THEN AnyHost ELSE host]
      IN  /\ IsDigits(token) => ~r.failed /\ Is(AnyHost, token)
          /\ token \in plain /\ ~IsDigits(token) => ~r.failed /\ Is(token, HttpPort)
          /\ \A n \in Colons(token) :
               LET host == SubSeq(token, 1, n - 1)
                   port == SubSeq(token, n + 1, Len(token))
               IN  host \in plain /\ IsDigits(port) =>
                     ~r.failed /\ Is(host, IF port = <<>> THEN HttpPort ELSE port)
          /\ ~r.failed => IsDigits(token) \/ token \in plain
                          \/ \E n \in Colons(token) : SubSeq(token, 1, n - 1) \in plain
=============================================================================
