---------------------------- MODULE AddressLists ----------------------------
(***************************************************************************)
(* Who owns the address lists that getaddrinfo() allocates for the listen  *)
(* directives of a configuration.  A ListenSocket frees its list when it   *)
(* is destroyed and is copied as it is, so a list has many holders while a *)
(* configuration is read: ListenSocket::erase is off as long as that lasts.*)
(*                                                                         *)
(* A configuration is a sequence of servers, a server the sequence of its  *)
(* listen directives, each the number of addresses its host has.  Nodes    *)
(* are numbered in the order they are allocated.                           *)
(***************************************************************************)
EXTENDS Integers, SequencesExt

Null == 0

\* Where a ListenSocket writes its next list (addr_info_tail): into the ai_next of a
\* node, or into the head of the socket of Parse or of the local one of defaultSetting().
Parser == -1
Buffer == -2
Empty(owner) == [head |-> Null, tail |-> owner]

\* next: ai_next of each node; freed: the nodes given to freeaddrinfo(), in their
\* order.  listen_socket and serverinfo are Parse's, server_info is the Server's.
Memory == [next |-> <<>>, freed |-> <<>>, erase |-> TRUE, listen_socket |-> Empty(Parser),
           buffer |-> Empty(Buffer), serverinfo |-> <<>>, server_info |-> <<>>]

\* Iterator, from begin() to end()
Walk(m, head) ==
    LET from[n \in 0 .. Len(m.next)] == IF n = Null THEN <<>> ELSE <<n>> \o from[m.next[n]]
    IN  from[head]

\* ~ListenSocket()
Destroy(m, s) == IF m.erase /\ s.head # Null THEN [m EXCEPT !.freed = @ \o Walk(m, s.head)] ELSE m
DestroyAll(m, sockets) == FoldLeft(Destroy, m, sockets)

\* operator=: the copy has the same list, and writes where the other would.
Copy(s) == [head |-> s.head, tail |-> s.tail]

----------------------------------------------------------------------------
(* Reading a configuration                                                 *)

\* addAddress(), which writes through the tail whatever that belongs to
AddAddress(m, tail, count) ==
    LET first == Len(m.next) + 1
        chain == [n \in 1 .. count |-> IF n = count THEN Null ELSE first + n]
    IN  CASE tail = Parser -> [m EXCEPT !.next = @ \o chain, !.listen_socket.head = first]
          [] tail = Buffer -> [m EXCEPT !.next = @ \o chain, !.buffer.head = first]
          [] OTHER         -> [m EXCEPT !.next = [@ EXCEPT ![tail] = first] \o chain]

\* emptyAddrPtr() of the parser's socket
EmptyAddrPtr(m) == [m EXCEPT !.listen_socket = Empty(Parser)]

\* addListen().  A vector that grows may have to move: its elements are copied and
\* destroyed.  It is taken to do so each time.
AddListen(m) == [DestroyAll(m, m.serverinfo) EXCEPT !.serverinfo = Append(@, Copy(m.listen_socket))]

\* processListen(), from the address to the end of the directive
ProcessListen(m, count) == EmptyAddrPtr(AddListen(AddAddress(m, m.listen_socket.tail, count)))

\* ServerInfo::reset(): emptyListenAddr(), and what is left is destroyed.
ResetServer(m) ==
    [DestroyAll(m, [n \in DOMAIN m.serverinfo |-> Empty(Parser)]) EXCEPT !.serverinfo = <<>>]

\* addServerInfo()
AddServerInfo(m) ==
    [DestroyAll(m, FlattenSeq(m.server_info))
        EXCEPT !.server_info = Append(@, [n \in DOMAIN m.serverinfo |-> Copy(m.serverinfo[n])])]

ProcessServer(m, listens) == ResetServer(AddServerInfo(FoldLeft(ProcessListen, m, listens)))

\* ServerInfo::defaultSetting(), of a server without a directive: the socket it is
\* given is a copy of the local one, whose head the address is therefore written to.
DefaultListen(m, server) ==
    IF m.server_info[server] # <<>> THEN m
    ELSE LET copied == [m EXCEPT !.buffer = Empty(Buffer), !.server_info[server] = <<Copy(Empty(Buffer))>>]
             found  == AddAddress(copied, copied.server_info[server][1].tail, 1)
         IN  [Destroy(found, found.buffer) EXCEPT !.buffer = Empty(Buffer)]

\* normalizeDefaultSetting()
NormalizeDefaultSetting(m) == FoldLeft(DefaultListen, m, [n \in DOMAIN m.server_info |-> n])

\* Mutant: copies may free while the configuration is read.
EnterErasing(m) == m

\* parseConfigFile(): before the first token, and behind the last
Enter(m) == [m EXCEPT !.erase = FALSE]
Leave(m) == [EmptyAddrPtr(ResetServer(NormalizeDefaultSetting(m))) EXCEPT !.erase = TRUE]

\* ~Parse(), with the members it has
ParserGone(m) ==
    [EmptyAddrPtr(Destroy(DestroyAll(m, m.serverinfo), m.listen_socket)) EXCEPT !.serverinfo = <<>>]

\* ~Server(): the vector of servers goes.
ServerGone(m) == [DestroyAll(m, FlattenSeq(m.server_info)) EXCEPT !.server_info = <<>>]

\* start_server() while it serves, at its end, and if the configuration is refused
\* behind so many listen directives of its last server.
Serving(doc) == ParserGone(Leave(FoldLeft(ProcessServer, Enter(Memory), doc)))
Served(doc)  == ServerGone(Serving(doc))
Refused(doc, listens) ==
    LET read == FoldLeft(ProcessServer, Enter(Memory), Front(doc))
    IN  ServerGone(ParserGone(FoldLeft(ProcessListen, read, SubSeq(Last(doc), 1, listens))))

----------------------------------------------------------------------------
(* Properties                                                              *)

\* The nodes that the listen directives were given, in the order of the text.
Given(doc) ==
    LET counts == FlattenSeq(doc)
        before(n) == FoldLeft(+, 0, SubSeq(counts, 1, n - 1))
    IN  [n \in DOMAIN counts |-> [k \in 1 .. counts[n] |-> before(n) + k]]

\* While it serves, the server has for each listen directive the addresses that were
\* found for it, none of them freed, and none at all for a server without a directive,
\* although one was looked up for it; in the end each address of a directive is freed
\* once; and if the configuration is refused, wherever that is, none is freed twice.
ListsOwned(Docs) ==
    \A doc \in Docs :
      LET m == Serving(doc)
          here(n) == [k \in DOMAIN m.server_info[n] |-> Walk(m, m.server_info[n][k].head)]
          held == {n \in DOMAIN doc : doc[n] # <<>>}
      IN  /\ FlattenSeq([n \in DOMAIN doc |-> IF n \in held THEN here(n) ELSE <<>>]) = Given(doc)
          /\ \A n \in DOMAIN doc \ held : here(n) = <<<<>>>>
          /\ m.freed = <<>>
          /\ Served(doc).freed = FlattenSeq(Given(doc))
          /\ \A listens \in 0 .. Len(Last(doc)) : IsInjective(Refused(doc, listens).freed)
=============================================================================
