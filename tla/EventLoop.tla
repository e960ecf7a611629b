----------------------------- MODULE EventLoop -----------------------------
(***************************************************************************)
(* Class Server (srcs/Server.cpp): one thread that polls, handles every    *)
(* client descriptor, then every listening socket, then brings the poll    *)
(* set up to date (resetFds), for ever.  Peers, CGI children and the clock *)
(* act at any point in between.                                            *)
(***************************************************************************)
EXTENDS Client, Functions

CONSTANTS Requests,  \* what each peer may send: <<ask, segments>> pairs
          Faults     \* which of the misfortunes below may happen

FaultKinds == {"hangup",     \* a peer closes before it has its response
               "crash",      \* a CGI child fails
               "ignores",    \* a CGI child exits without reading its input
               "fork",       \* fork() fails
               "shrink",     \* a file is truncated while it is being read
               "late",       \* a deadline passes
               "stop"}       \* SIGINT

ASSUME FaultsAssumption == Faults \subseteq FaultKinds
ASSUME RequestsAssumption == Requests \in [Conn -> SUBSET (Asks \X Seq(Segments))]

VARIABLES
  socket_fds,         \* the poll set: listening sockets first
  revents,            \* what poll() reported, entry by entry (between rounds: <<>>)
  buffer_new_fd,      \* entries to add at the end of the round
  fds_to_be_deleted,  \* descriptors whose entries go at the end of the round
  client_mapping,     \* which client a descriptor belongs to
  client,             \* the Client objects (client_info: those with .here)
  fdtab,              \* the kernel's descriptor table
  kid,                \* the CGI children
  net,                \* the peers
  backlog,            \* connections waiting at each listening socket
  pc                  \* where the loop is

proc == <<socket_fds, revents, buffer_new_fd, fds_to_be_deleted,
          client_mapping, client, fdtab, pc>>
vars == <<socket_fds, revents, buffer_new_fd, fds_to_be_deleted,
          client_mapping, client, fdtab, kid, net, backlog, pc>>

Listening == 1 .. NListen
Entry     == [fd : Fd, events : {"IN", "OUT"}]
At(where, i) == [at |-> where, i |-> i]

Init ==
    /\ socket_fds = [i \in Listening |-> [fd |-> i, events |-> "IN"]]
    /\ revents = <<>>
    /\ buffer_new_fd = <<>>
    /\ fds_to_be_deleted = <<>>
    /\ client_mapping = [f \in Fd |-> Nobody]
    /\ client = [x \in Conn |-> NoClient]
    /\ fdtab = [f \in Fd |-> IF f \in Listening THEN Listener ELSE Free]
    /\ kid = [x \in Conn |-> NoKid]
    /\ net = [x \in Conn |-> [stage |-> "new", ask |-> "page", unsent |-> <<>>,
                              inbox |-> <<>>, up |-> FALSE, answered |-> 0]]
    /\ backlog = [i \in Listening |-> <<>>]
    /\ pc = At("poll", 0)

----------------------------------------------------------------------------
(* poll()                                                                  *)

\* What poll() finds at a descriptor.
Ready(e) ==
    LET obj == fdtab[e.fd]
        x   == obj[2]
    IN CASE obj = Free -> {"NVAL"}
         [] obj = Listener -> IF backlog[e.fd] # <<>> THEN {"IN"} ELSE {}
         [] obj[1] = "socket" ->
              IF e.events = "OUT" THEN {"OUT"}
              ELSE IF net[x].inbox # <<>> \/ ~net[x].up THEN {"IN"} ELSE {}
         [] obj[1] = "file" -> {e.events}
         [] obj[1] = "cgiOut" ->
              IF kid[x].out = "unread" THEN {"IN"} \cap {e.events}
              ELSE IF kid[x].run # "running" THEN {"HUP"} ELSE {}
         [] OTHER ->
              (IF kid[x].full THEN {} ELSE {"OUT"} \cap {e.events})
              \cup (IF kid[x].run # "running" THEN {"ERR"} ELSE {})

FirstClient == IF Len(socket_fds) > NListen THEN At("client", NListen + 1)
               ELSE At("server", 1)

Poll ==
    /\ pc.at = "poll"
    /\ revents' = [i \in DOMAIN socket_fds |-> Ready(socket_fds[i])]
    /\ pc' = FirstClient
    /\ UNCHANGED <<socket_fds, buffer_new_fd, fds_to_be_deleted, client_mapping,
                   client, fdtab, kid, net, backlog>>

----------------------------------------------------------------------------
(* handleClient() and what it calls                                        *)

Image(x) ==
    [x |-> x, c |-> client[x], fd |-> fdtab, kid |-> kid,
     inbox |-> net[x].inbox, up |-> net[x].up, ask |-> net[x].ask,
     answered |-> net[x].answered,
     buf |-> buffer_new_fd, del |-> fds_to_be_deleted, map |-> client_mapping,
     ret |-> TRUE, killed |-> FALSE]

Oracle == [forks   : IF "fork" \in Faults THEN BOOLEAN ELSE {TRUE},
           late    : IF "late" \in Faults THEN BOOLEAN ELSE {FALSE},
           shrinks : IF "shrink" \in Faults THEN BOOLEAN ELSE {FALSE},
           gone    : IF "hangup" \in Faults THEN {"takes", "reset", "pipe"} ELSE {"takes"},
           whole   : BOOLEAN]

\* markforDeletion()
Doom(p) == [p EXCEPT !.c = [p.c EXCEPT !.doomed = TRUE]]

\* Mutant: nothing is marked.
MarkFdNothing(p, fd) == p

\* markAsDelete(int)
MarkFd(p, fd) == [p EXCEPT !.del = Append(@, fd)]

\* Mutant: a file is taken for a pair of pipes.
MarkContentBoth(p) ==
    [p EXCEPT !.del = @ \o (IF p.c.content = "none" THEN <<>> ELSE <<p.c.in, p.c.out>>)]

\* markAsDelete(const File *)
MarkContent(p) ==
    [p EXCEPT !.del = @ \o (CASE p.c.content = "none" -> <<>>
                              [] p.c.content = "file" -> <<p.c.in>>
                              [] OTHER -> <<p.c.in, p.c.out>>)]

\* Mutant: only one of the two entries of a socket is marked.
MarkClientOnce(p) == MarkContent([Doom(p) EXCEPT !.del = Append(@, p.c.sock)])

\* markAsDelete(Client &): one item for each of the two entries of the socket
MarkClient(p) ==
    MarkContent([Doom(p) EXCEPT !.del = @ \o <<p.c.sock, p.c.sock>>])

\* Mutant: the entry is added, the mapping is forgotten.
AddSingleFdUnmapped(p, fd, events) ==
    [p EXCEPT !.buf = Append(p.buf, [fd |-> fd, events |-> events])]

\* addSingleFd(): insert() leaves a descriptor that is already mapped alone.
AddSingleFd(p, fd, events) ==
    [p EXCEPT !.buf = Append(p.buf, [fd |-> fd, events |-> events]),
              !.map = IF p.map[fd] = Nobody THEN [p.map EXCEPT ![fd] = p.x] ELSE p.map]

\* Mutant: a content that was handed over is handed over again.
AddClientContentFdAgain(p) ==
    IF p.c.content = "none" THEN p ELSE AddSingleFd(p, p.c.in, "IN")

\* addClientContentFd(), when the content was not handed over before
AddClientContentFd(p) ==
    IF p.c.content = "none" \/ p.c.given THEN p
    ELSE LET q == AddSingleFd(p, p.c.in, "IN")
             r == IF p.c.content = "cgi" THEN AddSingleFd(q, p.c.out, "OUT") ELSE q
         IN  [r EXCEPT !.c = [r.c EXCEPT !.given = TRUE]]

\* Mutant: the end of a connection does not mark its client.
HandleClientRecvUnmarked(p, fd, o) ==
    IF fd = p.c.sock THEN ClientRecvHttp(p, o)
    ELSE LET q == ClientRecvContent(p, o)
         IN  IF q.ret THEN q
             ELSE IF q.c.ready THEN MarkFd(q, fd) ELSE MarkContent(q)

\* handleClientRecv()
HandleClientRecv(p, fd, o) ==
    IF fd = p.c.sock
    THEN LET q == ClientRecvHttp(p, o) IN IF q.ret THEN q ELSE MarkClient(q)
    ELSE LET q == ClientRecvContent(p, o)
         IN  IF q.ret THEN q
             ELSE IF q.c.ready THEN MarkFd(q, fd) ELSE MarkContent(q)

\* Mutant: a response is sent before it is ready.
HandleClientSentEarly(p, fd, o) ==
    IF fd # p.c.sock
    THEN LET q == ClientSendContent(p, o)
         IN  IF q.ret THEN q ELSE MarkFd(q, fd)
    ELSE LET q == ClientSendResponse(p, o)
         IN  IF q.ret THEN q ELSE MarkClient(q)

\* Mutant: a client whose response was sent stays.
HandleClientSentAgain(p, fd, o) ==
    IF fd # p.c.sock
    THEN LET q == ClientSendContent(p, o)
         IN  IF q.ret THEN q ELSE MarkFd(q, fd)
    ELSE IF ~p.c.ready THEN p ELSE ClientSendResponse(p, o)

\* handleClientSent()
HandleClientSent(p, fd, o) ==
    IF fd # p.c.sock
    THEN LET q == ClientSendContent(p, o)
         IN  IF q.ret THEN q ELSE MarkFd(q, fd)
    ELSE IF ~p.c.ready THEN p
    ELSE LET q == ClientSendResponse(p, o)
         IN  IF q.ret THEN q ELSE MarkClient(q)

\* Mutant: a content that hangs up is taken for the peer.
CleanUpClientAny(p, fd, o) == Doom(p)

\* cleanUpClient()
CleanUpClient(p, fd, o) ==
    IF fd = p.c.sock THEN Doom(p)
    ELSE LET q == CheckContentStatus(p)
             r == IF q.ret THEN q ELSE ErrorOverwriteResponse(q, 500, o)
         IN  MarkFd(r, fd)

\* error2Client()
Error2Client(p, fd, o) ==
    IF fd = p.c.sock THEN Doom(p)
    ELSE MarkFd(ErrorOverwriteResponse(p, 500, o), fd)

\* The branch that revents selects; POLLNVAL selects none, and neither does
\* an empty revents, which only refreshes the client's clock.
Dispatch(p, fd, rev, o) ==
    CASE "IN" \in rev  -> HandleClientRecv(p, fd, o)
      [] "IN" \notin rev /\ "OUT" \in rev -> HandleClientSent(p, fd, o)
      [] "IN" \notin rev /\ "OUT" \notin rev /\ "HUP" \in rev -> CleanUpClient(p, fd, o)
      [] rev = {"ERR"} -> Error2Client(p, fd, o)
      [] OTHER -> p

\* The end of handleClient(): a deadline that has passed replaces the response.
TimeOut(p, fd, o) ==
    LET status == CheckTimer(p, fd, o)
        q == IF fd # p.c.sock THEN MarkContent(p) ELSE p
    IN  IF status = 200 THEN p ELSE ErrorOverwriteResponse(q, status, o)

\* client_info, and those of it that wait for resetFds()
Present == {x \in Conn : client[x].here}
Doomed  == {x \in Present : client[x].doomed}

Handled(x, fd, rev, o) ==
    TimeOut(AddClientContentFd(Dispatch(Image(x), fd, rev, o)), fd, o)

NextClient == IF pc.i < Len(revents) THEN At("client", pc.i + 1)
              ELSE At("server", 1)

\* The process is gone: the kernel closes everything it had.
ProcessEnds(how) ==
    /\ pc' = At(how, 0)
    /\ fdtab' = [f \in Fd |-> Free]
    /\ client' = [x \in Conn |-> NoClient]
    /\ client_mapping' = [f \in Fd |-> Nobody]
    /\ kid' = [x \in Conn |-> NoKid]
    /\ socket_fds' = <<>>
    /\ revents' = <<>>
    /\ buffer_new_fd' = <<>>
    /\ fds_to_be_deleted' = <<>>

\* The handler returns: its image becomes the state.
Store(x, p) ==
    /\ ~p.killed
    /\ client' = [client EXCEPT ![x] = p.c]
    /\ fdtab' = p.fd
    /\ kid' = p.kid
    /\ net' = [net EXCEPT ![x].inbox = p.inbox, ![x].answered = p.answered]
    /\ buffer_new_fd' = p.buf
    /\ fds_to_be_deleted' = p.del
    /\ client_mapping' = p.map
    /\ pc' = NextClient
    /\ UNCHANGED <<socket_fds, revents, backlog>>

HandleClient ==
    /\ pc.at = "client"
    /\ LET fd == socket_fds[pc.i].fd
           x  == client_mapping[fd]
       IN
       \/ /\ x \in Doomed \cup {Nobody}
          /\ pc' = NextClient
          /\ UNCHANGED <<socket_fds, revents, buffer_new_fd, fds_to_be_deleted,
                         client_mapping, client, fdtab, kid, net, backlog>>
       \/ \* the map leads to a Client that was destroyed: from here on the
          \* behaviour of the program is undefined
          /\ x \in Conn \ Present
          /\ pc' = At("undefined", 0)
          /\ UNCHANGED <<socket_fds, revents, buffer_new_fd, fds_to_be_deleted,
                         client_mapping, client, fdtab, kid, net, backlog>>
       \/ /\ x \in Present \ Doomed
          /\ \E o \in Oracle :
               LET p == Handled(x, fd, revents[pc.i], o) IN
               \/ Store(x, p)
               \/ p.killed /\ ProcessEnds("killed") /\ UNCHANGED <<net, backlog>>

----------------------------------------------------------------------------
(* handleServer(), resetFds()                                              *)

NextServer == IF pc.i < NListen THEN At("server", pc.i + 1) ELSE At("reset", 0)

\* accept() takes the oldest connection, unless none waits or no descriptor is
\* left; the assignment to client_mapping replaces whatever was mapped.
HandleServer ==
    /\ pc.at = "server"
    /\ pc' = NextServer
    /\ IF "IN" \in revents[pc.i] /\ backlog[pc.i] # <<>> /\ NthFree(fdtab, 1) # {}
       THEN LET x == Head(backlog[pc.i]) IN
            \E f \in NthFree(fdtab, 1) :
               /\ fdtab' = Assign(fdtab, f, <<"socket", x>>)
               /\ client' = [client EXCEPT ![x] = [NoClient EXCEPT !.here = TRUE,
                                                                   !.sock = f]]
               /\ client_mapping' = [client_mapping EXCEPT ![f] = x]
               /\ buffer_new_fd' = buffer_new_fd \o <<[fd |-> f, events |-> "IN"],
                                                      [fd |-> f, events |-> "OUT"]>>
               /\ backlog' = [backlog EXCEPT ![pc.i] = Tail(@)]
               /\ net' = [net EXCEPT ![x].stage = "accepted"]
       ELSE UNCHANGED <<fdtab, client, client_mapping, buffer_new_fd, backlog, net>>
    /\ UNCHANGED <<socket_fds, revents, fds_to_be_deleted, kid>>

\* An entry goes when its descriptor is on the list; each item of the list
\* takes one entry with it, from the front.
Erased(i) ==
    LET fd == socket_fds[i].fd IN
    /\ i > NListen
    /\ Cardinality({j \in NListen + 1 .. i : socket_fds[j].fd = fd})
         <= Cardinality({k \in DOMAIN fds_to_be_deleted : fds_to_be_deleted[k] = fd})

\* The n-th of the places in S.
Nth(S, n) == CHOOSE i \in S : Cardinality({j \in S : j < i}) = n - 1

\* Mutant: ignore_close_fd stays set, so that ~Client() closes nothing.
HeldNothing(x) == {}

\* ~Client() of every client to be deleted, and of its content
Held(x) == {client[x].sock, client[x].in, client[x].out}

\* Mutant: nothing is ever erased from client_mapping.
ForgetNothing(fds) == client_mapping

\* client_mapping.erase() for each of fds
Forget(fds) == [f \in Fd |-> IF f \in fds THEN Nobody ELSE client_mapping[f]]

ResetFds ==
    /\ pc.at = "reset"
    /\ LET kept == {i \in DOMAIN socket_fds : ~Erased(i)}
           gone == {socket_fds[i].fd : i \in DOMAIN socket_fds \ kept}
           held == UNION {Held(x) : x \in Doomed}
       IN
       /\ socket_fds' = [n \in 1 .. Cardinality(kept) |-> socket_fds[Nth(kept, n)]]
                          \o buffer_new_fd
       /\ client_mapping' = Forget(gone \cup held)
       /\ fdtab' = Release(fdtab, held)
    /\ client' = [x \in Conn |-> IF x \in Doomed THEN NoClient ELSE client[x]]
    /\ kid' = [x \in Conn |-> IF x \in Doomed THEN NoKid ELSE kid[x]]
    /\ net' = [x \in Conn |-> IF x \in Doomed THEN [net[x] EXCEPT !.stage = "closed"]
                              ELSE net[x]]
    /\ revents' = <<>>
    /\ buffer_new_fd' = <<>>
    /\ fds_to_be_deleted' = <<>>
    /\ pc' = At("poll", 0)
    /\ UNCHANGED backlog

\* SIGINT clears `running`; the loop ends with the round, and the destructors
\* of Server and of its clients close every descriptor.
Interrupt ==
    /\ "stop" \in Faults
    /\ pc.at = "poll"
    /\ ProcessEnds("stopped")
    /\ UNCHANGED <<net, backlog>>

Server == Poll \/ HandleClient \/ HandleServer \/ ResetFds

----------------------------------------------------------------------------
(* Peers and CGI children                                                  *)

Connect(x) ==
    /\ net[x].stage = "new"
    /\ \E r \in Requests[x], i \in Listening :
          /\ net' = [net EXCEPT ![x] = [@ EXCEPT !.stage = "queued", !.ask = r[1],
                                                 !.unsent = r[2], !.up = TRUE]]
          /\ backlog' = [backlog EXCEPT ![i] = Append(@, x)]
    /\ UNCHANGED <<proc, kid>>

Send(x) ==
    /\ net[x].stage \in {"queued", "accepted"}
    /\ net[x].up /\ net[x].unsent # <<>>
    /\ net' = [net EXCEPT ![x].inbox = Append(@, Head(net[x].unsent)),
                          ![x].unsent = Tail(@)]
    /\ UNCHANGED <<proc, kid, backlog>>

HangUp(x) ==
    /\ "hangup" \in Faults
    /\ net[x].stage \in {"queued", "accepted"}
    /\ net[x].up
    /\ net' = [net EXCEPT ![x].up = FALSE]
    /\ UNCHANGED <<proc, kid, backlog>>

KidWrites(x) ==
    /\ kid[x].run = "running" /\ kid[x].out = "none"
    /\ kid' = [kid EXCEPT ![x].out = "unread"]
    /\ UNCHANGED <<proc, net, backlog>>

KidReads(x) ==
    /\ kid[x].run = "running" /\ kid[x].full
    /\ kid' = [kid EXCEPT ![x].full = FALSE]
    /\ UNCHANGED <<proc, net, backlog>>

KidExits(x) ==
    /\ kid[x].run = "running"
    /\ (client[x].body \in {"none", "sent"} /\ ~kid[x].full) \/ "ignores" \in Faults
    /\ kid' = [kid EXCEPT ![x].run = "ok"]
    /\ UNCHANGED <<proc, net, backlog>>

KidFails(x) ==
    /\ "crash" \in Faults \/ kid[x].shot
    /\ kid[x].run = "running"
    /\ kid' = [kid EXCEPT ![x].run = "failed"]
    /\ UNCHANGED <<proc, net, backlog>>

Peers == \E x \in Conn : Connect(x) \/ Send(x) \/ HangUp(x)
Kids  == \E x \in Conn : KidWrites(x) \/ KidReads(x) \/ KidExits(x) \/ KidFails(x)

Next == Server \/ Interrupt \/ Peers \/ Kids

Spec == Init /\ [][Next]_vars

\* The loop never pauses, peers finish what they send, children read their
\* input and exit.  Nobody has to connect, and no misfortune has to happen.
\* While the process runs a step of the loop is always possible, so that
\* infinitely many steps say what WF_vars(Server) says.
FairSpec ==
    /\ Spec
    /\ []<><<Server>>_vars \/ <>[](pc.at \in {"undefined", "killed", "stopped"})
    /\ \A x \in Conn : /\ WF_vars(Send(x))
                       /\ WF_vars(KidReads(x))
                       /\ WF_vars(KidExits(x))
----------------------------------------------------------------------------
(* Properties                                                              *)

Ended == pc.at \in {"killed", "stopped"}

TypeOK ==
    /\ socket_fds \in Seq(Entry) /\ buffer_new_fd \in Seq(Entry)
    /\ revents \in Seq(SUBSET {"IN", "OUT", "HUP", "ERR", "NVAL"})
    /\ fds_to_be_deleted \in Seq(Fd)
    /\ client_mapping \in [Fd -> Conn \cup {Nobody}]
    /\ client \in [Conn -> ClientRec]
    /\ fdtab \in [Fd -> Object]
    /\ kid \in [Conn -> Kid]
    /\ net \in [Conn -> [stage : {"new", "queued", "accepted", "closed"},
                         ask : Asks, unsent : Seq(Segments), inbox : Seq(Segments),
                         up : BOOLEAN, answered : Nat]]
    /\ backlog \in [Listening -> Seq(Conn)]
    /\ pc.at \in {"poll", "client", "server", "reset", "undefined", "killed", "stopped"}

\* What a descriptor must refer to when client x holds it in a role.
Holds(x, role, f) ==
    /\ client[x].here
    /\ CASE role = "socket" -> f = client[x].sock
         [] role = "file"   -> client[x].content = "file" /\ f = client[x].in
         [] role = "cgiOut" -> client[x].content = "cgi" /\ f = client[x].in
         [] role = "cgiIn"  -> client[x].content = "cgi" /\ f = client[x].out

\* No descriptor is leaked and none is held twice or after its close: the open
\* descriptors are exactly the listening sockets and what the clients in
\* client_info hold, each in the role it was opened for; whatever deletes,
\* replaces or re-routes contents within a round (Client.cpp:350-353, 397-400).
FdOwnership ==
    /\ \A f \in Fd, x \in Conn, role \in Roles :
          fdtab[f] = <<role, x>> <=> Holds(x, role, f)
    /\ \A f \in Fd : fdtab[f] = Listener <=> f \in Listening /\ ~Ended
    /\ \A x \in Conn : client[x].here =>
          /\ client[x].sock \in Fd
          /\ client[x].content # "none" => client[x].in \in Fd
          /\ client[x].content = "cgi" => client[x].out \in Fd

\* Between rounds the poll set is exactly what is to be watched: no entry is
\* listed twice, none is left for a closed descriptor, each watches the
\* direction its descriptor has, and every client's socket is watched in both.
PollSetExact ==
    pc.at = "poll" =>
      /\ IsInjective(socket_fds)
      /\ \A i \in DOMAIN socket_fds :
           LET obj == fdtab[socket_fds[i].fd] IN
           \/ obj = Listener /\ i = socket_fds[i].fd
           \/ obj[1] = "socket"
           \/ obj[1] \in {"file", "cgiOut"} /\ socket_fds[i].events = "IN"
           \/ obj[1] = "cgiIn" /\ socket_fds[i].events = "OUT"
      /\ \A x \in Present, dir \in {"IN", "OUT"} :
           [fd |-> client[x].sock, events |-> dir] \in Range(socket_fds)

\* client_mapping is, between rounds, what Server.hpp:76 says it is: every
\* descriptor of a client in the poll set leads to that client, no other does.
MappingExact ==
    pc.at = "poll" =>
      \A f \in Fd :
        client_mapping[f] = IF f \notin Listening
                               /\ \E i \in DOMAIN socket_fds : socket_fds[i].fd = f
                            THEN fdtab[f][2] ELSE Nobody

\* The two halves of that promise that matter to a peer: the socket of every
\* client leads to it, and no descriptor leads to a client that is no more.
ClientsMapped == pc.at = "poll" => \A x \in Present : client_mapping[client[x].sock] = x
MappedToClients == \A f \in Fd : client_mapping[f] \in Present \cup {Nobody}

\* The loop never follows client_mapping to a Client that was destroyed.
NeverUndefined == pc.at # "undefined"

\* Once part of a response is on the wire, that response is finished or the
\* connection closed; it is never replaced by another one (Client.cpp:447-460).
ResponseNotRestarted ==
    [][\A x \in Conn : client[x].begun /\ x \in (Present \ Doomed)' => client'[x].begun]_vars

\* A file sent as a success is sent whole.
WholeFile ==
    [][\A x \in Conn :
         net'[x].answered > net[x].answered /\ net[x].ask = "file"
         /\ client'[x].status = 200 => client'[x].got = FileLen]_vars

\* Every peer that connects is answered.
Answered == \A x \in Conn : net[x].stage = "queued" ~> net[x].answered > 0

\* A connection whose peer has gone does not stay open, unless a send() to such a
\* peer ends the whole process (SIGPIPE, Client.cpp:278).
Released ==
    \A x \in Conn : ~net[x].up /\ net[x].stage = "accepted"
                       ~> net[x].stage = "closed" \/ pc.at = "killed"

\* What the loop watches, and whom it leads to, is exact between rounds.
TablesExact == PollSetExact /\ MappingExact

\* What a peer is sent is one response, and whole.
ResponsesIntact == ResponseNotRestarted /\ WholeFile
=============================================================================
