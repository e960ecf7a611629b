----------------------------- MODULE Listening -----------------------------
(***************************************************************************)
(* How the server gets its listening sockets: Server::setupSockets() tries *)
(* each address of each listen directive up to four times, and gives up    *)
(* when one of them fails four times.  Other processes hold addresses and  *)
(* give them back; any call may fail.                                      *)
(***************************************************************************)
EXTENDS Integers, Sequences, FiniteSets

CONSTANTS Addr,      \* addresses, with their ports
          Listens,   \* [server, addr, reuseport] of every address, in the
                     \* order of the servers and of their listen directives
          Fd         \* descriptor numbers the process may use

Attempts == 4

ListenSocket == [server : Nat \ {0}, addr : Addr, reuseport : BOOLEAN]

ASSUME ListensAssumption == Listens \in Seq(ListenSocket) /\ Listens # <<>>
\* The standard streams are open: descriptor 0 counts as a failure (fd > 0).
ASSUME FdAssumption == Fd \subseteq Nat \ {0}

VARIABLES
  socket_fds,        \* the listening sockets, in the order of the poll set
  socketfd_mapping,  \* the address of each
  server_mapping,    \* the server of each
  error,             \* the attempt that is next
  sockets,           \* the kernel's: what each descriptor is
  taken,             \* the addresses other processes hold
  phase              \* "setup", "serving", or "exited"

setupVars == <<socket_fds, socketfd_mapping, server_mapping, error, sockets, taken, phase>>

NoAddr == "no address"
Closed == [addr |-> NoAddr, state |-> "closed"]
Socket == [addr : Addr \cup {NoAddr}, state : {"closed", "open", "bound", "listening"}]

SetupInit ==
    /\ socket_fds = <<>> /\ socketfd_mapping = <<>> /\ server_mapping = <<>>
    /\ error = 1
    /\ sockets = [f \in Fd |-> Closed]
    /\ taken \in SUBSET Addr
    /\ phase = "setup"

----------------------------------------------------------------------------
(* addListenFd()                                                           *)

\* The call that fails for a reason of the kernel's, if any does.
Failures == {"none", "socket", "setup", "listen"}

\* socket() takes the lowest number.
Lowest == {f \in Fd : sockets[f] = Closed /\ \A g \in Fd : g < f => sockets[g] # Closed}

\* bind(): another socket of the process is in the way if it listens, or if it is
\* bound and the two do not both have SO_REUSEADDR.
InTheWay(l) ==
    \/ l.addr \in taken
    \/ \E f \in Fd : /\ sockets[f].addr = l.addr
                     /\ sockets[f].state = "listening" \/ ~l.reuseport

\* Mutant: the options are only set once the socket listens.
BecameLate(l, failure) ==
    CASE InTheWay(l) -> [Closed EXCEPT !.state = "open"]
      [] failure = "listen" /\ ~InTheWay(l) -> [addr |-> l.addr, state |-> "bound"]
      [] OTHER -> [addr |-> l.addr, state |-> "listening"]

\* What becomes of the new descriptor: it is not closed when a later call fails.
Became(l, failure) ==
    CASE failure = "setup" -> [Closed EXCEPT !.state = "open"]
      [] failure # "setup" /\ InTheWay(l) -> [Closed EXCEPT !.state = "open"]
      [] failure = "listen" /\ ~InTheWay(l) -> [addr |-> l.addr, state |-> "bound"]
      [] OTHER -> [addr |-> l.addr, state |-> "listening"]

Succeeds(l, failure) == failure = "none" /\ ~InTheWay(l) /\ Lowest # {}

----------------------------------------------------------------------------
(* setupSocketsCheckError(), setupSocketsListen()                          *)

\* The address being set up.
Position == Len(socket_fds) + 1
Current == Listens[Position]

\* The server of each socket is entered once its last socket is there.
EndsServer(n) == n = Len(Listens) \/ Listens[n + 1].server # Listens[n].server

\* Mutant: one is entered at once and one for all at the end.
MappedTwice(n) == Append(server_mapping, Listens[n].server)
                    \o (IF EndsServer(n) THEN <<Listens[n].server>> ELSE <<>>)

\* server_mapping.insert(end, counter, ptr): one for each socket of the server.
Mapped(n) ==
    IF EndsServer(n) THEN server_mapping \o [i \in 1 .. n - Len(server_mapping) |-> Listens[n].server]
    ELSE server_mapping

Exit ==
    /\ phase' = "exited"
    /\ sockets' = [f \in Fd |-> Closed]
    /\ socket_fds' = <<>> /\ socketfd_mapping' = <<>> /\ server_mapping' = <<>>
    /\ error' = 1
    /\ UNCHANGED taken

Listen(failure) ==
    /\ phase = "setup"
    /\ Succeeds(Current, failure)
    /\ \E f \in Lowest :
          /\ sockets' = [sockets EXCEPT ![f] = Became(Current, failure)]
          /\ socket_fds' = Append(socket_fds, f)
    /\ socketfd_mapping' = Append(socketfd_mapping, Current.addr)
    /\ server_mapping' = Mapped(Position)
    /\ error' = 1
    /\ phase' = IF Position = Len(Listens) THEN "serving" ELSE "setup"
    /\ UNCHANGED taken

\* Mutant: the attempts are not counted.
RetryForever(failure) ==
    /\ phase = "setup"
    /\ ~Succeeds(Current, failure)
    /\ sockets' = IF failure = "socket" \/ Lowest = {} THEN sockets
                  ELSE [f \in Fd |-> IF f \in Lowest THEN Became(Current, failure) ELSE sockets[f]]
    /\ UNCHANGED <<socket_fds, socketfd_mapping, server_mapping, error, taken, phase>>

\* The message about it reads setup_err_msg[fd + 2], for a failed listen() the
\* element before the first: what is printed is arbitrary, or the process ends.
Retry(failure) ==
    /\ phase = "setup"
    /\ ~Succeeds(Current, failure)
    /\ error < Attempts
    /\ \/ /\ sockets' = IF failure = "socket" \/ Lowest = {} THEN sockets
                        ELSE [f \in Fd |-> IF f \in Lowest THEN Became(Current, failure) ELSE sockets[f]]
          /\ error' = error + 1
          /\ UNCHANGED <<socket_fds, socketfd_mapping, server_mapping, taken, phase>>
       \/ failure = "listen" /\ ~InTheWay(Current) /\ Lowest # {} /\ Exit

\* SetupError: main() returns.
GiveUp(failure) ==
    /\ phase = "setup"
    /\ ~Succeeds(Current, failure)
    /\ error = Attempts
    /\ Exit

\* Another process gives an address back.
Vacate(a) ==
    /\ phase = "setup"
    /\ a \in taken
    /\ taken' = taken \ {a}
    /\ UNCHANGED <<socket_fds, socketfd_mapping, server_mapping, error, sockets, phase>>

Setup == \E failure \in Failures : Listen(failure) \/ Retry(failure) \/ GiveUp(failure)

SetupNext == Setup \/ \E a \in Addr : Vacate(a)

SetupSpec == SetupInit /\ [][SetupNext]_setupVars

----------------------------------------------------------------------------
(* Properties                                                              *)

\* The listening sockets, their addresses and their servers stay in step, each
\* socket listens where the directive of its server says, and once the server
\* runs no directive is without one: however many attempts each address took
\* (Server.cpp:138-173).
Aligned ==
    /\ Len(socketfd_mapping) = Len(socket_fds)
    /\ Len(server_mapping) <= Len(socket_fds)
    /\ \A n \in DOMAIN socket_fds :
         /\ sockets[socket_fds[n]] = [addr |-> Listens[n].addr, state |-> "listening"]
         /\ socketfd_mapping[n] = Listens[n].addr
         /\ n <= Len(server_mapping) => server_mapping[n] = Listens[n].server
    /\ phase = "serving" => Len(server_mapping) = Len(Listens)

\* No address is listened on by a socket the loop does not watch: its peers
\* would wait for ever.  Attempts that fail leave descriptors behind
\* (ListenSocket.cpp:164-172), but none of them listens.
NoStrayListens ==
    \A f \in Fd : sockets[f].state = "listening" => \E n \in DOMAIN socket_fds : socket_fds[n] = f

SocketsTended == Aligned /\ NoStrayListens

\* Four attempts for each address, and then the server runs or has given up.
SetupEnds == <>(phase # "setup")
=============================================================================
