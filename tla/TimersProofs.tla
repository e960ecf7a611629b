---------------------------- MODULE TimersProofs ----------------------------
(***************************************************************************)
(* Proof that, for any directives, failures and clock, the listening       *)
(* sockets stay in step with their servers, a client is served by the      *)
(* server it connected to, and no deadline is early.                       *)
(***************************************************************************)
EXTENDS Timers, SequenceTheorems, TLAPS

----------------------------------------------------------------------------
(* The set-up of the listening sockets                                     *)

SetupTypes ==
    /\ socket_fds \in Seq(Fd) /\ socketfd_mapping \in Seq(Addr) /\ server_mapping \in Seq(Nat)
    /\ error \in Nat
    /\ sockets \in [Fd -> Socket]
    /\ taken \subseteq Addr
    /\ phase \in {"setup", "serving", "exited"}

\* The directives that have sockets but are not entered yet are of one server, and so is
\* the next: this is what makes the one insert() at its end right.
OneServer ==
    \A n \in DOMAIN Listens :
      n > Len(server_mapping) /\ n <= Len(socket_fds) + 1
        => Listens[n].server = Listens[Len(server_mapping) + 1].server

SetupInv ==
    /\ SetupTypes
    /\ Aligned
    /\ NoStrayListens
    /\ OneServer
    /\ phase = "setup" => Len(socket_fds) < Len(Listens)
    /\ phase = "serving" => Len(socket_fds) = Len(Listens)

LEMMA ClosedType == Closed \in Socket /\ Closed.state = "closed"
BY DEF Closed, Socket

LEMMA ListensType == Listens \in Seq(ListenSocket) /\ Len(Listens) \in Nat /\ Len(Listens) > 0
                     /\ \A n \in 1 .. Len(Listens) : Listens[n] \in ListenSocket
BY ListensAssumption

\* What an attempt makes of its descriptor; it listens only if the attempt succeeds.
LEMMA BecameType ==
  ASSUME NEW l \in ListenSocket, NEW failure \in Failures
  PROVE  /\ Became(l, failure) \in Socket
         /\ Became(l, failure).state # "closed"
         /\ Succeeds(l, failure) => Became(l, failure) = [addr |-> l.addr, state |-> "listening"]
         /\ failure # "socket" /\ Lowest # {} /\ ~Succeeds(l, failure) => Became(l, failure).state # "listening"
<1>1. [Closed EXCEPT !.state = "open"] = [addr |-> NoAddr, state |-> "open"]
  BY DEF Closed
<1>2. l.addr \in Addr
  BY DEF ListenSocket
<1>3. CASE failure = "setup"
  BY <1>1, <1>3 DEF Became, Succeeds, Socket
<1>4. CASE failure # "setup" /\ InTheWay(l)
  BY <1>1, <1>4 DEF Became, Succeeds, Socket
<1>5. CASE failure = "listen" /\ ~InTheWay(l)
  BY <1>2, <1>5 DEF Became, Succeeds, Socket
<1>6. CASE failure \in {"none", "socket"} /\ ~InTheWay(l)
  BY <1>2, <1>6 DEF Became, Succeeds, Socket
<1> QED BY <1>3, <1>4, <1>5, <1>6 DEF Failures

LEMMA LowestClosed == \A f \in Lowest : f \in Fd /\ sockets[f].state = "closed"
BY ClosedType DEF Lowest

\* server_mapping after the n-th socket: either as long as there are sockets, or as it was.
LEMMA MappedLength ==
  ASSUME SetupInv, phase = "setup", NEW n, n = Len(socket_fds) + 1
  PROVE  /\ Mapped(n) \in Seq(Nat)
         /\ EndsServer(n) => Len(Mapped(n)) = n
         /\ ~EndsServer(n) => Mapped(n) = server_mapping
         /\ \A k \in 1 .. Len(Mapped(n)) : Mapped(n)[k] = Listens[k].server
<1>1. /\ server_mapping \in Seq(Nat) /\ Len(server_mapping) \in Nat /\ Len(socket_fds) \in Nat
      /\ Len(server_mapping) <= Len(socket_fds) /\ n \in 1 .. Len(Listens)
  BY ListensType DEF SetupInv, SetupTypes, Aligned
<1>2. \A k \in 1 .. Len(server_mapping) : server_mapping[k] = Listens[k].server
  <2>1. \A k \in 1 .. Len(server_mapping) : k \in DOMAIN socket_fds /\ k <= Len(server_mapping)
    BY <1>1 DEF SetupInv, SetupTypes
  <2> QED BY <2>1 DEF SetupInv, Aligned
<1>3. CASE ~EndsServer(n)
  BY <1>1, <1>2, <1>3 DEF Mapped
<1>4. CASE EndsServer(n)
  <2> DEFINE m == Len(server_mapping)
             more == [i \in 1 .. n - m |-> Listens[n].server]
  <2>1. n - m \in Nat /\ Listens[n].server \in Nat
    BY <1>1, ListensType DEF ListenSocket
  <2>2. more \in Seq(Nat) /\ Len(more) = n - m /\ \A i \in 1 .. n - m : more[i] = Listens[n].server
    BY <2>1
  <2>3. Mapped(n) = server_mapping \o more
    BY <1>4 DEF Mapped
  <2> HIDE DEF more
  <2>4. Mapped(n) \in Seq(Nat) /\ Len(Mapped(n)) = n
    <3>1. server_mapping \o more \in Seq(Nat) /\ Len(server_mapping \o more) = Len(server_mapping) + Len(more)
      BY <1>1, <2>2, ConcatProperties
    <3>2. Len(server_mapping) + Len(more) = n
      BY <1>1, <2>2
    <3> QED BY <2>3, <3>1, <3>2
  <2>5. \A k \in 1 .. n : Mapped(n)[k] = IF k <= m THEN server_mapping[k] ELSE more[k - m]
    <3>1. Len(server_mapping) + Len(more) = n
      BY <1>1, <2>2
    <3>2. \A k \in 1 .. Len(server_mapping) + Len(more) :
            (server_mapping \o more)[k] = IF k <= m THEN server_mapping[k] ELSE more[k - m]
      BY <1>1, <2>2, ConcatProperties
    <3> QED BY <2>3, <3>1, <3>2
  <2>6. \A k \in m + 1 .. n : Listens[k].server = Listens[n].server
    <3>1. \A k \in m + 1 .. n : k \in DOMAIN Listens /\ k > m /\ k <= Len(socket_fds) + 1
      BY <1>1, ListensType
    <3>2. \A k \in m + 1 .. n : Listens[k].server = Listens[m + 1].server
      BY <3>1 DEF SetupInv, OneServer
    <3> QED BY <1>1, <3>2
  <2>7. \A k \in 1 .. n : Mapped(n)[k] = Listens[k].server
    <3> SUFFICES ASSUME NEW k \in 1 .. n PROVE Mapped(n)[k] = Listens[k].server
      OBVIOUS
    <3>1. CASE k <= m
      BY <1>1, <1>2, <2>5, <3>1
    <3>2. CASE k > m
      <4>1. k - m \in 1 .. n - m /\ k \in m + 1 .. n
        BY <1>1, <3>2
      <4>2. Mapped(n)[k] = more[k - m]
        BY <1>1, <2>5, <3>2
      <4> QED BY <2>2, <2>6, <4>1, <4>2
    <3> QED BY <1>1, <3>1, <3>2
  <2> QED BY <1>4, <2>4, <2>7
<1> QED BY <1>3, <1>4

LEMMA ListenInv ==
  ASSUME SetupInv, NEW failure \in Failures, Listen(failure)
  PROVE  SetupInv'
<1> DEFINE n == Len(socket_fds) + 1
           l == Listens[n]
<1>1. PICK f \in Lowest : /\ sockets' = [sockets EXCEPT ![f] = Became(l, failure)]
                          /\ socket_fds' = Append(socket_fds, f)
  BY DEF Listen, Current, Position
<1>2. /\ phase = "setup" /\ Succeeds(l, failure)
      /\ socketfd_mapping' = Append(socketfd_mapping, l.addr)
      /\ server_mapping' = Mapped(n) /\ error' = 1 /\ taken' = taken
      /\ phase' = IF n = Len(Listens) THEN "serving" ELSE "setup"
  BY DEF Listen, Current, Position
<1>3. /\ socket_fds \in Seq(Fd) /\ Len(socket_fds) \in Nat /\ n \in 1 .. Len(Listens) /\ l \in ListenSocket
      /\ socketfd_mapping \in Seq(Addr) /\ Len(socketfd_mapping) = Len(socket_fds)
      /\ server_mapping \in Seq(Nat) /\ Len(server_mapping) \in Nat /\ Len(server_mapping) < n
      /\ l.addr \in Addr
  BY <1>2, ListensType DEF SetupInv, SetupTypes, Aligned, ListenSocket
<1>4. /\ f \in Fd /\ sockets[f].state = "closed"
      /\ Became(l, failure) = [addr |-> l.addr, state |-> "listening"] /\ Became(l, failure) \in Socket
  BY <1>2, <1>3, LowestClosed, BecameType
<1>5. /\ socket_fds' \in Seq(Fd) /\ Len(socket_fds') = n /\ socket_fds'[n] = f
      /\ \A k \in 1 .. n - 1 : socket_fds'[k] = socket_fds[k]
  BY <1>1, <1>3, <1>4
<1>6. /\ socketfd_mapping' \in Seq(Addr) /\ Len(socketfd_mapping') = n /\ socketfd_mapping'[n] = l.addr
      /\ \A k \in 1 .. n - 1 : socketfd_mapping'[k] = socketfd_mapping[k]
  BY <1>2, <1>3
<1>7. /\ server_mapping' \in Seq(Nat)
      /\ EndsServer(n) => Len(server_mapping') = n
      /\ ~EndsServer(n) => server_mapping' = server_mapping
      /\ \A k \in 1 .. Len(server_mapping') : server_mapping'[k] = Listens[k].server
  BY <1>2, MappedLength
<1>8. sockets' \in [Fd -> Socket]
  BY <1>1, <1>4 DEF SetupInv, SetupTypes
<1>9. SetupTypes'
  BY <1>2, <1>5, <1>6, <1>7, <1>8 DEF SetupInv, SetupTypes
<1>10. Len(server_mapping') <= n
  BY <1>3, <1>7
<1>11. \A k \in 1 .. n : /\ sockets'[socket_fds'[k]] = [addr |-> Listens[k].addr, state |-> "listening"]
                         /\ socketfd_mapping'[k] = Listens[k].addr
  <2> SUFFICES ASSUME NEW k \in 1 .. n
               PROVE /\ sockets'[socket_fds'[k]] = [addr |-> Listens[k].addr, state |-> "listening"]
                     /\ socketfd_mapping'[k] = Listens[k].addr
    OBVIOUS
  <2>1. CASE k = n
    BY <1>1, <1>4, <1>5, <1>6, <2>1 DEF SetupInv, SetupTypes
  <2>2. CASE k # n
    <3>1. k \in 1 .. n - 1 /\ k \in DOMAIN socket_fds
      BY <1>3, <2>2
    <3>2. /\ sockets[socket_fds[k]] = [addr |-> Listens[k].addr, state |-> "listening"]
          /\ socketfd_mapping[k] = Listens[k].addr
      BY <3>1 DEF SetupInv, Aligned
    <3>3. socket_fds[k] \in Fd /\ socket_fds[k] # f
      BY <1>3, <1>4, <3>1, <3>2
    <3> QED BY <1>1, <1>5, <1>6, <3>1, <3>2, <3>3 DEF SetupInv, SetupTypes
  <2> QED BY <2>1, <2>2
<1>12. phase' = "serving" => Len(server_mapping') = Len(Listens)
  BY <1>2, <1>7 DEF EndsServer
<1>13. Aligned'
  <2>1. Len(socketfd_mapping') = Len(socket_fds') /\ Len(server_mapping') <= Len(socket_fds')
    BY <1>5, <1>6, <1>10
  <2>2. ASSUME NEW k \in 1 .. n, k <= Len(server_mapping')
        PROVE  server_mapping'[k] = Listens[k].server
    BY <1>3, <1>7, <2>2
  <2>3. DOMAIN socket_fds' = 1 .. n
    BY <1>5
  <2> QED BY <1>11, <1>12, <2>1, <2>2, <2>3 DEF Aligned
<1>14. NoStrayListens'
  <2> SUFFICES ASSUME NEW g \in Fd, sockets'[g].state = "listening"
               PROVE  \E k \in DOMAIN socket_fds' : socket_fds'[k] = g
    BY DEF NoStrayListens
  <2>1. CASE g = f
    BY <1>3, <1>5, <2>1
  <2>2. CASE g # f
    <3>1. sockets[g].state = "listening"
      BY <1>1, <2>2 DEF SetupInv, SetupTypes
    <3>2. PICK k \in DOMAIN socket_fds : socket_fds[k] = g
      BY <3>1 DEF SetupInv, NoStrayListens
    <3>3. k \in 1 .. n - 1
      BY <1>3, <3>2
    <3> QED BY <1>3, <1>5, <3>2, <3>3
  <2> QED BY <2>1, <2>2
<1>15. OneServer'
  <2> SUFFICES ASSUME NEW k \in DOMAIN Listens, k > Len(server_mapping'), k <= n + 1
               PROVE  Listens[k].server = Listens[Len(server_mapping') + 1].server
    BY <1>5 DEF OneServer
  <2>0. k \in 1 .. Len(Listens)
    BY ListensType
  <2>1. CASE EndsServer(n)
    <3>1. k = n + 1 /\ Len(server_mapping') = n
      BY <1>3, <1>7, <2>0, <2>1
    <3> QED BY <3>1
  <2>2. CASE ~EndsServer(n)
    <3>1. server_mapping' = server_mapping
      BY <1>7, <2>2
    <3>2. n # Len(Listens) /\ Listens[n + 1].server = Listens[n].server
      BY <2>2 DEF EndsServer
    <3>3. Listens[n].server = Listens[Len(server_mapping) + 1].server
      BY <1>3, ListensType DEF SetupInv, OneServer
    <3>4. CASE k = n + 1
      BY <3>1, <3>2, <3>3, <3>4
    <3>5. CASE k # n + 1
      <4>1. k <= Len(socket_fds) + 1
        BY <1>3, <2>0, <3>5
      <4> QED BY <3>1, <4>1 DEF SetupInv, OneServer
    <3> QED BY <3>4, <3>5
  <2> QED BY <2>1, <2>2
<1>16. /\ phase' = "setup" => Len(socket_fds') < Len(Listens)
       /\ phase' = "serving" => Len(socket_fds') = Len(Listens)
  BY <1>2, <1>3, <1>5, ListensType
<1> QED BY <1>9, <1>13, <1>14, <1>15, <1>16 DEF SetupInv

NoSockets ==
    /\ socket_fds = <<>> /\ socketfd_mapping = <<>> /\ server_mapping = <<>> /\ error = 1
    /\ sockets = [f \in Fd |-> Closed] /\ taken \subseteq Addr /\ phase \in {"setup", "exited"}

LEMMA NoSocketsInv == NoSockets => SetupInv
<1> SUFFICES ASSUME NoSockets PROVE SetupInv
  OBVIOUS
<1> USE DEF NoSockets
<1>1. Len(socket_fds) = 0 /\ Len(socketfd_mapping) = 0 /\ Len(server_mapping) = 0 /\ DOMAIN socket_fds = {}
  OBVIOUS
<1>2. SetupTypes
  BY ClosedType DEF SetupTypes
<1>3. Aligned
  BY <1>1 DEF Aligned
<1>4. NoStrayListens
  BY ClosedType DEF NoStrayListens
<1>5. OneServer
  BY <1>1, ListensType DEF OneServer
<1> QED BY <1>1, <1>2, <1>3, <1>4, <1>5, ListensType DEF SetupInv

LEMMA ExitInv ==
  ASSUME SetupInv, Exit
  PROVE  SetupInv'
<1>1. NoSockets'
  BY DEF Exit, NoSockets, SetupInv, SetupTypes
<1>2. NoSockets' => SetupInv'
  BY NoSocketsInv, PTL
<1> QED BY <1>1, <1>2

\* An attempt that fails leaves a descriptor that does not listen, or none.
LEMMA RetryInv ==
  ASSUME SetupInv, NEW failure \in Failures, Retry(failure)
  PROVE  SetupInv'
<1>1. CASE Exit
  BY <1>1, ExitInv
<1>2. CASE /\ sockets' = IF failure = "socket" \/ Lowest = {} THEN sockets
                         ELSE [f \in Fd |-> IF f \in Lowest THEN Became(Current, failure) ELSE sockets[f]]
           /\ error' = error + 1
           /\ UNCHANGED <<socket_fds, socketfd_mapping, server_mapping, taken, phase>>
  <2>1. Current \in ListenSocket /\ phase = "setup" /\ ~Succeeds(Current, failure)
    <3>0. phase = "setup" /\ Len(socket_fds) \in Nat /\ Len(socket_fds) < Len(Listens)
      BY DEF Retry, SetupInv, SetupTypes
    <3>1. Position \in 1 .. Len(Listens) /\ phase = "setup"
      BY <3>0, ListensType DEF Position
    <3>2. Current \in ListenSocket
      BY <3>1, ListensType DEF Current
    <3>3. ~Succeeds(Current, failure)
      BY DEF Retry
    <3> QED BY <3>1, <3>2, <3>3
  <2>2. \A f \in Fd : /\ sockets'[f] \in Socket
                      /\ sockets'[f].state = "listening" => sockets[f].state = "listening"
                      /\ sockets[f].state = "listening" => sockets'[f] = sockets[f]
    <3>1. CASE failure = "socket" \/ Lowest = {}
      BY <1>2, <3>1 DEF SetupInv, SetupTypes
    <3>2. CASE failure # "socket" /\ Lowest # {}
      BY <1>2, <2>1, <3>2, BecameType, LowestClosed DEF SetupInv, SetupTypes
    <3> QED BY <3>1, <3>2
  <2>3. sockets' \in [Fd -> Socket]
    BY <1>2, <2>2 DEF SetupInv, SetupTypes
  <2>4. SetupTypes'
    BY <1>2, <2>3 DEF SetupInv, SetupTypes
  <2>5. Aligned'
    <3>1. \A n \in DOMAIN socket_fds : socket_fds[n] \in Fd /\ sockets[socket_fds[n]].state = "listening"
      <4>1. \A n \in DOMAIN socket_fds : socket_fds[n] \in Fd
        BY DEF SetupInv, SetupTypes
      <4>2. \A n \in DOMAIN socket_fds : sockets[socket_fds[n]] = [addr |-> Listens[n].addr, state |-> "listening"]
        BY DEF SetupInv, Aligned
      <4>3. ASSUME NEW n \in DOMAIN socket_fds PROVE sockets[socket_fds[n]].state = "listening"
        <5>1. sockets[socket_fds[n]] = [addr |-> Listens[n].addr, state |-> "listening"]
          BY <4>2
        <5> QED BY <5>1
      <4> QED BY <4>1, <4>3
    <3>2. \A n \in DOMAIN socket_fds : sockets'[socket_fds[n]] = sockets[socket_fds[n]]
      BY <2>2, <3>1
    <3>3. /\ socket_fds' = socket_fds /\ socketfd_mapping' = socketfd_mapping
          /\ server_mapping' = server_mapping /\ phase' = phase
      BY <1>2
    <3> QED BY <3>2, <3>3 DEF SetupInv, Aligned
  <2>6. NoStrayListens'
    BY <1>2, <2>2 DEF SetupInv, NoStrayListens
  <2>7. OneServer'
    BY <1>2 DEF SetupInv, OneServer
  <2> QED BY <1>2, <2>4, <2>5, <2>6, <2>7 DEF SetupInv
<1> QED BY <1>1, <1>2 DEF Retry

LEMMA SetupUnchanged == SetupInv /\ UNCHANGED setupVars => SetupInv'
BY DEF SetupInv, SetupTypes, Aligned, NoStrayListens, OneServer, setupVars

LEMMA SetupNextInv ==
  ASSUME SetupInv, SetupNext
  PROVE  SetupInv'
<1>1. ASSUME NEW failure \in Failures, Listen(failure) \/ Retry(failure) \/ GiveUp(failure)
      PROVE  SetupInv'
  BY <1>1, ListenInv, RetryInv, ExitInv DEF GiveUp
<1>2. ASSUME NEW a \in Addr, Vacate(a)
      PROVE  SetupInv'
  <2>1. taken' \subseteq Addr /\ UNCHANGED <<socket_fds, socketfd_mapping, server_mapping, error, sockets, phase>>
    BY <1>2 DEF Vacate, SetupInv, SetupTypes
  <2> QED BY <2>1 DEF SetupInv, SetupTypes, Aligned, NoStrayListens, OneServer
<1> QED BY <1>1, <1>2 DEF SetupNext, Setup

LEMMA SetupInitInv == SetupInit => SetupInv
<1>1. SetupInit => NoSockets
  BY DEF SetupInit, NoSockets
<1> QED BY <1>1, NoSocketsInv

\* Once the server runs, its sockets do not change, and it never goes back.
LEMMA SetupNextPhase ==
  ASSUME SetupInv, SetupNext
  PROVE  phase = "setup"
BY DEF SetupNext, Setup, Listen, Retry, GiveUp, Vacate

----------------------------------------------------------------------------
(* The client and its deadlines                                            *)

ClientRec ==
    [here : BOOLEAN, server_ref : Nat, location_ref : Locations, req : {"none", "part", "body", "ready"},
     content : {"none", "script", "page"}, given : BOOLEAN, status : Nat, ready : BOOLEAN,
     emergency : BOOLEAN, start_connection : Nat, current_time : Nat,
     start_recv_body : Nat, start_recv_cgi : Nat]

PeerRec ==
    [at : {"new", "queued", "accepted", "closed"}, to : Addr \cup {NoAddr}, location : Locations,
     unsent : Seq(Pieces), inbox : Seq(Pieces), accepted : Nat, last : Nat]

KidRec == [run : {"none", "silent", "wrote", "read"}, since : Nat]

StepRec ==
    [at : {"poll", "recv", "send", "content", "accept", "reset"}, entry : Nat,
     revents : [{"in", "out", "recv", "send"} -> {"none", "ready", "bad"}], polled : Nat]

TimerTypes ==
    /\ now \in Nat
    /\ peer \in PeerRec
    /\ kid \in KidRec
    /\ client \in ClientRec
    /\ step \in StepRec

\* What happens to a client at all: only a peer that was accepted has one, and only where
\* the server runs.
Placed ==
    /\ peer.at # "new" => phase = "serving"
    /\ client.here => peer.at = "accepted"
    /\ step.at \in {"recv", "send", "content"} => client.here
    /\ step.at = "recv" /\ step.revents["recv"] = "ready" => peer.inbox # <<>>

\* What is compared with a limit began when the peer, or the script, thinks it did; and
\* only a request that was routed has a location and a script.
Dated(c, p, k) ==
    /\ c.start_connection = p.accepted
    /\ p.accepted <= c.current_time /\ c.current_time <= now
    /\ c.req = "body" => c.start_recv_body = p.last
    /\ c.req # "ready" => c.location_ref = 0 /\ c.content # "script"
    /\ c.content = "script" =>
         c.given /\ c.location_ref = p.location /\ c.start_recv_cgi = k.since

TimerInv ==
    /\ TimerTypes
    /\ Placed
    /\ OwnServer
    /\ client.here => Dated(client, peer, kid)

IInv == SetupInv /\ TimerInv

LEMMA NoClientType == NoClient \in ClientRec /\ ~NoClient.here
BY TimeoutsAssumption DEF NoClient, ClientRec, Locations

\* What no response changes of a client.
SameSince(d, c) ==
    /\ d.here = c.here /\ d.server_ref = c.server_ref /\ d.location_ref = c.location_ref
    /\ d.req = c.req
    /\ d.start_connection = c.start_connection /\ d.current_time = c.current_time
    /\ d.start_recv_body = c.start_recv_body /\ d.start_recv_cgi = c.start_recv_cgi

LEMMA DefaultKeeps ==
  ASSUME NEW c \in ClientRec
  PROVE  LET d == GetDefaultError(c) IN
         d \in ClientRec /\ SameSince(d, c) /\ d.content = "none" /\ d.status = c.status
BY DEF GetDefaultError, ClientRec, SameSince

LEMMA ResponseErrorKeeps ==
  ASSUME NEW c \in ClientRec
  PROVE  LET d == ProcessResponseError(c) IN
         d \in ClientRec /\ SameSince(d, c) /\ d.content # "script" /\ d.status = c.status
<1>1. CASE c.status \in ErrorPages
  <2>1. ProcessResponseError(c) = [c EXCEPT !.ready = FALSE, !.emergency = FALSE, !.content = "page", !.given = FALSE]
    BY <1>1 DEF ProcessResponseError
  <2> QED BY <2>1 DEF ClientRec, SameSince
<1>2. CASE c.status \notin ErrorPages
  <2> DEFINE e == [c EXCEPT !.emergency = FALSE]
  <2>1. e \in ClientRec /\ SameSince(e, c) /\ e.status = c.status
    BY DEF ClientRec, SameSince
  <2>2. ProcessResponseError(c) = GetDefaultError(e)
    BY <1>2 DEF ProcessResponseError
  <2> HIDE DEF e
  <2> QED BY <2>1, <2>2, DefaultKeeps DEF SameSince
<1> QED BY <1>1, <1>2

LEMMA Overwritten ==
  ASSUME NEW c \in ClientRec, NEW status \in Nat
  PROVE  LET d == ErrorOverwriteResponse(c, status) IN
         d \in ClientRec /\ SameSince(d, c) /\ d.content # "script" /\ d.status = status
<1>1. CASE c.status = status \/ c.emergency
  <2> DEFINE e == [c EXCEPT !.status = status, !.emergency = FALSE]
  <2>1. e \in ClientRec /\ SameSince(e, c) /\ e.status = status
    BY DEF ClientRec, SameSince
  <2>2. ErrorOverwriteResponse(c, status) = GetDefaultError(e)
    BY <1>1 DEF ErrorOverwriteResponse
  <2> HIDE DEF e
  <2> QED BY <2>1, <2>2, DefaultKeeps DEF SameSince
<1>2. CASE ~(c.status = status \/ c.emergency)
  <2> DEFINE e == [c EXCEPT !.status = status]
             d == ProcessResponseError(e)
  <2>1. e \in ClientRec /\ SameSince(e, c) /\ e.status = status
    BY DEF ClientRec, SameSince
  <2>2. ErrorOverwriteResponse(c, status) = [d EXCEPT !.emergency = TRUE]
    BY <1>2 DEF ErrorOverwriteResponse
  <2> HIDE DEF e
  <2>3. d \in ClientRec /\ SameSince(d, e) /\ d.content # "script" /\ d.status = e.status
    BY <2>1, ResponseErrorKeeps
  <2> HIDE DEF d
  <2>4. [d EXCEPT !.emergency = TRUE] \in ClientRec /\ SameSince([d EXCEPT !.emergency = TRUE], d)
        /\ [d EXCEPT !.emergency = TRUE].content = d.content /\ [d EXCEPT !.emergency = TRUE].status = d.status
    BY <2>3 DEF ClientRec, SameSince
  <2> QED BY <2>1, <2>2, <2>3, <2>4 DEF SameSince
<1> QED BY <1>1, <1>2

\* addRequest() and what follows.
LEMMA ReceivedKeeps ==
  ASSUME NEW c \in ClientRec, NEW piece, peer.location \in Locations
  PROVE  LET r == Received(c, piece) IN
         /\ r \in ClientRec
         /\ r.here = c.here /\ r.server_ref = c.server_ref
         /\ r.start_connection = c.start_connection /\ r.current_time = c.current_time
         /\ r.start_recv_body = c.start_recv_body /\ r.start_recv_cgi = c.start_recv_cgi
         /\ \/ /\ Routes(c, piece) /\ r.req = "ready" /\ r.status = 200 /\ r.content = "script" /\ ~r.given
               /\ r.location_ref = peer.location
            \/ /\ ~Routes(c, piece) /\ r.req \in {"part", "body"} /\ r.location_ref = c.location_ref
               /\ c.req # "ready" /\ r.content \in {c.content, "none", "page"} /\ r.status \in {c.status, 400}
            \/ /\ ~Routes(c, piece) /\ c.req # "ready" /\ r = c
<1>1a. peer.location \in Locations
  OBVIOUS
<1>1. CASE c.req \in {"none", "part"} /\ piece = "part"
  <2> DEFINE b == [c EXCEPT !.req = "part"]
             e == [b EXCEPT !.status = 400]
  <2>7. Received(c, piece) = RouteError(b, 400)
    BY <1>1 DEF Received, Routes
  <2>1. Received(c, piece) = ProcessResponseError(e)
    BY <2>7 DEF RouteError
  <2>0. b \in ClientRec /\ b.req = "part" /\ b.location_ref = c.location_ref
        /\ b.here = c.here /\ b.server_ref = c.server_ref /\ b.status = c.status
        /\ b.start_connection = c.start_connection /\ b.current_time = c.current_time
        /\ b.start_recv_body = c.start_recv_body /\ b.start_recv_cgi = c.start_recv_cgi
    BY DEF ClientRec
  <2> HIDE DEF b
  <2>5. e \in ClientRec
    BY <2>0 DEF ClientRec
  <2>2. e \in ClientRec /\ e.req = "part" /\ e.status = 400 /\ e.location_ref = c.location_ref
        /\ e.here = c.here /\ e.server_ref = c.server_ref
        /\ e.start_connection = c.start_connection /\ e.current_time = c.current_time
        /\ e.start_recv_body = c.start_recv_body /\ e.start_recv_cgi = c.start_recv_cgi
    BY <2>0, <2>5 DEF ClientRec
  <2>3. ~Routes(c, piece)
    BY <1>1 DEF Routes
  <2> HIDE DEF e
  <2>4. LET d == ProcessResponseError(e) IN
         d \in ClientRec /\ SameSince(d, e) /\ d.content # "script" /\ d.status = e.status
    BY <2>2, ResponseErrorKeeps
  <2>6. ProcessResponseError(e).content \in {"none", "page"}
    BY <2>4 DEF ClientRec
  <2> QED BY <1>1, <2>1, <2>2, <2>3, <2>4, <2>6 DEF SameSince
<1>2. CASE c.req \in {"none", "part"} /\ piece = "head"
  <2>1. Received(c, piece) = [c EXCEPT !.req = "body"] /\ ~Routes(c, piece)
    BY <1>2 DEF Received, Routes
  <2> QED BY <1>2, <2>1 DEF ClientRec
<1>3. CASE Routes(c, piece)
  <2> DEFINE b == [c EXCEPT !.req = "ready"]
             e == [b EXCEPT !.location_ref = peer.location, !.status = 200,
                            !.content = "script", !.given = FALSE]
  <2>1. Received(c, piece) = e
    BY <1>3 DEF Received, Routes, RouteRequest
  <2>2. b \in ClientRec /\ b.req = "ready"
        /\ b.here = c.here /\ b.server_ref = c.server_ref
        /\ b.start_connection = c.start_connection /\ b.current_time = c.current_time
        /\ b.start_recv_body = c.start_recv_body /\ b.start_recv_cgi = c.start_recv_cgi
    BY DEF ClientRec
  <2> HIDE DEF b
  <2>3. e \in ClientRec
    <3> DEFINE f == [b EXCEPT !.location_ref = peer.location]
               g == [f EXCEPT !.content = "script", !.given = FALSE]
    <3>1. f \in ClientRec
      BY <1>1a, <2>2 DEF ClientRec
    <3>2. e = [g EXCEPT !.status = 200]
      BY <2>2 DEF ClientRec
    <3> HIDE DEF e, f
    <3>3. g \in ClientRec
      BY <3>1 DEF ClientRec
    <3> HIDE DEF g
    <3> QED BY <3>2, <3>3 DEF ClientRec
  <2>4. /\ e.req = "ready" /\ e.status = 200 /\ e.content = "script" /\ ~e.given /\ e.location_ref = peer.location
        /\ e.here = c.here /\ e.server_ref = c.server_ref
        /\ e.start_connection = c.start_connection /\ e.current_time = c.current_time
        /\ e.start_recv_body = c.start_recv_body /\ e.start_recv_cgi = c.start_recv_cgi
    BY <2>2 DEF ClientRec
  <2> HIDE DEF e
  <2> QED BY <1>3, <2>1, <2>3, <2>4
<1>4. CASE ~(c.req \in {"none", "part"} /\ piece \in {"part", "head"}) /\ ~Routes(c, piece)
  <2>1. Received(c, piece) = c
    BY <1>4 DEF Received
  <2> QED BY <1>4, <2>1 DEF Routes
<1> QED BY <1>1, <1>2, <1>3, <1>4

\* clientRecvHttp()
LEMMA RecvHttpKeeps ==
  ASSUME NEW c \in ClientRec, NEW piece, peer.location \in Locations, now \in Nat
  PROVE  LET r == RecvHttp(c, piece) IN
         /\ r \in ClientRec
         /\ r.here = c.here /\ r.server_ref = c.server_ref
         /\ r.start_connection = c.start_connection /\ r.current_time = c.current_time
         /\ r.start_recv_cgi = c.start_recv_cgi
         /\ r.req = "body" => r.start_recv_body = now
         /\ \/ /\ Routes(c, piece) /\ r.req = "ready" /\ r.status = 200 /\ r.content = "script" /\ ~r.given
               /\ r.location_ref = peer.location
            \/ /\ ~Routes(c, piece) /\ c.req # "ready" /\ r.req # "ready" /\ r.location_ref = c.location_ref
               /\ r.content \in {c.content, "none", "page"} /\ r.status \in {c.status, 400}
<1> DEFINE a == Received(c, piece)
           r == RecvHttp(c, piece)
<1>1. r = IF a.req \in {"body", "ready"} THEN [a EXCEPT !.start_recv_body = now] ELSE a
  BY DEF RecvHttp, HeaderReady, SetStartBodyTime
<1>2. /\ a \in ClientRec
      /\ a.here = c.here /\ a.server_ref = c.server_ref
      /\ a.start_connection = c.start_connection /\ a.current_time = c.current_time
      /\ a.start_recv_cgi = c.start_recv_cgi
      /\ \/ /\ Routes(c, piece) /\ a.req = "ready" /\ a.status = 200 /\ a.content = "script" /\ ~a.given
            /\ a.location_ref = peer.location
         \/ /\ ~Routes(c, piece) /\ c.req # "ready" /\ a.req # "ready" /\ a.location_ref = c.location_ref
            /\ a.content \in {c.content, "none", "page"} /\ a.status \in {c.status, 400}
  BY ReceivedKeeps
<1> HIDE DEF a
<1>3. /\ r \in ClientRec
      /\ r.here = a.here /\ r.server_ref = a.server_ref
      /\ r.start_connection = a.start_connection /\ r.current_time = a.current_time
      /\ r.start_recv_cgi = a.start_recv_cgi
      /\ r.req = "body" => r.start_recv_body = now
      /\ r.req = a.req /\ r.status = a.status /\ r.content = a.content /\ r.given = a.given
      /\ r.location_ref = a.location_ref
  BY <1>1, <1>2 DEF ClientRec
<1> HIDE DEF r
<1>4. /\ r.here = c.here /\ r.server_ref = c.server_ref
      /\ r.start_connection = c.start_connection /\ r.current_time = c.current_time
      /\ r.start_recv_cgi = c.start_recv_cgi
  BY <1>2, <1>3
<1>5. CASE Routes(c, piece)
  BY <1>2, <1>3, <1>4, <1>5 DEF r
<1>6. CASE ~Routes(c, piece)
  BY <1>2, <1>3, <1>4, <1>6 DEF r
<1> QED BY <1>5, <1>6

LEMMA TimeoutTypes ==
  ASSUME NEW n \in Servers, NEW l \in Locations
  PROVE  HeaderTimeout[n] \in Nat /\ BodyTimeout[n][l] \in Nat /\ CgiTimeout[n][l] \in Nat
BY TimeoutsAssumption

\* A limit that is passed: by the client's clock, or by a difference that is negative.
Over(c, limit, start) == c.current_time < start \/ c.current_time - start > limit

LEMMA CheckedOver ==
  ASSUME NEW c \in ClientRec, NEW start \in Nat, NEW limit \in Nat, NEW refusal \in Nat,
         NEW status \in Checked(refusal, limit, start, c), status > 200
  PROVE  status = refusal /\ Over(c, limit, start)
<1>1. c.current_time \in Nat
  BY DEF ClientRec
<1> QED BY <1>1 DEF Checked, Over

\* What checkTimer() found when it returns a status that refuses.
LEMMA CheckTimerOver ==
  ASSUME NEW c \in ClientRec, NEW atSocket \in BOOLEAN, c.server_ref \in Servers, c.location_ref \in Locations,
         NEW status \in CheckTimer(c, atSocket), status > 200
  PROVE  \/ /\ status = 408 /\ c.req = "part" /\ atSocket
            /\ Over(c, HeaderTimeout[c.server_ref], c.start_connection)
         \/ /\ status = 408 /\ c.req = "body" /\ atSocket
            /\ Over(c, BodyLimit(c), c.start_recv_body)
         \/ /\ status = 504 /\ ~atSocket
            /\ Over(c, CgiLimit(c), c.start_recv_cgi)
<1>1. c.start_connection \in Nat /\ c.start_recv_body \in Nat /\ c.start_recv_cgi \in Nat
  BY DEF ClientRec
<1>2. HeaderTimeout[c.server_ref] \in Nat /\ BodyLimit(c) \in Nat /\ CgiLimit(c) \in Nat
  BY TimeoutTypes DEF BodyLimit, CgiLimit
<1>3. CASE ~atSocket
  <2>1. status \in Checked(504, CgiLimit(c), c.start_recv_cgi, c)
    BY <1>3 DEF CheckTimer
  <2> QED BY <1>1, <1>2, <1>3, <2>1, CheckedOver
<1>4. CASE atSocket /\ c.req = "part"
  <2>1. status \in Checked(408, HeaderTimeout[c.server_ref], c.start_connection, c)
    BY <1>4 DEF CheckTimer
  <2> QED BY <1>1, <1>2, <1>4, <2>1, CheckedOver
<1>5. CASE atSocket /\ c.req = "body"
  <2>1. status \in Checked(408, BodyLimit(c), c.start_recv_body, c)
    BY <1>5 DEF CheckTimer
  <2> QED BY <1>1, <1>2, <1>5, <2>1, CheckedOver
<1>6. ~(atSocket /\ c.req \notin {"part", "body"})
  BY DEF CheckTimer
<1> QED BY <1>3, <1>4, <1>5, <1>6

\* What a handler leaves for a client it is called on: `c` is the client before the end
\* of handleClient(), `p` its peer afterwards, `k` its script if it has one.
Prepared(c, p, k) ==
    /\ c \in ClientRec /\ k \in KidRec
    /\ c.here /\ c.server_ref = client.server_ref
    /\ c.start_connection = p.accepted
    /\ p.accepted <= c.current_time /\ c.current_time <= now
    /\ c.req = "body" => c.start_recv_body = p.last
    /\ c.req # "ready" => c.location_ref = 0 /\ c.content # "script"
    /\ c.content = "script" =>
         c.location_ref = p.location /\ k.since = IF c.given THEN c.start_recv_cgi ELSE now
    /\ c.status = 408 => client.status = 408
    /\ c.status = 504 => client.status = 504

\* A content that is new is handed over.
LEMMA GivenKeeps ==
  ASSUME NEW c \in ClientRec, now \in Nat
  PROVE  LET g == SetTimeForContent([c EXCEPT !.given = TRUE]) IN
         /\ g \in ClientRec /\ g.given /\ g.start_recv_cgi = now
         /\ g.here = c.here /\ g.server_ref = c.server_ref /\ g.location_ref = c.location_ref
         /\ g.req = c.req /\ g.content = c.content /\ g.status = c.status
         /\ g.start_connection = c.start_connection /\ g.current_time = c.current_time
         /\ g.start_recv_body = c.start_recv_body
BY DEF SetTimeForContent, ClientRec

\* One handler of the loop: the client it leaves is dated as its peer and its script are,
\* and a limit that is found passed has passed.
LEMMA FinishStep ==
  ASSUME IInv, client.here, NEW atSocket \in BOOLEAN, NEW c, NEW k, NEW w, Prepared(c, peer', k),
         peer'.accepted = peer.accepted, peer'.last \in Nat, peer'.to = peer.to,
         peer'.location = peer.location, Finish(c, k, w, atSocket), now' = now,
         ~atSocket => c.content = client.content /\ k.since = kid.since
  PROVE  /\ client' \in ClientRec /\ client'.here
         /\ kid' \in KidRec
         /\ Dated(client', peer', kid')
         /\ OwnServer'
         /\ InTime
<1> DEFINE new == c.content # "none" /\ ~c.given
           g == IF new THEN SetTimeForContent([c EXCEPT !.given = TRUE]) ELSE c
           d == client'
<1>1. /\ now \in Nat /\ client \in ClientRec /\ kid \in KidRec
      /\ Dated(client, peer, kid) /\ OwnServer /\ peer.accepted \in Nat
  BY DEF IInv, TimerInv, TimerTypes, PeerRec
<1>2. PICK n \in DOMAIN Listens : Listens[n].addr = peer.to /\ Listens[n].server = client.server_ref
  BY <1>1 DEF OwnServer
<1>3. c \in ClientRec /\ k \in KidRec /\ c.server_ref \in Servers /\ c.server_ref = client.server_ref
  BY <1>2, ServersAssumption DEF Prepared
<1>4. PICK status \in CheckTimer(g, atSocket) :
        /\ client' = IF status > 200 THEN ErrorOverwriteResponse(g, status) ELSE g
        /\ kid' = IF client'.content = "script" THEN k ELSE NoKid
  BY DEF Finish
<1>5. /\ g \in ClientRec
      /\ g.here = c.here /\ g.server_ref = c.server_ref /\ g.location_ref = c.location_ref
      /\ g.req = c.req /\ g.content = c.content /\ g.status = c.status
      /\ g.start_connection = c.start_connection /\ g.current_time = c.current_time
      /\ g.start_recv_body = c.start_recv_body
      /\ g.content = "script" => g.given /\ g.start_recv_cgi = k.since
  <2>1. CASE new
    <3> DEFINE h == SetTimeForContent([c EXCEPT !.given = TRUE])
    <3>1. /\ h \in ClientRec /\ h.given /\ h.start_recv_cgi = now
          /\ h.here = c.here /\ h.server_ref = c.server_ref /\ h.location_ref = c.location_ref
          /\ h.req = c.req /\ h.content = c.content /\ h.status = c.status
          /\ h.start_connection = c.start_connection /\ h.current_time = c.current_time
          /\ h.start_recv_body = c.start_recv_body
      BY <1>1, <1>3, GivenKeeps
    <3>2. g = h
      BY <2>1
    <3>3. ~c.given /\ (c.content = "script" => k.since = now)
      BY <2>1 DEF Prepared
    <3> HIDE DEF g, h, new
    <3> QED BY <3>1, <3>2, <3>3
  <2>2. CASE ~new
    <3>1. g = c
      BY <2>2
    <3>2. c.content = "script" => c.given = TRUE /\ k.since = c.start_recv_cgi
      BY <1>3, <2>2 DEF Prepared, ClientRec
    <3> HIDE DEF g, new
    <3> QED BY <1>3, <3>1, <3>2
  <2> QED BY <2>1, <2>2
<1> HIDE DEF g, new
<1>6. /\ g.server_ref \in Servers /\ g.location_ref \in Locations
      /\ HeaderTimeout[g.server_ref] \in Nat /\ BodyLimit(g) \in Nat /\ CgiLimit(g) \in Nat
  <2>1. g.server_ref \in Servers /\ g.location_ref \in Locations
    BY <1>3, <1>5 DEF ClientRec
  <2> QED BY <2>1, TimeoutTypes DEF BodyLimit, CgiLimit
<1>7. /\ d \in ClientRec /\ SameSince(d, g) /\ d.content \in {g.content, "none", "page"}
      /\ d.content = "script" => d.given
      /\ \/ d.status = g.status
         \/ /\ d.status = 408 /\ g.req = "part" /\ Over(g, HeaderTimeout[g.server_ref], g.start_connection)
         \/ /\ d.status = 408 /\ g.req = "body" /\ Over(g, BodyLimit(g), g.start_recv_body)
         \/ /\ d.status = 504 /\ ~atSocket /\ Over(g, CgiLimit(g), g.start_recv_cgi)
  <2>1. CASE ~(status > 200)
    BY <1>4, <1>5, <2>1 DEF SameSince
  <2>2. CASE status > 200
    <3>1. \/ /\ status = 408 /\ g.req = "part" /\ Over(g, HeaderTimeout[g.server_ref], g.start_connection)
          \/ /\ status = 408 /\ g.req = "body" /\ Over(g, BodyLimit(g), g.start_recv_body)
          \/ /\ status = 504 /\ ~atSocket /\ Over(g, CgiLimit(g), g.start_recv_cgi)
      BY <1>4, <1>5, <1>6, <2>2, CheckTimerOver
    <3>2. status \in Nat
      BY <3>1
    <3>3. d = ErrorOverwriteResponse(g, status)
      BY <1>4, <2>2
    <3>4. d \in ClientRec /\ SameSince(d, g) /\ d.content # "script" /\ d.status = status
      BY <1>5, <3>2, <3>3, Overwritten
    <3>5. d.content \in {"none", "page"}
      BY <3>4 DEF ClientRec
    <3> QED BY <3>1, <3>4, <3>5
  <2> QED BY <2>1, <2>2
<1>8. kid' \in KidRec /\ (d.content = "script" => kid' = k)
  BY <1>3, <1>4 DEF NoKid, KidRec
<1> HIDE DEF d
<1>9. d.content = "script" => g.content = "script" /\ c.content = "script"
  BY <1>5, <1>7
<1>10. Dated(d, peer', kid')
  <2>1. /\ d.start_connection = peer'.accepted
        /\ peer'.accepted <= d.current_time /\ d.current_time <= now
        /\ d.req = "body" => d.start_recv_body = peer'.last
    BY <1>5, <1>7 DEF SameSince, Prepared
  <2>2. d.req # "ready" => d.location_ref = 0 /\ d.content # "script"
    BY <1>5, <1>7, <1>9 DEF SameSince, Prepared
  <2>3. d.content = "script" => d.given /\ d.location_ref = peer'.location /\ d.start_recv_cgi = kid'.since
    BY <1>5, <1>7, <1>8, <1>9 DEF SameSince, Prepared
  <2> QED BY <2>1, <2>2, <2>3 DEF Dated
<1>11. OwnServer'
  BY <1>2, <1>3, <1>5, <1>7 DEF OwnServer, SameSince, d
<1>12. ASSUME client.status # 408, d.status = 408
       PROVE  IF HeaderReady(d)
              THEN Passed(BodyTimeout[d.server_ref][0], peer'.last) \/ d.current_time < d.start_recv_body
              ELSE Passed(HeaderTimeout[d.server_ref], peer.accepted)
  <2>1. CASE g.req = "part" /\ Over(g, HeaderTimeout[g.server_ref], g.start_connection)
    <3>1. ~HeaderReady(d)
      BY <1>7, <2>1 DEF HeaderReady, SameSince
    <3>2. /\ g.current_time \in Nat /\ g.start_connection = peer.accepted
          /\ g.start_connection <= g.current_time /\ g.current_time <= now
      BY <1>5 DEF Prepared, ClientRec
    <3>3. g.current_time - peer.accepted > HeaderTimeout[d.server_ref]
      BY <1>1, <1>7, <2>1, <3>2 DEF Over, SameSince
    <3>4. HeaderTimeout[d.server_ref] \in Nat
      BY <1>6, <1>7 DEF SameSince
    <3> QED BY <1>1, <3>1, <3>2, <3>3, <3>4 DEF Passed
  <2>2. CASE g.req = "body" /\ Over(g, BodyLimit(g), g.start_recv_body)
    <3>1. HeaderReady(d)
      BY <1>7, <2>2 DEF HeaderReady, SameSince
    <3>2. /\ g.current_time \in Nat /\ g.start_recv_body = peer'.last /\ g.current_time <= now
          /\ g.location_ref = 0
      BY <1>5, <2>2 DEF Prepared, ClientRec
    <3>3. BodyLimit(g) = BodyTimeout[d.server_ref][0] /\ d.current_time = g.current_time
          /\ d.start_recv_body = g.start_recv_body
      BY <1>7, <3>2 DEF BodyLimit, SameSince
    <3> QED BY <1>1, <1>6, <2>2, <3>1, <3>2, <3>3 DEF Over, Passed
  <2>3. d.status # g.status
    BY <1>5, <1>12 DEF Prepared
  <2> QED BY <1>7, <1>12, <2>1, <2>2, <2>3
<1>13. ASSUME client.status # 504, d.status = 504, client.content = "script"
       PROVE  Passed(CgiTimeout[d.server_ref][peer.location], kid.since) \/ d.current_time < d.start_recv_cgi
  <2>0. d.status # g.status
    BY <1>5, <1>13 DEF Prepared
  <2>1. ~atSocket /\ Over(g, CgiLimit(g), g.start_recv_cgi)
    BY <1>7, <1>13, <2>0
  <2>2. g.content = "script" /\ g.start_recv_cgi = kid.since /\ kid.since \in Nat
        /\ g.current_time \in Nat /\ g.current_time <= now /\ g.location_ref = peer.location
    BY <1>1, <1>5, <1>13, <2>1 DEF Prepared, ClientRec, KidRec
  <2>3. CgiLimit(g) = CgiTimeout[d.server_ref][peer.location] /\ d.current_time = g.current_time
        /\ d.start_recv_cgi = g.start_recv_cgi
    BY <1>7, <2>2 DEF CgiLimit, SameSince
  <2> QED BY <1>1, <1>6, <2>1, <2>2, <2>3 DEF Over, Passed
<1>14. InTime
  BY <1>12, <1>13 DEF InTime, d
<1>15. d.here
  BY <1>5, <1>7 DEF SameSince, Prepared
<1> QED BY <1>7, <1>8, <1>10, <1>11, <1>14, <1>15 DEF d

\* A response lasts: a status that refuses is not taken back where nothing is set.
LEMMA InTimeUnchanged ==
  ASSUME client'.status \in {client.status, 0}
  PROVE  InTime
BY DEF InTime

\* What every step of the loop, the peer, the script and the clock leaves of the set-up.
LEMMA SetupKept ==
  ASSUME IInv, UNCHANGED setupVars
  PROVE  SetupInv' /\ phase' = phase
BY SetupUnchanged DEF IInv, setupVars

\* The client as it is, and as an entry with nothing to report leaves it.
LEMMA SamePrepared ==
  ASSUME IInv, client.here
  PROVE  Prepared(client, peer, kid) /\ Prepared(SetNewCurrentTime(client), peer, kid)
         /\ SetNewCurrentTime(client).content = client.content
<1>1. client \in ClientRec /\ kid \in KidRec /\ Dated(client, peer, kid) /\ now \in Nat
      /\ peer.location \in Locations
  BY DEF IInv, TimerInv, TimerTypes, PeerRec
<1>3. Prepared(client, peer, kid)
  BY <1>1 DEF Prepared, Dated
<1>4. SetNewCurrentTime(client) = [client EXCEPT !.current_time = now]
  BY DEF SetNewCurrentTime
<1> QED BY <1>1, <1>3, <1>4 DEF Prepared, ClientRec

LEMMA StepTypes ==
  ASSUME IInv
  PROVE  /\ \A where \in {"poll", "recv", "send", "content", "accept", "reset"} :
              At(where) \in StepRec /\ At(where).at = where
         /\ Accepting \in StepRec /\ Accepting.at = "accept"
<1>1. step \in StepRec
  BY DEF IInv, TimerInv, TimerTypes
<1>2. \A where \in {"poll", "recv", "send", "content", "accept", "reset"} :
              At(where) \in StepRec /\ At(where).at = where
  BY <1>1 DEF At, StepRec
<1>3. Quiet \in [{"in", "out", "recv", "send"} -> {"none", "ready", "bad"}]
  BY DEF Quiet, Numbers
<1>4. Accepting = [At("accept") EXCEPT !.revents = Quiet] /\ At("accept") \in StepRec /\ At("accept").at = "accept"
  BY <1>2 DEF Accepting
<1>5. Accepting \in StepRec /\ Accepting.at = "accept"
  BY <1>3, <1>4 DEF StepRec
<1> QED BY <1>2, <1>5

LEMMA ToContentType ==
  ASSUME IInv, NEW i \in Nat
  PROVE  ToContent(i) \in StepRec /\ ToContent(i).at \in {"content", "accept"}
<1>1. CASE i < Len(watch.fds)
  <2>1. ToContent(i) = [At("content") EXCEPT !.entry = i + 1] /\ At("content") \in StepRec /\ At("content").at = "content"
    BY <1>1, StepTypes DEF ToContent
  <2> QED BY <2>1 DEF StepRec
<1>2. CASE ~(i < Len(watch.fds))
  BY <1>2, StepTypes DEF ToContent
<1> QED BY <1>1, <1>2

\* The invariant after a handler, from what it leaves of the client.
LEMMA HandledInv ==
  ASSUME IInv, now' = now, SetupInv', phase' = "serving", peer' \in PeerRec, peer'.at = "accepted",
         client' \in ClientRec, client'.here, kid' \in KidRec, Dated(client', peer', kid'), OwnServer',
         step' \in StepRec, step'.at # "recv"
  PROVE  IInv'
<1>1. TimerTypes'
  BY DEF TimerTypes, IInv, TimerInv
<1>2. Placed'
  BY DEF Placed
<1>3. Dated(client, peer, kid)'
  BY DEF Dated
<1> QED BY <1>1, <1>2, <1>3 DEF IInv, TimerInv

LEMMA HandleRecvInv ==
  ASSUME IInv, HandleRecv
  PROVE  IInv' /\ InTime
<1>1. /\ client \in ClientRec /\ client.here /\ peer.at = "accepted" /\ phase = "serving" /\ now' = now
      /\ Dated(client, peer, kid) /\ now \in Nat /\ kid \in KidRec
      /\ peer \in PeerRec /\ step' = At("send")
  BY DEF HandleRecv, IInv, TimerInv, TimerTypes, Placed
<1> DEFINE heard == step.revents["recv"] = "ready"
           piece == Head(peer.inbox)
<1>2. /\ peer' \in PeerRec
      /\ peer'.accepted = peer.accepted /\ peer'.to = peer.to /\ peer'.at = peer.at
      /\ peer'.location = peer.location /\ peer'.last = IF heard THEN now ELSE peer.last
  <2>1. CASE heard
    <3>1. peer.inbox # <<>> /\ peer.inbox \in Seq(Pieces)
      BY <1>1, <2>1 DEF HandleRecv, IInv, TimerInv, Placed, PeerRec
    <3>2. Tail(peer.inbox) \in Seq(Pieces)
      BY <3>1, HeadTailProperties
    <3>3. peer' = [peer EXCEPT !.inbox = Tail(peer.inbox), !.last = now]
      BY <2>1 DEF HandleRecv
    <3> QED BY <1>1, <2>1, <3>2, <3>3 DEF PeerRec
  <2>2. CASE ~heard
    BY <1>1, <2>2 DEF HandleRecv
  <2> QED BY <2>1, <2>2
<1>3. PICK c, k, w : Prepared(c, peer', k) /\ Finish(c, k, w, TRUE)
  <2>1. CASE heard
    <3> DEFINE c == RecvHttp(client, piece)
               k == IF Routes(client, piece) THEN [run |-> "silent", since |-> now] ELSE kid
    <3>1. Finish(c, k, watch, TRUE)
      BY <2>1 DEF HandleRecv
    <3>2. k \in KidRec /\ (Routes(client, piece) => k.since = now)
      BY <1>1 DEF KidRec
    <3>3. peer.location \in Locations
      BY <1>1 DEF PeerRec
    <3>4. /\ c \in ClientRec
          /\ c.here = client.here /\ c.server_ref = client.server_ref
          /\ c.start_connection = client.start_connection /\ c.current_time = client.current_time
          /\ c.start_recv_cgi = client.start_recv_cgi
          /\ c.req = "body" => c.start_recv_body = now
          /\ \/ /\ Routes(client, piece) /\ c.req = "ready" /\ c.status = 200 /\ c.content = "script" /\ ~c.given
                /\ c.location_ref = peer.location
             \/ /\ ~Routes(client, piece) /\ client.req # "ready" /\ c.req # "ready"
                /\ c.location_ref = client.location_ref
                /\ c.content \in {client.content, "none", "page"} /\ c.status \in {client.status, 400}
      <4>1. client \in ClientRec /\ now \in Nat
        BY <1>1
      <4> HIDE DEF k, piece, heard
      <4> QED BY <4>1, <3>3, RecvHttpKeeps
    <3> HIDE DEF c, k
    <3>5. Prepared(c, peer', k)
      BY <1>1, <1>2, <2>1, <3>2, <3>4 DEF Prepared, Dated
    <3> QED BY <3>1, <3>5
  <2>2. CASE ~heard
    <3>1. Finish(SetNewCurrentTime(client), kid, watch, TRUE) /\ peer' = peer
      BY <2>2 DEF HandleRecv
    <3> QED BY <1>1, <3>1, SamePrepared
  <2> QED BY <2>1, <2>2
<1>4. /\ client' \in ClientRec /\ client'.here
      /\ kid' \in KidRec
      /\ Dated(client', peer', kid')
      /\ OwnServer'
      /\ InTime
  <2>1. peer'.last \in Nat
    BY <1>2 DEF PeerRec
  <2> HIDE DEF heard
  <2> QED BY <1>1, <1>2, <1>3, <2>1, FinishStep
<1>5. step' \in StepRec /\ step'.at = "send"
  BY <1>1, StepTypes
<1> QED BY <1>1, <1>2, <1>4, <1>5, SetupKept, HandledInv DEF HandleRecv

LEMMA HandleSendInv ==
  ASSUME IInv, HandleSend
  PROVE  IInv' /\ InTime
<1>1. /\ client \in ClientRec /\ client.here /\ peer.at = "accepted" /\ phase = "serving" /\ now' = now
      /\ Dated(client, peer, kid) /\ now \in Nat
      /\ peer \in PeerRec
  BY DEF HandleSend, IInv, TimerInv, TimerTypes, Placed
<1>2. SetupInv' /\ phase' = phase
  BY SetupKept DEF HandleSend
<1>3. CASE step.revents["send"] = "ready" /\ client.ready
  <2>1. client' = NoClient /\ kid' = NoKid /\ peer' = [peer EXCEPT !.at = "closed"] /\ step' = Accepting
    BY <1>3 DEF HandleSend
  <2>2. client' \in ClientRec /\ ~client'.here /\ client'.status = 0
    BY <2>1, NoClientType DEF NoClient
  <2>3. peer' \in PeerRec
    BY <1>1, <2>1 DEF PeerRec
  <2>4. step' \in StepRec /\ step'.at = "accept"
    BY <2>1, StepTypes
  <2>5. TimerTypes'
    BY <1>1, <2>1, <2>2, <2>3, <2>4 DEF TimerTypes, NoKid, KidRec
  <2>6. Placed' /\ OwnServer'
    BY <1>1, <1>2, <2>2, <2>4 DEF Placed, OwnServer
  <2> QED BY <1>2, <2>2, <2>5, <2>6, InTimeUnchanged DEF IInv, TimerInv
<1>4. CASE ~(step.revents["send"] = "ready" /\ client.ready)
  <2>1. /\ Finish(IF step.revents["send"] = "ready" THEN client ELSE SetNewCurrentTime(client), kid, watch, TRUE)
        /\ step' = ToContent(0) /\ peer' = peer
    BY <1>4 DEF HandleSend
  <2>2. PICK c : Prepared(c, peer', kid) /\ Finish(c, kid, watch, TRUE)
    BY <1>1, <2>1, SamePrepared
  <2>3. /\ client' \in ClientRec /\ client'.here
        /\ kid' \in KidRec
        /\ Dated(client', peer', kid')
        /\ OwnServer'
        /\ InTime
    <3>1. peer'.accepted = peer.accepted /\ peer'.last \in Nat /\ peer'.to = peer.to /\ peer'.location = peer.location
      BY <1>1, <2>1 DEF PeerRec
    <3> QED BY <1>1, <2>2, <3>1, FinishStep
  <2>4. step' \in StepRec /\ step'.at \in {"content", "accept"}
    BY <2>1, ToContentType
  <2> QED BY <1>1, <1>2, <2>1, <2>3, <2>4, HandledInv
<1> QED BY <1>3, <1>4

LEMMA HandleContentInv ==
  ASSUME IInv, HandleContent
  PROVE  IInv' /\ InTime
<1>1. /\ client \in ClientRec /\ client.here /\ peer.at = "accepted" /\ phase = "serving" /\ now' = now
      /\ Dated(client, peer, kid) /\ now \in Nat /\ kid \in KidRec /\ peer \in PeerRec /\ peer' = peer
      /\ step' = ToContent(step.entry)
  BY DEF HandleContent, IInv, TimerInv, TimerTypes, Placed
<1>2. SetupInv' /\ phase' = phase
  BY SetupKept DEF HandleContent
<1>3. step' \in StepRec /\ step'.at \in {"content", "accept"}
  <2>1. step.entry \in Nat
    BY DEF IInv, TimerInv, TimerTypes, StepRec
  <2> QED BY <1>1, <2>1, ToContentType
<1> DEFINE n == watch.fds[step.entry]
<1>4. CASE n \notin watch.mapped
  <2>1. client' = client /\ kid' = kid
    BY <1>4 DEF HandleContent
  <2>2. Dated(client', peer', kid') /\ OwnServer' /\ InTime
    BY <1>1, <2>1, InTimeUnchanged DEF Dated, OwnServer, IInv, TimerInv
  <2> QED BY <1>1, <1>2, <1>3, <2>1, <2>2, HandledInv
<1>5. CASE n \in watch.mapped
  <2>1. PICK c, k, w : /\ Prepared(c, peer', k) /\ Finish(c, k, w, FALSE)
                       /\ c.content = client.content /\ k.since = kid.since
    <3>1. CASE step.revents[n] = "none"
      <4>1. Finish(SetNewCurrentTime(client), kid, watch, FALSE)
        BY <1>5, <3>1 DEF HandleContent
      <4> QED BY <1>1, <4>1, SamePrepared
    <3>2. CASE step.revents[n] = "bad"
      <4>1. Finish(client, kid, watch, FALSE)
        BY <1>5, <3>2 DEF HandleContent
      <4> QED BY <1>1, <4>1, SamePrepared
    <3>3. CASE step.revents[n] \notin {"none", "bad"} /\ n = "in"
      <4>1. ReadContent
        BY <1>5, <3>3 DEF HandleContent
      <4>2. CASE client.content = "page" \/ (client.content = "script" /\ kid.run = "wrote")
        <5> DEFINE c == [client EXCEPT !.ready = TRUE]
                   k == IF client.content = "script" THEN [kid EXCEPT !.run = "read"] ELSE kid
        <5>1. Finish(c, k, Mark(watch, {"in"}), FALSE)
          BY <4>1, <4>2 DEF ReadContent
        <5>2. k \in KidRec /\ k.since = kid.since
          BY <1>1 DEF KidRec
        <5>3. /\ c \in ClientRec /\ c.content = client.content
              /\ c.here = client.here /\ c.server_ref = client.server_ref /\ c.location_ref = client.location_ref
              /\ c.req = client.req /\ c.given = client.given /\ c.status = client.status
              /\ c.start_connection = client.start_connection /\ c.current_time = client.current_time
              /\ c.start_recv_body = client.start_recv_body /\ c.start_recv_cgi = client.start_recv_cgi
          BY <1>1 DEF ClientRec
        <5>5. Prepared(client, peer, kid)
          BY <1>1, SamePrepared
        <5> HIDE DEF c, k
        <5>4. Prepared(c, peer, k)
          BY <5>2, <5>3, <5>5 DEF Prepared
        <5> QED BY <1>1, <5>1, <5>2, <5>3, <5>4
      <4>3. CASE ~(client.content = "page" \/ (client.content = "script" /\ kid.run = "wrote"))
        <5>1. PICK w : Finish(client, kid, w, FALSE)
          BY <4>1, <4>3 DEF ReadContent
        <5> QED BY <1>1, <5>1, SamePrepared
      <4> QED BY <4>2, <4>3
    <3>4. CASE step.revents[n] \notin {"none", "bad"} /\ n # "in"
      <4>1. WriteContent
        BY <1>5, <3>4 DEF HandleContent
      <4>2. PICK w : Finish(client, kid, w, FALSE)
        BY <4>1 DEF WriteContent
      <4> QED BY <1>1, <4>2, SamePrepared
    <3> QED BY <3>1, <3>2, <3>3, <3>4
  <2>2. peer'.accepted = peer.accepted /\ peer'.last \in Nat /\ peer'.to = peer.to /\ peer'.location = peer.location
    BY <1>1 DEF PeerRec
  <2>3. /\ client' \in ClientRec /\ client'.here
        /\ kid' \in KidRec
        /\ Dated(client', peer', kid')
        /\ OwnServer'
        /\ InTime
    <3> HIDE DEF n
    <3> QED BY <1>1, <2>1, <2>2, FinishStep
  <2> QED BY <1>1, <1>2, <1>3, <2>3, HandledInv
<1> QED BY <1>4, <1>5

\* The socket a peer connected to is the one of its server: this is where the set-up counts.
LEMMA HandleServerInv ==
  ASSUME IInv, HandleServer
  PROVE  IInv' /\ InTime
<1>1. /\ client \in ClientRec /\ now' = now /\ now \in Nat /\ kid' = kid /\ kid \in KidRec /\ peer \in PeerRec
      /\ SetupInv /\ Placed
  BY DEF HandleServer, IInv, TimerInv, TimerTypes
<1>2. SetupInv' /\ phase' = phase
  BY SetupKept DEF HandleServer
<1>3. step' \in StepRec /\ step'.at = "reset"
  BY StepTypes DEF HandleServer
<1>4. CASE peer.at = "queued"
  <2>1. PICK n \in DOMAIN socket_fds : sockets[socket_fds[n]].addr = peer.to /\ client' = Accepted(n)
    BY <1>4 DEF HandleServer
  <2>2. peer' = [peer EXCEPT !.at = "accepted", !.accepted = now]
    BY <1>4 DEF HandleServer
  <2>3. n \in DOMAIN Listens /\ Listens[n].addr = peer.to /\ server_mapping[n] = Listens[n].server
    <3>1. phase = "serving" /\ Len(socket_fds) = Len(Listens) /\ Len(server_mapping) = Len(Listens)
      BY <1>1, <1>4 DEF Placed, SetupInv, Aligned
    <3>2. n \in 1 .. Len(Listens) /\ n <= Len(server_mapping)
      BY <1>1, <3>1, ListensType DEF SetupInv, SetupTypes
    <3>3. sockets[socket_fds[n]] = [addr |-> Listens[n].addr, state |-> "listening"]
          /\ server_mapping[n] = Listens[n].server
      BY <1>1, <3>2 DEF SetupInv, Aligned
    <3> QED BY <2>1, <3>2, <3>3, ListensType
  <2>4. Listens[n].server \in Nat
    BY <2>3, ListensType DEF ListenSocket
  <2>5. client' = [NoClient EXCEPT !.here = TRUE, !.server_ref = server_mapping[n],
                                   !.start_connection = now, !.current_time = now]
    BY <2>1 DEF Accepted, SetNewCurrentTime, SetStartConnectionTime
  <2>6. client' = [here |-> TRUE, server_ref |-> server_mapping[n], location_ref |-> 0, req |-> "none",
                   content |-> "none", given |-> FALSE, status |-> 0, ready |-> FALSE,
                   emergency |-> FALSE, start_connection |-> now, current_time |-> now,
                   start_recv_body |-> 0, start_recv_cgi |-> 0]
    BY <2>5 DEF NoClient
  <2>7. client' \in ClientRec
    BY <1>1, <2>3, <2>4, <2>6, TimeoutsAssumption DEF ClientRec, Locations
  <2>8. peer' \in PeerRec /\ peer'.at = "accepted" /\ peer'.accepted = now /\ peer'.to = peer.to
    BY <1>1, <2>2 DEF PeerRec
  <2>9. TimerTypes'
    BY <1>1, <1>3, <2>7, <2>8 DEF TimerTypes
  <2>10. Placed'
    BY <1>1, <1>2, <1>3, <1>4, <2>8 DEF Placed
  <2>11. OwnServer'
    BY <2>3, <2>6, <2>8 DEF OwnServer
  <2>12. Dated(client, peer, kid)'
    BY <1>1, <2>6, <2>8 DEF Dated
  <2> QED BY <1>2, <2>6, <2>9, <2>10, <2>11, <2>12, InTimeUnchanged DEF IInv, TimerInv
<1>5. CASE peer.at # "queued"
  <2>1. client' = client /\ peer' = peer
    BY <1>5 DEF HandleServer
  <2>2. TimerTypes'
    BY <1>1, <1>3, <2>1 DEF TimerTypes
  <2>3. Placed'
    BY <1>1, <1>2, <1>3, <2>1 DEF Placed
  <2>4. OwnServer' /\ (client'.here => Dated(client, peer, kid)')
    BY <1>1, <2>1 DEF OwnServer, Dated, IInv, TimerInv
  <2> QED BY <1>2, <2>1, <2>2, <2>3, <2>4, InTimeUnchanged DEF IInv, TimerInv
<1> QED BY <1>4, <1>5

LEMMA ResetFdsInv ==
  ASSUME IInv, ResetFds
  PROVE  IInv' /\ InTime
<1>1. /\ client' = client /\ now' = now /\ peer' = peer /\ kid' = kid
      /\ TimerInv /\ TimerTypes /\ Placed /\ step' = At("poll")
  BY DEF ResetFds, IInv, TimerInv
<1>2. SetupInv' /\ phase' = phase
  BY SetupKept DEF ResetFds
<1>3. step' \in StepRec /\ step'.at = "poll"
  BY <1>1, StepTypes
<1>4. TimerTypes' /\ Placed'
  BY <1>1, <1>2, <1>3 DEF TimerTypes, Placed
<1>5. OwnServer' /\ (client'.here => Dated(client, peer, kid)')
  BY <1>1 DEF OwnServer, Dated, TimerInv
<1> QED BY <1>1, <1>2, <1>4, <1>5, InTimeUnchanged DEF IInv, TimerInv

LEMMA PollInv ==
  ASSUME IInv, Poll
  PROVE  IInv' /\ InTime
<1>1. /\ client' = client /\ now' = now /\ peer' = peer /\ kid' = kid /\ phase = "serving"
      /\ TimerInv /\ TimerTypes /\ Placed /\ now \in Nat
  BY DEF Poll, IInv, TimerInv, TimerTypes
<1>2. SetupInv' /\ phase' = phase
  BY SetupKept DEF Poll
<1>3. /\ step' \in StepRec
      /\ step'.at \in {"recv", "send", "content"} => client.here
      /\ step'.at = "recv" /\ step'.revents["recv"] = "ready" => peer.inbox # <<>>
  <2>1. CASE client.here
    <3>1. PICK send, room \in BOOLEAN :
                 step' = [At("recv") EXCEPT !.revents = Reported(send, room), !.polled = now]
      BY <2>1 DEF Poll
    <3> DEFINE r == Reported(send, room)
    <3>2. r \in [{"in", "out", "recv", "send"} -> {"none", "ready", "bad"}]
          /\ (r["recv"] = "ready" => peer.inbox # <<>>)
      <4> DEFINE i == CASE client.content = "page" -> "ready"
                        [] client.content = "script" -> IF kid.run = "wrote" THEN "ready" ELSE "none"
                        [] OTHER -> "bad"
                 o == IF client.content # "script" THEN "bad" ELSE IF room THEN "ready" ELSE "none"
                 h == IF peer.inbox # <<>> THEN "ready" ELSE "none"
                 t == IF send THEN "ready" ELSE "none"
      <4>1. /\ i \in {"none", "ready", "bad"} /\ o \in {"none", "ready", "bad"} /\ h \in {"none", "ready", "bad"}
            /\ t \in {"none", "ready", "bad"}
        <5>1. i \in {"none", "ready", "bad"}
          BY <1>1 DEF TimerTypes, ClientRec
        <5> QED BY <5>1
      <4>2. r = [recv |-> h, send |-> t, in |-> i, out |-> o]
        BY DEF Reported
      <4>3. r.recv = h
        BY <4>2
      <4> HIDE DEF i, o, h, t, r
      <4>4. r \in [{"in", "out", "recv", "send"} -> {"none", "ready", "bad"}]
        BY <4>1, <4>2
      <4> QED BY <4>3, <4>4 DEF h
    <3>3. step' = [At("recv") EXCEPT !.revents = r, !.polled = now] /\ At("recv") \in StepRec /\ At("recv").at = "recv"
      BY <3>1, StepTypes
    <3> HIDE DEF r
    <3>4. step' \in StepRec /\ step'.revents = r
      BY <1>1, <3>2, <3>3 DEF StepRec
    <3> QED BY <2>1, <3>2, <3>4
  <2>2. CASE ~client.here
    <3>1. step' = [Accepting EXCEPT !.polled = now] /\ Accepting \in StepRec /\ Accepting.at = "accept"
      BY <2>2, StepTypes DEF Poll
    <3> QED BY <1>1, <3>1 DEF StepRec
  <2> QED BY <2>1, <2>2
<1>4. TimerTypes'
  BY <1>1, <1>3 DEF TimerTypes
<1>5. Placed'
  BY <1>1, <1>2, <1>3 DEF Placed
<1>6. OwnServer' /\ (client'.here => Dated(client, peer, kid)')
  BY <1>1 DEF OwnServer, Dated, TimerInv
<1> QED BY <1>1, <1>2, <1>4, <1>5, <1>6, InTimeUnchanged DEF IInv, TimerInv

\* What the peer, the script and the clock do: the client is not touched, and what its
\* deadlines are measured from stays.
LEMMA OutsideInv ==
  ASSUME IInv, Connect \/ Send \/ Write \/ Tick
  PROVE  IInv' /\ InTime
<1>1. /\ client' = client /\ step' = step /\ phase = "serving"
      /\ TimerInv /\ TimerTypes /\ Placed
  BY DEF Connect, Send, Write, Tick, Early, IInv, TimerInv
<1>2. SetupInv' /\ phase' = phase
  BY SetupKept DEF Connect, Send, Write, Tick
<1>3. /\ now' \in Nat /\ now' >= now
      /\ peer' \in PeerRec /\ kid' \in KidRec
      /\ client.here => /\ peer'.at = peer.at /\ peer'.to = peer.to
                        /\ peer'.accepted = peer.accepted /\ peer'.last = peer.last
                        /\ peer'.location = peer.location
      /\ kid'.since = kid.since
      /\ peer.inbox # <<>> => peer'.inbox # <<>>
  <2>1. CASE Connect
    <3>1. PICK f \in Fd, request \in Requests, location \in Locations :
               peer' = [peer EXCEPT !.at = "queued", !.to = sockets[f].addr, !.unsent = request,
                                    !.location = location]
      BY <2>1 DEF Connect
    <3>2. sockets[f].addr \in Addr \cup {NoAddr} /\ request \in Seq(Pieces)
      BY RequestsAssumption DEF IInv, SetupInv, SetupTypes, Socket
    <3>3. peer' \in PeerRec /\ peer'.inbox = peer.inbox
      BY <1>1, <3>1, <3>2 DEF TimerTypes, PeerRec
    <3>4. peer.at = "new" /\ now' = now /\ kid' = kid
      BY <2>1 DEF Connect
    <3>5. ~client.here
      BY <1>1, <3>4 DEF Placed
    <3>6. now \in Nat /\ kid \in KidRec
      BY <1>1 DEF TimerTypes
    <3> QED BY <3>3, <3>4, <3>5, <3>6
  <2>2. CASE Send
    <3>1. peer' = [peer EXCEPT !.inbox = Append(@, Head(peer.unsent)), !.unsent = Tail(@)]
      BY <2>2 DEF Send
    <3>2. peer.unsent \in Seq(Pieces) /\ peer.unsent # <<>> /\ peer.inbox \in Seq(Pieces)
      BY <1>1, <2>2 DEF Send, TimerTypes, PeerRec
    <3>3. Tail(peer.unsent) \in Seq(Pieces) /\ Head(peer.unsent) \in Pieces
      BY <3>2, HeadTailProperties
    <3>4. Append(peer.inbox, Head(peer.unsent)) \in Seq(Pieces) /\ Append(peer.inbox, Head(peer.unsent)) # <<>>
      BY <3>2, <3>3, AppendProperties
    <3>5. /\ peer' \in PeerRec /\ peer'.at = peer.at /\ peer'.to = peer.to
          /\ peer'.accepted = peer.accepted /\ peer'.last = peer.last /\ peer'.inbox # <<>>
          /\ peer'.location = peer.location
      BY <1>1, <3>1, <3>3, <3>4 DEF TimerTypes, PeerRec
    <3> QED BY <1>1, <2>2, <3>5 DEF Send, TimerTypes
  <2>3. CASE Write
    <3>1. kid' \in KidRec /\ kid'.since = kid.since
      BY <1>1, <2>3 DEF Write, TimerTypes, KidRec
    <3> QED BY <1>1, <2>3, <3>1 DEF Write, TimerTypes
  <2>4. CASE Tick
    BY <1>1, <2>4 DEF Tick, TimerTypes
  <2> QED BY <2>1, <2>2, <2>3, <2>4
<1>4. TimerTypes'
  BY <1>1, <1>3 DEF TimerTypes
<1>5. Placed'
  <2>1. peer'.at # "new" => phase' = "serving"
    BY <1>1, <1>2
  <2> QED BY <1>1, <1>2, <1>3, <2>1 DEF Placed
<1>6. OwnServer'
  BY <1>1, <1>3 DEF OwnServer, TimerInv
<1>7. client'.here => Dated(client, peer, kid)'
  <2> SUFFICES ASSUME client'.here PROVE Dated(client, peer, kid)'
    OBVIOUS
  <2>1. Dated(client, peer, kid) /\ client.here
    BY <1>1 DEF TimerInv
  <2>2. client.current_time \in Nat /\ now \in Nat
    BY <1>1 DEF TimerTypes, ClientRec
  <2> QED BY <1>1, <1>3, <2>1, <2>2 DEF Dated
<1> QED BY <1>1, <1>2, <1>4, <1>5, <1>6, <1>7, InTimeUnchanged DEF IInv, TimerInv

\* While the sockets are set up there is no peer.
LEMMA SetupStepInv ==
  ASSUME IInv, SetupNext, UNCHANGED timerVars
  PROVE  IInv' /\ InTime
<1>1. /\ client' = client /\ step' = step /\ peer' = peer /\ kid' = kid /\ now' = now
      /\ TimerInv /\ TimerTypes /\ Placed
  BY DEF timerVars, IInv, TimerInv
<1>2. SetupInv' /\ phase = "setup"
  BY SetupNextInv, SetupNextPhase DEF IInv
<1>3. peer.at = "new" /\ ~client.here
  BY <1>1, <1>2 DEF Placed, TimerTypes, ClientRec
<1>4. TimerTypes'
  BY <1>1 DEF TimerTypes
<1>5. Placed'
  BY <1>1, <1>3 DEF Placed
<1>6. OwnServer'
  BY <1>1, <1>3 DEF OwnServer
<1> QED BY <1>1, <1>2, <1>3, <1>4, <1>5, <1>6, InTimeUnchanged DEF IInv, TimerInv

LEMMA StutterInv ==
  ASSUME IInv, UNCHANGED vars
  PROVE  IInv'
<1>1. UNCHANGED setupVars /\ client' = client /\ step' = step /\ peer' = peer /\ kid' = kid /\ now' = now
  BY DEF vars, timerVars
<1>2. SetupInv' /\ phase' = phase
  BY <1>1, SetupKept
<1> QED BY <1>1, <1>2 DEF IInv, TimerInv, TimerTypes, Placed, OwnServer, Dated

LEMMA NextInv ==
  ASSUME IInv, Next
  PROVE  IInv' /\ InTime
<1>1. CASE SetupNext /\ UNCHANGED timerVars
  BY <1>1, SetupStepInv
<1>2. CASE Loop
  BY <1>2, PollInv, HandleRecvInv, HandleSendInv, HandleContentInv, HandleServerInv, ResetFdsInv DEF Loop
<1>3. CASE Connect \/ Send \/ Write \/ Tick
  BY <1>3, OutsideInv
<1> QED BY <1>1, <1>2, <1>3 DEF Next, Serve

LEMMA InitInv == Init => IInv
<1> SUFFICES ASSUME Init PROVE IInv
  OBVIOUS
<1>1. SetupInv /\ phase \in {"setup", "serving", "exited"}
  BY SetupInitInv DEF Init, SetupInv, SetupTypes
<1>2. ~client.here /\ client \in ClientRec
  BY NoClientType DEF Init
<1>3. <<>> \in Seq(Pieces)
  OBVIOUS
<1>4. peer \in PeerRec /\ peer.at = "new"
  BY <1>3, TimeoutsAssumption DEF Init, PeerRec, Locations
<1>5. TimerTypes
  <2>1. Quiet \in [{"in", "out", "recv", "send"} -> {"none", "ready", "bad"}]
    BY DEF Quiet, Numbers
  <2> QED BY <1>2, <1>4, <2>1 DEF Init, TimerTypes, KidRec, StepRec, NoKid
<1>6. Placed
  BY <1>2, <1>4 DEF Init, Placed
<1> QED BY <1>1, <1>2, <1>5, <1>6 DEF IInv, TimerInv, OwnServer

----------------------------------------------------------------------------
(* The theorems                                                            *)

\* In every reachable state the listening sockets and their servers are in step, a client
\* is where its server runs, and what its deadlines are compared with began when the
\* code says it did.
THEOREM Invariant == Spec => []IInv
<1>1. IInv /\ [Next]_vars => IInv'
  BY NextInv, StutterInv
<1> QED BY <1>1, InitInv, PTL DEF Spec

\* For any directives, in any order, with any failures of socket(), setsockopt(), bind()
\* and listen(), taken addresses and attempts again: each socket the loop watches listens
\* on its directive's address, the servers are assigned in their order, and no descriptor
\* listens that the loop does not watch (ListenSocket.cpp, Server::startServerLoop).
THEOREM SocketsAreTended == Spec => []SocketsTended
<1>1. IInv => SocketsTended
  BY DEF IInv, SetupInv, SocketsTended
<1> QED BY <1>1, Invariant, PTL

\* A client is served by the server whose listen directive names the address it connected
\* to (Server::handleServer), however many servers and addresses there are.
THEOREM ServedByOwn == Spec => []OwnServer
<1>1. IInv => OwnServer
  BY DEF IInv, TimerInv
<1> QED BY <1>1, Invariant, PTL

\* No client is refused with 408, and no script with 504, before its limit has passed, for
\* any limits and any clock (Client::checkTimer); but for the one case NeverEarly leaves
\* out, a client last found idle before what is measured began.
THEOREM DeadlinesKept == Spec => NeverEarly
<1>1. IInv /\ [Next]_vars => [InTime]_vars
  BY NextInv
<1> QED BY <1>1, Invariant, PTL DEF Spec, NeverEarly

=============================================================================
