------------------------------- MODULE Timers -------------------------------
(***************************************************************************)
(* The deadlines of a connection (Client::checkTimer), with a clock that   *)
(* counts seconds.  Once the listening sockets are there (Listening) a     *)
(* peer connects to one of them, sends its request in pieces or stops, and *)
(* a script answers or does not.  A round of the loop handles the two      *)
(* entries of the socket, the entries of the content (the script's pipes,  *)
(* an error page), the listening socket, and brings the poll set up to     *)
(* date; the clock may go on between any two of them.                      *)
(*                                                                         *)
(* A deadline is compared with current_time, which only an entry with      *)
(* nothing to report refreshes.  There is one client, so that its content  *)
(* is always given the same numbers: "in" is the lowest one free (the      *)
(* script's output, or an error page), "out" the script's input.  What a   *)
(* client that was destroyed leaves in the map is EventLoop's matter.      *)
(***************************************************************************)
EXTENDS Listening, Functions

CONSTANTS ServerNo,       \* the servers: 1 .. ServerNo
          LocationNo,     \* the locations of each: 1 .. LocationNo, and 0 for none
          HeaderTimeout,  \* of each server
          BodyTimeout,    \* of each server, then of its locations (0: its own)
          CgiTimeout,
          ErrorPages,     \* the statuses that have a page of their own
          MaxTime,        \* bound on the clock
          LastEvent,      \* peers and scripts do nothing after this time
          Requests        \* what a peer may send, in pieces

\* Pieces of a request: a part of a head, a head that announces a body, a part
\* of that body, its end.
Pieces == {"part", "head", "piece", "end"}

Servers == 1 .. ServerNo
Locations == 0 .. LocationNo
ASSUME ServersAssumption == \A n \in DOMAIN Listens : Listens[n].server \in Servers
ASSUME TimeoutsAssumption ==
    /\ HeaderTimeout \in [Servers -> Nat]
    /\ BodyTimeout \in [Servers -> [Locations -> Nat]] /\ CgiTimeout \in [Servers -> [Locations -> Nat]]
    /\ MaxTime \in Nat /\ LastEvent \in Nat /\ LocationNo \in Nat
ASSUME RequestsAssumption == Requests \subseteq Seq(Pieces)

VARIABLES now,      \* the clock
          peer,     \* [at, to, location, unsent, inbox, accepted, last]: "new",
                    \* "queued", "accepted" or "closed"; the address; the location
                    \* its request names; what it has to send; what waits; when it
                    \* was accepted, and last heard
          kid,      \* [run, since]: the script is "none", "silent", "wrote" or
                    \* "read"; when it began
          client,   \* the Client that serves it
          watch,    \* its content in the poll set: [fds, added, marked, mapped] are
                    \* the entries, those to add and how many to take out at the end
                    \* of the round, and the numbers in client_mapping
          step      \* what the loop handles next, what poll() said, and when

timerVars == <<now, peer, kid, client, watch, step>>
vars == <<setupVars, timerVars>>

NoClient == [here |-> FALSE, server_ref |-> 0, location_ref |-> 0, req |-> "none",
             content |-> "none", given |-> FALSE, status |-> 0, ready |-> FALSE,
             emergency |-> FALSE, start_connection |-> 0, current_time |-> 0,
             start_recv_body |-> 0, start_recv_cgi |-> 0]

NoKid == [run |-> "none", since |-> 0]

Numbers == {"in", "out"}
NoWatch == [fds |-> <<>>, added |-> <<>>, marked |-> [n \in Numbers |-> 0], mapped |-> {}]

Quiet == [n \in Numbers \cup {"recv", "send"} |-> "none"]

Init ==
    /\ SetupInit
    /\ now = 1
    /\ peer = [at |-> "new", to |-> NoAddr, location |-> 0, unsent |-> <<>>, inbox |-> <<>>,
               accepted |-> 0, last |-> 0]
    /\ kid = NoKid
    /\ client = NoClient
    /\ watch = NoWatch
    /\ step = [at |-> "poll", entry |-> 0, revents |-> Quiet, polled |-> now]

----------------------------------------------------------------------------
(* Client                                                                  *)

SetNewCurrentTime(c)      == [c EXCEPT !.current_time = now]
SetStartConnectionTime(c) == [c EXCEPT !.start_connection = now]
SetStartBodyTime(c)       == [c EXCEPT !.start_recv_body = now]
SetTimeForContent(c)      == [c EXCEPT !.start_recv_cgi = now]

\* Mutant: the connection has no beginning.
AcceptedUndated(n) ==
    SetNewCurrentTime([NoClient EXCEPT !.here = TRUE, !.server_ref = server_mapping[n]])

\* Mutant: the first server takes every connection.
AcceptedByFirst(n) ==
    SetNewCurrentTime(SetStartConnectionTime(
        [NoClient EXCEPT !.here = TRUE, !.server_ref = server_mapping[1]]))

\* handleServer(): what accept() gives the server of that socket.
Accepted(n) ==
    SetNewCurrentTime(SetStartConnectionTime(
        [NoClient EXCEPT !.here = TRUE, !.server_ref = server_mapping[n]]))

HeaderReady(c) == c.req \in {"body", "ready"}

\* 200, or the status given once the limit has passed.  The difference of the times
\* becomes a size_t: of a negative one (the double is out of its range) that is zero
\* or a huge number.
Checked(status, limit, start, c) ==
    IF c.current_time < start THEN {200, status}
    ELSE {IF c.current_time - start > limit THEN status ELSE 200}

\* Mutant: the limits of the location are never looked up.
CgiLimitOfServer(c) == CgiTimeout[c.server_ref][0]

\* The limits of the location, where the client was routed to one.
BodyLimit(c) == BodyTimeout[c.server_ref][c.location_ref]
CgiLimit(c)  == CgiTimeout[c.server_ref][c.location_ref]

\* checkTimer(): what it may return, at an entry of the socket or of the content.
CheckTimer(c, atSocket) ==
    CASE ~atSocket -> Checked(504, CgiLimit(c), c.start_recv_cgi, c)
      [] atSocket /\ c.req = "part" -> Checked(408, HeaderTimeout[c.server_ref], c.start_connection, c)
      [] atSocket /\ c.req = "body" -> Checked(408, BodyLimit(c), c.start_recv_body, c)
      [] OTHER -> {200}

\* getDefaultError(): a response at once; the content goes.
GetDefaultError(c) == [c EXCEPT !.ready = TRUE, !.content = "none", !.given = FALSE]

\* processResponseError(): the page of that status, which is still to be read, takes
\* the place of the content; or the default one.
ProcessResponseError(c) ==
    IF c.status \in ErrorPages
    THEN [c EXCEPT !.ready = FALSE, !.emergency = FALSE, !.content = "page", !.given = FALSE]
    ELSE GetDefaultError([c EXCEPT !.emergency = FALSE])

\* errorOverwriteResponse(): no page again for a status that has been shown, or after
\* one.
ErrorOverwriteResponse(c, status) ==
    IF c.status = status \/ c.emergency
    THEN GetDefaultError([c EXCEPT !.status = status, !.emergency = FALSE])
    ELSE [ProcessResponseError([c EXCEPT !.status = status]) EXCEPT !.emergency = TRUE]

\* routeError()
RouteError(c, status) == ProcessResponseError([c EXCEPT !.status = status])

\* routeRequest(): a script is started for the request, in place of any content before
\* it.  What the response is at stays.
RouteRequest(c) ==
    [c EXCEPT !.location_ref = peer.location, !.status = 200, !.content = "script", !.given = FALSE]

\* A request that is complete is routed at every delivery.
Routes(c, piece) == c.req = "ready" \/ (c.req = "body" /\ piece = "end")

\* addRequest() and what follows: an unfinished head is refused at once.
Received(c, piece) ==
    CASE c.req \in {"none", "part"} /\ piece = "part" -> RouteError([c EXCEPT !.req = "part"], 400)
      [] c.req \in {"none", "part"} /\ piece = "head" -> [c EXCEPT !.req = "body"]
      [] Routes(c, piece) -> RouteRequest([c EXCEPT !.req = "ready"])
      [] OTHER -> c

\* clientRecvHttp()
RecvHttp(c, piece) ==
    IF HeaderReady(Received(c, piece)) THEN SetStartBodyTime(Received(c, piece)) ELSE Received(c, piece)

----------------------------------------------------------------------------
(* The content in the poll set                                             *)

Parts(content) == CASE content = "script" -> <<"in", "out">> [] content = "page" -> <<"in">> [] OTHER -> <<>>

\* Mutant: the entries are forgotten, the mapping is not.
AddContentUnlisted(w, content) == [w EXCEPT !.mapped = @ \cup Range(Parts(content))]

\* addClientContentFd(): insert() changes no number that is mapped.
AddContent(w, content) ==
    [w EXCEPT !.added = @ \o Parts(content), !.mapped = @ \cup Range(Parts(content))]

\* markAsDelete(), of some numbers
Mark(w, numbers) ==
    [w EXCEPT !.marked = [n \in Numbers |-> IF n \in numbers THEN @[n] + 1 ELSE @[n]]]
MarkContent(w, content) == Mark(w, Range(Parts(content)))

\* resetFds(): each mark takes out one entry with its mapping, the first there is.
Erased(w) ==
    {i \in DOMAIN w.fds : Cardinality({j \in 1 .. i : w.fds[j] = w.fds[i]}) <= w.marked[w.fds[i]]}

\* The n-th of the places in S.
Nth(S, n) == CHOOSE i \in S : Cardinality({j \in S : j < i}) = n - 1

Reset(w) ==
    LET kept == DOMAIN w.fds \ Erased(w) IN
    [NoWatch EXCEPT !.fds = [n \in 1 .. Cardinality(kept) |-> w.fds[Nth(kept, n)]] \o w.added,
                    !.mapped = w.mapped \ {w.fds[i] : i \in Erased(w)}]

----------------------------------------------------------------------------
(* The loop                                                                *)

\* What poll() says of each entry.  "bad" is a number that is closed: something to
\* report, but nothing that is handled.  Whether something can be sent depends on
\* how fast the peer reads, and the script.
Reported(send, room) ==
    [recv |-> IF peer.inbox # <<>> THEN "ready" ELSE "none",
     send |-> IF send THEN "ready" ELSE "none",
     in   |-> CASE client.content = "page" -> "ready"
                [] client.content = "script" -> IF kid.run = "wrote" THEN "ready" ELSE "none"
                [] OTHER -> "bad",
     out  |-> IF client.content # "script" THEN "bad" ELSE IF room THEN "ready" ELSE "none"]

At(where) == [step EXCEPT !.at = where, !.entry = 0]
Accepting == [At("accept") EXCEPT !.revents = Quiet]

\* The entries of the content, in their order, then the listening sockets.
ToContent(i) == IF i < Len(watch.fds) THEN [At("content") EXCEPT !.entry = i + 1] ELSE Accepting

Poll ==
    /\ phase = "serving" /\ step.at = "poll"
    /\ IF client.here
       THEN \E send, room \in BOOLEAN :
              /\ room => "out" \in Range(watch.fds)
              /\ step' = [At("recv") EXCEPT !.revents = Reported(send, room), !.polled = now]
       ELSE step' = [Accepting EXCEPT !.polled = now]
    /\ UNCHANGED <<setupVars, now, peer, kid, client, watch>>

\* The end of handleClient(): a content that is new is handed over, and a deadline
\* that has passed replaces it.  `c`, `k` and `w` are what the handler left; the
\* script ends with the content.
Finish(c, k, w, atSocket) ==
    LET new == c.content # "none" /\ ~c.given
        g   == IF new THEN SetTimeForContent([c EXCEPT !.given = TRUE]) ELSE c
        v   == IF new THEN AddContent(w, c.content) ELSE w
    IN  \E status \in CheckTimer(g, atSocket) :
          /\ client' = IF status > 200 THEN ErrorOverwriteResponse(g, status) ELSE g
          /\ kid' = IF client'.content = "script" THEN k ELSE NoKid
          /\ watch' = IF status > 200 /\ ~atSocket THEN MarkContent(v, g.content) ELSE v

\* The entry that receives.
HandleRecv ==
    /\ step.at = "recv"
    /\ step' = At("send")
    /\ IF step.revents["recv"] = "ready"
       THEN LET piece == Head(peer.inbox) IN
            /\ peer' = [peer EXCEPT !.inbox = Tail(@), !.last = now]
            /\ Finish(RecvHttp(client, piece),
                      IF Routes(client, piece) THEN [run |-> "silent", since |-> now] ELSE kid, watch, TRUE)
       ELSE Finish(SetNewCurrentTime(client), kid, watch, TRUE) /\ UNCHANGED peer
    /\ UNCHANGED <<setupVars, now>>

\* The entry that sends: a response that was sent ends the connection, and the
\* rest of the round passes it by.
HandleSend ==
    /\ step.at = "send"
    /\ IF step.revents["send"] = "ready" /\ client.ready
       THEN /\ client' = NoClient /\ kid' = NoKid /\ watch' = NoWatch
            /\ peer' = [peer EXCEPT !.at = "closed"]
            /\ step' = Accepting
       ELSE /\ Finish(IF step.revents["send"] = "ready" THEN client ELSE SetNewCurrentTime(client),
                      kid, watch, TRUE)
            /\ step' = ToContent(0)
            /\ UNCHANGED peer
    /\ UNCHANGED <<setupVars, now>>

\* What there is at "in" is read: a page, or what the script wrote.  Else there is
\* nothing to read, which marks the content while there is no response.
ReadContent ==
    CASE client.content = "page" \/ (client.content = "script" /\ kid.run = "wrote") ->
           Finish([client EXCEPT !.ready = TRUE],
                  IF client.content = "script" THEN [kid EXCEPT !.run = "read"] ELSE kid,
                  Mark(watch, {"in"}), FALSE)
      [] OTHER ->
           Finish(client, kid,
                  IF client.ready THEN Mark(watch, {"in"}) ELSE MarkContent(watch, client.content), FALSE)

\* The body is written to the script, in part or to its end; nothing else takes it.
WriteContent ==
    \E whole \in BOOLEAN :
       /\ whole \/ client.content = "script"
       /\ Finish(client, kid, IF whole THEN Mark(watch, {"out"}) ELSE watch, FALSE)

\* An entry of the content, if its number is mapped.
HandleContent ==
    /\ step.at = "content"
    /\ LET n == watch.fds[step.entry] IN
       IF n \notin watch.mapped THEN UNCHANGED <<client, kid, watch>>
       ELSE CASE step.revents[n] = "none" -> Finish(SetNewCurrentTime(client), kid, watch, FALSE)
              [] step.revents[n] = "bad"  -> Finish(client, kid, watch, FALSE)
              [] OTHER -> IF n = "in" THEN ReadContent ELSE WriteContent
    /\ step' = ToContent(step.entry)
    /\ UNCHANGED <<setupVars, now, peer>>

\* handleServer(): for the socket the peer connected to.
HandleServer ==
    /\ step.at = "accept"
    /\ step' = At("reset")
    /\ IF peer.at = "queued"
       THEN /\ \E n \in DOMAIN socket_fds :
                 sockets[socket_fds[n]].addr = peer.to /\ client' = Accepted(n)
            /\ peer' = [peer EXCEPT !.at = "accepted", !.accepted = now]
       ELSE UNCHANGED <<client, peer>>
    /\ UNCHANGED <<setupVars, now, kid, watch>>

ResetFds ==
    /\ step.at = "reset"
    /\ step' = At("poll")
    /\ watch' = Reset(watch)
    /\ UNCHANGED <<setupVars, now, peer, kid, client>>

Loop == Poll \/ HandleRecv \/ HandleSend \/ HandleContent \/ HandleServer \/ ResetFds

----------------------------------------------------------------------------
(* The peer, the script, the clock                                         *)

Early == phase = "serving" /\ now <= LastEvent

\* A peer connects where a socket listens, with a request in pieces.
Connect ==
    /\ Early /\ peer.at = "new"
    /\ \E f \in Fd, request \in Requests, location \in Locations :
          /\ sockets[f].state = "listening"
          /\ peer' = [peer EXCEPT !.at = "queued", !.to = sockets[f].addr, !.unsent = request,
                                 !.location = location]
    /\ UNCHANGED <<setupVars, now, kid, client, watch, step>>

Send ==
    /\ Early /\ peer.at \in {"queued", "accepted"} /\ peer.unsent # <<>>
    /\ peer' = [peer EXCEPT !.inbox = Append(@, Head(peer.unsent)), !.unsent = Tail(@)]
    /\ UNCHANGED <<setupVars, now, kid, client, watch, step>>

Write ==
    /\ Early /\ kid.run = "silent"
    /\ kid' = [kid EXCEPT !.run = "wrote"]
    /\ UNCHANGED <<setupVars, now, peer, client, watch, step>>

\* At most once in a round: the loop keeps turning, as sockets can be sent to.
Tick ==
    /\ phase = "serving" /\ now < MaxTime /\ now = step.polled
    /\ now' = now + 1
    /\ UNCHANGED <<setupVars, peer, kid, client, watch, step>>

Serve == Loop \/ Connect \/ Send \/ Write \/ Tick

Next == (SetupNext /\ UNCHANGED timerVars) \/ Serve

Spec == Init /\ [][Next]_vars

\* The setup goes on, the loop never pauses and neither does the clock.  Nobody
\* has to connect, to send or to write.
FairSpec == Spec /\ WF_setupVars(Setup) /\ WF_vars(Loop) /\ WF_vars(Tick)

----------------------------------------------------------------------------
(* Properties                                                              *)

\* A client is served by the server whose listen directive names the address it
\* connected to ("listen: Specifies the IP address and port the server listens
\* on").
OwnServer ==
    client.here => \E n \in DOMAIN Listens :
                      Listens[n].addr = peer.to /\ Listens[n].server = client.server_ref

\* No client is refused with 408 before the limit of its server has passed since
\* it was accepted, or was last heard where its body is awaited; no script with
\* 504 before it had the time of the location its request names.  One case is left
\* out, in which that does happen: the clock ticked between the last time the
\* client was found idle and the start of what is measured, so that a negative
\* difference becomes huge.
Passed(limit, since) == now - since > limit
InTime ==
    LET c == client' IN
    /\ client.status # 408 /\ c.status = 408 =>
         IF HeaderReady(c)
         THEN Passed(BodyTimeout[c.server_ref][0], peer'.last) \/ c.current_time < c.start_recv_body
         ELSE Passed(HeaderTimeout[c.server_ref], peer.accepted)
    /\ client.status # 504 /\ c.status = 504 /\ client.content = "script" =>
         Passed(CgiTimeout[c.server_ref][peer.location], kid.since) \/ c.current_time < c.start_recv_cgi
NeverEarly == [][InTime]_vars

Waiting == client.here /\ client.req # "none" /\ ~client.ready

\* A content that was handed over under a number that resetFds() took out of the map:
\* its entry is polled, and passed by.
Forgotten == client.content # "none" /\ client.given /\ "in" \notin watch.mapped

\* A request that has begun gets a response, whether or not its peer goes on, its
\* script answers, or the peer reads; in one case only is a connection held half-way
\* for ever.
Settled == Waiting ~> ~Waiting \/ Forgotten

\* An error page that was opened becomes the response.
PageServed == client.content = "page" ~> client.ready \/ ~client.here
=============================================================================
