------------------------------- MODULE Client -------------------------------
(***************************************************************************)
(* Class Client (srcs/Client.cpp) with the File, StaticFile and CgiPipe    *)
(* objects it owns, as operators on an IMAGE: the record of everything a   *)
(* member function may read or write.                                      *)
(*   c         the Client object                                           *)
(*   x         the connection it serves                                    *)
(*   fd        the descriptor table                                        *)
(*   kid       the CGI child of every connection                           *)
(*   inbox     what recv() can still read from the socket                  *)
(*   up        whether the peer still holds its end                        *)
(*   ask       what the peer's request names                               *)
(*   answered  how many whole responses went to the peer                   *)
(*   buf, del, map   Server's buffer_new_fd, fds_to_be_deleted and         *)
(*             client_mapping                                              *)
(*   ret       what the last call returned                                 *)
(*   killed    the process died of SIGPIPE                                 *)
(* The parameter o (an ORACLE) fixes the outcomes the code does not        *)
(* decide: whether fork() succeeds, whether a deadline has passed, ...     *)
(***************************************************************************)
EXTENDS Descriptors, Sequences

CONSTANTS ErrorPages,  \* status codes with a configured, readable error_page
          FileLen      \* reads it takes to fetch a whole file (content_length)

ASSUME ErrorPagesAssumption == ErrorPages \subseteq Nat
ASSUME FileLenAssumption == FileLen \in Nat

\* What a request can lead to: a static file, a CGI script, a page built in
\* memory (directory listing, redirection), or a refusal (403, 404, 405 ...).
Asks == {"file", "cgi", "page", "deny"}

\* What one recv() delivers: a whole request, the head of a request with a
\* body, the end of whatever is outstanding, an unfinished head, a malformed
\* head.
Segments == {"full", "head", "rest", "part", "bad"}

FrontRequest == {"none", "part", "body", "ready", "bad"}

Exited == {"ok", "failed"}             \* not yet seen by waitpid()
Waited == {"waited ok", "waited failed"}
NoKid  == [run |-> "none", out |-> "none", full |-> FALSE, shot |-> FALSE]
NewKid == [NoKid EXCEPT !.run = "running"]
Kid    == [run  : {"none", "running"} \cup Exited \cup Waited,
           out  : {"none", "unread", "read"},   \* its output
           full : BOOLEAN,                      \* its input pipe is full
           shot : BOOLEAN]                      \* SIGKILL is on its way

\* The object a fresh Client is before accept() gives it a socket, which is
\* also what we keep for a connection that has no Client.
NoClient ==
    [here |-> FALSE, doomed |-> FALSE, sock |-> 0,
     content |-> "none", in |-> 0, out |-> 0, given |-> FALSE, pos |-> 0,
     req |-> "none", more |-> FALSE, body |-> "none",
     status |-> 0, emergency |-> FALSE,
     ready |-> FALSE, begun |-> FALSE, got |-> 0]

ContentKind == {"none", "file", "cgi"}
BodyState   == {"none", "unsent", "partly", "sent"}
Slot        == Fd \cup {0}          \* a descriptor, or 0 for none
Reads       == 0 .. FileLen
Chunks      == 0 .. FileLen + 1     \* the body, up to one read too long

ClientRec ==
    [here : BOOLEAN, doomed : BOOLEAN, sock : Slot,
     content : ContentKind, in : Slot, out : Slot, given : BOOLEAN, pos : Reads,
     req : FrontRequest, more : BOOLEAN, body : BodyState,
     status : Nat, emergency : BOOLEAN,
     ready : BOOLEAN, begun : BOOLEAN, got : Chunks]

----------------------------------------------------------------------------
(* Contents: StaticFile and CgiPipe                                        *)

\* The Client with a content that was just created.
WithContent(c, kind, in, out) ==
    [c EXCEPT !.content = kind, !.in = in, !.out = out, !.given = FALSE, !.pos = 0]

\* Mutant: the destructor of CgiPipe forgets the input pipe.
DeleteContentHalf(p) ==
    [p EXCEPT !.fd  = Release(p.fd, {p.c.in}),
              !.kid = [p.kid EXCEPT ![p.x] = NoKid],
              !.c   = WithContent(p.c, "none", 0, 0)]

\* delete content: the destructors close the descriptors and kill the child.
DeleteContent(p) ==
    [p EXCEPT !.fd  = Release(p.fd, {p.c.in, p.c.out}),
              !.kid = [p.kid EXCEPT ![p.x] = NoKid],
              !.c   = WithContent(p.c, "none", 0, 0)]

\* new StaticFile, processFds(): open() fails only for want of a descriptor,
\* the path was checked just before.
OpenStatic(p) ==
    IF NthFree(p.fd, 1) = {}
    THEN [p EXCEPT !.ret = FALSE]
    ELSE LET f == CHOOSE g \in NthFree(p.fd, 1) : TRUE
         IN  [p EXCEPT !.fd  = Assign(p.fd, f, <<"file", p.x>>),
                       !.c   = WithContent(p.c, "file", f, 0),
                       !.ret = TRUE]

\* fork() in generateFds().  The child throws ChildProcess; on its way out it
\* destroys its copy of the Server, and with it every CgiPipe in it, whose
\* destructor sends SIGKILL to the child of that other connection.
ForkKids(p) ==
    [y \in Conn |-> IF y = p.x THEN NewKid
                    ELSE [p.kid[y] EXCEPT !.shot = @ \/ p.kid[y].run = "running"]]

\* new CgiPipe, processFds(): two pipes take four descriptors, the parent
\* closes the inner two after the fork.  When a call fails, every descriptor
\* it had is closed again by the destructor.
OpenCgi(p, o) ==
    LET ends == NthFree(p.fd, 1) \X NthFree(p.fd, 4) IN
    IF ends = {} \/ ~o.forks
    THEN [p EXCEPT !.ret = FALSE]
    ELSE LET e == CHOOSE e \in ends : TRUE
         IN  [p EXCEPT !.fd  = Assign(Assign(p.fd, e[1], <<"cgiOut", p.x>>),
                                      e[2], <<"cgiIn", p.x>>),
                       !.kid = ForkKids(p),
                       !.c   = WithContent(p.c, "cgi", e[1], e[2]),
                       !.ret = TRUE]

WithStatus(p, status) == [p EXCEPT !.c = [p.c EXCEPT !.status = status]]

\* content->checkStatus(): waitpid() reaps a child that has exited; a failed
\* one turns the status into 500.
CheckStatus(p) ==
    LET run == p.kid[p.x].run IN
    CASE p.c.content = "cgi" /\ run = "ok" ->
            [p EXCEPT !.kid = [p.kid EXCEPT ![p.x].run = "waited ok"], !.ret = TRUE]
      [] p.c.content = "cgi" /\ run = "failed" ->
            [WithStatus(p, 500) EXCEPT !.kid = [p.kid EXCEPT ![p.x].run = "waited failed"],
                                       !.ret = FALSE]
      [] OTHER -> [p EXCEPT !.ret = p.c.content = "cgi" => run # "waited failed"]

----------------------------------------------------------------------------
(* Building a response                                                     *)

\* resetResponse()
ResetResponse(p) ==
    [p EXCEPT !.c = [p.c EXCEPT !.ready = FALSE, !.begun = FALSE, !.got = 0,
                                !.emergency = FALSE]]

\* finishHttp() and, for CGI output, processCgiData(), which also rewinds
Finish(p) == [p EXCEPT !.c = [p.c EXCEPT !.ready = TRUE]]
FinishCgi(p) == [p EXCEPT !.c = [p.c EXCEPT !.ready = TRUE, !.begun = FALSE]]

\* getDefaultError(): a page built in memory replaces the response, and the
\* content, whose descriptors close here and now, is deleted.
GetDefaultError(p) ==
    LET q == DeleteContent(p)
    IN  [q EXCEPT !.c = [q.c EXCEPT !.ready = TRUE, !.begun = FALSE, !.got = 0]]

\* processContent()
ProcessContent(p, kind, o) ==
    LET q == IF kind = "cgi" THEN OpenCgi(DeleteContent(p), o)
             ELSE OpenStatic(DeleteContent(p))
    IN  IF q.ret THEN q ELSE WithStatus(q, 500)

\* processResponseError()
ProcessResponseError(p, o) ==
    LET q == ResetResponse(p) IN
    IF q.c.status \notin ErrorPages THEN GetDefaultError(q)
    ELSE LET r == ProcessContent(q, "file", o)
         IN  IF r.ret THEN r ELSE GetDefaultError(r)

\* errorOverwriteResponse(status)
ErrorOverwriteResponse(p, status, o) ==
    LET q == WithStatus(p, status) IN
    IF p.c.status = status \/ p.c.emergency
    THEN GetDefaultError(ResetResponse(q))
    ELSE LET r == ProcessResponseError(q, o)
         IN  [r EXCEPT !.c = [r.c EXCEPT !.emergency = TRUE]]

\* routeError(status)
RouteError(p, status, o) == ProcessResponseError(WithStatus(p, status), o)

\* routeRequest(): what routingClient() found decides between a content, a
\* page and an error.
RouteRequest(p, o) ==
    LET ok == WithStatus(p, 200) IN
    CASE p.ask \in {"file", "cgi"} ->
            LET q == ProcessContent(ok, p.ask, o)
            IN  IF q.ret THEN q ELSE ProcessResponseError(q, o)
      [] p.ask = "page" -> Finish(ok)
      [] OTHER -> RouteError(p, 404, o)

\* reset(): the next request, if one is queued, is routed at once.
Reset(p, o) ==
    LET q == ResetResponse(DeleteContent(p))
        r == [q EXCEPT !.c = [q.c EXCEPT !.status = 0, !.body = "none", !.more = FALSE,
                                         !.req = IF p.c.more THEN "ready" ELSE "none"]]
    IN  IF p.c.more THEN RouteRequest(r, o) ELSE r

----------------------------------------------------------------------------
(* The four transfers                                                      *)

\* The request at the front of the queue after one more segment
\* (HttpRequest::addRequest): a head that is not complete counts as malformed,
\* and only its completion can repair it.
Advance(front, seg) ==
    CASE front = "none" -> [full |-> "ready", head |-> "body", part |-> "part",
                            rest |-> "part", bad |-> "bad"][seg]
      [] front = "part" -> IF seg = "rest" THEN "ready"
                           ELSE IF seg = "part" THEN "part" ELSE "bad"
      [] front = "body" -> IF seg = "part" THEN "body" ELSE "ready"
      [] OTHER -> front

\* clientRecvHttp(): every segment, wanted or not, ends in the routing of the
\* front request.
ClientRecvHttp(p, o) ==
    IF p.inbox = <<>> THEN [p EXCEPT !.ret = FALSE]
    ELSE LET seg   == Head(p.inbox)
             front == Advance(p.c.req, seg)
             more  == p.c.req \in {"ready", "bad"} /\ seg = "full"
             body  == IF p.c.req = "body" /\ front = "ready" THEN "unsent" ELSE p.c.body
             q == [p EXCEPT !.inbox = Tail(p.inbox),
                            !.c = [p.c EXCEPT !.req  = front, !.body = body,
                                              !.more = p.c.more \/ more]]
             r == CASE front \in {"part", "bad"} -> RouteError(q, 400, o)
                    [] front = "ready" -> RouteRequest(q, o)
                    [] OTHER -> q
         IN  [r EXCEPT !.ret = TRUE]

\* clientRecvStaticFile(): the response is finished by the read that makes its
\* body content_length long; a file that ends early becomes a 500.
ClientRecvStaticFile(p, o) ==
    IF p.c.pos = FileLen \/ o.shrinks
    THEN LET r == IF p.c.got # FileLen
                  THEN ProcessResponseError(WithStatus(p, 500), o) ELSE p
         IN  [r EXCEPT !.ret = FALSE]
    ELSE LET got == IF p.c.got > FileLen THEN p.c.got ELSE p.c.got + 1
         IN  [p EXCEPT !.c = [p.c EXCEPT !.pos = p.c.pos + 1, !.got = got,
                                         !.ready = p.c.ready \/ got = FileLen],
                       !.ret = got # FileLen]

\* clientRecvCgi(): the response is finished by the end of the output, or by
\* the read that completes the Content-Length the script declared.
ClientRecvCgi(p, o) ==
    IF p.kid[p.x].out = "unread"
    THEN [(IF o.whole THEN FinishCgi(p) ELSE p)
            EXCEPT !.kid = [p.kid EXCEPT ![p.x].out = "read"], !.ret = ~o.whole]
    ELSE [(IF p.kid[p.x].run = "running" THEN p ELSE FinishCgi(p)) EXCEPT !.ret = FALSE]

\* clientRecvContent()
ClientRecvContent(p, o) ==
    IF p.c.content = "none" THEN [p EXCEPT !.ret = FALSE]
    ELSE LET q == CheckStatus(p)
         IN  IF ~q.ret THEN q
             ELSE IF p.c.content = "cgi" THEN ClientRecvCgi(q, o)
             ELSE ClientRecvStaticFile(q, o)

\* clientSendContent(), clientSendCgi(): a pipe nobody reads any more raises
\* SIGPIPE, for which no handler is installed; writing no bytes returns zero.
\* At most one write per body is partial, and fills the pipe.
ClientSendContent(p, o) ==
    IF p.c.content = "none" THEN [p EXCEPT !.ret = FALSE]
    ELSE LET q == CheckStatus(p) IN
         IF ~q.ret \/ q.c.content = "file" \/ q.c.body \in {"none", "sent"}
         THEN [q EXCEPT !.ret = FALSE]
         ELSE IF q.kid[q.x].run # "running" THEN [q EXCEPT !.killed = TRUE]
         ELSE IF o.whole \/ q.c.body = "partly"
         THEN [q EXCEPT !.c = [q.c EXCEPT !.body = "sent"], !.ret = FALSE]
         ELSE [q EXCEPT !.c   = [q.c EXCEPT !.body = "partly"],
                        !.kid = [q.kid EXCEPT ![p.x].full = TRUE],
                        !.ret = TRUE]

\* clientSendResponse(): at most one partial send per response.  What is sent to
\* a peer that has gone may still be taken by the kernel, or fail with its reset,
\* or raise SIGPIPE: send() has no MSG_NOSIGNAL.
ClientSendResponse(p, o) ==
    IF ~p.up /\ o.gone = "pipe" THEN [p EXCEPT !.killed = TRUE]
    ELSE IF ~p.up /\ o.gone = "reset" THEN [Reset(p, o) EXCEPT !.ret = FALSE]
    ELSE IF p.c.begun \/ o.whole
    THEN [p EXCEPT !.answered = IF p.up THEN @ + 1 ELSE @, !.ret = FALSE]
    ELSE [p EXCEPT !.c = [p.c EXCEPT !.begun = TRUE], !.ret = TRUE]

\* checkContentStatus(), when poll() reports a hang-up of the content.
CheckContentStatus(p) ==
    IF p.c.content = "cgi"
    THEN LET q == CheckStatus(p)
         IN  IF q.ret THEN FinishCgi(q) ELSE q
    ELSE IF p.c.got # FileLen THEN [p EXCEPT !.ret = FALSE]
    ELSE [Finish(p) EXCEPT !.ret = TRUE]

\* checkTimer(fd): the deadline that applies to a descriptor, if it has passed.
CheckTimer(p, fd, o) ==
    IF ~o.late THEN 200
    ELSE IF fd # p.c.sock THEN 504
    ELSE IF p.c.req \in {"part", "body"} THEN 408
    ELSE 200
=============================================================================
