--------------------------- MODULE ServiceProofs ---------------------------
(***************************************************************************)
(* Proof that EventLoop implements Lifecycle (InOrder), for all values of  *)
(* the constants, wherever anything may go wrong.                          *)
(*   1. SameTalk: what building a response leaves alone, one lemma for     *)
(*      each operator of Client;                                           *)
(*   2. Handled: what one call of handleClient() does to the conversation; *)
(*   3. the inductive invariant JInv, one lemma for each action;           *)
(*   4. one lemma for each action: it is a step of Lifecycle;              *)
(*   5. the theorem.                                                       *)
(***************************************************************************)
EXTENDS Service, EventLoopProofs

\* The conversation with the peer stands the same in images p and q.
SameTalk(p, q) ==
    /\ q.answered = p.answered /\ q.map = p.map
    /\ q.c.req = p.c.req /\ q.c.doomed = p.c.doomed /\ q.c.sock = p.c.sock

LEMMA SameTalkTrans ==
  ASSUME NEW p, NEW q, NEW r, SameTalk(p, q), SameTalk(q, r)
  PROVE  SameTalk(p, r)
BY DEF SameTalk

LEMMA SetClientTalk ==
  ASSUME NEW p, IsImage(p), NEW d,
         d.req = p.c.req, d.doomed = p.c.doomed, d.sock = p.c.sock,
         NEW q, q = [p EXCEPT !.c = d]
  PROVE  SameTalk(p, q)
BY DEF SameTalk, IsImage, ImageFields

\* Only what the conversation does not depend on differs.
LEMMA SetAsideTalk ==
  ASSUME NEW p, IsImage(p), NEW b
  PROVE  /\ SameTalk(p, [p EXCEPT !.ret = b])
         /\ SameTalk(p, [p EXCEPT !.killed = b])
         /\ SameTalk(p, [p EXCEPT !.del = b])
BY DEF SameTalk, IsImage, ImageFields

LEMMA WithContentTalk ==
  ASSUME NEW c \in ClientRec, NEW kind, NEW in, NEW out,
         NEW d, d = WithContent(c, kind, in, out)
  PROVE  d.req = c.req /\ d.doomed = c.doomed /\ d.sock = c.sock
BY DEF ClientRec, WithContent

LEMMA DeleteContentTalk ==
  ASSUME NEW x \in Conn, NEW t0, NEW p, Good(p, x, t0)
  PROVE  SameTalk(p, DeleteContent(p))
<1> DEFINE q == DeleteContent(p)
           d == WithContent(p.c, "none", 0, 0)
<1>1. d.req = p.c.req /\ d.doomed = p.c.doomed /\ d.sock = p.c.sock
  BY WithContentTalk DEF Good
<1>2. q.c = d /\ q.answered = p.answered /\ q.map = p.map
  BY DEF Good, DeleteContent, IsImage, ImageFields
<1> HIDE DEF q, d
<1>3. SameTalk(p, q)
  BY <1>1, <1>2 DEF SameTalk
<1> QED BY <1>3 DEF q

LEMMA OpenStaticTalk ==
  ASSUME NEW x \in Conn, NEW t0, NEW p, Good(p, x, t0)
  PROVE  SameTalk(p, OpenStatic(p))
<1>1. IsImage(p) /\ p.c \in ClientRec
  BY DEF Good
<1>2. CASE NthFree(p.fd, 1) = {}
  BY <1>1, <1>2, SetAsideTalk DEF OpenStatic
<1>3. CASE NthFree(p.fd, 1) # {}
  <2> DEFINE f == CHOOSE g \in NthFree(p.fd, 1) : TRUE
             d == WithContent(p.c, "file", f, 0)
             q == OpenStatic(p)
  <2>1. q = [p EXCEPT !.fd = Assign(p.fd, f, <<"file", p.x>>), !.c = d, !.ret = TRUE]
    BY <1>3 DEF OpenStatic
  <2>2. d.req = p.c.req /\ d.doomed = p.c.doomed /\ d.sock = p.c.sock
    BY <1>1, WithContentTalk
  <2> HIDE DEF f, d, q
  <2>3. q.c = d /\ q.answered = p.answered /\ q.map = p.map
    BY <1>1, <2>1 DEF IsImage, ImageFields
  <2>4. SameTalk(p, q)
    BY <2>2, <2>3 DEF SameTalk
  <2> QED BY <2>4 DEF q
<1> QED BY <1>2, <1>3

LEMMA OpenCgiTalk ==
  ASSUME NEW x \in Conn, NEW t0, NEW p, Good(p, x, t0), NEW o
  PROVE  SameTalk(p, OpenCgi(p, o))
<1> DEFINE ends == NthFree(p.fd, 1) \X NthFree(p.fd, 4)
<1>1. IsImage(p) /\ p.c \in ClientRec
  BY DEF Good
<1>2. CASE ends = {} \/ ~o.forks
  BY <1>1, <1>2, SetAsideTalk DEF OpenCgi
<1>3. CASE ~(ends = {} \/ ~o.forks)
  <2> DEFINE e == CHOOSE e \in ends : TRUE
             t == Assign(Assign(p.fd, e[1], <<"cgiOut", p.x>>), e[2], <<"cgiIn", p.x>>)
             d == WithContent(p.c, "cgi", e[1], e[2])
             q == OpenCgi(p, o)
  <2>1. q = [p EXCEPT !.fd = t, !.kid = ForkKids(p), !.c = d, !.ret = TRUE]
    BY <1>3 DEF OpenCgi
  <2>2. d.req = p.c.req /\ d.doomed = p.c.doomed /\ d.sock = p.c.sock
    BY <1>1, WithContentTalk
  <2> HIDE DEF e, t, d, q
  <2>3. q.c = d /\ q.answered = p.answered /\ q.map = p.map
    BY <1>1, <2>1 DEF IsImage, ImageFields
  <2>4. SameTalk(p, q)
    BY <2>2, <2>3 DEF SameTalk
  <2> QED BY <2>4 DEF q
<1> QED BY <1>2, <1>3

LEMMA WithStatusTalk ==
  ASSUME NEW x \in Conn, NEW t0, NEW p, Good(p, x, t0), NEW status
  PROVE  SameTalk(p, WithStatus(p, status))
<1> DEFINE d == [p.c EXCEPT !.status = status]
<1>1. IsImage(p) /\ p.c \in ClientRec
  BY DEF Good
<1>2. d.req = p.c.req /\ d.doomed = p.c.doomed /\ d.sock = p.c.sock
  BY <1>1 DEF ClientRec
<1>3. WithStatus(p, status) = [p EXCEPT !.c = d]
  BY DEF WithStatus
<1> HIDE DEF d
<1> QED BY <1>1, <1>2, <1>3, SetClientTalk

LEMMA ResetResponseTalk ==
  ASSUME NEW x \in Conn, NEW t0, NEW p, Good(p, x, t0)
  PROVE  /\ SameTalk(p, ResetResponse(p)) /\ ~ResetResponse(p).c.ready
         /\ ResetResponse(p).c.content = p.c.content
<1> DEFINE d == [p.c EXCEPT !.ready = FALSE, !.begun = FALSE, !.got = 0,
                            !.emergency = FALSE]
<1>1. IsImage(p) /\ p.c \in ClientRec
  BY DEF Good
<1>2. /\ d.req = p.c.req /\ d.doomed = p.c.doomed /\ d.sock = p.c.sock
      /\ ~d.ready /\ d.content = p.c.content
  BY <1>1 DEF ClientRec
<1>3. ResetResponse(p) = [p EXCEPT !.c = d]
  BY DEF ResetResponse
<1> HIDE DEF d
<1>4. SameTalk(p, ResetResponse(p))
  BY <1>1, <1>2, <1>3, SetClientTalk
<1>5. ResetResponse(p).c = d
  BY <1>1, <1>3 DEF IsImage, ImageFields
<1> QED BY <1>2, <1>4, <1>5

LEMMA FinishTalk ==
  ASSUME NEW x \in Conn, NEW t0, NEW p, Good(p, x, t0)
  PROVE  SameTalk(p, Finish(p)) /\ SameTalk(p, FinishCgi(p))
<1> DEFINE d == [p.c EXCEPT !.ready = TRUE]
           e == [p.c EXCEPT !.ready = TRUE, !.begun = FALSE]
<1>1. IsImage(p) /\ p.c \in ClientRec
  BY DEF Good
<1>2. /\ d.req = p.c.req /\ d.doomed = p.c.doomed /\ d.sock = p.c.sock
      /\ e.req = p.c.req /\ e.doomed = p.c.doomed /\ e.sock = p.c.sock
  BY <1>1 DEF ClientRec
<1>3. Finish(p) = [p EXCEPT !.c = d] /\ FinishCgi(p) = [p EXCEPT !.c = e]
  BY DEF Finish, FinishCgi
<1> HIDE DEF d, e
<1> QED BY <1>1, <1>2, <1>3, SetClientTalk

LEMMA CheckStatusTalk ==
  ASSUME NEW x \in Conn, NEW t0, NEW p, Good(p, x, t0)
  PROVE  SameTalk(p, CheckStatus(p))
<1> DEFINE q == WithStatus(p, 500)
           run == p.kid[p.x].run
           ok == [p EXCEPT !.kid = [p.kid EXCEPT ![p.x].run = "waited ok"], !.ret = TRUE]
           failed == [q EXCEPT !.kid = [p.kid EXCEPT ![p.x].run = "waited failed"],
                               !.ret = FALSE]
           other == [p EXCEPT !.ret = p.c.content = "cgi" => run # "waited failed"]
<1>1. IsImage(p) /\ Good(q, x, t0) /\ SameTalk(p, q)
  <2>1. IsImage(p)
    BY DEF Good
  <2>2. Good(q, x, t0)
    BY WithStatusGood
  <2>3. SameTalk(p, q)
    BY WithStatusTalk
  <2> QED BY <2>1, <2>2, <2>3
<1>2. CheckStatus(p) \in {ok, failed, other}
  <2>1. CASE p.c.content = "cgi" /\ run = "ok"
    BY <2>1 DEF CheckStatus
  <2>2. CASE p.c.content = "cgi" /\ run = "failed"
    BY <2>2 DEF CheckStatus
  <2>3. CASE ~(p.c.content = "cgi" /\ run = "ok") /\ ~(p.c.content = "cgi" /\ run = "failed")
    BY <2>3 DEF CheckStatus
  <2> QED BY <2>1, <2>2, <2>3
<1>3. SameTalk(p, ok) /\ SameTalk(p, other)
  BY <1>1 DEF SameTalk, IsImage, ImageFields
<1>4. SameTalk(q, failed)
  <2>1. IsImage(q)
    BY <1>1 DEF Good
  <2> HIDE DEF q
  <2> QED BY <2>1 DEF SameTalk, IsImage, ImageFields
<1> HIDE DEF q, ok, failed, other
<1> QED BY <1>1, <1>2, <1>3, <1>4, SameTalkTrans

LEMMA GetDefaultErrorTalk ==
  ASSUME NEW x \in Conn, NEW t0, NEW p, Good(p, x, t0)
  PROVE  SameTalk(p, GetDefaultError(p))
<1> DEFINE q == DeleteContent(p)
           d == [q.c EXCEPT !.ready = TRUE, !.begun = FALSE, !.got = 0]
<1>1. Good(q, x, t0) /\ SameTalk(p, q)
  BY DeleteContentGood, DeleteContentTalk
<1>2. GetDefaultError(p) = [q EXCEPT !.c = d]
  BY DEF GetDefaultError
<1> HIDE DEF q
<1>3. IsImage(q) /\ q.c \in ClientRec
  BY <1>1 DEF Good
<1>4. d.req = q.c.req /\ d.doomed = q.c.doomed /\ d.sock = q.c.sock
  BY <1>3 DEF ClientRec
<1> HIDE DEF d
<1>5. SameTalk(q, GetDefaultError(p))
  BY <1>2, <1>3, <1>4, SetClientTalk
<1> QED BY <1>1, <1>5, SameTalkTrans

LEMMA ProcessContentTalk ==
  ASSUME NEW x \in Conn, NEW t0, NEW p, Good(p, x, t0), NEW kind, NEW o
  PROVE  SameTalk(p, ProcessContent(p, kind, o))
<1> DEFINE d == DeleteContent(p)
           q == IF kind = "cgi" THEN OpenCgi(d, o) ELSE OpenStatic(d)
<1>1. Good(d, x, t0) /\ d.c.content = "none" /\ SameTalk(p, d)
  BY DeleteContentGood, DeleteContentTalk
<1>2. Good(q, x, t0) /\ SameTalk(d, q)
  <2> HIDE DEF d
  <2> QED BY <1>1, OpenCgiGood, OpenStaticGood, OpenCgiTalk, OpenStaticTalk
<1>3. SameTalk(q, WithStatus(q, 500))
  <2> HIDE DEF q
  <2> QED BY <1>2, WithStatusTalk
<1>4. ProcessContent(p, kind, o) \in {q, WithStatus(q, 500)}
  BY DEF ProcessContent
<1> HIDE DEF d, q
<1> QED BY <1>1, <1>2, <1>3, <1>4, SameTalkTrans

LEMMA ProcessResponseErrorTalk ==
  ASSUME NEW x \in Conn, NEW t0, NEW p, Good(p, x, t0), NEW o
  PROVE  SameTalk(p, ProcessResponseError(p, o))
<1> DEFINE q == ResetResponse(p)
           r == ProcessContent(q, "file", o)
<1>1. Good(q, x, t0) /\ SameTalk(p, q)
  BY ResetResponseGood, ResetResponseTalk
<1>2. Good(r, x, t0) /\ SameTalk(q, r) /\ SameTalk(q, GetDefaultError(q))
  <2> HIDE DEF q
  <2> QED BY <1>1, ProcessContentGood, ProcessContentTalk, GetDefaultErrorTalk
<1>3. SameTalk(r, GetDefaultError(r))
  <2> HIDE DEF r
  <2> QED BY <1>2, GetDefaultErrorTalk
<1>4. ProcessResponseError(p, o) \in {GetDefaultError(q), r, GetDefaultError(r)}
  BY DEF ProcessResponseError
<1> HIDE DEF q, r
<1> QED BY <1>1, <1>2, <1>3, <1>4, SameTalkTrans

LEMMA ErrorOverwriteResponseTalk ==
  ASSUME NEW x \in Conn, NEW t0, NEW p, Good(p, x, t0), NEW status \in Nat, NEW o
  PROVE  SameTalk(p, ErrorOverwriteResponse(p, status, o))
<1> DEFINE q == WithStatus(p, status)
           s == ResetResponse(q)
           r == ProcessResponseError(q, o)
           d == [r.c EXCEPT !.emergency = TRUE]
<1>1. Good(q, x, t0) /\ SameTalk(p, q)
  BY WithStatusGood, WithStatusTalk
<1>2. /\ Good(s, x, t0) /\ SameTalk(q, s)
      /\ Good(r, x, t0) /\ SameTalk(q, r)
  <2> HIDE DEF q
  <2> QED BY <1>1, ResetResponseGood, ResetResponseTalk, ProcessResponseErrorGood,
             ProcessResponseErrorTalk
<1>3. SameTalk(s, GetDefaultError(s))
  <2> HIDE DEF s
  <2> QED BY <1>2, GetDefaultErrorTalk
<1>4. SameTalk(r, [r EXCEPT !.c = d])
  <2> HIDE DEF r
  <2>1. IsImage(r) /\ r.c \in ClientRec
    BY <1>2 DEF Good
  <2>2. d.req = r.c.req /\ d.doomed = r.c.doomed /\ d.sock = r.c.sock
    BY <2>1 DEF ClientRec
  <2> HIDE DEF d
  <2> QED BY <2>1, <2>2, SetClientTalk
<1>5. ErrorOverwriteResponse(p, status, o) \in {GetDefaultError(s), [r EXCEPT !.c = d]}
  BY DEF ErrorOverwriteResponse
<1> HIDE DEF q, s, r, d
<1> QED BY <1>1, <1>2, <1>3, <1>4, <1>5, SameTalkTrans

LEMMA RouteErrorTalk ==
  ASSUME NEW x \in Conn, NEW t0, NEW p, Good(p, x, t0), NEW status \in Nat, NEW o
  PROVE  SameTalk(p, RouteError(p, status, o))
<1> DEFINE q == WithStatus(p, status)
<1>1. Good(q, x, t0) /\ SameTalk(p, q)
  BY WithStatusGood, WithStatusTalk
<1>2. SameTalk(q, ProcessResponseError(q, o))
  <2> HIDE DEF q
  <2> QED BY <1>1, ProcessResponseErrorTalk
<1>3. RouteError(p, status, o) = ProcessResponseError(q, o)
  BY DEF RouteError
<1> HIDE DEF q
<1> QED BY <1>1, <1>2, <1>3, SameTalkTrans

LEMMA RouteRequestTalk ==
  ASSUME NEW x \in Conn, NEW t0, NEW p, Good(p, x, t0), NEW o
  PROVE  SameTalk(p, RouteRequest(p, o))
<1> DEFINE ok == WithStatus(p, 200)
           q  == ProcessContent(ok, p.ask, o)
<1>1. Good(ok, x, t0) /\ SameTalk(p, ok)
  BY WithStatusGood, WithStatusTalk
<1>2. Good(q, x, t0) /\ SameTalk(ok, q) /\ SameTalk(ok, Finish(ok))
  <2> HIDE DEF ok
  <2> QED BY <1>1, ProcessContentGood, ProcessContentTalk, FinishTalk
<1>3. SameTalk(q, ProcessResponseError(q, o))
  <2> HIDE DEF q
  <2> QED BY <1>2, ProcessResponseErrorTalk
<1>4. SameTalk(p, RouteError(p, 404, o))
  BY RouteErrorTalk
<1>5. RouteRequest(p, o) \in {q, ProcessResponseError(q, o), Finish(ok), RouteError(p, 404, o)}
  <2>1. CASE p.ask \in {"file", "cgi"}
    BY <2>1 DEF RouteRequest
  <2>2. CASE p.ask = "page"
    BY <2>2 DEF RouteRequest
  <2>3. CASE p.ask \notin {"file", "cgi", "page"}
    BY <2>3 DEF RouteRequest
  <2> QED BY <2>1, <2>2, <2>3
<1> HIDE DEF ok, q
<1> QED BY <1>1, <1>2, <1>3, <1>4, <1>5, SameTalkTrans

----------------------------------------------------------------------------
(* One call of handleClient()                                              *)

\* Nothing was prepared for a peer that has not asked.
Wanted(c) == c.req = "none" => ~c.ready /\ c.content = "none"

\* How one call of handleClient() takes the conversation from image p to image q: an
\* answer needs a question and ends the client, a question is not taken back while the
\* client stays, and only the descriptors of a client that was asked are mapped.
Talks(p, q) ==
    /\ Wanted(q.c) /\ q.c.sock = p.c.sock
    /\ q.answered \in {p.answered, p.answered + 1}
    /\ q.answered # p.answered => p.c.req # "none" /\ q.c.doomed
    /\ ~q.c.doomed /\ p.c.req # "none" => q.c.req # "none"
    /\ \A f \in Fd : q.map[f] = p.map[f] \/ (q.map[f] = p.x /\ q.c.req # "none")

\* A step that leaves the conversation alone, in one of these two cases.
LEMMA TalksSame ==
  ASSUME NEW p, NEW q, SameTalk(p, q), Wanted(p.c),
         \/ p.c.req # "none"
         \/ q.c.ready = p.c.ready /\ q.c.content = p.c.content
  PROVE  Talks(p, q)
BY DEF Talks, SameTalk, Wanted

\* Whether the handler called last may leave client c as it is.
LEMMA TalksThen ==
  ASSUME NEW p, NEW q, NEW r, Talks(p, q), SameTalk(q, r), q.x = p.x,
         \/ q.c.req # "none"
         \/ r.c.ready = q.c.ready /\ r.c.content = q.c.content
  PROVE  Talks(p, r)
BY DEF Talks, SameTalk, Wanted

\* reset() with a request queued routes it; without one nothing is left.
LEMMA ResetTalk ==
  ASSUME NEW x \in Conn, NEW t0, NEW p, Good(p, x, t0), NEW o
  PROVE  /\ Wanted(Reset(p, o).c) /\ Reset(p, o).c.sock = p.c.sock
         /\ Reset(p, o).answered = p.answered /\ Reset(p, o).map = p.map
<1> DEFINE e == DeleteContent(p)
           q == ResetResponse(e)
           d == [q.c EXCEPT !.status = 0, !.body = "none", !.more = FALSE,
                            !.req = IF p.c.more THEN "ready" ELSE "none"]
           r == [q EXCEPT !.c = d]
<1>1. Good(e, x, t0) /\ e.c.content = "none" /\ SameTalk(p, e)
  BY DeleteContentGood, DeleteContentTalk
<1>2. Good(q, x, t0) /\ SameTalk(e, q) /\ ~q.c.ready /\ q.c.content = "none"
  <2> HIDE DEF e
  <2> QED BY <1>1, ResetResponseGood, ResetResponseTalk
<1>3. IsImage(q) /\ q.c \in ClientRec
  BY <1>2 DEF Good
<1>4. /\ d \in ClientRec /\ SameHold(q.c, d) /\ d.sock = q.c.sock
      /\ d.req = (IF p.c.more THEN "ready" ELSE "none")
      /\ ~d.ready /\ d.content = "none"
  <2> HIDE DEF q
  <2> QED BY <1>2, <1>3 DEF ClientRec, SameHold, BodyState, FrontRequest
<1>5. Good(r, x, t0) /\ r.c = d /\ r.answered = q.answered /\ r.map = q.map
  <2> HIDE DEF q, d
  <2>1. Good(r, x, t0) /\ r.c = d
    BY <1>2, <1>4, SetClientGood
  <2> QED BY <1>3, <2>1 DEF IsImage, ImageFields
<1>6. r.answered = p.answered /\ r.map = p.map /\ r.c.sock = p.c.sock
  <2> HIDE DEF e, q, d, r
  <2> QED BY <1>1, <1>2, <1>4, <1>5 DEF SameTalk
<1>7. SameTalk(r, RouteRequest(r, o))
  <2> HIDE DEF r
  <2> QED BY <1>5, RouteRequestTalk
<1>8. Reset(p, o) = IF p.c.more THEN RouteRequest(r, o) ELSE r
  BY DEF Reset
<1> HIDE DEF e, q, d, r
<1>9. CASE p.c.more
  BY <1>4, <1>5, <1>6, <1>7, <1>8, <1>9 DEF SameTalk, Wanted
<1>10. CASE ~p.c.more
  BY <1>4, <1>5, <1>6, <1>8, <1>10 DEF Wanted
<1> QED BY <1>9, <1>10

LEMMA AdvanceAsks ==
  ASSUME NEW front \in FrontRequest, NEW seg \in Segments
  PROVE  Advance(front, seg) # "none"
BY DEF FrontRequest, Segments, Advance

LEMMA ClientRecvHttpTalk ==
  ASSUME NEW x \in Conn, NEW t0, NEW p, Good(p, x, t0), NEW o, Wanted(p.c)
  PROVE  Talks(p, ClientRecvHttp(p, o))
<1>1. IsImage(p) /\ p.c \in ClientRec /\ p.inbox \in Seq(Segments)
  BY DEF Good
<1>2. CASE p.inbox = <<>>
  <2> DEFINE q == [p EXCEPT !.ret = FALSE]
  <2>1. q.c = p.c /\ SameTalk(p, q)
    BY <1>1 DEF IsImage, ImageFields, SameTalk
  <2>2. ClientRecvHttp(p, o) = q
    BY <1>2 DEF ClientRecvHttp
  <2> HIDE DEF q
  <2> QED BY <2>1, <2>2, TalksSame
<1>3. CASE p.inbox # <<>>
  <2> DEFINE seg   == Head(p.inbox)
             front == Advance(p.c.req, seg)
             more  == p.c.req \in {"ready", "bad"} /\ seg = "full"
             body  == IF p.c.req = "body" /\ front = "ready" THEN "unsent" ELSE p.c.body
             d == [p.c EXCEPT !.req = front, !.body = body, !.more = p.c.more \/ more]
             p1 == [p EXCEPT !.c = d]
             q == [p EXCEPT !.inbox = Tail(p.inbox), !.c = d]
             r == CASE front \in {"part", "bad"} -> RouteError(q, 400, o)
                    [] front = "ready" -> RouteRequest(q, o)
                    [] OTHER -> q
             s == [r EXCEPT !.ret = TRUE]
  <2>1. seg \in Segments /\ Tail(p.inbox) \in Seq(Segments)
    BY <1>1, <1>3
  <2>2. p.c.req \in FrontRequest /\ p.c.body \in BodyState /\ p.c.more \in BOOLEAN
    BY <1>1 DEF ClientRec
  <2>3. front \in FrontRequest /\ front # "none"
    BY <2>1, <2>2, AdvanceType, AdvanceAsks
  <2>4. body \in BodyState /\ (p.c.more \/ more) \in BOOLEAN
    BY <2>2 DEF BodyState
  <2>5. /\ d \in ClientRec /\ SameHold(p.c, d) /\ d.req = front
        /\ d.doomed = p.c.doomed /\ d.sock = p.c.sock
    <3> HIDE DEF front, more, body
    <3> QED BY <1>1, <2>3, <2>4 DEF ClientRec, SameHold
  <2>6. Good(p1, x, t0)
    <3> HIDE DEF d
    <3> QED BY <2>5, SetClientGood
  <2>7. Alike(p1, q) /\ q.c = d /\ q.answered = p.answered /\ q.map = p.map /\ q.x = p.x
    <3>1. /\ p.answered \in Nat /\ p.kid \in [Conn -> Kid]
          /\ p.buf \in Seq(Entry) /\ p.del \in Seq(Fd)
      BY DEF Good
    <3> HIDE DEF d
    <3> QED BY <1>1, <2>1, <3>1 DEF Alike, IsImage, ImageFields
  <2>8. Good(q, x, t0)
    <3> HIDE DEF p1, q
    <3> QED BY <2>6, <2>7, AlikeGood
  <2>9. Good(r, x, t0) /\ SameTalk(q, r)
    <3>1. /\ Good(RouteError(q, 400, o), x, t0) /\ Good(RouteRequest(q, o), x, t0)
          /\ SameTalk(q, RouteError(q, 400, o)) /\ SameTalk(q, RouteRequest(q, o))
      <4> HIDE DEF q
      <4> QED BY <2>8, RouteErrorGood, RouteRequestGood, RouteErrorTalk, RouteRequestTalk
    <3>2. SameTalk(q, q)
      BY DEF SameTalk
    <3> HIDE DEF q, front
    <3> QED BY <2>8, <3>1, <3>2
  <2>10. s.c = r.c /\ SameTalk(r, s)
    <3> HIDE DEF r
    <3>1. IsImage(r)
      BY <2>9 DEF Good
    <3> QED BY <3>1 DEF IsImage, ImageFields, SameTalk
  <2>11. ClientRecvHttp(p, o) = s
    BY <1>3 DEF ClientRecvHttp
  <2> HIDE DEF front, d, q, r, s
  <2>12. s.c.req = front /\ s.answered = p.answered /\ s.map = p.map /\ s.c.sock = p.c.sock
    BY <2>5, <2>7, <2>9, <2>10 DEF SameTalk
  <2>13. Talks(p, s)
    BY <2>3, <2>12 DEF Talks, Wanted
  <2> QED BY <2>11, <2>13
<1> QED BY <1>2, <1>3

\* The transfers of a content leave the conversation alone.
LEMMA ClientRecvStaticFileTalk ==
  ASSUME NEW x \in Conn, NEW t0, NEW p, Good(p, x, t0), NEW o
  PROVE  SameTalk(p, ClientRecvStaticFile(p, o))
<1>1. IsImage(p) /\ p.c \in ClientRec
  BY DEF Good
<1>2. CASE p.c.pos = FileLen \/ o.shrinks
  <2> DEFINE q == WithStatus(p, 500)
             r == IF p.c.got # FileLen THEN ProcessResponseError(q, o) ELSE p
             s == [r EXCEPT !.ret = FALSE]
  <2>1. Good(q, x, t0) /\ SameTalk(p, q)
    BY WithStatusGood, WithStatusTalk
  <2>2. /\ Good(ProcessResponseError(q, o), x, t0)
        /\ SameTalk(q, ProcessResponseError(q, o))
    <3> HIDE DEF q
    <3> QED BY <2>1, ProcessResponseErrorGood, ProcessResponseErrorTalk
  <2>3. IsImage(r) /\ SameTalk(p, r)
    <3>1. CASE p.c.got # FileLen
      <4> HIDE DEF q
      <4> QED BY <2>1, <2>2, <3>1, SameTalkTrans DEF Good
    <3>2. CASE p.c.got = FileLen
      BY <1>1, <3>2 DEF SameTalk
    <3> QED BY <3>1, <3>2
  <2>4. ClientRecvStaticFile(p, o) = s
    BY <1>2 DEF ClientRecvStaticFile
  <2>5. SameTalk(r, s)
    <3> HIDE DEF r
    <3> QED BY <2>3, SetAsideTalk
  <2> HIDE DEF r, s
  <2> QED BY <2>3, <2>4, <2>5, SameTalkTrans
<1>3. CASE ~(p.c.pos = FileLen \/ o.shrinks)
  <2> DEFINE got == IF p.c.got > FileLen THEN p.c.got ELSE p.c.got + 1
             d == [p.c EXCEPT !.pos = p.c.pos + 1, !.got = got,
                              !.ready = p.c.ready \/ got = FileLen]
             q == [p EXCEPT !.c = d, !.ret = got # FileLen]
  <2>1. d.req = p.c.req /\ d.doomed = p.c.doomed /\ d.sock = p.c.sock
    <3> HIDE DEF got
    <3> QED BY <1>1 DEF ClientRec
  <2>2. ClientRecvStaticFile(p, o) = q
    BY <1>3 DEF ClientRecvStaticFile
  <2> HIDE DEF got, d
  <2>3. q.c = d /\ q.answered = p.answered /\ q.map = p.map
    BY <1>1 DEF IsImage, ImageFields
  <2> HIDE DEF q
  <2> QED BY <2>1, <2>2, <2>3 DEF SameTalk
<1> QED BY <1>2, <1>3

LEMMA ClientRecvCgiTalk ==
  ASSUME NEW x \in Conn, NEW t0, NEW p, Good(p, x, t0), NEW o
  PROVE  SameTalk(p, ClientRecvCgi(p, o))
<1> DEFINE f == FinishCgi(p)
           kids == [p.kid EXCEPT ![p.x].out = "read"]
<1>1. /\ IsImage(p) /\ SameTalk(p, p)
      /\ IsImage(f) /\ SameTalk(p, f)
  <2>1. Good(f, x, t0) /\ SameTalk(p, f)
    BY FinishGood, FinishTalk
  <2> HIDE DEF f
  <2> QED BY <2>1 DEF Good, SameTalk
<1>2. \A b, c : /\ SameTalk(p, [p EXCEPT !.kid = b, !.ret = c])
               /\ SameTalk(f, [f EXCEPT !.kid = b, !.ret = c])
  <2> HIDE DEF f
  <2> QED BY <1>1 DEF SameTalk, IsImage, ImageFields
<1>3. \A c : /\ SameTalk(p, [p EXCEPT !.ret = c])
            /\ SameTalk(f, [f EXCEPT !.ret = c])
  <2> HIDE DEF f
  <2> QED BY <1>1, SetAsideTalk
<1>4. \E q \in {p, f} : \E c : ClientRecvCgi(p, o) \in {[q EXCEPT !.ret = c],
                                                     [q EXCEPT !.kid = kids, !.ret = c]}
  <2>1. CASE p.kid[p.x].out = "unread" /\ o.whole
    BY <2>1 DEF ClientRecvCgi
  <2>2. CASE p.kid[p.x].out = "unread" /\ ~o.whole
    BY <2>2 DEF ClientRecvCgi
  <2>3. CASE p.kid[p.x].out # "unread" /\ p.kid[p.x].run = "running"
    BY <2>3 DEF ClientRecvCgi
  <2>4. CASE p.kid[p.x].out # "unread" /\ p.kid[p.x].run # "running"
    BY <2>4 DEF ClientRecvCgi
  <2> QED BY <2>1, <2>2, <2>3, <2>4
<1>a. PICK q \in {p, f} : \E c : ClientRecvCgi(p, o) \in {[q EXCEPT !.ret = c],
                                                          [q EXCEPT !.kid = kids, !.ret = c]}
  BY <1>4
<1>5. PICK c : ClientRecvCgi(p, o) \in {[q EXCEPT !.ret = c], [q EXCEPT !.kid = kids, !.ret = c]}
  BY <1>a
<1> DEFINE r == [q EXCEPT !.ret = c]
           s == [q EXCEPT !.kid = kids, !.ret = c]
<1>6. SameTalk(p, q) /\ SameTalk(q, r) /\ SameTalk(q, s)
  <2> HIDE DEF f, kids
  <2>1. CASE q = p
    BY <1>1, <1>2, <1>3, <2>1
  <2>2. CASE q = f
    BY <1>1, <1>2, <1>3, <2>2
  <2> QED BY <2>1, <2>2
<1>7. ClientRecvCgi(p, o) \in {r, s}
  BY <1>5
<1> HIDE DEF r, s
<1> QED BY <1>6, <1>7, SameTalkTrans

LEMMA ClientRecvContentTalk ==
  ASSUME NEW x \in Conn, NEW t0, NEW p, Good(p, x, t0), NEW o
  PROVE  SameTalk(p, ClientRecvContent(p, o))
<1> DEFINE q == CheckStatus(p)
           n == [p EXCEPT !.ret = FALSE]
<1>1. Good(q, x, t0) /\ SameTalk(p, q)
  BY CheckStatusGood, CheckStatusTalk
<1>2. SameTalk(q, ClientRecvCgi(q, o)) /\ SameTalk(q, ClientRecvStaticFile(q, o))
  <2> HIDE DEF q
  <2> QED BY <1>1, ClientRecvCgiTalk, ClientRecvStaticFileTalk
<1>3. SameTalk(p, n)
  BY SetAsideTalk DEF Good
<1>4. ClientRecvContent(p, o) \in {n, q, ClientRecvCgi(q, o),
                                  ClientRecvStaticFile(q, o)}
  BY DEF ClientRecvContent
<1> HIDE DEF q, n
<1> QED BY <1>1, <1>2, <1>3, <1>4, SameTalkTrans

LEMMA ClientSendContentTalk ==
  ASSUME NEW x \in Conn, NEW t0, NEW p, Good(p, x, t0), NEW o
  PROVE  SameTalk(p, ClientSendContent(p, o))
<1> DEFINE q == CheckStatus(p)
           sent == [q.c EXCEPT !.body = "sent"]
           partly == [q.c EXCEPT !.body = "partly"]
           kids == [q.kid EXCEPT ![p.x].full = TRUE]
           n == [p EXCEPT !.ret = FALSE]
           m == [q EXCEPT !.ret = FALSE]
           k == [q EXCEPT !.killed = TRUE]
           r == [q EXCEPT !.c = sent, !.ret = FALSE]
           s == [q EXCEPT !.c = partly, !.kid = kids, !.ret = TRUE]
<1>1. Good(q, x, t0) /\ SameTalk(p, q)
  BY CheckStatusGood, CheckStatusTalk
<1>2. IsImage(p) /\ IsImage(q) /\ q.c \in ClientRec
  <2> HIDE DEF q
  <2> QED BY <1>1 DEF Good
<1>3. SameTalk(p, n) /\ SameTalk(q, m) /\ SameTalk(q, k)
  <2> HIDE DEF q
  <2> QED BY <1>2, SetAsideTalk
<1>4. /\ sent.req = q.c.req /\ sent.doomed = q.c.doomed /\ sent.sock = q.c.sock
      /\ partly.req = q.c.req /\ partly.doomed = q.c.doomed /\ partly.sock = q.c.sock
  <2> HIDE DEF q
  <2> QED BY <1>2 DEF ClientRec
<1>5. SameTalk(q, r) /\ SameTalk(q, s)
  <2> HIDE DEF q, sent, partly, kids
  <2>1. /\ r.c = sent /\ r.answered = q.answered /\ r.map = q.map
        /\ s.c = partly /\ s.answered = q.answered /\ s.map = q.map
    BY <1>2 DEF IsImage, ImageFields
  <2> HIDE DEF r, s
  <2> QED BY <1>4, <2>1 DEF SameTalk
<1>6. ClientSendContent(p, o) \in {n, m, k, r, s}
  BY DEF ClientSendContent
<1> HIDE DEF q, n, m, k, r, s
<1> QED BY <1>1, <1>3, <1>5, <1>6, SameTalkTrans

LEMMA CheckContentStatusTalk ==
  ASSUME NEW x \in Conn, NEW t0, NEW p, Good(p, x, t0)
  PROVE  SameTalk(p, CheckContentStatus(p))
<1> DEFINE q == CheckStatus(p)
           f == Finish(p)
           e == FinishCgi(q)
           g == [f EXCEPT !.ret = TRUE]
           n == [p EXCEPT !.ret = FALSE]
<1>1. /\ Good(q, x, t0) /\ SameTalk(p, q)
      /\ Good(f, x, t0) /\ SameTalk(p, f)
  BY CheckStatusGood, CheckStatusTalk, FinishGood, FinishTalk
<1>2. SameTalk(q, e)
  <2> HIDE DEF q
  <2> QED BY <1>1, FinishTalk
<1>3. SameTalk(f, g) /\ SameTalk(p, n)
  <2> HIDE DEF f
  <2>1. IsImage(f) /\ IsImage(p)
    BY <1>1 DEF Good
  <2> QED BY <2>1, SetAsideTalk
<1>4. CheckContentStatus(p) \in {q, e, g, n}
  BY DEF CheckContentStatus
<1> HIDE DEF q, f, e, g, n
<1> QED BY <1>1, <1>2, <1>3, <1>4, SameTalkTrans

----------------------------------------------------------------------------
(* What Server does around a transfer                                      *)

LEMMA MarkTalk ==
  ASSUME NEW x \in Conn, NEW t0, NEW p, Good(p, x, t0), NEW fd
  PROVE  /\ SameTalk(p, MarkFd(p, fd)) /\ MarkFd(p, fd).c = p.c
         /\ SameTalk(p, MarkContent(p)) /\ MarkContent(p).c = p.c
<1> DEFINE s == p.del \o (CASE p.c.content = "none" -> <<>>
                            [] p.c.content = "file" -> <<p.c.in>>
                            [] OTHER -> <<p.c.in, p.c.out>>)
<1>1. MarkFd(p, fd) = [p EXCEPT !.del = Append(p.del, fd)] /\ MarkContent(p) = [p EXCEPT !.del = s]
  BY DEF MarkFd, MarkContent
<1>2. \A b : SameTalk(p, [p EXCEPT !.del = b]) /\ [p EXCEPT !.del = b].c = p.c
  BY DEF Good, SameTalk, IsImage, ImageFields
<1> HIDE DEF s
<1> QED BY <1>1, <1>2

LEMMA DoomTalk ==
  ASSUME NEW x \in Conn, NEW t0, NEW p, Good(p, x, t0)
  PROVE  /\ Doom(p).answered = p.answered /\ Doom(p).map = p.map /\ Doom(p).c.sock = p.c.sock
         /\ Doom(p).c.doomed /\ (Wanted(p.c) => Wanted(Doom(p).c))
         /\ Doom(p).c.req = p.c.req
<1> DEFINE d == [p.c EXCEPT !.doomed = TRUE]
<1>1. IsImage(p) /\ p.c \in ClientRec
  BY DEF Good
<1>2. /\ d.sock = p.c.sock /\ d.doomed /\ d.req = p.c.req
      /\ d.ready = p.c.ready /\ d.content = p.c.content
  BY <1>1 DEF ClientRec
<1>3. Doom(p).answered = p.answered /\ Doom(p).map = p.map /\ Doom(p).c = d
  BY <1>1 DEF Doom, IsImage, ImageFields
<1> HIDE DEF d
<1> QED BY <1>2, <1>3 DEF Wanted

LEMMA MarkClientTalk ==
  ASSUME NEW x \in Conn, NEW t0, NEW p, Good(p, x, t0)
  PROVE  /\ MarkClient(p).answered = p.answered /\ MarkClient(p).map = p.map
         /\ MarkClient(p).c.sock = p.c.sock /\ MarkClient(p).c.req = p.c.req
         /\ MarkClient(p).c.doomed /\ (Wanted(p.c) => Wanted(MarkClient(p).c))
<1> DEFINE q == Doom(p)
           r == [q EXCEPT !.del = q.del \o <<p.c.sock, p.c.sock>>]
<1>1. Good(q, x, t0)
  BY DoomGood
<1>2. Good(r, x, t0) /\ r.c = q.c /\ r.answered = q.answered /\ r.map = q.map
  <2> HIDE DEF q
  <2>1. q.del \in Seq(Fd) /\ p.c.sock \in Fd
    BY <1>1, HoldsFds DEF Good
  <2>2. q.del \o <<p.c.sock, p.c.sock>> \in Seq(Fd)
    BY <2>1
  <2>3. Good(r, x, t0)
    BY <1>1, <2>2, MarkGood
  <2> QED BY <1>1, <2>3 DEF Good, IsImage, ImageFields
<1>3. SameTalk(r, MarkContent(r)) /\ MarkContent(r).c = r.c
  <2> HIDE DEF r
  <2> QED BY <1>2, MarkTalk
<1>4. MarkClient(p) = MarkContent(r)
  BY DEF MarkClient
<1>5. /\ q.answered = p.answered /\ q.map = p.map /\ q.c.sock = p.c.sock
      /\ q.c.doomed /\ (Wanted(p.c) => Wanted(q.c)) /\ q.c.req = p.c.req
  BY DoomTalk
<1> HIDE DEF q, r
<1> QED BY <1>2, <1>3, <1>4, <1>5 DEF SameTalk

\* A client that is let go may have had its request taken back before.
LEMMA MarkClientTalks ==
  ASSUME NEW x \in Conn, NEW t0, NEW p, NEW q, Good(q, x, t0),
         Wanted(q.c), q.c.sock = p.c.sock,
         q.answered \in {p.answered, p.answered + 1},
         q.answered # p.answered => p.c.req # "none",
         \A f \in Fd : q.map[f] = p.map[f] \/ (q.map[f] = p.x /\ q.c.req # "none")
  PROVE  Talks(p, MarkClient(q))
<1> DEFINE r == MarkClient(q)
<1>1. /\ r.answered = q.answered /\ r.map = q.map /\ r.c.sock = q.c.sock
      /\ r.c.req = q.c.req /\ r.c.doomed /\ Wanted(r.c)
  BY MarkClientTalk
<1> HIDE DEF r
<1>2. Talks(p, r)
  BY <1>1 DEF Talks
<1> QED BY <1>2 DEF r

LEMMA ClientSendResponseTalk ==
  ASSUME NEW x \in Conn, NEW t0, NEW p, Good(p, x, t0), NEW o, Wanted(p.c), p.c.ready,
         NEW q, q = ClientSendResponse(p, o)
  PROVE  IF q.ret THEN Talks(p, q) ELSE Talks(p, MarkClient(q))
<1>1. IsImage(p) /\ p.c \in ClientRec /\ p.answered \in Nat /\ p.up \in BOOLEAN
  BY DEF Good
<1>2. p.c.req # "none"
  BY DEF Wanted
<1>3. Good(q, x, t0)
  BY ClientSendResponseGood
<1> DEFINE n == IF p.up THEN p.answered + 1 ELSE p.answered
<1>4. CASE q = [p EXCEPT !.killed = TRUE]
  <2>1. q.c = p.c /\ q.answered = p.answered /\ q.map = p.map
    BY <1>1, <1>4 DEF IsImage, ImageFields
  <2>2. Talks(p, q)
    <3>1. SameTalk(p, q)
      BY <2>1 DEF SameTalk
    <3> QED BY <1>2, <3>1, TalksSame
  <2>3. Talks(p, MarkClient(q))
    BY <1>3, <2>1, MarkClientTalks
  <2> QED BY <2>2, <2>3
<1>5. CASE q = [Reset(p, o) EXCEPT !.ret = FALSE]
  <2> DEFINE r == Reset(p, o)
  <2>1. Good(r, x, t0)
    BY ResetGood
  <2>2. Wanted(r.c) /\ r.c.sock = p.c.sock /\ r.answered = p.answered /\ r.map = p.map
    BY ResetTalk
  <2>3. q = [r EXCEPT !.ret = FALSE]
    BY <1>5
  <2> HIDE DEF r
  <2>4. q.c = r.c /\ q.answered = r.answered /\ q.map = r.map /\ ~q.ret
    BY <2>1, <2>3 DEF Good, IsImage, ImageFields
  <2>5. Talks(p, MarkClient(q))
    BY <1>3, <2>2, <2>4, MarkClientTalks
  <2> QED BY <2>4, <2>5
<1>6. CASE q = [p EXCEPT !.answered = n, !.ret = FALSE]
  <2>1. q.c = p.c /\ q.answered = n /\ q.map = p.map /\ ~q.ret
    BY <1>1, <1>6 DEF IsImage, ImageFields
  <2>2. n \in {p.answered, p.answered + 1}
    OBVIOUS
  <2>3. Talks(p, MarkClient(q))
    BY <1>2, <1>3, <2>1, <2>2, MarkClientTalks
  <2> QED BY <2>1, <2>3
<1>7. CASE q = [p EXCEPT !.c = [p.c EXCEPT !.begun = TRUE], !.ret = TRUE]
  <2> DEFINE d == [p.c EXCEPT !.begun = TRUE]
  <2>1. q = [p EXCEPT !.c = d, !.ret = TRUE]
    BY <1>7
  <2>2. d.req = p.c.req /\ d.doomed = p.c.doomed /\ d.sock = p.c.sock
    BY <1>1 DEF ClientRec
  <2> HIDE DEF d
  <2>3. q.c = d /\ q.answered = p.answered /\ q.map = p.map /\ q.ret
    BY <1>1, <2>1 DEF IsImage, ImageFields
  <2>4. SameTalk(p, q)
    BY <2>2, <2>3 DEF SameTalk
  <2>5. Talks(p, q)
    BY <1>2, <2>4, TalksSame
  <2> QED BY <2>3, <2>5
<1>8. q \in {[p EXCEPT !.killed = TRUE], [Reset(p, o) EXCEPT !.ret = FALSE],
            [p EXCEPT !.answered = n, !.ret = FALSE],
            [p EXCEPT !.c = [p.c EXCEPT !.begun = TRUE], !.ret = TRUE]}
  BY DEF ClientSendResponse
<1> HIDE DEF n
<1> QED BY <1>4, <1>5, <1>6, <1>7, <1>8

LEMMA DoomTalks ==
  ASSUME NEW x \in Conn, NEW t0, NEW p, Good(p, x, t0), Wanted(p.c)
  PROVE  Talks(p, Doom(p))
<1> DEFINE q == Doom(p)
<1>1. /\ q.answered = p.answered /\ q.map = p.map /\ q.c.sock = p.c.sock
      /\ q.c.doomed /\ Wanted(q.c)
  BY DoomTalk
<1> HIDE DEF q
<1>2. Talks(p, q)
  BY <1>1 DEF Talks
<1> QED BY <1>2 DEF q

\* The socket is ready.
LEMMA SocketTalks ==
  ASSUME NEW x \in Conn, NEW t0, NEW p, Good(p, x, t0), Wanted(p.c), NEW o
  PROVE  /\ Talks(p, HandleClientRecv(p, p.c.sock, o))
         /\ Talks(p, HandleClientSent(p, p.c.sock, o))
         /\ Talks(p, CleanUpClient(p, p.c.sock, o))
         /\ Talks(p, Error2Client(p, p.c.sock, o))
<1>1. Talks(p, HandleClientRecv(p, p.c.sock, o))
  <2> DEFINE q == ClientRecvHttp(p, o)
  <2>1. Good(q, x, t0) /\ Talks(p, q)
    BY ClientRecvHttpGood, ClientRecvHttpTalk
  <2>2. HandleClientRecv(p, p.c.sock, o) = IF q.ret THEN q ELSE MarkClient(q)
    BY DEF HandleClientRecv
  <2> HIDE DEF q
  <2>3. /\ Wanted(q.c) /\ q.c.sock = p.c.sock
        /\ q.answered \in {p.answered, p.answered + 1}
        /\ q.answered # p.answered => p.c.req # "none"
        /\ \A f \in Fd : q.map[f] = p.map[f] \/ (q.map[f] = p.x /\ q.c.req # "none")
    BY <2>1 DEF Talks
  <2>4. Talks(p, MarkClient(q))
    BY <2>1, <2>3, MarkClientTalks
  <2> QED BY <2>1, <2>2, <2>4
<1>2. Talks(p, HandleClientSent(p, p.c.sock, o))
  <2>1. CASE ~p.c.ready
    <3>1. HandleClientSent(p, p.c.sock, o) = p
      BY <2>1 DEF HandleClientSent
    <3>2. SameTalk(p, p)
      BY DEF SameTalk
    <3> QED BY <3>1, <3>2, TalksSame
  <2>2. CASE p.c.ready
    <3> DEFINE q == ClientSendResponse(p, o)
    <3>1. HandleClientSent(p, p.c.sock, o) = IF q.ret THEN q ELSE MarkClient(q)
      BY <2>2 DEF HandleClientSent
    <3>2. IF q.ret THEN Talks(p, q) ELSE Talks(p, MarkClient(q))
      BY <2>2, ClientSendResponseTalk
    <3> HIDE DEF q
    <3> QED BY <3>1, <3>2
  <2> QED BY <2>1, <2>2
<1>3. /\ CleanUpClient(p, p.c.sock, o) = Doom(p)
      /\ Error2Client(p, p.c.sock, o) = Doom(p)
  BY DEF CleanUpClient, Error2Client
<1> QED BY <1>1, <1>2, <1>3, DoomTalks

\* A content is ready.
LEMMA ContentTalks ==
  ASSUME NEW x \in Conn, NEW t0, NEW p, Good(p, x, t0), NEW fd, fd # p.c.sock, NEW o
  PROVE  /\ SameTalk(p, HandleClientRecv(p, fd, o))
         /\ SameTalk(p, HandleClientSent(p, fd, o))
         /\ SameTalk(p, CleanUpClient(p, fd, o))
         /\ SameTalk(p, Error2Client(p, fd, o))
<1>1. SameTalk(p, HandleClientRecv(p, fd, o))
  <2> DEFINE q == ClientRecvContent(p, o)
  <2>1. Good(q, x, t0) /\ SameTalk(p, q)
    BY ClientRecvContentGood, ClientRecvContentTalk
  <2>2. HandleClientRecv(p, fd, o) \in {q, MarkFd(q, fd), MarkContent(q)}
    BY DEF HandleClientRecv
  <2> HIDE DEF q
  <2>3. SameTalk(q, MarkFd(q, fd)) /\ SameTalk(q, MarkContent(q))
    BY <2>1, MarkTalk
  <2> QED BY <2>1, <2>2, <2>3, SameTalkTrans
<1>2. SameTalk(p, HandleClientSent(p, fd, o))
  <2> DEFINE q == ClientSendContent(p, o)
  <2>1. Good(q, x, t0) /\ SameTalk(p, q)
    BY ClientSendContentGood, ClientSendContentTalk
  <2>2. HandleClientSent(p, fd, o) \in {q, MarkFd(q, fd)}
    BY DEF HandleClientSent
  <2> HIDE DEF q
  <2>3. SameTalk(q, MarkFd(q, fd))
    BY <2>1, MarkTalk
  <2> QED BY <2>1, <2>2, <2>3, SameTalkTrans
<1>3. SameTalk(p, CleanUpClient(p, fd, o))
  <2> DEFINE q == CheckContentStatus(p)
             e == ErrorOverwriteResponse(q, 500, o)
  <2>1. Good(q, x, t0) /\ SameTalk(p, q)
    BY CheckContentStatusGood, CheckContentStatusTalk
  <2>2. Good(e, x, t0) /\ SameTalk(q, e)
    <3> HIDE DEF q
    <3> QED BY <2>1, ErrorOverwriteResponseGood, ErrorOverwriteResponseTalk
  <2>3. CleanUpClient(p, fd, o) \in {MarkFd(q, fd), MarkFd(e, fd)}
    BY DEF CleanUpClient
  <2> HIDE DEF q, e
  <2>4. SameTalk(q, MarkFd(q, fd)) /\ SameTalk(e, MarkFd(e, fd))
    BY <2>1, <2>2, MarkTalk
  <2> QED BY <2>1, <2>2, <2>3, <2>4, SameTalkTrans
<1>4. SameTalk(p, Error2Client(p, fd, o))
  <2> DEFINE e == ErrorOverwriteResponse(p, 500, o)
  <2>1. Good(e, x, t0) /\ SameTalk(p, e)
    BY ErrorOverwriteResponseGood, ErrorOverwriteResponseTalk
  <2>2. Error2Client(p, fd, o) = MarkFd(e, fd)
    BY DEF Error2Client
  <2> HIDE DEF e
  <2>3. SameTalk(e, MarkFd(e, fd))
    BY <2>1, MarkTalk
  <2> QED BY <2>1, <2>2, <2>3, SameTalkTrans
<1> QED BY <1>1, <1>2, <1>3, <1>4

LEMMA DispatchTalks ==
  ASSUME NEW x \in Conn, NEW t0, NEW p, Good(p, x, t0), Wanted(p.c), NEW fd,
         fd # p.c.sock => p.c.req # "none", NEW rev, NEW o,
         NEW q, q = Dispatch(p, fd, rev, o)
  PROVE  Talks(p, q) /\ (fd # p.c.sock => q.c.req # "none")
<1>1. q \in {HandleClientRecv(p, fd, o), HandleClientSent(p, fd, o), CleanUpClient(p, fd, o),
            Error2Client(p, fd, o), p}
  <2>1. CASE "IN" \in rev
    BY <2>1 DEF Dispatch
  <2>2. CASE "IN" \notin rev /\ "OUT" \in rev
    BY <2>2 DEF Dispatch
  <2>3. CASE "IN" \notin rev /\ "OUT" \notin rev /\ "HUP" \in rev
    BY <2>3 DEF Dispatch
  <2>4. CASE "IN" \notin rev /\ "OUT" \notin rev /\ "HUP" \notin rev
    BY <2>4 DEF Dispatch
  <2> QED BY <2>1, <2>2, <2>3, <2>4
<1>2. SameTalk(p, p)
  BY DEF SameTalk
<1>3. CASE fd = p.c.sock
  BY <1>1, <1>2, <1>3, SocketTalks, TalksSame
<1>4. CASE fd # p.c.sock
  <2>1. SameTalk(p, q)
    BY <1>1, <1>2, <1>4, ContentTalks
  <2> QED BY <1>4, <2>1, TalksSame DEF SameTalk
<1> QED BY <1>3, <1>4

LEMMA AddSingleFdTalk ==
  ASSUME NEW x \in Conn, NEW t0, NEW p, Good(p, x, t0), NEW fd, NEW events,
         NEW q, q = AddSingleFd(p, fd, events)
  PROVE  /\ q.c = p.c /\ q.answered = p.answered
         /\ \A f \in Fd : q.map[f] = p.map[f] \/ q.map[f] = x
<1> DEFINE m == IF p.map[fd] = Nobody THEN [p.map EXCEPT ![fd] = p.x] ELSE p.map
<1>1. p.x = x /\ p.map \in [Fd -> Conn \cup {Nobody}]
  BY DEF Good
<1>2. \A f \in Fd : m[f] = p.map[f] \/ m[f] = x
  BY <1>1
<1>3. q.c = p.c /\ q.answered = p.answered /\ q.map = m
  BY DEF Good, AddSingleFd, IsImage, ImageFields
<1> HIDE DEF m
<1> QED BY <1>2, <1>3

LEMMA AddClientContentFdTalks ==
  ASSUME NEW x \in Conn, NEW t0, NEW p, p.x = x, NEW q, Good(q, x, t0), Talks(p, q)
  PROVE  /\ Talks(p, AddClientContentFd(q))
         /\ AddClientContentFd(q).c.req = q.c.req
<1>1. CASE q.c.content = "none" \/ q.c.given
  <2>1. AddClientContentFd(q) = q
    BY <1>1 DEF AddClientContentFd
  <2> QED BY <2>1
<1>2. CASE ~(q.c.content = "none" \/ q.c.given)
  <2> DEFINE a == AddSingleFd(q, q.c.in, "IN")
             b == AddSingleFd(a, q.c.out, "OUT")
             r == IF q.c.content = "cgi" THEN b ELSE a
             d == [r.c EXCEPT !.given = TRUE]
             s == [r EXCEPT !.c = d]
  <2>1. q.c.req # "none"
    BY <1>2 DEF Talks, Wanted
  <2>2. /\ Good(a, x, t0) /\ a.c = q.c /\ a.answered = q.answered
        /\ \A f \in Fd : a.map[f] = q.map[f] \/ a.map[f] = x
    <3>1. q.c.in \in Fd
      BY <1>2, HoldsFds
    <3> QED BY <3>1, AddSingleFdGood, AddSingleFdTalk
  <2>3. q.c.content = "cgi" =>
          /\ Good(b, x, t0) /\ b.c = a.c /\ b.answered = a.answered
          /\ \A f \in Fd : b.map[f] = a.map[f] \/ b.map[f] = x
    <3>1. q.c.content = "cgi" => q.c.out \in Fd
      BY HoldsFds
    <3> HIDE DEF a
    <3> QED BY <2>2, <3>1, AddSingleFdGood, AddSingleFdTalk
  <2>4. /\ Good(r, x, t0) /\ r.c = q.c /\ r.answered = q.answered
        /\ \A f \in Fd : r.map[f] = q.map[f] \/ r.map[f] = x
    <3> HIDE DEF a, b
    <3> QED BY <2>2, <2>3
  <2>5. AddClientContentFd(q) = s
    BY <1>2 DEF AddClientContentFd
  <2> HIDE DEF a, b, r
  <2>6. /\ d.req = q.c.req /\ d.doomed = q.c.doomed /\ d.sock = q.c.sock
    BY <2>4 DEF Good, ClientRec
  <2> HIDE DEF d
  <2>7. s.c = d /\ s.answered = r.answered /\ s.map = r.map
    BY <2>4 DEF Good, IsImage, ImageFields
  <2> HIDE DEF s
  <2>8. Talks(p, s)
    BY <2>1, <2>4, <2>6, <2>7 DEF Talks, Wanted
  <2> QED BY <2>5, <2>6, <2>7, <2>8
<1> QED BY <1>1, <1>2

LEMMA TimeOutTalks ==
  ASSUME NEW x \in Conn, NEW t0, NEW p, p.x = x, NEW q, Good(q, x, t0), Talks(p, q),
         NEW fd \in Fd, fd # p.c.sock => q.c.req # "none", NEW o
  PROVE  Talks(p, TimeOut(q, fd, o))
<1> DEFINE status == CheckTimer(q, fd, o)
           m == IF fd # q.c.sock THEN MarkContent(q) ELSE q
           e == ErrorOverwriteResponse(m, status, o)
<1>1. CASE status = 200
  <2>1. TimeOut(q, fd, o) = q
    BY <1>1 DEF TimeOut
  <2> QED BY <2>1
<1>2. CASE status # 200
  <2>1. status \in Nat /\ q.c.req # "none"
    BY <1>2 DEF CheckTimer, Talks
  <2>2. Good(m, x, t0) /\ SameTalk(q, m)
    <3>1. Good(m, x, t0)
      BY MarkFdGood
    <3>2. SameTalk(q, m)
      BY MarkTalk DEF SameTalk
    <3> QED BY <3>1, <3>2
  <2>3. SameTalk(m, e)
    <3> HIDE DEF status, m
    <3> QED BY <2>1, <2>2, ErrorOverwriteResponseTalk
  <2>4. TimeOut(q, fd, o) = e
    BY <1>2 DEF TimeOut
  <2>5. q.x = x
    BY DEF Good
  <2> HIDE DEF status, m, e
  <2>6. SameTalk(q, e)
    BY <2>2, <2>3, SameTalkTrans
  <2> QED BY <2>1, <2>4, <2>5, <2>6, TalksThen
<1> QED BY <1>1, <1>2

\* Whatever handleClient() does for a client of x, the conversation goes on in order.
LEMMA HandledTalks ==
  ASSUME NEW x \in Conn, NEW t0, NEW p, p = Image(x), Good(p, x, t0), Wanted(p.c),
         NEW fd \in Fd, fd # p.c.sock => p.c.req # "none", NEW rev, NEW o
  PROVE  Talks(p, Handled(x, fd, rev, o))
<1> DEFINE q == Dispatch(p, fd, rev, o)
           r == AddClientContentFd(q)
<1>1. Good(q, x, t0) /\ Talks(p, q) /\ (fd # p.c.sock => q.c.req # "none") /\ p.x = x
  <2>1. Good(q, x, t0)
    BY DispatchGood
  <2>2. Talks(p, q) /\ (fd # p.c.sock => q.c.req # "none")
    BY DispatchTalks
  <2>3. p.x = x
    BY DEF Good
  <2> QED BY <2>1, <2>2, <2>3
<1>2. Good(r, x, t0) /\ Talks(p, r) /\ r.c.req = q.c.req
  <2> HIDE DEF q
  <2> QED BY <1>1, AddClientContentFdGood, AddClientContentFdTalks
<1>3. Talks(p, TimeOut(r, fd, o))
  <2> HIDE DEF q, r
  <2> QED BY <1>1, <1>2, TimeOutTalks
<1>4. Handled(x, fd, rev, o) = TimeOut(r, fd, o)
  BY DEF Handled
<1> QED BY <1>3, <1>4

----------------------------------------------------------------------------
(* The invariant                                                           *)

\* Whom a mapped descriptor leads to was accepted, and unless it is that client's socket,
\* the client was asked for something.
Led(f) ==
    LET x == client_mapping[f] IN
    /\ net[x].stage \in {"accepted", "closed"}
    /\ x \in Present \ Doomed /\ f # client[x].sock => client[x].req # "none"

\* How the clients stand with their peers: one that was answered is on its way out.
TalkInv ==
    /\ \A x \in Present : Wanted(client[x])
    /\ \A x \in Present \ Doomed : net[x].answered = 0
    /\ \A x \in Conn : net[x].answered \in {0, 1}
    /\ \A x \in Conn : net[x].stage \in {"new", "queued"} => net[x].answered = 0
    /\ \A f \in Fd : client_mapping[f] # Nobody => Led(f)

JInv == IInv /\ TalkInv

\* The moves of one connection that Lifecycle allows when things may go wrong.
Moves == {<<"absent", "waiting">>, <<"waiting", "open">>, <<"open", "asked">>,
          <<"asked", "replied">>, <<"open", "dropped">>, <<"asked", "dropped">>,
          <<"replied", "closed">>, <<"dropped", "closed">>}

Moved(x) == PhaseOf(x)' = PhaseOf(x) \/ <<PhaseOf(x), PhaseOf(x)'>> \in Moves

LEMMA MovesAreLife ==
  ASSUME Faults # {}, \A x \in Conn : Moved(x)
  PROVE  Life!Next
<1>1. \A x \in Conn : [y \in Conn |-> PhaseOf(y)][x] = PhaseOf(x)
                   /\ [y \in Conn |-> PhaseOf(y)]'[x] = PhaseOf(x)'
  OBVIOUS
<1> SUFFICES ASSUME NEW x \in Conn
             PROVE  \/ Life!Connect(x) \/ Life!Accept(x) \/ Life!Ask(x) \/ Life!Reply(x)
                    \/ Life!Drop(x) \/ Life!Close(x) \/ Life!Stay(x)
  BY DEF Life!Next
<1> DEFINE a == PhaseOf(x)
           b == PhaseOf(x)'
<1>2. [y \in Conn |-> PhaseOf(y)][x] = a /\ [y \in Conn |-> PhaseOf(y)]'[x] = b
  BY <1>1
<1>3. b = a \/ <<a, b>> \in Moves
  BY DEF Moved
<1> HIDE DEF a, b
<1>4. \/ b = a
      \/ a = "absent" /\ b = "waiting"
      \/ a = "waiting" /\ b = "open"
      \/ a = "open" /\ b = "asked"
      \/ a = "asked" /\ b = "replied"
      \/ (a = "open" \/ a = "asked") /\ b = "dropped"
      \/ (a = "replied" \/ a = "dropped") /\ b = "closed"
  BY <1>3 DEF Moves
<1> QED
  BY <1>2, <1>4 DEF Life!Connect, Life!Accept, Life!Ask, Life!Reply, Life!Drop, Life!Close,
     Life!Stay, Life!Step

\* A connection stays in its phase when neither its peer nor its client moves.
LEMMA SamePhase ==
  ASSUME NEW x \in Conn, net'[x].stage = net[x].stage, net'[x].answered = net[x].answered,
         client'[x] = client[x], Ended' <=> Ended
  PROVE  PhaseOf(x)' = PhaseOf(x)
BY DEF PhaseOf

\* Steps that leave the clients, the mapping and the peers' stages alone.
LEMMA QuietTalk ==
  ASSUME TalkInv, Sound, UNCHANGED <<client, client_mapping>>, Ended' <=> Ended,
         \A x \in Conn : net'[x].stage = net[x].stage /\ net'[x].answered = net[x].answered
  PROVE  TalkInv' /\ \A x \in Conn : Moved(x)
<1>1. \A x \in Conn : Moved(x)
  BY SamePhase DEF Moved
<1>2. Present' = Present /\ Doomed' = Doomed
  BY DEF Present, Doomed
<1>3. \A f \in Fd : client_mapping[f] # Nobody => client_mapping[f] \in Conn
  BY DEF Sound, Types
<1>4. \A f \in Fd : client_mapping'[f] # Nobody => Led(f)'
  <2> SUFFICES ASSUME NEW f \in Fd, client_mapping[f] # Nobody PROVE Led(f)'
    OBVIOUS
  <2>1. client_mapping[f] \in Conn /\ Led(f)
    BY <1>3 DEF TalkInv
  <2> QED BY <1>2, <2>1 DEF Led
<1>5. /\ \A x \in Present' : Wanted(client'[x])
      /\ \A x \in (Present \ Doomed)' : net'[x].answered = 0
      /\ \A x \in Conn : net'[x].answered \in {0, 1}
      /\ \A x \in Conn : net'[x].stage \in {"new", "queued"} => net'[x].answered = 0
  BY <1>2 DEF TalkInv, Present
<1> QED BY <1>1, <1>4, <1>5 DEF TalkInv

LEMMA ProcessEndsTalk ==
  ASSUME TalkInv, Sound, ~Ended, NEW how \in {"killed", "stopped"}, ProcessEnds(how),
         UNCHANGED net
  PROVE  TalkInv' /\ \A x \in Conn : Moved(x)
<1>1. /\ client' = [x \in Conn |-> NoClient] /\ client_mapping' = [f \in Fd |-> Nobody]
      /\ pc'.at = how
  BY DEF ProcessEnds, At
<1>2. Present' = {} /\ Ended'
  BY <1>1, NoClientType DEF Present, Ended
<1>3. TalkInv'
  BY <1>1, <1>2 DEF TalkInv
<1>4. ASSUME NEW x \in Conn
      PROVE  Moved(x)
  <2>1. net[x].stage \in {"new", "queued", "accepted", "closed"}
    BY DEF Sound, Types, NetRec
  <2>4. net[x].answered \in {0, 1}
    BY DEF TalkInv
  <2>2. CASE net[x].stage # "accepted" \/ net[x].answered = 1
    <3> SUFFICES PhaseOf(x)' = PhaseOf(x)
      BY DEF Moved
    <3>1. CASE net[x].stage = "new"
      BY <2>4, <3>1 DEF PhaseOf
    <3>2. CASE net[x].stage = "queued"
      BY <2>4, <3>2 DEF PhaseOf
    <3>3. CASE net[x].stage = "closed"
      BY <2>4, <3>3 DEF PhaseOf
    <3>4. CASE net[x].stage = "accepted"
      BY <2>2, <3>4 DEF PhaseOf
    <3> QED BY <2>1, <3>1, <3>2, <3>3, <3>4
  <2>3. CASE net[x].stage = "accepted" /\ net[x].answered = 0
    <3>1. PhaseOf(x)' = "dropped"
      BY <1>2, <2>3 DEF PhaseOf
    <3>2. PhaseOf(x) \in {"open", "asked", "dropped"}
      BY <2>3 DEF PhaseOf
    <3> QED BY <3>1, <3>2 DEF Moved, Moves
  <2> QED BY <2>2, <2>3, <2>4
<1> QED BY <1>3, <1>4

\* The phase of a connection that was accepted and whose process still runs.
LEMMA AcceptedPhase ==
  ASSUME NEW x \in Conn, net[x].stage = "accepted", net[x].answered \in {0, 1}, ~Ended
  PROVE  /\ net[x].answered = 1 => PhaseOf(x) = "replied"
         /\ net[x].answered = 0 /\ client[x].doomed => PhaseOf(x) = "dropped"
         /\ net[x].answered = 0 /\ ~client[x].doomed /\ client[x].req = "none" =>
              PhaseOf(x) = "open"
         /\ net[x].answered = 0 /\ ~client[x].doomed /\ client[x].req # "none" =>
              PhaseOf(x) = "asked"
BY DEF PhaseOf

LEMMA StoreTalk ==
  ASSUME TalkInv, Sound, pc.at = "client", NEW x \in Present \ Doomed,
         NEW p, Good(p, x, fdtab), Talks(Image(x), p), Store(x, p)
  PROVE  TalkInv' /\ \A y \in Conn : Moved(y)
<1>1. x \in Conn /\ net[x].stage = "accepted" /\ ~client[x].doomed
  BY DEF Present, Doomed, Sound, Queues
<1>2. /\ client' = [client EXCEPT ![x] = p.c] /\ client_mapping' = p.map
      /\ net' = [net EXCEPT ![x].inbox = p.inbox, ![x].answered = p.answered]
      /\ pc' = NextClient
  BY DEF Store
<1>3. ~Ended /\ ~Ended'
  BY <1>2, NextPlaces DEF Ended
<1>4. client \in [Conn -> ClientRec] /\ net \in [Conn -> NetRec] /\ p.c.here
      /\ client_mapping \in [Fd -> Conn \cup {Nobody}]
  BY DEF Sound, Types, Good
<1>5. client'[x] = p.c /\ \A y \in Conn : y # x => client'[y] = client[y]
  BY <1>1, <1>2, <1>4
<1>6. /\ net'[x].answered = p.answered /\ \A y \in Conn : y # x => net'[y] = net[y]
      /\ \A y \in Conn : net'[y].stage = net[y].stage
  <2> DEFINE n == [net[x] EXCEPT !.inbox = p.inbox, !.answered = p.answered]
  <2>1. n.stage = net[x].stage /\ n.answered = p.answered
    BY <1>1, <1>4 DEF NetRec
  <2>2. net' = [net EXCEPT ![x] = n]
    BY <1>1, <1>2, <1>4 DEF NetRec
  <2> HIDE DEF n
  <2> QED BY <1>1, <1>4, <2>1, <2>2
<1>7. /\ Wanted(p.c) /\ p.c.sock = client[x].sock
      /\ net[x].answered = 0 /\ p.answered \in {0, 1}
      /\ p.answered = 1 => client[x].req # "none" /\ p.c.doomed
      /\ ~p.c.doomed /\ client[x].req # "none" => p.c.req # "none"
      /\ \A f \in Fd : p.map[f] = client_mapping[f] \/ (p.map[f] = x /\ p.c.req # "none")
  <2>1. net[x].answered = 0
    BY DEF TalkInv
  <2>2. Image(x).answered = net[x].answered /\ Image(x).c = client[x]
        /\ Image(x).map = client_mapping /\ Image(x).x = x
    BY DEF Image
  <2> QED BY <2>1, <2>2 DEF Talks
<1>8. Present' = Present /\ \A y \in Conn : y # x => (y \in Doomed' <=> y \in Doomed)
  BY <1>4, <1>5 DEF Present, Doomed
<1>9. x \in Doomed' <=> p.c.doomed
  BY <1>5, <1>8 DEF Doomed
<1>10. TalkInv'
  <2>1. \A y \in Present' : Wanted(client'[y])
    BY <1>5, <1>7, <1>8 DEF TalkInv, Present
  <2>2. /\ \A y \in (Present \ Doomed)' : net'[y].answered = 0
        /\ \A y \in Conn : net'[y].answered \in {0, 1}
        /\ \A y \in Conn : net'[y].stage \in {"new", "queued"} => net'[y].answered = 0
    BY <1>1, <1>6, <1>7, <1>8, <1>9 DEF TalkInv, Present
  <2>3. ASSUME NEW f \in Fd, client_mapping'[f] # Nobody
        PROVE  Led(f)'
    <3>1. CASE p.map[f] = x
      <4>1. client_mapping'[f] = x /\ net'[x].stage = "accepted"
        BY <1>1, <1>2, <1>6, <3>1
      <4>2. x \notin Doomed' /\ f # p.c.sock => p.c.req # "none"
        <5>1. CASE p.map[f] = client_mapping[f]
          <6>1. Led(f) /\ client_mapping[f] = x
            BY <1>1, <3>1, <5>1, NobodyAssumption DEF TalkInv
          <6>2. f # client[x].sock => client[x].req # "none"
            BY <6>1 DEF Led
          <6> QED BY <1>7, <1>9, <6>2
        <5>2. CASE p.map[f] # client_mapping[f]
          BY <1>7, <5>2
        <5> QED BY <5>1, <5>2
      <4> QED BY <1>5, <4>1, <4>2 DEF Led
    <3>2. CASE p.map[f] # x
      <4> DEFINE y == client_mapping[f]
      <4>1. client_mapping'[f] = y /\ y # x /\ y \in Conn
        BY <1>2, <1>4, <1>7, <2>3, <3>2
      <4>2. Led(f)
        BY <1>2, <1>7, <2>3, <3>2 DEF TalkInv
      <4>3. /\ net'[y].stage = net[y].stage /\ client'[y] = client[y]
            /\ y \in (Present \ Doomed)' <=> y \in Present \ Doomed
        BY <1>5, <1>6, <1>8, <4>1
      <4> QED BY <4>1, <4>2, <4>3 DEF Led
    <3> QED BY <3>1, <3>2
  <2> QED BY <2>1, <2>2, <2>3 DEF TalkInv
<1>11. ASSUME NEW y \in Conn
       PROVE  Moved(y)
  <2>1. CASE y # x
    <3>1. PhaseOf(y)' = PhaseOf(y)
      BY <1>3, <1>5, <1>6, <2>1, SamePhase
    <3> QED BY <3>1 DEF Moved
  <2>2. CASE y = x
    <3> DEFINE a == PhaseOf(x)
               b == PhaseOf(x)'
    <3>1. a = (IF client[x].req = "none" THEN "open" ELSE "asked")
      BY <1>1, <1>3, <1>7, AcceptedPhase
    <3>2. /\ p.answered = 1 => b = "replied"
          /\ p.answered = 0 /\ p.c.doomed => b = "dropped"
          /\ p.answered = 0 /\ ~p.c.doomed /\ p.c.req = "none" => b = "open"
          /\ p.answered = 0 /\ ~p.c.doomed /\ p.c.req # "none" => b = "asked"
      BY <1>1, <1>3, <1>5, <1>6, <1>7 DEF PhaseOf
    <3>3. p.c.doomed \in BOOLEAN
      BY DEF Good, ClientRec
    <3>4. b = a \/ <<a, b>> \in Moves
      <4> HIDE DEF a, b
      <4> QED BY <1>7, <3>1, <3>2, <3>3 DEF Moves
    <3> QED BY <2>2, <3>4 DEF Moved
  <2> QED BY <2>1, <2>2
<1> QED BY <1>10, <1>11

LEMMA HandleClientTalk ==
  ASSUME TalkInv, IInv, HandleClient
  PROVE  TalkInv' /\ \A y \in Conn : Moved(y)
<1> DEFINE fd == socket_fds[pc.i].fd
           x  == client_mapping[fd]
           p(o) == Handled(x, fd, revents[pc.i], o)
<1>1. pc.at = "client" /\ ~Ended /\ Sound /\ Lists
  BY DEF HandleClient, Ended, IInv
<1>2. CASE UNCHANGED <<client, client_mapping, net>> /\ pc' \in {NextClient, At("undefined", 0)}
  <2>1. ~Ended'
    BY <1>2, NextPlaces DEF Ended, At
  <2> QED BY <1>1, <1>2, <2>1, QuietTalk
<1>3. CASE x \in Present \ Doomed /\ \E o \in Oracle : Store(x, p(o))
  <2>1. PICK o \in Oracle : Store(x, p(o))
    BY <1>3
  <2>2. fd \in Fd
    <3>1. socket_fds \in Seq(Entry) /\ pc.i \in 1 .. Len(socket_fds)
      BY <1>1 DEF Lists
    <3> QED BY <3>1, EntryType
  <2>3. x \in Conn /\ x # Nobody
    BY <1>3, NobodyAssumption DEF Present
  <2>4. Led(fd) /\ Wanted(client[x])
    BY <1>3, <2>2, <2>3 DEF TalkInv
  <2>5. fd # client[x].sock => client[x].req # "none"
    BY <1>3, <2>4 DEF Led
  <2> DEFINE i == Image(x)
             q == p(o)
             rev == revents[pc.i]
  <2>6. Good(i, x, fdtab) /\ i.c = client[x]
    <3>1. Good(i, x, fdtab)
      BY <1>1, <1>3, ImageGood
    <3> QED BY <3>1 DEF Image
  <2>7. q = Handled(x, fd, rev, o)
    OBVIOUS
  <2> HIDE DEF x, fd, p, q, rev
  <2>8. Good(q, x, fdtab)
    BY <2>2, <2>3, <2>6, <2>7, HandledGood
  <2>9. Wanted(i.c) /\ (fd # i.c.sock => i.c.req # "none")
    BY <2>4, <2>5, <2>6
  <2>10. Talks(i, q)
    <3> DEFINE j == i
    <3>1. j = Image(x) /\ Good(j, x, fdtab) /\ Wanted(j.c) /\ (fd # j.c.sock => j.c.req # "none")
      BY <2>6, <2>9
    <3> HIDE DEF i, j
    <3>2. Talks(j, Handled(x, fd, rev, o))
      BY <2>2, <2>3, <3>1, HandledTalks
    <3> QED BY <2>7, <3>2 DEF j
  <2>11. Store(x, q)
    BY <2>1 DEF q
  <2> QED BY <1>1, <1>3, <2>8, <2>10, <2>11, StoreTalk
<1>4. CASE ProcessEnds("killed") /\ UNCHANGED net
  BY <1>1, <1>4, ProcessEndsTalk
<1> QED BY <1>2, <1>3, <1>4 DEF HandleClient

\* accept() opens the conversation of a connection that waited.
LEMMA HandleServerTalk ==
  ASSUME TalkInv, Sound, HandleServer
  PROVE  TalkInv' /\ \A y \in Conn : Moved(y)
<1> USE FdAssumption
<1>1. pc.at = "server" /\ pc.i \in Listening /\ pc' = NextServer
  BY DEF HandleServer, Sound, Types
<1>2. ~Ended /\ ~Ended'
  BY <1>1, NextPlaces DEF Ended
<1>3. net \in [Conn -> NetRec] /\ backlog \in [Listening -> Seq(Conn)]
      /\ client \in [Conn -> ClientRec] /\ client_mapping \in [Fd -> Conn \cup {Nobody}]
  BY DEF Sound, Types
<1>4. CASE UNCHANGED <<client, client_mapping, net>>
  BY <1>2, <1>3, <1>4, QuietTalk
<1>5. CASE ~UNCHANGED <<client, client_mapping, net>>
  <2> DEFINE q == backlog[pc.i]
             c(f) == [NoClient EXCEPT !.here = TRUE, !.sock = f]
  <2>1. q # <<>> /\ \E f \in NthFree(fdtab, 1) :
             /\ client' = [client EXCEPT ![Head(q)] = c(f)]
             /\ client_mapping' = [client_mapping EXCEPT ![f] = Head(q)]
             /\ net' = [net EXCEPT ![Head(q)].stage = "accepted"]
    BY <1>5 DEF HandleServer
  <2>2. PICK x \in Conn : x = Head(q) /\ 1 \in 1 .. Len(q) /\ q[1] = x
    BY <1>1, <1>3, <2>1
  <2>3. PICK f \in NthFree(fdtab, 1) :
             /\ client' = [client EXCEPT ![x] = c(f)]
             /\ client_mapping' = [client_mapping EXCEPT ![f] = x]
             /\ net' = [net EXCEPT ![x].stage = "accepted"]
    BY <2>1, <2>2
  <2>4. f \in Fd /\ q \in Seq(Conn)
    BY <1>1, <1>3 DEF NthFree
  <2>5. net[x].stage = "queued" /\ net[x].answered = 0 /\ x # Nobody
    <3>1. net[q[1]].stage = "queued"
      BY <1>1, <2>2 DEF Sound, Queues
    <3> QED BY <2>2, <3>1, NobodyAssumption DEF TalkInv
  <2> DEFINE d == c(f)
             n == [net[x] EXCEPT !.stage = "accepted"]
  <2>6. d.sock = f /\ ~d.doomed /\ d.req = "none" /\ d.here /\ ~d.ready /\ d.content = "none"
    BY DEF NoClient
  <2>7. n.stage = "accepted" /\ n.answered = net[x].answered
    BY <1>3 DEF NetRec
  <2>8. /\ client' = [client EXCEPT ![x] = d] /\ client_mapping' = [client_mapping EXCEPT ![f] = x]
        /\ net' = [net EXCEPT ![x] = n]
    BY <1>3, <2>3 DEF NetRec
  <2> HIDE DEF q, c, d, n
  <2>9. /\ client'[x] = d /\ \A y \in Conn : y # x => client'[y] = client[y]
        /\ net'[x] = n /\ \A y \in Conn : y # x => net'[y] = net[y]
        /\ client_mapping'[f] = x /\ \A g \in Fd : g # f => client_mapping'[g] = client_mapping[g]
    BY <1>3, <2>4, <2>8
  <2>10. \A y \in Conn :
           y # x => (y \in Present' <=> y \in Present) /\ (y \in Doomed' <=> y \in Doomed)
    BY <2>9 DEF Present, Doomed
  <2>11. \A y \in Present' : Wanted(client'[y])
    BY <2>6, <2>9, <2>10 DEF TalkInv, Wanted, Present
  <2>12. /\ \A y \in (Present \ Doomed)' : net'[y].answered = 0
         /\ \A y \in Conn : net'[y].answered \in {0, 1}
         /\ \A y \in Conn : net'[y].stage \in {"new", "queued"} => net'[y].answered = 0
    BY <2>5, <2>7, <2>9, <2>10 DEF TalkInv, Present
  <2>13. ASSUME NEW g \in Fd, client_mapping'[g] # Nobody
         PROVE  Led(g)'
    <3>1. CASE g = f
      BY <2>6, <2>7, <2>9, <3>1 DEF Led
    <3>2. CASE g # f
      <4>1. PICK y \in Conn : y = client_mapping[g] /\ client_mapping'[g] = y /\ Led(g)
        BY <1>3, <2>9, <2>13, <3>2 DEF TalkInv
      <4>2. y # x
        BY <2>5, <4>1 DEF Led
      <4>3. net'[y].stage = net[y].stage /\ client'[y] = client[y]
        BY <2>9, <4>2
      <4>4. /\ y \in Present' <=> y \in Present
            /\ y \in Doomed' <=> y \in Doomed
        BY <2>10, <4>2
      <4> QED BY <4>1, <4>3, <4>4 DEF Led
    <3> QED BY <3>1, <3>2
  <2>14. TalkInv'
    BY <2>11, <2>12, <2>13 DEF TalkInv
  <2>15. ASSUME NEW y \in Conn
         PROVE  Moved(y)
    <3>1. CASE y # x
      <4>1. PhaseOf(y)' = PhaseOf(y)
        BY <1>2, <2>9, <3>1, SamePhase
      <4> QED BY <4>1 DEF Moved
    <3>2. CASE y = x
      <4>1. PhaseOf(x) = "waiting"
        BY <2>5 DEF PhaseOf
      <4>2. PhaseOf(x)' = "open"
        BY <1>2, <2>5, <2>6, <2>7, <2>9 DEF PhaseOf
      <4> QED BY <3>2, <4>1, <4>2 DEF Moved, Moves
    <3> QED BY <3>1, <3>2
  <2> QED BY <2>14, <2>15
<1> QED BY <1>4, <1>5

\* The clients to be deleted are let go, each after its answer or as dropped.
LEMMA ResetFdsTalk ==
  ASSUME TalkInv, Sound, ResetFds
  PROVE  TalkInv' /\ \A y \in Conn : Moved(y)
<1>1. /\ ~Ended /\ ~Ended'
      /\ client' = [x \in Conn |-> IF x \in Doomed THEN NoClient ELSE client[x]]
      /\ net' = [x \in Conn |-> IF x \in Doomed THEN [net[x] EXCEPT !.stage = "closed"]
                                ELSE net[x]]
  BY DEF ResetFds, At, Ended
<1>2. /\ net \in [Conn -> NetRec] /\ client \in [Conn -> ClientRec]
      /\ client_mapping \in [Fd -> Conn \cup {Nobody}]
  BY DEF Sound, Types
<1>3. \A f \in Fd : client_mapping'[f] \in {client_mapping[f], Nobody}
  BY DEF ResetFds, Forget
<1>4. Doomed \subseteq Present /\ Present \subseteq Conn /\ Present' = Present \ Doomed
  BY <1>1, NoClientType DEF Present, Doomed
<1>5. \A x \in Conn : /\ x \in Doomed => net'[x].stage = "closed"
                                         /\ net'[x].answered = net[x].answered
                      /\ x \notin Doomed => net'[x] = net[x] /\ client'[x] = client[x]
  BY <1>1, <1>2 DEF NetRec
<1>6. (Present \ Doomed)' = Present \ Doomed
  BY <1>4, <1>5 DEF Doomed
<1>7. \A x \in Present' : Wanted(client'[x])
  BY <1>4, <1>5 DEF TalkInv
<1>8. /\ \A x \in (Present \ Doomed)' : net'[x].answered = 0
      /\ \A x \in Conn : net'[x].answered \in {0, 1}
      /\ \A x \in Conn : net'[x].stage \in {"new", "queued"} => net'[x].answered = 0
  BY <1>5, <1>6 DEF TalkInv, Present
<1>9. ASSUME NEW f \in Fd, client_mapping'[f] # Nobody
      PROVE  Led(f)'
  <2> DEFINE x == client_mapping[f]
  <2>1. x # Nobody /\ client_mapping'[f] = x /\ x \in Conn
    BY <1>2, <1>3, <1>9
  <2>2. Led(f)
    BY <2>1 DEF TalkInv
  <2>3. CASE x \in Doomed
    BY <1>5, <1>6, <2>1, <2>3 DEF Led
  <2>4. CASE x \notin Doomed
    BY <1>5, <1>6, <2>1, <2>2, <2>4 DEF Led
  <2> QED BY <2>3, <2>4
<1>10. TalkInv'
  BY <1>7, <1>8, <1>9 DEF TalkInv
<1>11. ASSUME NEW x \in Conn
       PROVE  Moved(x)
  <2>1. CASE x \in Doomed
    <3>1. net[x].stage = "accepted" /\ client[x].doomed
      BY <1>4, <2>1 DEF Sound, Queues, Doomed
    <3>2. PhaseOf(x) \in {"replied", "dropped"}
      BY <1>1, <3>1, AcceptedPhase DEF TalkInv
    <3>3. PhaseOf(x)' = "closed"
      BY <1>5, <2>1 DEF PhaseOf
    <3> QED BY <3>2, <3>3 DEF Moved, Moves
  <2>2. CASE x \notin Doomed
    <3>1. PhaseOf(x)' = PhaseOf(x)
      BY <1>1, <1>5, <2>2, SamePhase
    <3> QED BY <3>1 DEF Moved
  <2> QED BY <2>1, <2>2
<1> QED BY <1>10, <1>11

\* Steps of the peers.
LEMMA PeersTalk ==
  ASSUME TalkInv, Sound, NEW x \in Conn, Connect(x) \/ Send(x) \/ HangUp(x)
  PROVE  TalkInv' /\ \A y \in Conn : Moved(y)
<1>1. net \in [Conn -> NetRec] /\ UNCHANGED proc
  BY DEF Sound, Types, Connect, Send, HangUp
<1>2. UNCHANGED <<client, client_mapping, pc>> /\ (Ended' <=> Ended)
  BY <1>1 DEF proc, Ended
<1>3. CASE Connect(x)
  <2> DEFINE n(r) == [net[x] EXCEPT !.stage = "queued", !.ask = r[1], !.unsent = r[2],
                                    !.up = TRUE]
  <2>1. PICK r \in Requests[x] :
          net' = [net EXCEPT ![x] = [@ EXCEPT !.stage = "queued", !.ask = r[1],
                                              !.unsent = r[2], !.up = TRUE]]
    BY <1>3 DEF Connect
  <2>2. net[x].stage = "new"
    BY <1>3 DEF Connect
  <2> DEFINE m == n(r)
  <2>3. m.stage = "queued" /\ m.answered = net[x].answered
    BY <1>1 DEF NetRec
  <2>4. net' = [net EXCEPT ![x] = m]
    BY <1>1, <2>1
  <2> HIDE DEF m
  <2>5. net'[x] = m /\ \A y \in Conn : y # x => net'[y] = net[y]
    BY <1>1, <2>4
  <2>6. Present' = Present /\ Doomed' = Doomed
    BY <1>2 DEF Present, Doomed
  <2>7. /\ \A y \in (Present \ Doomed)' : net'[y].answered = 0
        /\ \A y \in Conn : net'[y].answered \in {0, 1}
        /\ \A y \in Conn : net'[y].stage \in {"new", "queued"} => net'[y].answered = 0
    BY <2>2, <2>3, <2>5, <2>6 DEF TalkInv, Present
  <2>8. ASSUME NEW f \in Fd, client_mapping'[f] # Nobody
        PROVE  Led(f)'
    <3>1. client_mapping[f] \in Conn /\ Led(f)
      BY <1>2, <2>8 DEF TalkInv, Sound, Types
    <3>2. client_mapping[f] # x
      BY <2>2, <3>1 DEF Led
    <3> QED BY <1>2, <2>5, <2>6, <3>1, <3>2 DEF Led
  <2>9. TalkInv'
    BY <1>2, <2>6, <2>7, <2>8 DEF TalkInv
  <2>10. ASSUME NEW y \in Conn
         PROVE  Moved(y)
    <3>1. CASE y # x
      <4>1. PhaseOf(y)' = PhaseOf(y)
        BY <1>2, <2>5, <3>1, SamePhase
      <4> QED BY <4>1 DEF Moved
    <3>2. CASE y = x
      <4>1. PhaseOf(x) = "absent" /\ PhaseOf(x)' = "waiting"
        BY <2>2, <2>3, <2>5 DEF PhaseOf
      <4> QED BY <3>2, <4>1 DEF Moved, Moves
    <3> QED BY <3>1, <3>2
  <2> QED BY <2>9, <2>10
<1>4. CASE Send(x)
  <2> DEFINE n == [net[x] EXCEPT !.inbox = Append(net[x].inbox, Head(net[x].unsent)),
                                 !.unsent = Tail(net[x].unsent)]
  <2>1. n.stage = net[x].stage /\ n.answered = net[x].answered
    BY <1>1 DEF NetRec
  <2>2. net' = [net EXCEPT ![x] = n]
    BY <1>1, <1>4 DEF Send, NetRec
  <2> HIDE DEF n
  <2>3. \A y \in Conn : net'[y].stage = net[y].stage /\ net'[y].answered = net[y].answered
    BY <1>1, <2>1, <2>2
  <2> QED BY <1>2, <2>3, QuietTalk
<1>5. CASE HangUp(x)
  <2> DEFINE n == [net[x] EXCEPT !.up = FALSE]
  <2>1. n.stage = net[x].stage /\ n.answered = net[x].answered
    BY <1>1 DEF NetRec
  <2>2. net' = [net EXCEPT ![x] = n]
    BY <1>5 DEF HangUp
  <2> HIDE DEF n
  <2>3. \A y \in Conn : net'[y].stage = net[y].stage /\ net'[y].answered = net[y].answered
    BY <1>1, <2>1, <2>2
  <2> QED BY <1>2, <2>3, QuietTalk
<1> QED BY <1>3, <1>4, <1>5

LEMMA NextTalk ==
  ASSUME JInv, [Next]_vars
  PROVE  TalkInv' /\ \A y \in Conn : Moved(y)
<1>1. TalkInv /\ IInv /\ Sound
  BY DEF JInv, IInv
<1>2. CASE UNCHANGED <<client, client_mapping, net>> /\ (Ended' <=> Ended)
  BY <1>1, <1>2, QuietTalk
<1>3. CASE UNCHANGED vars \/ Kids
  <2>1. UNCHANGED <<client, client_mapping, net, pc>>
    BY <1>3 DEF vars, Kids, KidWrites, KidReads, KidExits, KidFails, proc
  <2> QED BY <1>2, <2>1 DEF Ended
<1>4. CASE Poll
  <2>1. UNCHANGED <<client, client_mapping, net>> /\ ~Ended /\ ~Ended'
    BY <1>4, NextPlaces DEF Poll, Ended
  <2> QED BY <1>2, <2>1
<1>5. CASE HandleClient
  BY <1>1, <1>5, HandleClientTalk
<1>6. CASE HandleServer
  BY <1>1, <1>6, HandleServerTalk
<1>7. CASE ResetFds
  BY <1>1, <1>7, ResetFdsTalk
<1>8. CASE Interrupt
  <2>1. ~Ended /\ ProcessEnds("stopped") /\ UNCHANGED net
    BY <1>8 DEF Interrupt, Ended
  <2> QED BY <1>1, <2>1, ProcessEndsTalk
<1>9. CASE Peers
  BY <1>1, <1>9, PeersTalk DEF Peers
<1> QED BY <1>3, <1>4, <1>5, <1>6, <1>7, <1>8, <1>9 DEF Next, Server

LEMMA InitTalk == Init => TalkInv
<1> SUFFICES ASSUME Init PROVE TalkInv
  OBVIOUS
<1>1. Present = {}
  BY DEF Init, Present, NoClient
<1> QED BY <1>1 DEF Init, TalkInv

----------------------------------------------------------------------------
(* The theorems                                                            *)

\* In every reachable state each connection has said and been told what its Client and its
\* queue say it has (Talks).
THEOREM TalkInvariant == Spec => []JInv
<1>1. Init => TalkInv
  BY InitTalk
<1>2. JInv /\ [Next]_vars => TalkInv'
  BY NextTalk
<1> QED BY <1>1, <1>2, Invariant, PTL DEF Spec, JInv

\* The loop implements Lifecycle wherever anything may go wrong: whatever is closed,
\* replaced, timed out or reused, no connection is given two responses (they are counted,
\* Client.answered), or one before it asked or after it was dropped (handleClient(),
\* handleServer() and resetFds() of Server.cpp).  That no second one is sent rests on
\* markAsDelete() of a client whose send() was its last, and on handleClient() passing
\* over the clients so marked (TalkInv).
THEOREM OrderKept ==
  ASSUME Faults # {}
  PROVE  Spec => InOrder
<1>1. Init => Life!Init
  <2> SUFFICES ASSUME Init, NEW x \in Conn PROVE PhaseOf(x) = "absent"
    BY DEF Life!Init
  <2> QED BY DEF Init, PhaseOf
<1>2. JInv /\ [Next]_vars => Life!Next
  BY NextTalk, MovesAreLife
<1> QED BY <1>1, <1>2, TalkInvariant, PTL DEF Spec, InOrder, Life!Spec
=============================================================================
