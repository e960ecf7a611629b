-------------------------- MODULE EventLoopProofs --------------------------
(***************************************************************************)
(* Proof that every open descriptor has exactly one owner (FdOwnership)    *)
(* and that the tables stay what they are declared to be (TypeOK), for all *)
(* values of the constants.  The file follows the code upwards:            *)
(*   1. the invariant of an image in a handler (Good), and the pure facts  *)
(*      about tables that opening and closing descriptors rests on;        *)
(*   2. one lemma for each operator of Client: it preserves Good;          *)
(*   3. one lemma for each operator of EventLoop, up to Handled;           *)
(*   4. the invariant of the descriptors (Sound), and one lemma for each   *)
(*      action; that of the lists of the loop (Lists), and the same;       *)
(*   5. the inductive invariant IInv, of both, and the theorems.           *)
(***************************************************************************)
EXTENDS EventLoop, FiniteSetTheorems, WellFoundedInduction, TLAPS

\* An image is a record with exactly these fields, which is what the provers
\* need to know to reason about EXCEPT.
ImageFields == {"x", "c", "fd", "kid", "inbox", "up", "ask", "answered",
                "buf", "del", "map", "ret", "killed"}

IsImage(p) == p = [f \in ImageFields |-> p[f]]

\* The descriptors of table t that belong to connection x are the ones the
\* Client c holds, each in its role.
Owns(x, c, t) ==
    /\ \A f \in Fd : t[f] = <<"socket", x>> <=> f = c.sock
    /\ \A f \in Fd : t[f] = <<"file", x>> <=> c.content = "file" /\ f = c.in
    /\ \A f \in Fd : t[f] = <<"cgiOut", x>> <=> c.content = "cgi" /\ f = c.in
    /\ \A f \in Fd : t[f] = <<"cgiIn", x>> <=> c.content = "cgi" /\ f = c.out
    /\ c.sock \in Fd
    /\ c.content = "none" => c.in = 0 /\ c.out = 0
    /\ c.content = "file" => c.in \in Fd /\ c.out = 0
    /\ c.content = "cgi" => c.in \in Fd /\ c.out \in Fd

\* Only entries that are free or belong to x differ between two tables.
Mine(x) == {Free} \cup (Roles \X {x})
Frame(x, t0, t) == \A f \in Fd : t[f] # t0[f] => t[f] \in Mine(x) /\ t0[f] \in Mine(x)

\* The image of the handler of a client of x that started from table t0.
Good(p, x, t0) ==
    /\ IsImage(p)
    /\ p.x = x
    /\ p.c \in ClientRec /\ p.c.here
    /\ p.fd \in [Fd -> Object]
    /\ p.map \in [Fd -> Conn \cup {Nobody}]
    /\ p.inbox \in Seq(Segments) /\ p.answered \in Nat /\ p.up \in BOOLEAN
    /\ p.kid \in [Conn -> Kid] /\ p.buf \in Seq(Entry) /\ p.del \in Seq(Fd)
    /\ Owns(x, p.c, p.fd)
    /\ Frame(x, t0, p.fd)

----------------------------------------------------------------------------
(* The descriptor table                                                    *)

LEMMA ClientSets ==
  /\ "none" \in ContentKind /\ "file" \in ContentKind /\ "cgi" \in ContentKind
  /\ 0 \in Slot /\ \A f \in Fd : f \in Slot
  /\ 0 \in Reads /\ 0 \in Chunks
  /\ 0 \notin Fd
BY FdAssumption, FileLenAssumption DEF ContentKind, Slot, Reads, Chunks

LEMMA WithContentType ==
  ASSUME NEW c \in ClientRec, NEW kind \in ContentKind, NEW in \in Slot, NEW out \in Slot,
         NEW d, d = WithContent(c, kind, in, out)
  PROVE  /\ d \in ClientRec
         /\ d.content = kind /\ d.in = in /\ d.out = out
         /\ d.sock = c.sock /\ d.here = c.here
BY ClientSets DEF ClientRec, WithContent

LEMMA MineFacts ==
  ASSUME NEW x \in Conn
  PROVE  /\ Free \in Mine(x)
         /\ \A role \in Roles : <<role, x>> \in Mine(x) /\ <<role, x>> \in Object
                                /\ <<role, x>> # Free
         /\ Mine(x) \subseteq Object
BY NobodyAssumption DEF Mine, Object, Free, Roles

LEMMA OwnedIsMine ==
  ASSUME NEW x \in Conn, NEW c \in ClientRec, NEW t \in [Fd -> Object], Owns(x, c, t),
         NEW f \in Fd, f \in {c.sock, c.in, c.out}
  PROVE  t[f] \in Mine(x)
<1> USE FdAssumption
<1>1. c.content \in {"none", "file", "cgi"} /\ 0 \notin Fd
  BY DEF ClientRec, ContentKind
<1>2. \E role \in Roles : t[f] = <<role, x>>
  <2>1. CASE f = c.sock
    BY <2>1 DEF Owns, Roles
  <2>2. CASE f = c.in
    BY <1>1, <2>2 DEF Owns, Roles
  <2>3. CASE f = c.out
    BY <1>1, <2>3 DEF Owns, Roles
  <2> QED BY <2>1, <2>2, <2>3
<1> QED BY <1>2, MineFacts

LEMMA ReleaseOwns ==
  ASSUME NEW x \in Conn, NEW c \in ClientRec, NEW t \in [Fd -> Object], Owns(x, c, t),
         NEW u, u = Release(t, {c.in, c.out}),
         NEW d, d = WithContent(c, "none", 0, 0)
  PROVE  u \in [Fd -> Object] /\ Owns(x, d, u) /\ Frame(x, t, u)
<1>1. u \in [Fd -> Object] /\ \A f \in Fd : u[f] = IF f \in {c.in, c.out} THEN Free ELSE t[f]
  BY DEF Release, Object
<1>2. d.sock = c.sock /\ d.content = "none" /\ d.in = 0 /\ d.out = 0
  BY WithContentType, ClientSets
<1>3. c.content \in {"none", "file", "cgi"} /\ 0 \notin Fd
  BY FdAssumption DEF ClientRec, ContentKind
<1>4. c.sock \notin {c.in, c.out}
  BY <1>3 DEF Owns
<1>5. Frame(x, t, u)
  BY <1>1, OwnedIsMine, MineFacts DEF Frame
<1>6. /\ Free # <<"socket", x>> /\ Free # <<"file", x>>
      /\ Free # <<"cgiOut", x>> /\ Free # <<"cgiIn", x>>
  BY MineFacts DEF Roles
<1>7. \A f \in Fd : /\ u[f] = <<"socket", x>> <=> f = c.sock
                    /\ u[f] # <<"file", x>> /\ u[f] # <<"cgiOut", x>> /\ u[f] # <<"cgiIn", x>>
  <2> SUFFICES ASSUME NEW f \in Fd
               PROVE  /\ u[f] = <<"socket", x>> <=> f = c.sock
                      /\ u[f] # <<"file", x>> /\ u[f] # <<"cgiOut", x>>
                      /\ u[f] # <<"cgiIn", x>>
    OBVIOUS
  <2>1. CASE f \in {c.in, c.out}
    <3>1. u[f] = Free /\ f # c.sock
      BY <1>1, <1>4, <2>1
    <3> QED BY <1>6, <3>1
  <2>2. CASE f \notin {c.in, c.out}
    <3>1. u[f] = t[f]
      BY <1>1, <2>2
    <3>2. t[f] = <<"socket", x>> <=> f = c.sock
      BY DEF Owns
    <3>3. t[f] # <<"file", x>>
      BY <2>2 DEF Owns
    <3>4. t[f] # <<"cgiOut", x>> /\ t[f] # <<"cgiIn", x>>
      BY <2>2 DEF Owns
    <3> QED BY <3>1, <3>2, <3>3, <3>4
  <2> QED BY <2>1, <2>2
<1>8. Owns(x, d, u)
  BY <1>2, <1>7, FdAssumption DEF Owns
<1> QED BY <1>1, <1>5, <1>8

LEMMA FrameTrans ==
  ASSUME NEW x, NEW t, NEW u, NEW v, Frame(x, t, u), Frame(x, u, v)
  PROVE  Frame(x, t, v)
BY DEF Frame

\* What happens to the children leaves them what they are.
LEMMA KidTypes ==
  /\ NoKid \in Kid /\ NewKid \in Kid
  /\ \A k \in Kid, b \in BOOLEAN :
        /\ [k EXCEPT !.run = "waited ok"] \in Kid /\ [k EXCEPT !.run = "waited failed"] \in Kid
        /\ [k EXCEPT !.run = "ok"] \in Kid /\ [k EXCEPT !.run = "failed"] \in Kid
        /\ [k EXCEPT !.out = "read"] \in Kid /\ [k EXCEPT !.out = "unread"] \in Kid
        /\ [k EXCEPT !.full = b] \in Kid /\ [k EXCEPT !.shot = b] \in Kid
BY DEF Kid, NoKid, NewKid, Exited, Waited

LEMMA EntryType ==
  /\ \A e \in Entry : e.fd \in Fd /\ e.events \in {"IN", "OUT"}
  /\ \A f \in Fd : [fd |-> f, events |-> "IN"] \in Entry /\ [fd |-> f, events |-> "OUT"] \in Entry
BY DEF Entry

LEMMA DeleteContentGood ==
  ASSUME NEW x \in Conn, NEW t0, NEW p, Good(p, x, t0)
  PROVE  Good(DeleteContent(p), x, t0) /\ DeleteContent(p).c.content = "none"
<1> DEFINE q == DeleteContent(p)
<1>1. /\ IsImage(q) /\ q.x = x /\ q.map = p.map /\ q.buf = p.buf /\ q.del = p.del
      /\ q.inbox = p.inbox /\ q.answered = p.answered /\ q.up = p.up
      /\ q.kid = [p.kid EXCEPT ![x] = NoKid]
  BY DEF Good, DeleteContent, IsImage, ImageFields
<1>2. q.fd = Release(p.fd, {p.c.in, p.c.out}) /\ q.c = WithContent(p.c, "none", 0, 0)
  BY DEF Good, DeleteContent, IsImage, ImageFields
<1>3. p.c \in ClientRec /\ p.c.here /\ p.fd \in [Fd -> Object] /\ Owns(x, p.c, p.fd)
      /\ Frame(x, t0, p.fd) /\ p.map \in [Fd -> Conn \cup {Nobody}]
      /\ p.inbox \in Seq(Segments) /\ p.answered \in Nat /\ p.up \in BOOLEAN
      /\ p.kid \in [Conn -> Kid] /\ p.buf \in Seq(Entry) /\ p.del \in Seq(Fd)
  BY DEF Good
<1> HIDE DEF q
<1>4. q.c \in ClientRec /\ q.c.here /\ q.c.content = "none"
  BY <1>2, <1>3, WithContentType, ClientSets
<1>5. q.fd \in [Fd -> Object] /\ Owns(x, q.c, q.fd) /\ Frame(x, p.fd, q.fd)
  BY <1>2, <1>3, ReleaseOwns
<1>6. Frame(x, t0, q.fd)
  BY <1>3, <1>5, FrameTrans
<1>7. q.kid \in [Conn -> Kid]
  BY <1>1, <1>3, KidTypes
<1>8. Good(q, x, t0)
  BY <1>1, <1>3, <1>4, <1>5, <1>6, <1>7 DEF Good
<1> QED BY <1>4, <1>8 DEF q

\* What a Client holds is the same in c and d.
SameHold(c, d) ==
    /\ d.here = c.here /\ d.sock = c.sock
    /\ d.content = c.content /\ d.in = c.in /\ d.out = c.out

LEMMA SetClientGood ==
  ASSUME NEW x \in Conn, NEW t0, NEW p, Good(p, x, t0),
         NEW d \in ClientRec, SameHold(p.c, d),
         NEW q, q = [p EXCEPT !.c = d]
  PROVE  Good(q, x, t0) /\ q.c = d
<1>1. /\ IsImage(q) /\ q.x = x /\ q.map = p.map /\ q.fd = p.fd /\ q.c = d
      /\ q.inbox = p.inbox /\ q.answered = p.answered /\ q.up = p.up
      /\ q.kid = p.kid /\ q.buf = p.buf /\ q.del = p.del
  BY DEF Good, IsImage, ImageFields
<1>2. Owns(x, d, p.fd)
  BY DEF Good, Owns, SameHold
<1> QED BY <1>1, <1>2 DEF Good, SameHold

\* Images that differ in no field Good speaks about.
Alike(p, q) ==
    /\ IsImage(q) /\ q.x = p.x /\ q.c = p.c /\ q.fd = p.fd /\ q.map = p.map
    /\ q.inbox \in Seq(Segments) /\ q.answered \in Nat /\ q.up = p.up
    /\ q.kid \in [Conn -> Kid] /\ q.buf \in Seq(Entry) /\ q.del \in Seq(Fd)

LEMMA AlikeGood ==
  ASSUME NEW x \in Conn, NEW t0, NEW p, Good(p, x, t0), NEW q, Alike(p, q)
  PROVE  Good(q, x, t0)
BY DEF Good, Alike

LEMMA WithStatusGood ==
  ASSUME NEW x \in Conn, NEW t0, NEW p, Good(p, x, t0), NEW status \in Nat
  PROVE  /\ Good(WithStatus(p, status), x, t0)
         /\ WithStatus(p, status).c.content = p.c.content
         /\ WithStatus(p, status).c.status = status
<1> DEFINE d == [p.c EXCEPT !.status = status]
<1>1. p.c \in ClientRec
  BY DEF Good
<1>2. d \in ClientRec /\ SameHold(p.c, d) /\ d.status = status
  BY <1>1 DEF ClientRec, SameHold
<1>3. WithStatus(p, status) = [p EXCEPT !.c = d]
  BY DEF WithStatus
<1> HIDE DEF d
<1>4. Good(WithStatus(p, status), x, t0) /\ WithStatus(p, status).c = d
  BY <1>2, <1>3, SetClientGood
<1> QED BY <1>2, <1>4 DEF SameHold

LEMMA ResetResponseGood ==
  ASSUME NEW x \in Conn, NEW t0, NEW p, Good(p, x, t0)
  PROVE  /\ Good(ResetResponse(p), x, t0)
         /\ ResetResponse(p).c.status = p.c.status
<1> DEFINE d == [p.c EXCEPT !.ready = FALSE, !.begun = FALSE, !.got = 0,
                            !.emergency = FALSE]
<1>1. p.c \in ClientRec
  BY DEF Good
<1>2. d \in ClientRec /\ SameHold(p.c, d) /\ d.status = p.c.status
  BY <1>1, ClientSets DEF ClientRec, SameHold
<1>3. ResetResponse(p) = [p EXCEPT !.c = d]
  BY DEF ResetResponse
<1> HIDE DEF d
<1>4. Good(ResetResponse(p), x, t0) /\ ResetResponse(p).c = d
  BY <1>2, <1>3, SetClientGood
<1> QED BY <1>2, <1>4

LEMMA FinishGood ==
  ASSUME NEW x \in Conn, NEW t0, NEW p, Good(p, x, t0)
  PROVE  Good(Finish(p), x, t0) /\ Good(FinishCgi(p), x, t0)
<1> DEFINE d == [p.c EXCEPT !.ready = TRUE]
           e == [p.c EXCEPT !.ready = TRUE, !.begun = FALSE]
<1>1. p.c \in ClientRec
  BY DEF Good
<1>2. d \in ClientRec /\ SameHold(p.c, d) /\ e \in ClientRec /\ SameHold(p.c, e)
  BY <1>1 DEF ClientRec, SameHold
<1>3. Finish(p) = [p EXCEPT !.c = d] /\ FinishCgi(p) = [p EXCEPT !.c = e]
  BY DEF Finish, FinishCgi
<1> HIDE DEF d, e
<1> QED BY <1>2, <1>3, SetClientGood

LEMMA GetDefaultErrorGood ==
  ASSUME NEW x \in Conn, NEW t0, NEW p, Good(p, x, t0)
  PROVE  Good(GetDefaultError(p), x, t0)
<1> DEFINE q == DeleteContent(p)
           d == [q.c EXCEPT !.ready = TRUE, !.begun = FALSE, !.got = 0]
<1>1. Good(q, x, t0) /\ q.c \in ClientRec
  BY DeleteContentGood DEF Good
<1>2. GetDefaultError(p) = [q EXCEPT !.c = d]
  BY DEF GetDefaultError
<1> HIDE DEF q
<1>3. d \in ClientRec /\ SameHold(q.c, d)
  BY <1>1, ClientSets DEF ClientRec, SameHold
<1> HIDE DEF d
<1> QED BY <1>1, <1>2, <1>3, SetClientGood

----------------------------------------------------------------------------
(* Opening contents                                                        *)

LEMMA AssignOwns ==
  ASSUME NEW x \in Conn, NEW c \in ClientRec, c.content = "none",
         NEW t \in [Fd -> Object], Owns(x, c, t), NEW f \in Fd, t[f] = Free,
         NEW u, u = Assign(t, f, <<"file", x>>),
         NEW d, d = WithContent(c, "file", f, 0)
  PROVE  u \in [Fd -> Object] /\ Owns(x, d, u) /\ Frame(x, t, u)
<1>1. <<"file", x>> \in Object /\ <<"file", x>> \in Mine(x) /\ Free \in Mine(x)
  BY MineFacts DEF Roles
<1>2. u \in [Fd -> Object] /\ \A g \in Fd : u[g] = IF g = f THEN <<"file", x>> ELSE t[g]
  BY <1>1 DEF Assign
<1>3. d.sock = c.sock /\ d.content = "file" /\ d.in = f /\ d.out = 0
  BY WithContentType, ClientSets
<1>4. Frame(x, t, u)
  BY <1>1, <1>2 DEF Frame
<1>5. /\ Free # <<"socket", x>> /\ Free # <<"file", x>>
      /\ Free # <<"cgiOut", x>> /\ Free # <<"cgiIn", x>>
  BY MineFacts DEF Roles
<1>6. Owns(x, d, u)
  BY <1>2, <1>3, <1>5, FdAssumption DEF Owns
<1> QED BY <1>2, <1>4, <1>6

LEMMA AssignCgiOwns ==
  ASSUME NEW x \in Conn, NEW c \in ClientRec, c.content = "none",
         NEW t \in [Fd -> Object], Owns(x, c, t),
         NEW a \in Fd, t[a] = Free, NEW b \in Fd, t[b] = Free, a # b,
         NEW u, u = Assign(Assign(t, a, <<"cgiOut", x>>), b, <<"cgiIn", x>>),
         NEW d, d = WithContent(c, "cgi", a, b)
  PROVE  u \in [Fd -> Object] /\ Owns(x, d, u) /\ Frame(x, t, u)
<1>1. \A role \in {"cgiOut", "cgiIn"} : <<role, x>> \in Object /\ <<role, x>> \in Mine(x)
  BY MineFacts DEF Roles
<1>2. /\ u \in [Fd -> Object]
      /\ \A g \in Fd : u[g] = IF g = b THEN <<"cgiIn", x>>
                              ELSE IF g = a THEN <<"cgiOut", x>> ELSE t[g]
  BY <1>1 DEF Assign
<1>3. d.sock = c.sock /\ d.content = "cgi" /\ d.in = a /\ d.out = b
  <2>1. a \in Slot /\ b \in Slot /\ "cgi" \in ContentKind
    BY ClientSets
  <2> QED BY <2>1, WithContentType
<1>4. Frame(x, t, u)
  BY <1>1, <1>2, MineFacts DEF Frame
<1>5. /\ Free # <<"socket", x>> /\ Free # <<"file", x>>
      /\ Free # <<"cgiOut", x>> /\ Free # <<"cgiIn", x>>
  BY MineFacts DEF Roles
<1>6. Owns(x, d, u)
  BY <1>2, <1>3, <1>5, FdAssumption DEF Owns
<1> QED BY <1>2, <1>4, <1>6

LEMMA OpenStaticGood ==
  ASSUME NEW x \in Conn, NEW t0, NEW p, Good(p, x, t0), p.c.content = "none"
  PROVE  Good(OpenStatic(p), x, t0)
<1>1. CASE NthFree(p.fd, 1) = {}
  <2>1. Alike(p, [p EXCEPT !.ret = FALSE])
    BY DEF Good, Alike, IsImage, ImageFields
  <2> QED BY <1>1, <2>1, AlikeGood DEF OpenStatic
<1>2. CASE NthFree(p.fd, 1) # {}
  <2> DEFINE f == CHOOSE g \in NthFree(p.fd, 1) : TRUE
             q == OpenStatic(p)
  <2>1. f \in NthFree(p.fd, 1)
    BY <1>2
  <2>2. f \in Fd /\ p.fd[f] = Free
    BY <2>1 DEF NthFree
  <2>3. q = [p EXCEPT !.fd = Assign(p.fd, f, <<"file", p.x>>),
                      !.c = WithContent(p.c, "file", f, 0), !.ret = TRUE]
    BY <1>2 DEF OpenStatic
  <2> HIDE DEF f, q
  <2>4. /\ IsImage(q) /\ q.x = x /\ q.map = p.map
        /\ q.inbox = p.inbox /\ q.answered = p.answered /\ q.up = p.up
        /\ q.kid = p.kid /\ q.buf = p.buf /\ q.del = p.del
        /\ q.fd = Assign(p.fd, f, <<"file", x>>)
        /\ q.c = WithContent(p.c, "file", f, 0)
    BY <2>3 DEF Good, IsImage, ImageFields
  <2>5. p.c \in ClientRec /\ p.c.here /\ p.fd \in [Fd -> Object] /\ Owns(x, p.c, p.fd)
        /\ Frame(x, t0, p.fd) /\ p.map \in [Fd -> Conn \cup {Nobody}]
        /\ p.inbox \in Seq(Segments) /\ p.answered \in Nat /\ p.up \in BOOLEAN
        /\ p.kid \in [Conn -> Kid] /\ p.buf \in Seq(Entry) /\ p.del \in Seq(Fd)
    BY DEF Good
  <2>7. q.fd \in [Fd -> Object] /\ Owns(x, q.c, q.fd) /\ Frame(x, p.fd, q.fd)
    BY <2>2, <2>4, <2>5, AssignOwns
  <2>8. q.c \in ClientRec /\ q.c.here
    BY <2>2, <2>4, <2>5, WithContentType, ClientSets, SMTT(30)
  <2>9. Frame(x, t0, q.fd)
    BY <2>5, <2>7, FrameTrans
  <2>10. Good(q, x, t0)
    BY <2>4, <2>5, <2>7, <2>8, <2>9 DEF Good
  <2> QED BY <2>10 DEF q
<1> QED BY <1>1, <1>2

LEMMA OpenCgiGood ==
  ASSUME NEW x \in Conn, NEW t0, NEW p, Good(p, x, t0), p.c.content = "none", NEW o
  PROVE  Good(OpenCgi(p, o), x, t0)
<1> DEFINE ends == NthFree(p.fd, 1) \X NthFree(p.fd, 4)
<1>1. CASE ends = {} \/ ~o.forks
  <2>1. Alike(p, [p EXCEPT !.ret = FALSE])
    BY DEF Good, Alike, IsImage, ImageFields
  <2> QED BY <1>1, <2>1, AlikeGood DEF OpenCgi
<1>2. CASE ~(ends = {} \/ ~o.forks)
  <2> DEFINE e == CHOOSE e \in ends : TRUE
             a == e[1]
             b == e[2]
             q == OpenCgi(p, o)
  <2>1. a \in NthFree(p.fd, 1) /\ b \in NthFree(p.fd, 4)
    <3>1. e \in ends
      BY <1>2
    <3> QED BY <3>1
  <2> HIDE DEF a, b
  <2>2. a \in Fd /\ p.fd[a] = Free /\ b \in Fd /\ p.fd[b] = Free /\ a # b
    BY <2>1 DEF NthFree
  <2>3. q = [p EXCEPT !.fd = Assign(Assign(p.fd, a, <<"cgiOut", p.x>>), b, <<"cgiIn", p.x>>),
                      !.kid = ForkKids(p),
                      !.c = WithContent(p.c, "cgi", a, b), !.ret = TRUE]
    BY <1>2 DEF OpenCgi, a, b
  <2> HIDE DEF q
  <2>4. /\ IsImage(q) /\ q.x = x /\ q.map = p.map
        /\ q.inbox = p.inbox /\ q.answered = p.answered /\ q.up = p.up
        /\ q.kid = ForkKids(p) /\ q.buf = p.buf /\ q.del = p.del
        /\ q.fd = Assign(Assign(p.fd, a, <<"cgiOut", x>>), b, <<"cgiIn", x>>)
        /\ q.c = WithContent(p.c, "cgi", a, b)
    BY <2>3 DEF Good, IsImage, ImageFields
  <2>5. p.c \in ClientRec /\ p.c.here /\ p.fd \in [Fd -> Object] /\ Owns(x, p.c, p.fd)
        /\ Frame(x, t0, p.fd) /\ p.map \in [Fd -> Conn \cup {Nobody}]
        /\ p.inbox \in Seq(Segments) /\ p.answered \in Nat /\ p.up \in BOOLEAN
        /\ p.kid \in [Conn -> Kid] /\ p.buf \in Seq(Entry) /\ p.del \in Seq(Fd)
    BY DEF Good
  <2>6. q.fd \in [Fd -> Object] /\ Owns(x, q.c, q.fd) /\ Frame(x, p.fd, q.fd)
    <3>1. /\ p.c \in ClientRec /\ p.c.content = "none" /\ p.fd \in [Fd -> Object]
          /\ Owns(x, p.c, p.fd)
      BY <2>5
    <3>2. /\ q.fd = Assign(Assign(p.fd, a, <<"cgiOut", x>>), b, <<"cgiIn", x>>)
          /\ q.c = WithContent(p.c, "cgi", a, b)
      BY <2>4
    <3> QED BY ONLY <3>1, <3>2, <2>2, x \in Conn, AssignCgiOwns
  <2>7. q.c \in ClientRec /\ q.c.here
    <3>1. a \in Slot /\ b \in Slot /\ "cgi" \in ContentKind
      BY <2>2, ClientSets
    <3> QED BY <2>4, <2>5, <3>1, WithContentType
  <2>8. Frame(x, t0, q.fd)
    BY <2>5, <2>6, FrameTrans
  <2>9. ForkKids(p) \in [Conn -> Kid]
    <3>1. ASSUME NEW y \in Conn
          PROVE  [p.kid[y] EXCEPT !.shot = @ \/ p.kid[y].run = "running"] \in Kid
      <4>1. p.kid[y] \in Kid /\ p.kid[y].shot \in BOOLEAN
        BY <2>5 DEF Kid
      <4> QED BY <4>1, KidTypes
    <3> QED BY <3>1, KidTypes DEF ForkKids
  <2>10. Good(q, x, t0)
    BY <2>4, <2>5, <2>6, <2>7, <2>8, <2>9 DEF Good
  <2> QED BY <2>10 DEF q
<1> QED BY <1>1, <1>2

----------------------------------------------------------------------------
(* Building a response                                                     *)

LEMMA CheckStatusGood ==
  ASSUME NEW x \in Conn, NEW t0, NEW p, Good(p, x, t0)
  PROVE  Good(CheckStatus(p), x, t0) /\ CheckStatus(p).c.content = p.c.content
<1> DEFINE q == WithStatus(p, 500)
           run == p.kid[p.x].run
           ok == [p EXCEPT !.kid = [p.kid EXCEPT ![p.x].run = "waited ok"], !.ret = TRUE]
           failed == [q EXCEPT !.kid = [p.kid EXCEPT ![p.x].run = "waited failed"],
                               !.ret = FALSE]
           other == [p EXCEPT !.ret = p.c.content = "cgi" => run # "waited failed"]
<1>1. Good(q, x, t0) /\ q.c.content = p.c.content
  BY WithStatusGood
<1>2. CheckStatus(p) \in {ok, failed, other}
  <2>1. CASE p.c.content = "cgi" /\ run = "ok"
    BY <2>1 DEF CheckStatus
  <2>2. CASE p.c.content = "cgi" /\ run = "failed"
    BY <2>2 DEF CheckStatus
  <2>3. CASE ~(p.c.content = "cgi" /\ run = "ok") /\ ~(p.c.content = "cgi" /\ run = "failed")
    BY <2>3 DEF CheckStatus
  <2> QED BY <2>1, <2>2, <2>3
<1> DEFINE kids(r) == [p.kid EXCEPT ![p.x].run = r]
<1>3. kids("waited ok") \in [Conn -> Kid] /\ kids("waited failed") \in [Conn -> Kid]
  BY KidTypes DEF Good
<1> HIDE DEF kids
<1>4. Alike(p, ok) /\ Alike(p, other)
  <2>1. Alike(p, [p EXCEPT !.kid = kids("waited ok"), !.ret = TRUE])
    BY <1>3 DEF Good, Alike, IsImage, ImageFields
  <2>2. Alike(p, other)
    BY DEF Good, Alike, IsImage, ImageFields
  <2> QED BY <2>1, <2>2 DEF kids
<1>5. Alike(q, failed)
  <2>1. Alike(q, [q EXCEPT !.kid = kids("waited failed"), !.ret = FALSE])
    <3> HIDE DEF q
    <3> QED BY <1>1, <1>3 DEF Good, Alike, IsImage, ImageFields
  <2> QED BY <2>1 DEF kids
<1> HIDE DEF q, ok, failed, other
<1> QED BY <1>1, <1>2, <1>4, <1>5, AlikeGood DEF Alike

LEMMA ProcessContentGood ==
  ASSUME NEW x \in Conn, NEW t0, NEW p, Good(p, x, t0), NEW kind, NEW o
  PROVE  Good(ProcessContent(p, kind, o), x, t0)
<1> DEFINE d == DeleteContent(p)
           q == IF kind = "cgi" THEN OpenCgi(d, o) ELSE OpenStatic(d)
<1>1. Good(d, x, t0) /\ d.c.content = "none"
  BY DeleteContentGood
<1>2. Good(q, x, t0)
  <2> HIDE DEF d
  <2> QED BY <1>1, OpenCgiGood, OpenStaticGood
<1>3. Good(WithStatus(q, 500), x, t0)
  <2> HIDE DEF q
  <2> QED BY <1>2, WithStatusGood
<1> QED BY <1>2, <1>3 DEF ProcessContent

LEMMA ProcessResponseErrorGood ==
  ASSUME NEW x \in Conn, NEW t0, NEW p, Good(p, x, t0), NEW o
  PROVE  Good(ProcessResponseError(p, o), x, t0)
<1> DEFINE q == ResetResponse(p)
           r == ProcessContent(q, "file", o)
<1>1. Good(q, x, t0)
  BY ResetResponseGood
<1>2. Good(r, x, t0)
  <2> HIDE DEF q
  <2> QED BY <1>1, ProcessContentGood
<1>3. Good(GetDefaultError(q), x, t0)
  <2> HIDE DEF q
  <2> QED BY <1>1, GetDefaultErrorGood
<1>4. Good(GetDefaultError(r), x, t0)
  <2> HIDE DEF r
  <2> QED BY <1>2, GetDefaultErrorGood
<1> QED BY <1>2, <1>3, <1>4 DEF ProcessResponseError

LEMMA ErrorOverwriteResponseGood ==
  ASSUME NEW x \in Conn, NEW t0, NEW p, Good(p, x, t0), NEW status \in Nat, NEW o
  PROVE  Good(ErrorOverwriteResponse(p, status, o), x, t0)
<1> DEFINE q == WithStatus(p, status)
           r == ProcessResponseError(q, o)
           d == [r.c EXCEPT !.emergency = TRUE]
<1>1. Good(q, x, t0)
  BY WithStatusGood
<1>2. Good(GetDefaultError(ResetResponse(q)), x, t0)
  <2> HIDE DEF q
  <2>1. Good(ResetResponse(q), x, t0)
    BY <1>1, ResetResponseGood
  <2> QED BY <2>1, GetDefaultErrorGood
<1>3. Good(r, x, t0) /\ r.c \in ClientRec
  <2> HIDE DEF q
  <2> QED BY <1>1, ProcessResponseErrorGood DEF Good
<1>4. Good([r EXCEPT !.c = d], x, t0)
  <2> HIDE DEF r
  <2>1. d \in ClientRec /\ SameHold(r.c, d)
    BY <1>3 DEF ClientRec, SameHold
  <2> HIDE DEF d
  <2> QED BY <1>3, <2>1, SetClientGood
<1> QED BY <1>2, <1>4 DEF ErrorOverwriteResponse

LEMMA RouteErrorGood ==
  ASSUME NEW x \in Conn, NEW t0, NEW p, Good(p, x, t0), NEW status \in Nat, NEW o
  PROVE  Good(RouteError(p, status, o), x, t0)
<1>1. Good(WithStatus(p, status), x, t0)
  BY WithStatusGood
<1> QED BY <1>1, ProcessResponseErrorGood DEF RouteError

LEMMA RouteRequestGood ==
  ASSUME NEW x \in Conn, NEW t0, NEW p, Good(p, x, t0), NEW o
  PROVE  Good(RouteRequest(p, o), x, t0)
<1> DEFINE ok == WithStatus(p, 200)
           q  == ProcessContent(ok, p.ask, o)
<1>1. Good(ok, x, t0)
  BY WithStatusGood
<1>2. Good(q, x, t0) /\ Good(Finish(ok), x, t0)
  <2> HIDE DEF ok
  <2> QED BY <1>1, ProcessContentGood, FinishGood
<1>3. Good(ProcessResponseError(q, o), x, t0)
  <2> HIDE DEF q
  <2> QED BY <1>2, ProcessResponseErrorGood
<1>4. Good(RouteError(p, 404, o), x, t0)
  BY RouteErrorGood
<1>5. CASE p.ask \in {"file", "cgi"}
  BY <1>2, <1>3, <1>5 DEF RouteRequest
<1>6. CASE p.ask = "page"
  BY <1>2, <1>6 DEF RouteRequest
<1>7. CASE p.ask \notin {"file", "cgi", "page"}
  BY <1>4, <1>7 DEF RouteRequest
<1> QED BY <1>5, <1>6, <1>7

LEMMA ResetGood ==
  ASSUME NEW x \in Conn, NEW t0, NEW p, Good(p, x, t0), NEW o
  PROVE  Good(Reset(p, o), x, t0)
<1> DEFINE q == ResetResponse(DeleteContent(p))
           d == [q.c EXCEPT !.status = 0, !.body = "none", !.more = FALSE,
                            !.req = IF p.c.more THEN "ready" ELSE "none"]
           r == [q EXCEPT !.c = d]
<1>1. Good(q, x, t0) /\ q.c \in ClientRec
  <2>1. Good(DeleteContent(p), x, t0)
    BY DeleteContentGood
  <2> QED BY <2>1, ResetResponseGood DEF Good
<1>2. Good(r, x, t0)
  <2> HIDE DEF q
  <2>1. d \in ClientRec /\ SameHold(q.c, d)
    BY <1>1 DEF ClientRec, SameHold, BodyState, FrontRequest
  <2> HIDE DEF d
  <2> QED BY <1>1, <2>1, SetClientGood
<1>3. Good(RouteRequest(r, o), x, t0)
  <2> HIDE DEF r
  <2> QED BY <1>2, RouteRequestGood
<1> QED BY <1>2, <1>3 DEF Reset

----------------------------------------------------------------------------
(* The transfers                                                           *)

LEMMA AdvanceType ==
  ASSUME NEW front \in FrontRequest, NEW seg \in Segments
  PROVE  Advance(front, seg) \in FrontRequest
BY DEF FrontRequest, Segments, Advance

LEMMA ClientRecvHttpGood ==
  ASSUME NEW x \in Conn, NEW t0, NEW p, Good(p, x, t0), NEW o
  PROVE  Good(ClientRecvHttp(p, o), x, t0)
<1>1. CASE p.inbox = <<>>
  <2>1. Alike(p, [p EXCEPT !.ret = FALSE])
    BY DEF Good, Alike, IsImage, ImageFields
  <2> QED BY <1>1, <2>1, AlikeGood DEF ClientRecvHttp
<1>2. CASE p.inbox # <<>>
  <2> DEFINE seg   == Head(p.inbox)
             front == Advance(p.c.req, seg)
             more  == p.c.req \in {"ready", "bad"} /\ seg = "full"
             body  == IF p.c.req = "body" /\ front = "ready" THEN "unsent" ELSE p.c.body
             d == [p.c EXCEPT !.req = front, !.body = body, !.more = p.c.more \/ more]
             p1 == [p EXCEPT !.c = d]
             q == [p EXCEPT !.inbox = Tail(p.inbox), !.c = d]
             r == CASE front \in {"part", "bad"} -> RouteError(q, 400, o)
                    [] front = "ready" -> RouteRequest(q, o)
                    [] OTHER -> q
  <2>1. /\ p.c \in ClientRec /\ p.inbox \in Seq(Segments) /\ IsImage(p)
        /\ p.answered \in Nat
        /\ p.kid \in [Conn -> Kid] /\ p.buf \in Seq(Entry) /\ p.del \in Seq(Fd)
    BY DEF Good
  <2>2. seg \in Segments /\ Tail(p.inbox) \in Seq(Segments)
    BY <1>2, <2>1
  <2>3. p.c.req \in FrontRequest /\ p.c.body \in BodyState /\ p.c.more \in BOOLEAN
    BY <2>1 DEF ClientRec
  <2>4. front \in FrontRequest
    BY <2>2, <2>3, AdvanceType
  <2>5. body \in BodyState /\ (p.c.more \/ more) \in BOOLEAN
    BY <2>3 DEF BodyState
  <2>6. d \in ClientRec /\ SameHold(p.c, d)
    <3> HIDE DEF front, more, body
    <3> QED BY <2>1, <2>4, <2>5 DEF ClientRec, SameHold
  <2>7. Good(p1, x, t0)
    <3> HIDE DEF d
    <3> QED BY <2>6, SetClientGood
  <2>8. Alike(p1, q)
    <3> HIDE DEF d
    <3> QED BY <2>1, <2>2 DEF Alike, IsImage, ImageFields
  <2>9. Good(q, x, t0)
    <3> HIDE DEF p1, q
    <3> QED BY <2>7, <2>8, AlikeGood
  <2>10. Good(RouteError(q, 400, o), x, t0) /\ Good(RouteRequest(q, o), x, t0)
    <3> HIDE DEF q
    <3> QED BY <2>9, RouteErrorGood, RouteRequestGood
  <2>11. Good(r, x, t0)
    <3> HIDE DEF q, front
    <3> QED BY <2>9, <2>10
  <2>12. Good([r EXCEPT !.ret = TRUE], x, t0)
    <3> HIDE DEF r
    <3>1. Alike(r, [r EXCEPT !.ret = TRUE])
      BY <2>11 DEF Good, Alike, IsImage, ImageFields
    <3> QED BY <2>11, <3>1, AlikeGood
  <2>13. ClientRecvHttp(p, o) = [r EXCEPT !.ret = TRUE]
    BY <1>2 DEF ClientRecvHttp
  <2> QED BY <2>12, <2>13
<1> QED BY <1>1, <1>2

LEMMA SetRetGood ==
  ASSUME NEW x \in Conn, NEW t0, NEW p, Good(p, x, t0), NEW b
  PROVE  Good([p EXCEPT !.ret = b], x, t0)
<1>1. Alike(p, [p EXCEPT !.ret = b])
  BY DEF Good, Alike, IsImage, ImageFields
<1> QED BY <1>1, AlikeGood

LEMMA ClientRecvStaticFileGood ==
  ASSUME NEW x \in Conn, NEW t0, NEW p, Good(p, x, t0), NEW o
  PROVE  Good(ClientRecvStaticFile(p, o), x, t0)
<1>1. CASE p.c.pos = FileLen \/ o.shrinks
  <2> DEFINE q == WithStatus(p, 500)
             r == IF p.c.got # FileLen THEN ProcessResponseError(q, o) ELSE p
  <2>1. Good(q, x, t0)
    BY WithStatusGood
  <2>2. Good(r, x, t0)
    <3> HIDE DEF q
    <3> QED BY <2>1, ProcessResponseErrorGood
  <2>3. ClientRecvStaticFile(p, o) = [r EXCEPT !.ret = FALSE]
    BY <1>1 DEF ClientRecvStaticFile
  <2> HIDE DEF r
  <2> QED BY <2>2, <2>3, SetRetGood, SMTT(30)
<1>2. CASE ~(p.c.pos = FileLen \/ o.shrinks)
  <2> DEFINE got == IF p.c.got > FileLen THEN p.c.got ELSE p.c.got + 1
             pos == p.c.pos + 1
             ready == p.c.ready \/ got = FileLen
             d == [p.c EXCEPT !.pos = pos, !.got = got, !.ready = ready]
             q == [p EXCEPT !.c = d]
  <2>1. p.c \in ClientRec /\ IsImage(p)
    BY DEF Good
  <2>2. p.c.pos \in Reads /\ p.c.got \in Chunks /\ p.c.ready \in BOOLEAN
    BY <2>1 DEF ClientRec
  <2>3. pos \in Reads /\ got \in Chunks /\ ready \in BOOLEAN
    BY <1>2, <2>2, FileLenAssumption DEF Reads, Chunks
  <2>4. d \in ClientRec /\ SameHold(p.c, d)
    <3> HIDE DEF pos, got, ready
    <3> QED BY <2>1, <2>3 DEF ClientRec, SameHold
  <2>5. Good(q, x, t0)
    <3> HIDE DEF d
    <3> QED BY <2>4, SetClientGood
  <2>6. ClientRecvStaticFile(p, o) = [q EXCEPT !.ret = got # FileLen]
    <3>1. ClientRecvStaticFile(p, o) = [p EXCEPT !.c = d, !.ret = got # FileLen]
      BY <1>2 DEF ClientRecvStaticFile
    <3> HIDE DEF d, got
    <3> QED BY <2>1, <3>1 DEF IsImage, ImageFields
  <2> HIDE DEF q
  <2> QED BY <2>5, <2>6, SetRetGood
<1> QED BY <1>1, <1>2

LEMMA ClientRecvCgiGood ==
  ASSUME NEW x \in Conn, NEW t0, NEW p, Good(p, x, t0), NEW o
  PROVE  Good(ClientRecvCgi(p, o), x, t0)
<1>1. Good(FinishCgi(p), x, t0)
  BY FinishGood
<1>2. CASE p.kid[p.x].out = "unread"
  <2> DEFINE q == IF o.whole THEN FinishCgi(p) ELSE p
             kids == [p.kid EXCEPT ![p.x].out = "read"]
             r == [q EXCEPT !.kid = kids, !.ret = ~o.whole]
  <2>1. Good(q, x, t0)
    BY <1>1
  <2>2. kids \in [Conn -> Kid]
    BY KidTypes DEF Good
  <2>3. Alike(q, r)
    <3> HIDE DEF q, kids
    <3> QED BY <2>1, <2>2 DEF Good, Alike, IsImage, ImageFields
  <2>4. ClientRecvCgi(p, o) = r
    BY <1>2 DEF ClientRecvCgi
  <2> HIDE DEF q, r
  <2> QED BY <2>1, <2>3, <2>4, AlikeGood
<1>3. CASE p.kid[p.x].out # "unread"
  <2> DEFINE q == IF p.kid[p.x].run = "running" THEN p ELSE FinishCgi(p)
  <2>1. Good(q, x, t0)
    BY <1>1
  <2>2. ClientRecvCgi(p, o) = [q EXCEPT !.ret = FALSE]
    BY <1>3 DEF ClientRecvCgi
  <2> HIDE DEF q
  <2> QED BY <2>1, <2>2, SetRetGood, SMTT(30)
<1> QED BY <1>2, <1>3

LEMMA ClientRecvContentGood ==
  ASSUME NEW x \in Conn, NEW t0, NEW p, Good(p, x, t0), NEW o
  PROVE  Good(ClientRecvContent(p, o), x, t0)
<1> DEFINE q == CheckStatus(p)
<1>1. Good(q, x, t0)
  BY CheckStatusGood
<1>2. Good(ClientRecvCgi(q, o), x, t0) /\ Good(ClientRecvStaticFile(q, o), x, t0)
  <2> HIDE DEF q
  <2> QED BY <1>1, ClientRecvCgiGood, ClientRecvStaticFileGood
<1>3. Good([p EXCEPT !.ret = FALSE], x, t0)
  BY SetRetGood
<1> QED BY <1>1, <1>2, <1>3 DEF ClientRecvContent

LEMMA ClientSendContentGood ==
  ASSUME NEW x \in Conn, NEW t0, NEW p, Good(p, x, t0), NEW o
  PROVE  Good(ClientSendContent(p, o), x, t0)
<1> DEFINE q == CheckStatus(p)
           sent == [q.c EXCEPT !.body = "sent"]
           partly == [q.c EXCEPT !.body = "partly"]
           r == [q EXCEPT !.c = partly]
           kids == [q.kid EXCEPT ![p.x].full = TRUE]
           s == [q EXCEPT !.c = partly, !.kid = kids, !.ret = TRUE]
<1>1. Good(q, x, t0) /\ q.c \in ClientRec /\ IsImage(q)
  BY CheckStatusGood DEF Good
<1>2. /\ Good([p EXCEPT !.ret = FALSE], x, t0)
      /\ Good([q EXCEPT !.ret = FALSE], x, t0)
  <2> HIDE DEF q
  <2> QED BY <1>1, SetRetGood
<1>3. Good([q EXCEPT !.killed = TRUE], x, t0)
  <2> HIDE DEF q
  <2>1. Alike(q, [q EXCEPT !.killed = TRUE])
    BY <1>1 DEF Good, Alike, IsImage, ImageFields
  <2> QED BY <1>1, <2>1, AlikeGood
<1>4. /\ sent \in ClientRec /\ SameHold(q.c, sent)
      /\ partly \in ClientRec /\ SameHold(q.c, partly)
  <2> HIDE DEF q
  <2> QED BY <1>1 DEF ClientRec, SameHold, BodyState
<1>5. Good([q EXCEPT !.c = sent, !.ret = FALSE], x, t0)
  <2> HIDE DEF q, sent
  <2>1. Good([q EXCEPT !.c = sent], x, t0)
    BY <1>1, <1>4, SetClientGood
  <2>2. [q EXCEPT !.c = sent, !.ret = FALSE] = [[q EXCEPT !.c = sent] EXCEPT !.ret = FALSE]
    BY <1>1 DEF IsImage, ImageFields
  <2> QED BY <2>1, <2>2, SetRetGood
<1>6. Good(s, x, t0)
  <2>1. Good(r, x, t0)
    <3> HIDE DEF q, partly
    <3> QED BY <1>1, <1>4, SetClientGood
  <2>2. Alike(r, s)
    <3>1. kids \in [Conn -> Kid]
      <4> HIDE DEF q
      <4> QED BY <1>1, KidTypes DEF Good
    <3> HIDE DEF q, partly, kids
    <3> QED BY <1>1, <3>1 DEF Good, Alike, IsImage, ImageFields
  <2> HIDE DEF r, s
  <2> QED BY <2>1, <2>2, AlikeGood
<1> QED BY <1>2, <1>3, <1>5, <1>6 DEF ClientSendContent

LEMMA ClientSendResponseGood ==
  ASSUME NEW x \in Conn, NEW t0, NEW p, Good(p, x, t0), NEW o
  PROVE  Good(ClientSendResponse(p, o), x, t0)
<1> DEFINE d == [p.c EXCEPT !.begun = TRUE]
           q == Reset(p, o)
           n == IF p.up THEN p.answered + 1 ELSE p.answered
           whole == [p EXCEPT !.answered = n, !.ret = FALSE]
           broken == [p EXCEPT !.killed = TRUE]
<1>1. Good([q EXCEPT !.ret = FALSE], x, t0)
  <2>1. Good(q, x, t0)
    BY ResetGood
  <2> HIDE DEF q
  <2> QED BY <2>1, SetRetGood
<1>2. Good(whole, x, t0)
  <2>0. n \in Nat
    BY DEF Good, IsImage
  <2> HIDE DEF n
  <2>1. Alike(p, whole)
    BY <2>0 DEF Good, Alike, IsImage, ImageFields
  <2> HIDE DEF whole
  <2> QED BY <2>1, AlikeGood
<1>3. Good(broken, x, t0)
  <2>1. Alike(p, broken)
    BY DEF Good, Alike, IsImage, ImageFields
  <2> HIDE DEF broken
  <2> QED BY <2>1, AlikeGood
<1>4. Good([p EXCEPT !.c = d, !.ret = TRUE], x, t0)
  <2>1. p.c \in ClientRec /\ IsImage(p)
    BY DEF Good
  <2>2. d \in ClientRec /\ SameHold(p.c, d)
    BY <2>1 DEF ClientRec, SameHold
  <2> HIDE DEF d
  <2>3. Good([p EXCEPT !.c = d], x, t0)
    BY <2>2, SetClientGood
  <2>4. [p EXCEPT !.c = d, !.ret = TRUE] = [[p EXCEPT !.c = d] EXCEPT !.ret = TRUE]
    BY <2>1 DEF IsImage, ImageFields
  <2> QED BY <2>3, <2>4, SetRetGood
<1> QED BY <1>1, <1>2, <1>3, <1>4 DEF ClientSendResponse

LEMMA CheckContentStatusGood ==
  ASSUME NEW x \in Conn, NEW t0, NEW p, Good(p, x, t0)
  PROVE  Good(CheckContentStatus(p), x, t0)
<1> DEFINE q == CheckStatus(p)
           f == Finish(p)
<1>1. Good(q, x, t0) /\ Good(f, x, t0)
  BY CheckStatusGood, FinishGood
<1>2. Good(FinishCgi(q), x, t0)
  <2> HIDE DEF q
  <2> QED BY <1>1, FinishGood
<1>3. Good([f EXCEPT !.ret = TRUE], x, t0) /\ Good([p EXCEPT !.ret = FALSE], x, t0)
  <2> HIDE DEF f
  <2> QED BY <1>1, SetRetGood
<1> QED BY <1>1, <1>2, <1>3 DEF CheckContentStatus

----------------------------------------------------------------------------
(* What Server does around a transfer                                      *)

LEMMA MarkGood ==
  ASSUME NEW x \in Conn, NEW t0, NEW p, Good(p, x, t0), NEW s \in Seq(Fd)
  PROVE  Good([p EXCEPT !.del = s], x, t0)
<1>1. Alike(p, [p EXCEPT !.del = s])
  BY DEF Good, Alike, IsImage, ImageFields
<1> QED BY <1>1, AlikeGood

\* A client holds descriptors.
LEMMA HoldsFds ==
  ASSUME NEW x \in Conn, NEW t0, NEW p, Good(p, x, t0)
  PROVE  /\ p.c.content \in {"none", "file", "cgi"} /\ p.c.sock \in Fd
         /\ p.c.content # "none" => p.c.in \in Fd
         /\ p.c.content = "cgi" => p.c.out \in Fd
BY DEF Good, Owns, ClientRec, ContentKind

LEMMA MarkFdGood ==
  ASSUME NEW x \in Conn, NEW t0, NEW p, Good(p, x, t0), NEW fd \in Fd
  PROVE  Good(MarkFd(p, fd), x, t0) /\ Good(MarkContent(p), x, t0)
<1> DEFINE s == p.del \o (CASE p.c.content = "none" -> <<>>
                            [] p.c.content = "file" -> <<p.c.in>>
                            [] OTHER -> <<p.c.in, p.c.out>>)
<1>1. MarkFd(p, fd) = [p EXCEPT !.del = Append(p.del, fd)]
  BY DEF MarkFd
<1>2. MarkContent(p) = [p EXCEPT !.del = s]
  BY DEF MarkContent
<1>3. p.del \in Seq(Fd)
  BY DEF Good
<1>4. s \in Seq(Fd)
  BY <1>3, HoldsFds
<1> HIDE DEF s
<1>5. Good([p EXCEPT !.del = s], x, t0)
  BY <1>4, MarkGood
<1>6. Good([p EXCEPT !.del = Append(p.del, fd)], x, t0)
  <2>1. Append(p.del, fd) \in Seq(Fd)
    BY <1>3
  <2> QED BY <2>1, MarkGood
<1> QED BY <1>1, <1>2, <1>5, <1>6

LEMMA DoomGood ==
  ASSUME NEW x \in Conn, NEW t0, NEW p, Good(p, x, t0)
  PROVE  Good(Doom(p), x, t0)
<1> DEFINE d == [p.c EXCEPT !.doomed = TRUE]
<1>1. p.c \in ClientRec
  BY DEF Good
<1>2. d \in ClientRec /\ SameHold(p.c, d)
  BY <1>1 DEF ClientRec, SameHold
<1>3. Doom(p) = [p EXCEPT !.c = d]
  BY DEF Doom
<1> HIDE DEF d
<1> QED BY <1>2, <1>3, SetClientGood

LEMMA MarkClientGood ==
  ASSUME NEW x \in Conn, NEW t0, NEW p, Good(p, x, t0)
  PROVE  Good(MarkClient(p), x, t0)
<1> DEFINE q == Doom(p)
           r == [q EXCEPT !.del = q.del \o <<p.c.sock, p.c.sock>>]
<1>1. Good(q, x, t0)
  BY DoomGood
<1>2. Good(r, x, t0)
  <2> HIDE DEF q
  <2>1. q.del \in Seq(Fd) /\ p.c.sock \in Fd
    BY <1>1, HoldsFds DEF Good
  <2>2. q.del \o <<p.c.sock, p.c.sock>> \in Seq(Fd)
    BY <2>1
  <2> QED BY <1>1, <2>2, MarkGood
<1>3. Good(MarkContent(r), x, t0)
  <2>1. p.c.sock \in Fd
    BY HoldsFds
  <2> HIDE DEF r
  <2> QED BY <1>2, <2>1, MarkFdGood
<1>4. MarkClient(p) = MarkContent(r)
  BY DEF MarkClient
<1> QED BY <1>3, <1>4

LEMMA AddSingleFdGood ==
  ASSUME NEW x \in Conn, NEW t0, NEW p, Good(p, x, t0), NEW fd \in Fd,
         NEW events \in {"IN", "OUT"}
  PROVE  Good(AddSingleFd(p, fd, events), x, t0) /\ AddSingleFd(p, fd, events).c = p.c
<1> DEFINE q == AddSingleFd(p, fd, events)
           m == IF p.map[fd] = Nobody THEN [p.map EXCEPT ![fd] = p.x] ELSE p.map
<1>1. p.x = x /\ p.map \in [Fd -> Conn \cup {Nobody}]
  BY DEF Good
<1>2. m \in [Fd -> Conn \cup {Nobody}]
  BY <1>1
<1>3. /\ IsImage(q) /\ q.x = p.x /\ q.c = p.c /\ q.fd = p.fd
      /\ q.inbox = p.inbox /\ q.answered = p.answered /\ q.up = p.up
      /\ q.map = m /\ q.kid = p.kid /\ q.del = p.del
      /\ q.buf = Append(p.buf, [fd |-> fd, events |-> events])
  BY DEF Good, AddSingleFd, IsImage, ImageFields
<1> HIDE DEF q, m
<1>4. q.buf \in Seq(Entry)
  <2>1. [fd |-> fd, events |-> events] \in Entry /\ p.buf \in Seq(Entry)
    BY DEF Entry, Good
  <2> QED BY <1>3, <2>1
<1>5. Good(q, x, t0) /\ q.c = p.c
  BY <1>2, <1>3, <1>4 DEF Good
<1> QED BY <1>5 DEF q

LEMMA AddClientContentFdGood ==
  ASSUME NEW x \in Conn, NEW t0, NEW p, Good(p, x, t0)
  PROVE  Good(AddClientContentFd(p), x, t0)
<1> DEFINE q == AddSingleFd(p, p.c.in, "IN")
           r == IF p.c.content = "cgi" THEN AddSingleFd(q, p.c.out, "OUT") ELSE q
           d == [r.c EXCEPT !.given = TRUE]
<1> SUFFICES ASSUME p.c.content # "none" PROVE Good([r EXCEPT !.c = d], x, t0)
  BY DEF AddClientContentFd
<1>1. Good(q, x, t0)
  BY AddSingleFdGood, HoldsFds
<1>2. Good(r, x, t0)
  <2>1. p.c.content = "cgi" => p.c.out \in Fd
    BY HoldsFds
  <2> HIDE DEF q
  <2> QED BY <1>1, <2>1, AddSingleFdGood
<1>3. Good([r EXCEPT !.c = d], x, t0)
  <2> HIDE DEF r
  <2>1. r.c \in ClientRec
    BY <1>2 DEF Good
  <2>2. d \in ClientRec /\ SameHold(r.c, d)
    BY <2>1 DEF ClientRec, SameHold
  <2> HIDE DEF d
  <2> QED BY <1>2, <2>2, SetClientGood
<1> QED BY <1>3

LEMMA HandleClientRecvGood ==
  ASSUME NEW x \in Conn, NEW t0, NEW p, Good(p, x, t0), NEW fd \in Fd, NEW o
  PROVE  Good(HandleClientRecv(p, fd, o), x, t0)
<1> DEFINE q == ClientRecvHttp(p, o)
           r == ClientRecvContent(p, o)
<1>1. Good(q, x, t0) /\ Good(r, x, t0)
  BY ClientRecvHttpGood, ClientRecvContentGood
<1>2. Good(MarkClient(q), x, t0)
  <2> HIDE DEF q
  <2> QED BY <1>1, MarkClientGood
<1>3. Good(MarkFd(r, fd), x, t0) /\ Good(MarkContent(r), x, t0)
  <2> HIDE DEF r
  <2> QED BY <1>1, MarkFdGood
<1> QED BY <1>1, <1>2, <1>3 DEF HandleClientRecv

LEMMA HandleClientSentGood ==
  ASSUME NEW x \in Conn, NEW t0, NEW p, Good(p, x, t0), NEW fd \in Fd, NEW o
  PROVE  Good(HandleClientSent(p, fd, o), x, t0)
<1> DEFINE q == ClientSendContent(p, o)
           r == ClientSendResponse(p, o)
<1>1. Good(q, x, t0) /\ Good(r, x, t0)
  BY ClientSendContentGood, ClientSendResponseGood
<1>2. Good(MarkFd(q, fd), x, t0)
  <2> HIDE DEF q
  <2> QED BY <1>1, MarkFdGood
<1>3. Good(MarkClient(r), x, t0)
  <2> HIDE DEF r
  <2> QED BY <1>1, MarkClientGood
<1> QED BY <1>1, <1>2, <1>3 DEF HandleClientSent

LEMMA CleanUpClientGood ==
  ASSUME NEW x \in Conn, NEW t0, NEW p, Good(p, x, t0), NEW fd \in Fd, NEW o
  PROVE  Good(CleanUpClient(p, fd, o), x, t0)
<1> DEFINE q == CheckContentStatus(p)
           e == ErrorOverwriteResponse(q, 500, o)
           r == IF q.ret THEN q ELSE e
<1>1. Good(q, x, t0)
  BY CheckContentStatusGood
<1>2. Good(e, x, t0)
  <2> HIDE DEF q
  <2> QED BY <1>1, ErrorOverwriteResponseGood
<1>3. Good(r, x, t0)
  BY <1>1, <1>2
<1>4. Good(MarkFd(r, fd), x, t0)
  <2> HIDE DEF r
  <2> QED BY <1>3, MarkFdGood
<1> QED BY <1>4, DoomGood DEF CleanUpClient

LEMMA Error2ClientGood ==
  ASSUME NEW x \in Conn, NEW t0, NEW p, Good(p, x, t0), NEW fd \in Fd, NEW o
  PROVE  Good(Error2Client(p, fd, o), x, t0)
<1> DEFINE e == ErrorOverwriteResponse(p, 500, o)
<1>1. Good(e, x, t0)
  BY ErrorOverwriteResponseGood
<1>2. Good(MarkFd(e, fd), x, t0)
  <2> HIDE DEF e
  <2> QED BY <1>1, MarkFdGood
<1> QED BY <1>2, DoomGood DEF Error2Client

LEMMA DispatchGood ==
  ASSUME NEW x \in Conn, NEW t0, NEW p, Good(p, x, t0), NEW fd \in Fd, NEW rev, NEW o
  PROVE  Good(Dispatch(p, fd, rev, o), x, t0)
<1>1. /\ Good(HandleClientRecv(p, fd, o), x, t0)
      /\ Good(HandleClientSent(p, fd, o), x, t0)
      /\ Good(CleanUpClient(p, fd, o), x, t0)
      /\ Good(Error2Client(p, fd, o), x, t0)
  BY HandleClientRecvGood, HandleClientSentGood, CleanUpClientGood, Error2ClientGood
<1>2. CASE "IN" \in rev
  BY <1>1, <1>2 DEF Dispatch
<1>3. CASE "IN" \notin rev /\ "OUT" \in rev
  BY <1>1, <1>3 DEF Dispatch
<1>4. CASE "IN" \notin rev /\ "OUT" \notin rev /\ "HUP" \in rev
  BY <1>1, <1>4 DEF Dispatch
<1>5. CASE "IN" \notin rev /\ "OUT" \notin rev /\ "HUP" \notin rev
  BY <1>1, <1>5 DEF Dispatch
<1> QED BY <1>2, <1>3, <1>4, <1>5

LEMMA TimeOutGood ==
  ASSUME NEW x \in Conn, NEW t0, NEW p, Good(p, x, t0), NEW fd \in Fd, NEW o
  PROVE  Good(TimeOut(p, fd, o), x, t0)
<1> DEFINE status == CheckTimer(p, fd, o)
           q == IF fd # p.c.sock THEN MarkContent(p) ELSE p
<1>1. status \in Nat
  BY DEF CheckTimer
<1>2. Good(q, x, t0)
  BY MarkFdGood
<1>3. Good(ErrorOverwriteResponse(q, status, o), x, t0)
  <2> HIDE DEF q, status
  <2> QED BY <1>1, <1>2, ErrorOverwriteResponseGood
<1> QED BY <1>3 DEF TimeOut

\* Whatever handleClient() does for a client of x, it leaves x holding exactly
\* the descriptors opened for it, and no other connection's descriptors change.
LEMMA HandledGood ==
  ASSUME NEW x \in Conn, NEW t0, Good(Image(x), x, t0), NEW fd \in Fd, NEW rev, NEW o
  PROVE  Good(Handled(x, fd, rev, o), x, t0)
<1> DEFINE p == Dispatch(Image(x), fd, rev, o)
           q == AddClientContentFd(p)
<1>1. Good(p, x, t0)
  <2> DEFINE i == Image(x)
  <2> HIDE DEF i
  <2>1. Good(i, x, t0)
    BY DEF i
  <2>2. Good(Dispatch(i, fd, rev, o), x, t0)
    BY <2>1, DispatchGood
  <2> QED BY <2>2 DEF i
<1>2. Good(q, x, t0)
  <2> HIDE DEF p
  <2> QED BY <1>1, AddClientContentFdGood
<1>3. Good(TimeOut(q, fd, o), x, t0)
  <2> HIDE DEF q
  <2> QED BY <1>2, TimeOutGood
<1> QED BY <1>3 DEF Handled

----------------------------------------------------------------------------
(* The invariant                                                           *)

NetRec == [stage : {"new", "queued", "accepted", "closed"},
           ask : Asks, unsent : Seq(Segments), inbox : Seq(Segments),
           up : BOOLEAN, answered : Nat]

\* What the tables of the server and the kernel hold.
Types ==
    /\ client_mapping \in [Fd -> Conn \cup {Nobody}]
    /\ client \in [Conn -> ClientRec]
    /\ fdtab \in [Fd -> Object]
    /\ net \in [Conn -> NetRec]
    /\ backlog \in [Listening -> Seq(Conn)]
    /\ pc.at = "server" => pc.i \in Listening

\* A connection that has no Client holds no descriptor.
Absent(x) ==
    /\ client[x] = NoClient
    /\ \A f \in Fd, role \in Roles : fdtab[f] # <<role, x>>

\* A Client exists only for a connection that was accepted, and only
\* connections that wait to be accepted are in a backlog, each of them once.
Queues ==
    /\ \A x \in Present : net[x].stage = "accepted"
    /\ \A i \in Listening : \A m \in 1 .. Len(backlog[i]) :
          /\ net[backlog[i][m]].stage = "queued"
          /\ \A j \in Listening : \A n \in 1 .. Len(backlog[j]) :
                backlog[i][m] = backlog[j][n] => i = j /\ m = n

Ownership ==
    /\ \A x \in Present : Owns(x, client[x], fdtab)
    /\ \A x \in Conn \ Present : Absent(x)
    /\ \A f \in Fd : fdtab[f] = Listener <=> f \in Listening /\ ~Ended

Sound == Types /\ Queues /\ Ownership

\* What the loop keeps from round to round, and where it is: the entry it handles
\* exists, and poll() reported on it.
Lists ==
    /\ socket_fds \in Seq(Entry) /\ buffer_new_fd \in Seq(Entry)
    /\ revents \in Seq(SUBSET {"IN", "OUT", "HUP", "ERR", "NVAL"})
    /\ fds_to_be_deleted \in Seq(Fd)
    /\ kid \in [Conn -> Kid]
    /\ pc.at \in {"poll", "client", "server", "reset", "undefined", "killed", "stopped"}
    /\ pc.at = "client" => pc.i \in 1 .. Len(socket_fds) /\ Len(revents) = Len(socket_fds)

IInv == Sound /\ Lists

\* The invariant implies the property the runs check.
LEMMA SoundImplies == Sound => FdOwnership
<1> SUFFICES ASSUME Sound PROVE FdOwnership
  OBVIOUS
<1>1. \A f \in Fd, x \in Conn, role \in Roles :
         fdtab[f] = <<role, x>> <=> Holds(x, role, f)
  <2> SUFFICES ASSUME NEW f \in Fd, NEW x \in Conn, NEW role \in Roles
               PROVE  fdtab[f] = <<role, x>> <=> Holds(x, role, f)
    OBVIOUS
  <2>1. CASE x \in Present
    <3>1. client[x].here /\ Owns(x, client[x], fdtab)
      BY <2>1 DEF Sound, Ownership, Present
    <3> QED BY <3>1, ZenonT(60) DEF Owns, Holds, Roles
  <2>2. CASE x \notin Present
    <3>1. fdtab[f] # <<role, x>> /\ ~client[x].here
      BY <2>2 DEF Sound, Ownership, Absent, Present
    <3> QED BY <3>1 DEF Holds
  <2> QED BY <2>1, <2>2
<1>2. \A x \in Conn : client[x].here =>
          /\ client[x].sock \in Fd
          /\ client[x].content # "none" => client[x].in \in Fd
          /\ client[x].content = "cgi" => client[x].out \in Fd
  BY DEF Sound, Ownership, Present, Owns, Types, ClientRec, ContentKind
<1> QED BY <1>1, <1>2 DEF FdOwnership, Sound, Ownership

LEMMA NoClientType == NoClient \in ClientRec /\ NoClient.here = FALSE
BY ClientSets DEF NoClient, ClientRec, FrontRequest, BodyState

LEMMA InitSound == Init => Sound
<1> SUFFICES ASSUME Init PROVE Sound
  OBVIOUS
<1>1. Present = {}
  BY DEF Init, Present, NoClient
<1>2. Listener # Free /\ Listener \in Object /\ Free \in Object
  BY DEF Listener, Free, Object
<1>3. \A f \in Fd, x \in Conn, role \in Roles : fdtab[f] # <<role, x>>
  BY NobodyAssumption DEF Init, Listener, Free
<1>4. Types
  <2>1. net \in [Conn -> NetRec]
    BY DEF Init, NetRec, Asks
  <2>2. backlog \in [Listening -> Seq(Conn)]
    BY DEF Init
  <2> QED BY <1>2, <2>1, <2>2, NoClientType DEF Types, Init, At
<1>5. Queues
  BY <1>1 DEF Queues, Init
<1>6. Ownership
  <2>1. pc.at = "poll"
    BY DEF Init, At
  <2> QED BY <1>1, <1>2, <1>3, <2>1 DEF Ownership, Absent, Init, Ended
<1> QED BY <1>4, <1>5, <1>6 DEF Sound

----------------------------------------------------------------------------
(* Every step preserves the invariant                                      *)

\* Steps that leave the descriptors, their owners and the queues alone.
LEMMA QuietStep ==
  ASSUME Sound, UNCHANGED <<client, fdtab, client_mapping, backlog>>,
         net' \in [Conn -> NetRec], \A x \in Conn : net'[x].stage = net[x].stage,
         Ended' <=> Ended, pc'.at = "server" => pc'.i \in Listening
  PROVE  Sound'
<1>1. Types'
  BY DEF Sound, Types
<1>2. Present' = Present
  BY DEF Present
<1>3. Queues'
  <2>1. \A i \in Listening : \A m \in 1 .. Len(backlog[i]) : backlog[i][m] \in Conn
    BY DEF Sound, Types
  <2>2. Present \subseteq Conn
    BY DEF Present
  <2> QED BY <1>2, <2>1, <2>2 DEF Sound, Queues
<1>4. Ownership'
  BY <1>2 DEF Sound, Ownership, Absent
<1> QED BY <1>1, <1>3, <1>4 DEF Sound

LEMMA NextPlaces ==
  /\ FirstClient.at \in {"client", "server"} /\ NextClient.at \in {"client", "server"}
  /\ FirstClient.at = "server" => FirstClient.i \in Listening
  /\ NextClient.at = "server" => NextClient.i \in Listening
  /\ pc.i \in Listening => /\ NextServer.at \in {"server", "reset"}
                           /\ NextServer.at = "server" => NextServer.i \in Listening
BY FdAssumption DEF FirstClient, NextClient, NextServer, At, Listening

\* The process ends and the kernel closes everything.
LEMMA ProcessEndsStep ==
  ASSUME Sound, NEW how \in {"killed", "stopped"}, ProcessEnds(how), UNCHANGED <<net, backlog>>
  PROVE  Sound'
<1>1. Present' = {}
  BY DEF ProcessEnds, Present, NoClient
<1>2. Free # Listener /\ Free \in Object /\ \A x \in Conn, role \in Roles : <<role, x>> # Free
  BY NobodyAssumption DEF Free, Listener, Object
<1>3. pc'.at = how /\ Ended'
  BY DEF ProcessEnds, At, Ended
<1>4. Types'
  BY <1>2, <1>3, NoClientType DEF ProcessEnds, Sound, Types
<1>5. Queues'
  BY <1>1 DEF Sound, Queues
<1>6. Ownership'
  BY <1>1, <1>2, <1>3 DEF Ownership, Absent, ProcessEnds
<1> QED BY <1>4, <1>5, <1>6 DEF Sound

\* The image a handler starts from.
LEMMA ImageGood ==
  ASSUME Sound, Lists, NEW x \in Present
  PROVE  Good(Image(x), x, fdtab)
<1>1. x \in Conn /\ client[x].here
  BY DEF Present
<1>2. IsImage(Image(x))
  BY DEF IsImage, ImageFields, Image
<1>3. /\ Image(x).x = x /\ Image(x).c = client[x] /\ Image(x).fd = fdtab
      /\ Image(x).map = client_mapping /\ Image(x).inbox = net[x].inbox
      /\ Image(x).answered = net[x].answered /\ Image(x).up = net[x].up
  BY DEF Image
<1>4. net[x].inbox \in Seq(Segments) /\ net[x].answered \in Nat /\ net[x].up \in BOOLEAN
  BY <1>1 DEF Sound, Types, NetRec
<1>5. Owns(x, client[x], fdtab) /\ Frame(x, fdtab, fdtab)
  BY DEF Sound, Ownership, Frame
<1>6. /\ Image(x).kid = kid /\ Image(x).buf = buffer_new_fd /\ Image(x).del = fds_to_be_deleted
      /\ kid \in [Conn -> Kid] /\ buffer_new_fd \in Seq(Entry) /\ fds_to_be_deleted \in Seq(Fd)
  BY DEF Image, Lists
<1>7. /\ client[x] \in ClientRec /\ fdtab \in [Fd -> Object]
      /\ client_mapping \in [Fd -> Conn \cup {Nobody}]
  BY <1>1 DEF Sound, Types
<1> QED BY <1>1, <1>2, <1>3, <1>4, <1>5, <1>6, <1>7 DEF Good

\* What another connection holds is untouched by a change within Mine(x).
LEMMA OthersKeep ==
  ASSUME NEW x \in Conn, NEW y \in Conn, x # y,
         NEW t \in [Fd -> Object], NEW u \in [Fd -> Object], Frame(x, t, u),
         NEW f \in Fd, NEW role \in Roles
  PROVE  u[f] = <<role, y>> <=> t[f] = <<role, y>>
<1>1. <<role, y>> \notin Mine(x)
  BY NobodyAssumption DEF Mine, Free
<1> QED BY <1>1 DEF Frame

LEMMA ListenersKeep ==
  ASSUME NEW x \in Conn, NEW t \in [Fd -> Object], NEW u \in [Fd -> Object], Frame(x, t, u),
         NEW f \in Fd
  PROVE  u[f] = Listener <=> t[f] = Listener
<1>1. Listener \notin Mine(x)
  BY DEF Mine, Free, Listener, Roles
<1> QED BY <1>1 DEF Frame

\* The client of x is handled, or made: all others keep what they hold.
LEMMA OwnershipStep ==
  ASSUME Sound, NEW x \in Conn, NEW c \in ClientRec, c.here, NEW u \in [Fd -> Object],
         Owns(x, c, u), Frame(x, fdtab, u),
         client' = [client EXCEPT ![x] = c], fdtab' = u, Ended' <=> Ended
  PROVE  Ownership' /\ client' \in [Conn -> ClientRec] /\ Present' = Present \cup {x}
<1>1. client \in [Conn -> ClientRec] /\ fdtab \in [Fd -> Object]
  BY DEF Sound, Types
<1>2. client' \in [Conn -> ClientRec] /\ client'[x] = c
      /\ \A y \in Conn : y # x => client'[y] = client[y]
  BY <1>1
<1>3. Present' = Present \cup {x}
  BY <1>2 DEF Present
<1>4. ASSUME NEW y \in Present'
      PROVE  Owns(y, client'[y], fdtab')
  <2>1. CASE y = x
    BY <1>2, <2>1
  <2>2. CASE y # x
    <3>1. y \in Present /\ y \in Conn /\ client'[y] = client[y]
      BY <1>2, <1>3, <2>2 DEF Present
    <3>2. Owns(y, client[y], fdtab)
      BY <3>1 DEF Sound, Ownership
    <3>3. \A f \in Fd, role \in Roles : u[f] = <<role, y>> <=> fdtab[f] = <<role, y>>
      BY <1>1, <2>2, <3>1, OthersKeep
    <3>4. "socket" \in Roles /\ "file" \in Roles /\ "cgiOut" \in Roles /\ "cgiIn" \in Roles
      BY DEF Roles
    <3> QED BY <3>1, <3>2, <3>3, <3>4 DEF Owns
  <2> QED BY <2>1, <2>2
<1>5. ASSUME NEW y \in (Conn \ Present)'
      PROVE  Absent(y)'
  <2>1. y \in Conn \ Present /\ y # x /\ client'[y] = client[y]
    BY <1>2, <1>3
  <2>2. Absent(y)
    BY <2>1 DEF Sound, Ownership
  <2>3. \A f \in Fd, role \in Roles : u[f] = <<role, y>> <=> fdtab[f] = <<role, y>>
    BY <1>1, <2>1, OthersKeep
  <2> QED BY <2>1, <2>2, <2>3 DEF Absent
<1>6. (\A f \in Fd : fdtab[f] = Listener <=> f \in Listening /\ ~Ended)'
  BY <1>1, ListenersKeep DEF Sound, Ownership, Listening
<1> QED BY <1>2, <1>3, <1>4, <1>5, <1>6 DEF Ownership

LEMMA StoreStep ==
  ASSUME Sound, pc.at = "client", NEW x \in Present, NEW p, Good(p, x, fdtab), Store(x, p)
  PROVE  Sound'
<1>1. x \in Conn
  BY DEF Present
<1>2. /\ p.c \in ClientRec /\ p.c.here /\ p.fd \in [Fd -> Object] /\ Owns(x, p.c, p.fd)
      /\ Frame(x, fdtab, p.fd) /\ p.inbox \in Seq(Segments)
      /\ p.answered \in Nat /\ p.map \in [Fd -> Conn \cup {Nobody}]
  BY DEF Good
<1>3. /\ client' = [client EXCEPT ![x] = p.c] /\ fdtab' = p.fd /\ client_mapping' = p.map
      /\ net' = [net EXCEPT ![x].inbox = p.inbox, ![x].answered = p.answered]
      /\ pc' = NextClient /\ backlog' = backlog
  BY DEF Store
<1>4. ~Ended /\ ~Ended' /\ (pc'.at = "server" => pc'.i \in Listening)
  BY <1>3, NextPlaces DEF Ended
<1>5. Ownership' /\ client' \in [Conn -> ClientRec] /\ Present' = Present \cup {x}
  BY <1>1, <1>2, <1>3, <1>4, OwnershipStep
<1>6. net' \in [Conn -> NetRec] /\ \A y \in Conn : net'[y].stage = net[y].stage
  <2> DEFINE n == [net[x] EXCEPT !.inbox = p.inbox, !.answered = p.answered]
  <2>1. net \in [Conn -> NetRec]
    BY DEF Sound, Types
  <2>2. n \in NetRec /\ n.stage = net[x].stage
    BY <1>1, <1>2, <2>1, ZenonT(60) DEF NetRec
  <2>3. net' = [net EXCEPT ![x] = n]
    BY <1>1, <1>3, <2>1 DEF NetRec
  <2> HIDE DEF n
  <2> QED BY <1>1, <2>1, <2>2, <2>3
<1>7. Types'
  BY <1>2, <1>3, <1>4, <1>5, <1>6 DEF Sound, Types
<1>8. Queues'
  <2>1. \A i \in Listening : \A m \in 1 .. Len(backlog[i]) : backlog[i][m] \in Conn
    BY DEF Sound, Types
  <2>2. Present' = Present /\ Present \subseteq Conn
    BY <1>5 DEF Present
  <2> QED BY <1>3, <1>6, <2>1, <2>2 DEF Sound, Queues
<1> QED BY <1>5, <1>7, <1>8 DEF Sound

LEMMA HandleClientSound ==
  ASSUME Sound, Lists, HandleClient
  PROVE  Sound'
<1> DEFINE fd == socket_fds[pc.i].fd
           x  == client_mapping[fd]
           p(o) == Handled(x, fd, revents[pc.i], o)
<1>1. pc.at = "client"
  BY DEF HandleClient
<1>2. CASE UNCHANGED <<client, fdtab, client_mapping, net, backlog>>
           /\ pc' \in {NextClient, At("undefined", 0)}
  <2>1. ~Ended /\ ~Ended' /\ (pc'.at = "server" => pc'.i \in Listening)
    BY <1>1, <1>2, NextPlaces DEF Ended, At
  <2>2. net' \in [Conn -> NetRec] /\ \A y \in Conn : net'[y].stage = net[y].stage
    BY <1>2 DEF Sound, Types
  <2> QED BY <1>2, <2>1, <2>2, QuietStep
<1>3. CASE x \in Present /\ \E o \in Oracle : Store(x, p(o))
  <2>1. PICK o \in Oracle : Store(x, p(o))
    BY <1>3
  <2>2. Good(p(o), x, fdtab)
    <3>1. x \in Conn /\ Good(Image(x), x, fdtab)
      BY <1>3, ImageGood DEF Present
    <3>2. fd \in Fd
      <4>1. socket_fds \in Seq(Entry) /\ pc.i \in 1 .. Len(socket_fds)
        BY <1>1 DEF Lists
      <4> QED BY <4>1, EntryType
    <3> HIDE DEF x, fd
    <3> QED BY <3>1, <3>2, HandledGood
  <2> HIDE DEF x, fd, p
  <2> QED BY <1>1, <1>3, <2>1, <2>2, StoreStep
<1>4. CASE ProcessEnds("killed") /\ UNCHANGED <<net, backlog>>
  BY <1>4, ProcessEndsStep
<1> QED BY <1>2, <1>3, <1>4 DEF HandleClient

\* accept() makes a Client for a connection that had none.
LEMMA HandleServerStep ==
  ASSUME Sound, HandleServer
  PROVE  Sound'
<1> USE FdAssumption
<1>1. pc.at = "server" /\ pc.i \in Listening /\ pc' = NextServer
  BY DEF HandleServer, Sound, Types
<1>2. ~Ended /\ ~Ended' /\ (pc'.at = "server" => pc'.i \in Listening)
  BY <1>1, NextPlaces DEF Ended
<1>3. net \in [Conn -> NetRec] /\ backlog \in [Listening -> Seq(Conn)]
      /\ client \in [Conn -> ClientRec] /\ fdtab \in [Fd -> Object]
      /\ client_mapping \in [Fd -> Conn \cup {Nobody}]
  BY DEF Sound, Types
<1>4. CASE UNCHANGED <<fdtab, client, client_mapping, backlog, net>>
  BY <1>2, <1>3, <1>4, QuietStep
<1>5. CASE ~UNCHANGED <<fdtab, client, client_mapping, backlog, net>>
  <2> DEFINE q == backlog[pc.i]
             x == Head(q)
             c(f) == [NoClient EXCEPT !.here = TRUE, !.sock = f]
             u(f) == Assign(fdtab, f, <<"socket", x>>)
  <2>1. q # <<>> /\ \E f \in NthFree(fdtab, 1) :
             /\ fdtab' = u(f)
             /\ client' = [client EXCEPT ![x] = c(f)]
             /\ client_mapping' = [client_mapping EXCEPT ![f] = x]
             /\ backlog' = [backlog EXCEPT ![pc.i] = Tail(@)]
             /\ net' = [net EXCEPT ![x].stage = "accepted"]
    BY <1>5 DEF HandleServer
  <2>2. PICK f \in NthFree(fdtab, 1) :
             /\ fdtab' = u(f)
             /\ client' = [client EXCEPT ![x] = c(f)]
             /\ client_mapping' = [client_mapping EXCEPT ![f] = x]
             /\ backlog' = [backlog EXCEPT ![pc.i] = Tail(@)]
             /\ net' = [net EXCEPT ![x].stage = "accepted"]
    BY <2>1
  <2>3. f \in Fd /\ fdtab[f] = Free
    BY DEF NthFree
  <2>4. q \in Seq(Conn) /\ x \in Conn /\ Tail(q) \in Seq(Conn) /\ 1 \in 1 .. Len(q) /\ q[1] = x
    BY <1>1, <1>3, <2>1
  <2>5. net[x].stage = "queued" /\ x \notin Present
    <3>1. net[q[1]].stage = "queued"
      BY <1>1, <2>4 DEF Sound, Queues
    <3> QED BY <2>4, <3>1 DEF Sound, Queues
  <2>6. Absent(x)
    BY <2>4, <2>5 DEF Sound, Ownership
  <2>7. c(f) \in ClientRec /\ c(f).here /\ c(f).sock = f /\ c(f).content = "none"
        /\ c(f).in = 0 /\ c(f).out = 0
    <3>1. f \in Slot
      BY <2>3, ClientSets
    <3>2. NoClient \in ClientRec /\ NoClient.content = "none" /\ NoClient.in = 0 /\ NoClient.out = 0
      BY NoClientType DEF NoClient
    <3> QED BY <3>1, <3>2 DEF ClientRec
  <2>8. u(f) \in [Fd -> Object] /\ Owns(x, c(f), u(f)) /\ Frame(x, fdtab, u(f))
    <3> DEFINE d == c(f)
               v == u(f)
    <3>1. /\ d.sock = f /\ d.content = "none" /\ d.in = 0 /\ d.out = 0
      BY <2>7
    <3>2. <<"socket", x>> \in Object /\ <<"socket", x>> \in Mine(x) /\ Free \in Mine(x)
      BY <2>4, MineFacts DEF Roles
    <3>3. v \in [Fd -> Object]
          /\ \A g \in Fd : v[g] = IF g = f THEN <<"socket", x>> ELSE fdtab[g]
      BY <1>3, <2>3, <3>2 DEF Assign
    <3> HIDE DEF d, v, x, q
    <3>4. Frame(x, fdtab, v)
      BY <2>3, <3>2, <3>3 DEF Frame
    <3>5. \A g \in Fd, role \in Roles : fdtab[g] # <<role, x>>
      BY <2>6 DEF Absent
    <3>6. Owns(x, d, v)
      BY <2>3, <3>1, <3>3, <3>5 DEF Owns, Roles
    <3> QED BY <3>3, <3>4, <3>6 DEF d, v
  <2>9. Ownership' /\ client' \in [Conn -> ClientRec] /\ Present' = Present \cup {x}
    <3> DEFINE d == c(f)
               v == u(f)
    <3> HIDE DEF d, v, x
    <3>1. client' = [client EXCEPT ![x] = d] /\ fdtab' = v
      BY <2>2 DEF d, v
    <3>2. d \in ClientRec /\ d.here /\ v \in [Fd -> Object] /\ Owns(x, d, v) /\ Frame(x, fdtab, v)
      BY <2>7, <2>8 DEF d, v
    <3> QED BY <1>2, <2>4, <3>1, <3>2, OwnershipStep
  <2>10. net' \in [Conn -> NetRec] /\ net'[x].stage = "accepted"
         /\ \A y \in Conn : y # x => net'[y].stage = net[y].stage
    <3> DEFINE n == [net[x] EXCEPT !.stage = "accepted"]
    <3>1. n \in NetRec /\ n.stage = "accepted"
      BY <1>3, <2>4, ZenonT(60) DEF NetRec
    <3>2. net' = [net EXCEPT ![x] = n]
      BY <1>3, <2>2, <2>4 DEF NetRec
    <3> HIDE DEF n, x
    <3> QED BY <1>3, <2>4, <3>1, <3>2
  <2>11. Types'
    <3>1. client_mapping' \in [Fd -> Conn \cup {Nobody}]
      BY <1>3, <2>2, <2>3, <2>4
    <3>2. backlog' \in [Listening -> Seq(Conn)]
      BY <1>1, <1>3, <2>2, <2>4
    <3>3. fdtab' \in [Fd -> Object]
      BY <2>2, <2>8
    <3> QED BY <1>2, <2>9, <2>10, <3>1, <3>2, <3>3 DEF Types
  <2>12. Queues'
    <3> DEFINE shift(i) == IF i = pc.i THEN 1 ELSE 0
    <3>1. ASSUME NEW i \in Listening, NEW m \in 1 .. Len(backlog'[i])
          PROVE  /\ m + shift(i) \in 1 .. Len(backlog[i])
                 /\ backlog'[i][m] = backlog[i][m + shift(i)]
                 /\ backlog'[i][m] \in Conn /\ backlog'[i][m] # x
      <4>1. CASE i = pc.i
        <5>1. backlog'[i] = Tail(q) /\ backlog[i] = q
          BY <1>1, <1>3, <2>2, <4>1
        <5>2. m + 1 \in 2 .. Len(q) /\ Tail(q)[m] = q[m + 1] /\ q[m + 1] \in Conn
          <6> HIDE DEF q
          <6>1. m \in 1 .. Len(Tail(q)) /\ q \in Seq(Conn) /\ q # <<>>
            BY <2>1, <2>4, <5>1
          <6>2. Len(Tail(q)) = Len(q) - 1 /\ Len(q) \in Nat
            BY <6>1
          <6>3. m \in Nat /\ 1 <= m /\ m <= Len(q) - 1
            BY <6>1, <6>2
          <6>4. Tail(q)[m] = q[m + 1]
            BY <6>1, <6>2, <6>3
          <6>5. m + 1 \in 2 .. Len(q) /\ m + 1 \in 1 .. Len(q)
            BY <6>2, <6>3
          <6> QED BY <6>1, <6>4, <6>5
        <5>3. q[1] # q[m + 1]
          BY <1>1, <2>4, <5>2 DEF Sound, Queues
        <5> QED BY <2>4, <4>1, <5>1, <5>2, <5>3
      <4>2. CASE i # pc.i
        <5>1. backlog'[i] = backlog[i]
          BY <1>1, <1>3, <2>2, <4>2
        <5>2. backlog[i] \in Seq(Conn)
          BY <1>3
        <5>3. backlog[i][m] \in Conn
          BY <5>1, <5>2
        <5>4. q[1] # backlog[i][m]
          BY <1>1, <2>4, <4>2, <5>1 DEF Sound, Queues
        <5> QED BY <2>4, <4>2, <5>1, <5>2, <5>3, <5>4
      <4> QED BY <4>1, <4>2
    <3> HIDE DEF x, q
    <3>2. \A y \in Present' : net'[y].stage = "accepted"
      <4>1. Present' \subseteq Conn
        BY DEF Present
      <4> QED BY <2>9, <2>10, <4>1 DEF Sound, Queues
    <3>3. ASSUME NEW i \in Listening, NEW m \in 1 .. Len(backlog'[i])
          PROVE  net'[backlog'[i][m]].stage = "queued"
      <4>1. net[backlog[i][m + shift(i)]].stage = "queued"
        BY <3>1 DEF Sound, Queues
      <4> QED BY <2>10, <3>1, <4>1
    <3>4. ASSUME NEW i \in Listening, NEW m \in 1 .. Len(backlog'[i]),
                 NEW j \in Listening, NEW n \in 1 .. Len(backlog'[j]),
                 backlog'[i][m] = backlog'[j][n]
          PROVE  i = j /\ m = n
      <4>1. i = j /\ m + shift(i) = n + shift(j)
        <5>1. /\ m + shift(i) \in 1 .. Len(backlog[i])
              /\ n + shift(j) \in 1 .. Len(backlog[j])
              /\ backlog[i][m + shift(i)] = backlog[j][n + shift(j)]
          BY <3>1, <3>4
        <5> DEFINE a == m + shift(i)
                   b == n + shift(j)
        <5>2. a \in 1 .. Len(backlog[i]) /\ b \in 1 .. Len(backlog[j])
              /\ backlog[i][a] = backlog[j][b]
          BY <5>1
        <5> HIDE DEF a, b
        <5>3. i = j /\ a = b
          BY <5>2 DEF Sound, Queues
        <5> QED BY <5>3 DEF a, b
      <4>2. m \in Int /\ n \in Int
        OBVIOUS
      <4> QED BY <4>1, <4>2
    <3>5. \A i \in Listening : \A m \in 1 .. Len(backlog'[i]) :
             /\ net'[backlog'[i][m]].stage = "queued"
             /\ \A j \in Listening : \A n \in 1 .. Len(backlog'[j]) :
                   backlog'[i][m] = backlog'[j][n] => i = j /\ m = n
      BY <3>3, <3>4
    <3> QED BY <3>2, <3>5 DEF Queues
  <2> QED BY <2>9, <2>11, <2>12 DEF Sound
<1> QED BY <1>4, <1>5

\* ~Client() closes exactly what the client held.
LEMMA ResetFdsStep ==
  ASSUME Sound, ResetFds
  PROVE  Sound'
<1> DEFINE held == UNION {Held(x) : x \in Doomed}
<1>1. /\ fdtab' = Release(fdtab, held) /\ pc'.at = "poll" /\ ~Ended /\ backlog' = backlog
      /\ client' = [x \in Conn |-> IF x \in Doomed THEN NoClient ELSE client[x]]
      /\ net' = [x \in Conn |-> IF x \in Doomed THEN [net[x] EXCEPT !.stage = "closed"]
                                ELSE net[x]]
  BY DEF ResetFds, At, Ended
<1>2. client_mapping' \in [Fd -> Conn \cup {Nobody}]
  BY DEF ResetFds, Forget, Sound, Types
<1>3. /\ net \in [Conn -> NetRec] /\ client \in [Conn -> ClientRec]
      /\ fdtab \in [Fd -> Object] /\ backlog \in [Listening -> Seq(Conn)]
  BY DEF Sound, Types
<1>4. Doomed \subseteq Present /\ Present \subseteq Conn /\ Present' = Present \ Doomed
  BY <1>1, NoClientType DEF Present, Doomed
<1>5. fdtab' \in [Fd -> Object] /\ \A f \in Fd : fdtab'[f] = IF f \in held THEN Free ELSE fdtab[f]
  <2> HIDE DEF held
  <2> QED BY <1>1, <1>3 DEF Release, Object
<1>6. client' \in [Conn -> ClientRec] /\ net' \in [Conn -> NetRec]
      /\ \A x \in Conn \ Doomed : net'[x] = net[x]
  BY <1>1, <1>3, NoClientType DEF NetRec
<1>7. Types'
  BY <1>1, <1>2, <1>3, <1>5, <1>6 DEF Types
<1>8. Queues'
  <2>1. \A i \in Listening : \A m \in 1 .. Len(backlog[i]) :
          /\ backlog[i][m] \in Conn /\ backlog[i][m] \notin Doomed
          /\ net[backlog[i][m]].stage = "queued"
    <3>1. \A i \in Listening : \A m \in 1 .. Len(backlog[i]) :
            backlog[i][m] \in Conn /\ net[backlog[i][m]].stage = "queued"
      BY <1>3 DEF Sound, Queues
    <3>2. \A x \in Doomed : net[x].stage = "accepted"
      BY <1>4 DEF Sound, Queues
    <3> QED BY <3>1, <3>2
  <2>2. \A x \in Present' : net'[x].stage = "accepted"
    BY <1>4, <1>6 DEF Sound, Queues
  <2> QED BY <1>1, <1>6, <2>1, <2>2 DEF Sound, Queues
<1>9. ASSUME NEW f \in Fd, f \in held
      PROVE  \E x \in Doomed : fdtab[f] \in Mine(x)
  <2>1. PICK x \in Doomed : f \in {client[x].sock, client[x].in, client[x].out}
    BY <1>9 DEF Held
  <2>2. x \in Conn /\ client[x] \in ClientRec /\ Owns(x, client[x], fdtab)
    BY <1>3, <1>4 DEF Sound, Ownership
  <2> QED BY <1>3, <2>1, <2>2, OwnedIsMine
<1>10. ASSUME NEW x \in Present'
       PROVE  Owns(x, client'[x], fdtab')
  <2>1. x \in Conn /\ x \in Present /\ x \notin Doomed /\ client'[x] = client[x]
    BY <1>1, <1>4
  <2>2. Owns(x, client[x], fdtab)
    BY <2>1 DEF Sound, Ownership
  <2>3. \A f \in Fd, role \in Roles : fdtab'[f] = <<role, x>> <=> fdtab[f] = <<role, x>>
    <3>1. \A y \in Doomed, role \in Roles : <<role, x>> \notin Mine(y) /\ <<role, x>> # Free
      BY <2>1, NobodyAssumption DEF Mine, Free
    <3>2. \A role \in Roles : <<role, x>> # Free
      BY <2>1, MineFacts
    <3> HIDE DEF held
    <3> QED BY <1>5, <1>9, <3>1, <3>2
  <2>4. "socket" \in Roles /\ "file" \in Roles /\ "cgiOut" \in Roles /\ "cgiIn" \in Roles
    BY DEF Roles
  <2> QED BY <2>1, <2>2, <2>3, <2>4 DEF Owns
<1>11. ASSUME NEW x \in (Conn \ Present)'
       PROVE  Absent(x)'
  <2>1. x \in Conn /\ x \notin Present'
    OBVIOUS
  <2>2. CASE x \in Doomed
    <3>1. client'[x] = NoClient
      BY <1>1, <2>1, <2>2
    <3>2. ASSUME NEW f \in Fd, NEW role \in Roles
          PROVE  fdtab'[f] # <<role, x>>
      <4>1. <<role, x>> # Free
        BY <2>1, MineFacts
      <4>2. Owns(x, client[x], fdtab) /\ client[x] \in ClientRec
        BY <1>3, <1>4, <2>2 DEF Sound, Ownership
      <4>3. fdtab[f] = <<role, x>> => f \in Held(x)
        BY <4>2 DEF Owns, Held, Roles
      <4>4. fdtab[f] = <<role, x>> => f \in held
        BY <2>2, <4>3
      <4> HIDE DEF held
      <4> QED BY <1>5, <4>1, <4>4
    <3> QED BY <3>1, <3>2 DEF Absent
  <2>3. CASE x \notin Doomed
    <3>1. Absent(x) /\ client'[x] = client[x]
      BY <1>1, <1>4, <2>1, <2>3 DEF Sound, Ownership
    <3>2. \A role \in Roles : <<role, x>> # Free
      BY <2>1, MineFacts
    <3> HIDE DEF held
    <3> QED BY <1>5, <3>1, <3>2 DEF Absent
  <2> QED BY <2>2, <2>3
<1>12. ASSUME NEW f \in Fd
       PROVE  fdtab'[f] = Listener <=> fdtab[f] = Listener
  <2>1. Free # Listener /\ \A y \in Doomed : Listener \notin Mine(y)
    BY DEF Mine, Free, Listener, Roles
  <2> HIDE DEF held
  <2> QED BY <1>5, <1>9, <2>1
<1>13. Ownership'
  <2>1. ~Ended'
    BY <1>1 DEF Ended
  <2> QED BY <1>1, <1>10, <1>11, <1>12, <2>1 DEF Sound, Ownership, Listening
<1> QED BY <1>7, <1>8, <1>13 DEF Sound

LEMMA ConnectStep ==
  ASSUME Sound, NEW x \in Conn, Connect(x)
  PROVE  Sound'
<1>1. net \in [Conn -> NetRec] /\ backlog \in [Listening -> Seq(Conn)]
  BY DEF Sound, Types
<1>2. PICK r \in Requests[x], i \in Listening :
          /\ net' = [net EXCEPT ![x] = [@ EXCEPT !.stage = "queued", !.ask = r[1],
                                                 !.unsent = r[2], !.up = TRUE]]
          /\ backlog' = [backlog EXCEPT ![i] = Append(@, x)]
  BY DEF Connect
<1>3. net[x].stage = "new" /\ UNCHANGED <<proc, kid>>
  BY DEF Connect
<1>4. r[1] \in Asks /\ r[2] \in Seq(Segments)
  BY RequestsAssumption
<1>5. net' \in [Conn -> NetRec] /\ net'[x].stage = "queued"
      /\ \A y \in Conn : y # x => net'[y] = net[y]
  <2> DEFINE n == [net[x] EXCEPT !.stage = "queued", !.ask = r[1], !.unsent = r[2],
                                 !.up = TRUE]
  <2>1. n \in NetRec /\ n.stage = "queued"
    BY <1>1, <1>4 DEF NetRec
  <2>2. net' = [net EXCEPT ![x] = n]
    BY <1>1, <1>2
  <2> HIDE DEF n
  <2> QED BY <1>1, <2>1, <2>2
<1>6. backlog' \in [Listening -> Seq(Conn)] /\ backlog'[i] = Append(backlog[i], x)
      /\ \A j \in Listening : j # i => backlog'[j] = backlog[j]
  BY <1>1, <1>2
<1>7. Present' = Present /\ (Ended' <=> Ended) /\ x \notin Present
  BY <1>3 DEF proc, Present, Ended, Sound, Queues
<1>8. Types'
  BY <1>3, <1>5, <1>6 DEF Sound, Types, proc
<1>9. Ownership'
  BY <1>3, <1>7 DEF Sound, Ownership, Absent, proc
<1>10. Queues'
  <2>1. \A y \in Present : net'[y].stage = "accepted"
    BY <1>5, <1>7 DEF Sound, Queues, Present
  \* an element of a backlog is an old one, or x at the new end of backlog i
  <2>2. ASSUME NEW j \in Listening, NEW m \in 1 .. Len(backlog'[j])
        PROVE  \/ /\ m \in 1 .. Len(backlog[j]) /\ backlog'[j][m] = backlog[j][m]
                  /\ backlog[j][m] \in Conn /\ backlog[j][m] # x
                  /\ net[backlog[j][m]].stage = "queued"
               \/ j = i /\ m = Len(backlog[i]) + 1 /\ backlog'[j][m] = x
    <3>1. backlog[j] \in Seq(Conn) /\ backlog[i] \in Seq(Conn)
      BY <1>1
    <3>2. CASE m \in 1 .. Len(backlog[j])
      <4>1. backlog'[j][m] = backlog[j][m]
        <5>1. CASE j = i
          BY <1>6, <3>1, <3>2, <5>1
        <5>2. CASE j # i
          BY <1>6, <5>2
        <5> QED BY <5>1, <5>2
      <4>3. backlog[j][m] \in Conn
        BY <3>1, <3>2
      <4>2. net[backlog[j][m]].stage = "queued"
        BY <3>2 DEF Sound, Queues
      <4> QED BY <1>3, <3>2, <4>1, <4>2, <4>3
    <3>3. CASE m \notin 1 .. Len(backlog[j])
      <4>1. j = i /\ m = Len(backlog[i]) + 1
        BY <1>6, <3>1, <3>3
      <4> QED BY <1>6, <3>1, <4>1
    <3> QED BY <3>2, <3>3
  <2>3. ASSUME NEW j \in Listening, NEW m \in 1 .. Len(backlog'[j])
        PROVE  net'[backlog'[j][m]].stage = "queued"
    BY <1>5, <2>2
  <2>4. ASSUME NEW j \in Listening, NEW m \in 1 .. Len(backlog'[j]),
               NEW k \in Listening, NEW n \in 1 .. Len(backlog'[k]),
               backlog'[j][m] = backlog'[k][n]
        PROVE  j = k /\ m = n
    <3>1. CASE backlog'[j][m] = x
      <4>1. j = i /\ m = Len(backlog[i]) + 1
        BY <2>2, <3>1
      <4>2. k = i /\ n = Len(backlog[i]) + 1
        BY <2>2, <2>4, <3>1
      <4> QED BY <4>1, <4>2
    <3>2. CASE backlog'[j][m] # x
      <4>1. m \in 1 .. Len(backlog[j]) /\ backlog'[j][m] = backlog[j][m]
        BY <2>2, <3>2
      <4>2. n \in 1 .. Len(backlog[k]) /\ backlog'[k][n] = backlog[k][n]
        BY <2>2, <2>4, <3>2
      <4>3. backlog[j][m] = backlog[k][n]
        BY <2>4, <4>1, <4>2
      <4>4. \A a \in 1 .. Len(backlog[j]) : \A b \in 1 .. Len(backlog[k]) :
               backlog[j][a] = backlog[k][b] => j = k /\ a = b
        BY DEF Sound, Queues
      <4> QED BY <4>1, <4>2, <4>3, <4>4
    <3> QED BY <3>1, <3>2
  <2>5. \A j \in Listening : \A m \in 1 .. Len(backlog'[j]) :
          /\ net'[backlog'[j][m]].stage = "queued"
          /\ \A k \in Listening : \A n \in 1 .. Len(backlog'[k]) :
                backlog'[j][m] = backlog'[k][n] => j = k /\ m = n
    BY <2>3, <2>4
  <2> QED BY <1>7, <2>1, <2>5 DEF Queues
<1> QED BY <1>8, <1>9, <1>10 DEF Sound

LEMMA NextSound == IInv /\ [Next]_vars => Sound'
<1> SUFFICES ASSUME Sound, Lists, [Next]_vars PROVE Sound'
  BY DEF IInv
<1>1. net \in [Conn -> NetRec]
  BY DEF Sound, Types
<1>2. ASSUME UNCHANGED <<client, fdtab, client_mapping, backlog, pc>>,
             net' \in [Conn -> NetRec], \A x \in Conn : net'[x].stage = net[x].stage
      PROVE  Sound'
  BY <1>2, QuietStep DEF Ended, Sound, Types
<1>3. CASE Poll
  <2>1. ~Ended /\ ~Ended' /\ (pc'.at = "server" => pc'.i \in Listening)
    BY <1>3, NextPlaces DEF Poll, Ended
  <2>2. UNCHANGED <<client, fdtab, client_mapping, net, backlog>>
    BY <1>3 DEF Poll
  <2> QED BY <1>1, <2>1, <2>2, QuietStep
<1>4. CASE HandleClient
  BY <1>4, HandleClientSound
<1>5. CASE HandleServer
  BY <1>5, HandleServerStep
<1>6. CASE ResetFds
  BY <1>6, ResetFdsStep
<1>7. CASE Interrupt
  <2>1. ProcessEnds("stopped") /\ UNCHANGED <<net, backlog>>
    BY <1>7 DEF Interrupt
  <2> QED BY <2>1, ProcessEndsStep
<1>8. CASE \E x \in Conn : Connect(x)
  BY <1>8, ConnectStep
<1>9. ASSUME NEW x \in Conn, Send(x)
      PROVE  Sound'
  <2> DEFINE n == [net[x] EXCEPT !.inbox = Append(net[x].inbox, Head(net[x].unsent)),
                                 !.unsent = Tail(net[x].unsent)]
  <2>1. net[x].unsent # <<>> /\ UNCHANGED <<proc, backlog>>
    BY <1>9 DEF Send
  <2>2. Head(net[x].unsent) \in Segments /\ Tail(net[x].unsent) \in Seq(Segments)
        /\ Append(net[x].inbox, Head(net[x].unsent)) \in Seq(Segments)
    BY <1>1, <2>1 DEF NetRec
  <2>3. n \in NetRec /\ n.stage = net[x].stage
    BY <1>1, <2>2 DEF NetRec
  <2>4. net' = [net EXCEPT ![x] = n]
    BY <1>1, <1>9 DEF Send, NetRec
  <2>5. net' \in [Conn -> NetRec] /\ \A y \in Conn : net'[y].stage = net[y].stage
    <3> HIDE DEF n
    <3> QED BY <1>1, <2>3, <2>4
  <2> QED BY <1>2, <2>1, <2>5 DEF proc
<1>10. ASSUME NEW x \in Conn, HangUp(x)
       PROVE  Sound'
  <2> DEFINE n == [net[x] EXCEPT !.up = FALSE]
  <2>1. n \in NetRec /\ n.stage = net[x].stage
    BY <1>1 DEF NetRec
  <2>2. net' = [net EXCEPT ![x] = n] /\ UNCHANGED <<proc, backlog>>
    BY <1>10 DEF HangUp
  <2>3. net' \in [Conn -> NetRec] /\ \A y \in Conn : net'[y].stage = net[y].stage
    <3> HIDE DEF n
    <3> QED BY <1>1, <2>1, <2>2
  <2> QED BY <1>2, <2>2, <2>3 DEF proc
<1>11. CASE Kids
  <2>1. UNCHANGED <<proc, net, backlog>>
    BY <1>11 DEF Kids, KidWrites, KidReads, KidExits, KidFails
  <2> QED BY <1>1, <1>2, <2>1 DEF proc
<1>12. CASE UNCHANGED vars
  BY <1>1, <1>2, <1>12 DEF vars
<1> QED
  BY <1>3, <1>4, <1>5, <1>6, <1>7, <1>8, <1>9, <1>10, <1>11, <1>12 DEF Next, Server, Peers

----------------------------------------------------------------------------
(* What the loop keeps from round to round                                 *)

\* Every set of natural numbers has a least one.
LEMMA LeastNat ==
  ASSUME NEW T, T \subseteq Nat, T # {}
  PROVE  \E m \in T : \A k \in T : m <= k
<1> DEFINE R == {ss \in Nat \X Nat : ss[1] < ss[2]}
<1>1. IsWellFoundedOn(R, Nat)
  BY NatLessThanWellFounded DEF OpToRel
<1>2. \A k \in Nat, m \in Nat : <<k, m>> \in R <=> k < m
  OBVIOUS
<1> HIDE DEF R
<1>3. PICK m \in T : \A k \in T : ~(<<k, m>> \in R)
  BY <1>1, WFMin
<1>4. \A k \in T : k \in Nat /\ ~(k < m)
  BY <1>2, <1>3
<1> QED BY <1>4

\* Sets with the same elements are the same.
LEMMA SameElements ==
  ASSUME NEW A, NEW B, \A j : j \in A <=> j \in B
  PROVE  A = B
OBVIOUS

\* The places of S before a limit, as the limit moves up by one.
LEMMA BelowNext ==
  ASSUME NEW L \in Nat, NEW S, S \subseteq 1 .. L, NEW k \in Nat
  PROVE  /\ k \notin S => {j \in S : j < k + 1} = {j \in S : j < k}
         /\ k \in S => {j \in S : j < k + 1} = {j \in S : j < k} \cup {k}
         /\ k \notin {j \in S : j < k}
<1>1. \A j \in S : j < k + 1 <=> j < k \/ j = k
  OBVIOUS
<1>2. ASSUME k \notin S
      PROVE  {j \in S : j < k + 1} = {j \in S : j < k}
  BY <1>1, <1>2, Zenon
<1>3. ASSUME k \in S
      PROVE  {j \in S : j < k + 1} = {j \in S : j < k} \cup {k}
  <2>1. k < k + 1
    OBVIOUS
  <2>2. \A j : j \in {i \in S : i < k + 1} <=> j \in {i \in S : i < k} \cup {k}
    BY <1>1, <1>3, <2>1, Zenon
  <2> QED BY <2>2, SameElements
<1>4. ~(k < k)
  OBVIOUS
<1> QED BY <1>2, <1>3, <1>4, Zenon

\* The n-th of the places in S is one of them, and n - 1 come before it.
LEMMA NthIsIn ==
  ASSUME NEW L \in Nat, NEW S, S \subseteq 1 .. L, NEW n \in 1 .. Cardinality(S)
  PROVE  Nth(S, n) \in S /\ Cardinality({j \in S : j < Nth(S, n)}) = n - 1
<1> DEFINE Below(k) == {j \in S : j < k}
           T == {k \in Nat : Cardinality(Below(k + 1)) >= n}
<1>1. IsFiniteSet(S) /\ Cardinality(S) \in Nat
  <2>1. IsFiniteSet(1 .. L)
    BY FS_Interval
  <2> QED BY <2>1, FS_Subset, FS_CardinalityType
<1>2. \A k : IsFiniteSet(Below(k)) /\ Cardinality(Below(k)) \in Nat
  <2> SUFFICES ASSUME NEW k
               PROVE  IsFiniteSet(Below(k)) /\ Cardinality(Below(k)) \in Nat
    OBVIOUS
  <2>1. Below(k) \in SUBSET S
    OBVIOUS
  <2> HIDE DEF Below
  <2> QED BY <1>1, <2>1, FS_Subset, FS_CardinalityType
<1>3. Below(L + 1) = S /\ Below(0) = {}
  <2>1. \A j \in S : j < L + 1 /\ ~(j < 0)
    OBVIOUS
  <2> QED BY <2>1, Zenon
<1>4. n \in Nat /\ 1 <= n /\ n <= Cardinality(S)
  BY <1>1
<1>5. \A k \in Nat : /\ k \notin S => Below(k + 1) = Below(k)
                     /\ k \in S => Below(k + 1) = Below(k) \cup {k}
                     /\ k \notin Below(k)
  BY BelowNext
<1> HIDE DEF Below
<1>6. L \in T /\ T \subseteq Nat
  BY <1>1, <1>3, <1>4
<1>7. PICK k \in T : \A m \in T : k <= m
  BY <1>6, LeastNat
<1>8. k \in Nat /\ Cardinality(Below(k + 1)) >= n
  OBVIOUS
<1>9. Cardinality(Below(k)) < n
  <2>1. CASE k = 0
    BY <1>3, <1>4, <2>1, FS_EmptySet
  <2>2. CASE k # 0
    <3>1. k - 1 \in Nat /\ ~(k <= k - 1) /\ (k - 1) + 1 = k
      BY <1>8, <2>2
    <3>2. ~(Cardinality(Below((k - 1) + 1)) >= n)
      BY <1>7, <3>1
    <3>3. ~(Cardinality(Below(k)) >= n)
      BY <3>1, <3>2
    <3> QED BY <1>2, <1>4, <3>3
  <2> QED BY <2>1, <2>2
<1>10. k \in S
  BY <1>2, <1>4, <1>5, <1>8, <1>9
<1>11. Cardinality(Below(k)) = n - 1
  <2>1. Below(k + 1) = Below(k) \cup {k} /\ k \notin Below(k)
    BY <1>5, <1>8, <1>10
  <2>2. Cardinality(Below(k + 1)) = Cardinality(Below(k)) + 1
    BY <1>2, <2>1, FS_AddElement
  <2> QED BY <1>2, <1>4, <1>8, <1>9, <2>2
<1>12. \E i \in S : Cardinality({j \in S : j < i}) = n - 1
  BY <1>10, <1>11 DEF Below
<1> QED BY <1>12, Zenon DEF Nth

LEMMA ReadyType ==
  ASSUME NEW e \in Entry
  PROVE  Ready(e) \in SUBSET {"IN", "OUT", "HUP", "ERR", "NVAL"}
<1> DEFINE obj == fdtab[e.fd]
<1>1. e.events \in {"IN", "OUT"}
  BY EntryType
<1>2. "free" # "socket" /\ "free" # "file" /\ "free" # "cgiOut" /\ "free" # "listen"
      /\ "listen" # "socket" /\ "listen" # "file" /\ "listen" # "cgiOut"
  OBVIOUS
<1>3. Free # Listener /\ Free[1] = "free" /\ Listener[1] = "listen"
  BY DEF Free, Listener
<1>4. CASE obj = Free
  <2>1. /\ obj # Listener /\ obj[1] # "socket" /\ obj[1] # "file" /\ obj[1] # "cgiOut"
    BY <1>2, <1>3, <1>4
  <2> QED BY <1>4, <2>1 DEF Ready
<1>5. CASE obj = Listener
  <2>1. /\ obj # Free /\ obj[1] # "socket" /\ obj[1] # "file" /\ obj[1] # "cgiOut"
    BY <1>2, <1>3, <1>5
  <2> QED BY <1>5, <2>1 DEF Ready
<1>6. CASE obj[1] = "socket" /\ obj # Listener /\ obj # Free
  BY <1>6 DEF Ready
<1>7. CASE obj[1] = "file" /\ obj # Listener /\ obj # Free
  BY <1>1, <1>7 DEF Ready
<1>8. CASE obj[1] = "cgiOut" /\ obj # Listener /\ obj # Free
  BY <1>1, <1>8 DEF Ready
<1>9. CASE obj[1] \notin {"socket", "file", "cgiOut"} /\ obj # Listener /\ obj # Free
  BY <1>1, <1>9 DEF Ready
<1> QED BY <1>4, <1>5, <1>6, <1>7, <1>8, <1>9

\* Steps that leave the loop's lists alone.
LEMMA QuietLists ==
  ASSUME Lists, kid' \in [Conn -> Kid], UNCHANGED <<socket_fds, revents, fds_to_be_deleted>>,
         buffer_new_fd' \in Seq(Entry),
         pc'.at \in {"poll", "client", "server", "reset", "undefined", "killed", "stopped"},
         pc'.at = "client" => pc'.i \in 1 .. Len(socket_fds) /\ Len(revents) = Len(socket_fds)
  PROVE  Lists'
BY DEF Lists

LEMMA InitLists == Init => Lists
<1> SUFFICES ASSUME Init PROVE Lists
  OBVIOUS
<1>1. [i \in Listening |-> [fd |-> i, events |-> "IN"]] \in Seq(Entry)
  <2>1. \A i \in Listening : [fd |-> i, events |-> "IN"] \in Entry
    BY FdAssumption DEF Listening, Entry
  <2> QED BY <2>1, FdAssumption DEF Listening
<1>2. kid \in [Conn -> Kid]
  BY KidTypes DEF Init
<1> QED BY <1>1, <1>2 DEF Init, Lists, At

LEMMA PollLists ==
  ASSUME Lists, Poll
  PROVE  Lists'
<1>1. /\ revents' = [i \in DOMAIN socket_fds |-> Ready(socket_fds[i])] /\ pc' = FirstClient
      /\ UNCHANGED <<socket_fds, buffer_new_fd, fds_to_be_deleted, kid>>
  BY DEF Poll
<1>2. socket_fds \in Seq(Entry) /\ Len(socket_fds) \in Nat /\ DOMAIN socket_fds = 1 .. Len(socket_fds)
  BY DEF Lists
<1>3. /\ revents' \in Seq(SUBSET {"IN", "OUT", "HUP", "ERR", "NVAL"})
      /\ Len(revents') = Len(socket_fds)
  <2>1. \A i \in DOMAIN socket_fds :
           Ready(socket_fds[i]) \in SUBSET {"IN", "OUT", "HUP", "ERR", "NVAL"}
    BY <1>2, ReadyType
  <2> DEFINE R(i) == Ready(socket_fds[i])
  <2> HIDE DEF R
  <2>2. revents' = [i \in 1 .. Len(socket_fds) |-> R(i)]
    BY <1>1, <1>2 DEF R
  <2>3. \A i \in 1 .. Len(socket_fds) : R(i) \in SUBSET {"IN", "OUT", "HUP", "ERR", "NVAL"}
    BY <1>2, <2>1 DEF R
  <2> QED BY <1>2, <2>2, <2>3
<1>4. /\ pc'.at \in {"client", "server"}
      /\ pc'.at = "client" => pc'.i \in 1 .. Len(socket_fds)
  BY <1>1, <1>2, FdAssumption DEF FirstClient, At
<1> QED BY <1>1, <1>2, <1>3, <1>4 DEF Lists

LEMMA ProcessEndsLists ==
  ASSUME NEW how \in {"killed", "stopped"}, ProcessEnds(how)
  PROVE  Lists'
<1>1. kid' \in [Conn -> Kid]
  BY KidTypes DEF ProcessEnds
<1> QED BY <1>1 DEF ProcessEnds, Lists, At

LEMMA NextClientLists ==
  ASSUME Lists, pc.at = "client"
  PROVE  /\ NextClient.at \in {"client", "server"}
         /\ NextClient.at = "client" => NextClient.i \in 1 .. Len(socket_fds)
BY DEF Lists, NextClient, At

LEMMA HandleClientLists ==
  ASSUME IInv, HandleClient
  PROVE  Lists'
<1> DEFINE fd == socket_fds[pc.i].fd
           x  == client_mapping[fd]
           p(o) == Handled(x, fd, revents[pc.i], o)
<1>1. pc.at = "client" /\ Sound /\ Lists
  BY DEF HandleClient, IInv
<1>2. CASE /\ UNCHANGED <<socket_fds, revents, buffer_new_fd, fds_to_be_deleted, kid>>
           /\ pc' \in {NextClient, At("undefined", 0)}
  <2>1. /\ pc'.at \in {"client", "server", "undefined"}
        /\ pc'.at = "client" => pc'.i \in 1 .. Len(socket_fds)
    BY <1>1, <1>2, NextClientLists DEF At
  <2> QED BY <1>1, <1>2, <2>1, QuietLists DEF Lists
<1>3. CASE x \in Present /\ \E o \in Oracle : Store(x, p(o))
  <2>1. PICK o \in Oracle : Store(x, p(o))
    BY <1>3
  <2>2. Good(p(o), x, fdtab)
    <3>1. x \in Conn /\ Good(Image(x), x, fdtab)
      BY <1>1, <1>3, ImageGood DEF Present
    <3>2. fd \in Fd
      <4>1. socket_fds \in Seq(Entry) /\ pc.i \in 1 .. Len(socket_fds)
        BY <1>1 DEF Lists
      <4> QED BY <4>1, EntryType
    <3> HIDE DEF x, fd
    <3> QED BY <3>1, <3>2, HandledGood
  <2> DEFINE q == p(o)
  <2>3. /\ kid' = q.kid /\ buffer_new_fd' = q.buf /\ fds_to_be_deleted' = q.del
        /\ pc' = NextClient /\ UNCHANGED <<socket_fds, revents>>
    BY <2>1 DEF Store
  <2> HIDE DEF x, fd, p
  <2>4. /\ q.kid \in [Conn -> Kid] /\ q.buf \in Seq(Entry) /\ q.del \in Seq(Fd)
    BY <2>2 DEF Good
  <2> HIDE DEF q
  <2> QED BY <1>1, <2>3, <2>4, NextClientLists DEF Lists
<1>4. CASE ProcessEnds("killed")
  BY <1>4, ProcessEndsLists
<1> QED BY <1>2, <1>3, <1>4 DEF HandleClient

LEMMA HandleServerLists ==
  ASSUME IInv, HandleServer
  PROVE  Lists'
<1>1. pc.i \in Listening /\ Lists /\ pc' = NextServer
  BY DEF HandleServer, IInv, Sound, Types
<1>2. buffer_new_fd' \in Seq(Entry)
  <2>1. CASE buffer_new_fd' = buffer_new_fd
    BY <1>1, <2>1 DEF Lists
  <2>2. CASE \E f \in NthFree(fdtab, 1) :
               buffer_new_fd' = buffer_new_fd \o <<[fd |-> f, events |-> "IN"],
                                                  [fd |-> f, events |-> "OUT"]>>
    <3>1. PICK f \in Fd : buffer_new_fd' = buffer_new_fd \o <<[fd |-> f, events |-> "IN"],
                                                  [fd |-> f, events |-> "OUT"]>>
      BY <2>2 DEF NthFree
    <3>2. [fd |-> f, events |-> "IN"] \in Entry /\ [fd |-> f, events |-> "OUT"] \in Entry
      BY DEF Entry
    <3> HIDE DEF Entry
    <3>3. <<[fd |-> f, events |-> "IN"], [fd |-> f, events |-> "OUT"]>> \in Seq(Entry)
      BY <3>2
    <3> QED BY <1>1, <3>1, <3>3 DEF Lists
  <2> QED BY <2>1, <2>2 DEF HandleServer
<1>3. pc'.at \in {"server", "reset"}
  BY <1>1, NextPlaces
<1>4. UNCHANGED <<socket_fds, revents, fds_to_be_deleted, kid>> /\ kid \in [Conn -> Kid]
  BY <1>1 DEF HandleServer, Lists
<1> QED BY <1>1, <1>2, <1>3, <1>4, QuietLists

\* Only entries that were there stay.
LEMMA ResetFdsLists ==
  ASSUME Lists, ResetFds
  PROVE  Lists'
<1> DEFINE kept == {i \in DOMAIN socket_fds : ~Erased(i)}
           old  == [n \in 1 .. Cardinality(kept) |-> socket_fds[Nth(kept, n)]]
<1>1. /\ socket_fds' = old \o buffer_new_fd /\ revents' = <<>> /\ buffer_new_fd' = <<>>
      /\ fds_to_be_deleted' = <<>> /\ pc'.at = "poll"
      /\ kid' = [x \in Conn |-> IF x \in Doomed THEN NoKid ELSE kid[x]]
  BY DEF ResetFds, At
<1>2. /\ socket_fds \in Seq(Entry) /\ buffer_new_fd \in Seq(Entry) /\ kid \in [Conn -> Kid]
      /\ Len(socket_fds) \in Nat /\ DOMAIN socket_fds = 1 .. Len(socket_fds)
  BY DEF Lists
<1>3. kept \in SUBSET (1 .. Len(socket_fds))
  BY <1>2
<1>4. Cardinality(kept) \in Nat
  <2> HIDE DEF kept
  <2>1. IsFiniteSet(1 .. Len(socket_fds))
    BY <1>2, FS_Interval
  <2> QED BY <1>3, <2>1, FS_Subset, FS_CardinalityType
<1>5. old \in Seq(Entry)
  <2> HIDE DEF kept
  <2>1. ASSUME NEW n \in 1 .. Cardinality(kept)
        PROVE  socket_fds[Nth(kept, n)] \in Entry
    <3>1. Nth(kept, n) \in kept
      BY <1>2, <1>3, NthIsIn
    <3>2. Nth(kept, n) \in 1 .. Len(socket_fds)
      BY <1>3, <3>1
    <3> QED BY <1>2, <3>2
  <2> QED BY <1>4, <2>1
<1>6. kid' \in [Conn -> Kid]
  BY <1>1, <1>2, KidTypes
<1> HIDE DEF old
<1>7. socket_fds' \in Seq(Entry)
  BY <1>1, <1>2, <1>5
<1> QED BY <1>1, <1>6, <1>7 DEF Lists

LEMMA KidsLists ==
  ASSUME Lists, NEW x \in Conn,
         KidWrites(x) \/ KidReads(x) \/ KidExits(x) \/ KidFails(x)
  PROVE  Lists'
<1>1. kid \in [Conn -> Kid] /\ UNCHANGED proc
  BY DEF Lists, KidWrites, KidReads, KidExits, KidFails
<1>2. kid' \in [Conn -> Kid]
  <2>1. CASE KidWrites(x)
    BY <1>1, <2>1, KidTypes DEF KidWrites
  <2>2. CASE KidReads(x)
    BY <1>1, <2>2, KidTypes DEF KidReads
  <2>3. CASE KidExits(x)
    BY <1>1, <2>3, KidTypes DEF KidExits
  <2>4. CASE KidFails(x)
    BY <1>1, <2>4, KidTypes DEF KidFails
  <2> QED BY <2>1, <2>2, <2>3, <2>4
<1> QED BY <1>1, <1>2 DEF Lists, proc

LEMMA NextLists == IInv /\ [Next]_vars => Lists'
<1> SUFFICES ASSUME IInv, [Next]_vars PROVE Lists'
  OBVIOUS
<1>1. Lists
  BY DEF IInv
<1>2. CASE UNCHANGED vars \/ UNCHANGED <<proc, kid>>
  BY <1>1, <1>2 DEF vars, proc, Lists
<1>3. CASE Peers
  <2>1. UNCHANGED <<proc, kid>>
    BY <1>3 DEF Peers, Connect, Send, HangUp
  <2> QED BY <1>2, <2>1
<1>4. CASE Kids
  BY <1>1, <1>4, KidsLists DEF Kids
<1>5. CASE Server
  BY <1>1, <1>5, PollLists, HandleClientLists, HandleServerLists, ResetFdsLists DEF Server
<1>6. CASE Interrupt
  BY <1>6, ProcessEndsLists DEF Interrupt
<1> QED BY <1>2, <1>3, <1>4, <1>5, <1>6 DEF Next

----------------------------------------------------------------------------
(* The theorems                                                            *)

\* The invariant is inductive.
THEOREM Invariant == Spec => []IInv
<1>1. Init => IInv
  BY InitSound, InitLists DEF IInv
<1>2. IInv /\ [Next]_vars => IInv'
  BY NextSound, NextLists DEF IInv
<1> QED BY <1>1, <1>2, PTL DEF Spec

\* No descriptor is leaked, shared or used after its close, in any execution of
\* the loop with any requests, faults, error pages and descriptor limit.
THEOREM DescriptorsOwned == Spec => []FdOwnership
<1>1. IInv => FdOwnership
  BY SoundImplies DEF IInv
<1> QED BY <1>1, Invariant, PTL

\* Every table of the loop stays what its declaration says, whatever is opened, closed
\* and erased (Server.hpp:72-77).
THEOREM TablesTyped == Spec => []TypeOK
<1>1. IInv => TypeOK
  BY DEF IInv, Sound, Types, Lists, TypeOK, NetRec
<1> QED BY <1>1, Invariant, PTL
=============================================================================
