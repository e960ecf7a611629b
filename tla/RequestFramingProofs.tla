------------------------ MODULE RequestFramingProofs ------------------------
(***************************************************************************)
(* Proofs about the requests of a connection, for all streams, all cuts,   *)
(* all limits and all body lengths:                                        *)
(*   1. the queue is framed, and complete requests never change (IInv);    *)
(*   2. sequences that are parts of the stream, and where its first empty  *)
(*      line is; the first request is what the stream says it is (First),  *)
(*      which addBody() and addRequest() keep;                             *)
(*   3. what is routed is what was sent (JInv), one lemma for each action; *)
(*   4. what FlattenSeq() joins, by least counterexamples; addBody() and   *)
(*      addRequest() drop nothing, and so no byte is lost.                 *)
(***************************************************************************)
EXTENDS RequestFraming, WellFoundedInduction, SequenceTheorems, TLAPS

\* What holds of every request in the queue.
Sized(r) ==
    /\ r \in Request
    /\ ~r.has_body => r.body = <<>>
    /\ r.has_body /\ r.ready => Len(r.body) = BodyLen
    /\ r.has_body /\ ~r.ready => Len(r.body) < BodyLen

\* The inductive invariant: a head is only extended while it has no body, so
\* that a request that gets its body starts with an empty one.
IInv ==
    /\ TypeOK
    /\ \A i \in DOMAIN requests : Sized(requests[i])
    /\ \A i \in 1 .. Len(requests) - 1 : requests[i].ready
    /\ at = "feed" => requests # <<>> /\ ~Back.ready

\* A set of numbers that is not empty has a least element.
LEMMA LeastElement ==
  ASSUME NEW S, S \subseteq Nat, S # {}
  PROVE  \E n \in S : \A m \in S : n <= m
<1>1. PICK n \in S : \A m \in S : ~(<<m, n>> \in OpToRel(<, Nat))
  BY NatLessThanWellFounded, WFMin, ZenonT(30)
<1>2. \A m \in S : ~(m < n)
  BY <1>1 DEF OpToRel
<1> QED BY <1>2

\* The first empty line lies within the sequence.
LEMMA FirstEndFact ==
  ASSUME NEW s \in Seq(Tokens), Ends(s) # {}
  PROVE  FirstEnd(s) \in 2 .. Len(s)
<1>1. Ends(s) \subseteq Nat /\ Ends(s) \subseteq 2 .. Len(s)
  BY DEF Ends
<1>2. \E n \in Ends(s) : \A m \in Ends(s) : n <= m
  BY <1>1, LeastElement
<1> QED BY <1>1, <1>2 DEF FirstEnd

\* A prefix and the rest of a sequence of tokens are sequences of tokens.
LEMMA Split ==
  ASSUME NEW s \in Seq(Tokens), NEW n \in 0 .. Len(s)
  PROVE  /\ SubSeq(s, 1, n) \in Seq(Tokens) /\ Len(SubSeq(s, 1, n)) = n
         /\ SubSeq(s, n + 1, Len(s)) \in Seq(Tokens)
  OBVIOUS

LEMMA Joined ==
  ASSUME NEW a \in Seq(Tokens), NEW b \in Seq(Tokens)
  PROVE  a \o b \in Seq(Tokens) /\ Len(a \o b) = Len(a) + Len(b)
  OBVIOUS

\* addBody() completes the body exactly or leaves it short, and only a complete
\* request leaves bytes over.
LEMMA AddBodyFact ==
  ASSUME NEW r \in Request, r.has_body, ~r.ready, Len(r.body) <= BodyLen,
         NEW s \in Seq(Tokens)
  PROVE  /\ Sized(AddBody(r, s).req)
         /\ AddBody(r, s).rest \in Seq(Tokens)
<1> DEFINE expected == BodyLen - Len(r.body)
<1>1. expected \in Nat /\ r.body \in Seq(Tokens) /\ Len(r.body) + expected = BodyLen
  BY LengthsAssumption DEF Request
<1>a. AddBody(r, s) =
        IF Len(s) > expected
        THEN [req  |-> [r EXCEPT !.body = r.body \o SubSeq(s, 1, expected), !.ready = TRUE],
              rest |-> SubSeq(s, expected + 1, Len(s))]
        ELSE [req  |-> [r EXCEPT !.body = r.body \o s, !.ready = Len(r.body \o s) = BodyLen],
              rest |-> <<>>]
  BY DEF AddBody
<1> HIDE DEF expected
<1>2. CASE Len(s) > expected
  <2> DEFINE p == SubSeq(s, 1, expected)
             b == r.body \o p
             q == [r EXCEPT !.body = b, !.ready = TRUE]
  <2>1. p \in Seq(Tokens) /\ Len(p) = expected
        /\ SubSeq(s, expected + 1, Len(s)) \in Seq(Tokens)
    BY <1>1, <1>2, Split
  <2>2. b \in Seq(Tokens) /\ Len(b) = BodyLen
    <3> HIDE DEF p
    <3>1. b \in Seq(Tokens) /\ Len(b) = Len(r.body) + Len(p)
      BY <1>1, <2>1, Joined
    <3> QED BY <1>1, <2>1, <3>1
  <2>3. AddBody(r, s) = [req |-> q, rest |-> SubSeq(s, expected + 1, Len(s))]
    BY <1>2, <1>a
  <2> HIDE DEF b
  <2>4. q \in Request /\ q.has_body /\ q.ready /\ q.body = b
    BY <2>2 DEF Request
  <2> HIDE DEF q
  <2>5. Sized(q)
    BY <2>2, <2>4 DEF Sized
  <2> QED BY <2>1, <2>3, <2>5
<1>3. CASE ~(Len(s) > expected)
  <2> DEFINE b == r.body \o s
             q == [r EXCEPT !.body = b, !.ready = Len(b) = BodyLen]
  <2>1. b \in Seq(Tokens) /\ Len(b) <= BodyLen
    BY <1>1, <1>3, Joined
  <2>2. AddBody(r, s) = [req |-> q, rest |-> <<>>]
    BY <1>3, <1>a
  <2> HIDE DEF b
  <2>3. q \in Request /\ q.has_body /\ (q.ready <=> Len(b) = BodyLen) /\ q.body = b
    BY <2>1 DEF Request
  <2> HIDE DEF q
  <2>4. Sized(q)
    BY <2>1, <2>3, LengthsAssumption DEF Sized
  <2> QED BY <2>2, <2>4
<1> QED BY <1>2, <1>3
\* addRequest() on a request that is not complete
LEMMA AddRequestFact ==
  ASSUME NEW r, Sized(r), ~r.ready, NEW s \in Seq(Tokens)
  PROVE  /\ Sized(AddRequest(r, s).req)
         /\ AddRequest(r, s).rest \in Seq(Tokens)
<1>1. CASE r.has_body
  BY <1>1, AddBodyFact, LengthsAssumption DEF AddRequest, Sized, Request
<1>2. CASE ~r.has_body /\ Ends(s) = {}
  <2> DEFINE h == r.header \o s
             q == [r EXCEPT !.header = h,
                            !.error  = IF Len(h) > HeaderLimit THEN "limit" ELSE r.error]
  <2>1. AddRequest(r, s) = [req |-> q, rest |-> <<>>]
    BY <1>2 DEF AddRequest
  <2>2. h \in Seq(Tokens)
    BY Joined DEF Sized, Request
  <2> HIDE DEF h
  <2>3. q \in Request /\ ~q.has_body /\ q.body = <<>>
    BY <1>2, <2>2 DEF Sized, Request
  <2> HIDE DEF q
  <2> QED BY <2>1, <2>3 DEF Sized
<1>3. CASE ~r.has_body /\ Ends(s) # {}
  <2> DEFINE h    == r.header \o SubSeq(s, 1, FirstEnd(s))
             tail == SubSeq(s, FirstEnd(s) + 1, Len(s))
             q    == [r EXCEPT !.header = h, !.header_ready = TRUE, !.method = MethodOf(h),
                               !.error = IF ValidHeader(h) THEN "none" ELSE r.error]
             over == [r EXCEPT !.header = h, !.error = "limit"]
             got  == [q EXCEPT !.ready = TRUE]
             body == [q EXCEPT !.has_body = TRUE]
  <2>1. FirstEnd(s) \in 2 .. Len(s)
    BY <1>3, FirstEndFact
  <2>2. SubSeq(s, 1, FirstEnd(s)) \in Seq(Tokens) /\ tail \in Seq(Tokens)
    BY <2>1, Split
  <2>3. h \in Seq(Tokens) /\ r \in Request /\ r.body = <<>>
    BY <1>3, <2>2, Joined DEF Sized, Request
  <2>4. AddRequest(r, s) =
          IF Len(h) > HeaderLimit THEN [req |-> over, rest |-> tail]
          ELSE IF q.method = "GET" THEN [req |-> got, rest |-> tail]
          ELSE IF ValidBody(h) THEN AddBody(body, tail)
          ELSE [req |-> q, rest |-> tail]
    BY <1>3 DEF AddRequest
  <2>5. MethodOf(h) \in {"GET", "POST"}
    BY DEF MethodOf
  <2> HIDE DEF h, tail
  <2>6. over \in Request /\ ~over.has_body /\ over.body = <<>>
    BY <1>3, <2>3 DEF Request
  <2>7. q \in Request /\ ~q.has_body /\ q.body = <<>> /\ ~q.ready
    BY <1>3, <2>3, <2>5 DEF Request
  <2> HIDE DEF q, over
  <2>8. got \in Request /\ ~got.has_body /\ got.body = <<>>
    BY <2>7 DEF Request
  <2>9. body \in Request /\ body.has_body /\ body.body = <<>> /\ ~body.ready
    BY <2>7 DEF Request
  <2> HIDE DEF got, body
  <2>10. Sized(AddBody(body, tail).req) /\ AddBody(body, tail).rest \in Seq(Tokens)
    BY <2>2, <2>9, AddBodyFact, LengthsAssumption
  <2>11. Sized(over) /\ Sized(got) /\ Sized(q)
    BY <2>6, <2>7, <2>8 DEF Sized
  <2> QED BY <2>2, <2>4, <2>10, <2>11
<1> QED BY <1>1, <1>2, <1>3

----------------------------------------------------------------------------

LEMMA NewRequestFact == Sized(NewRequest) /\ ~NewRequest.ready
<1>1. NewRequest \in Request
  BY DEF NewRequest, Request, Tokens
<1> QED BY <1>1 DEF NewRequest, Sized

\* Everything the lemmas below need of the queue, in one place.
Queue(q) ==
    /\ q \in Seq(Request)
    /\ \A i \in 1 .. Len(q) : Sized(q[i])
    /\ \A i \in 1 .. Len(q) - 1 : q[i].ready

LEMMA QueueOfIInv == IInv <=> /\ TypeOK /\ Queue(requests)
                              /\ at = "feed" => requests # <<>> /\ ~Back.ready
<1>1. TypeOK => requests \in Seq(Request) /\ DOMAIN requests = 1 .. Len(requests)
  BY DEF TypeOK
<1> QED BY <1>1 DEF IInv, Queue

\* A request may be begun behind a complete one.
LEMMA Begun ==
  ASSUME NEW q, Queue(q), q # <<>> => q[Len(q)].ready
  PROVE  /\ Queue(Append(q, NewRequest)) /\ Append(q, NewRequest) # <<>>
         /\ Len(Append(q, NewRequest)) = Len(q) + 1
         /\ Append(q, NewRequest)[Len(q) + 1] = NewRequest
         /\ \A i \in 1 .. Len(q) : Append(q, NewRequest)[i] = q[i]
<1> DEFINE a == Append(q, NewRequest)
<1>1. NewRequest \in Request /\ Sized(NewRequest)
  BY NewRequestFact DEF Sized
<1>2. /\ a \in Seq(Request) /\ Len(a) = Len(q) + 1 /\ a[Len(q) + 1] = NewRequest
      /\ \A i \in 1 .. Len(q) : a[i] = q[i]
  BY <1>1, AppendProperties DEF Queue
<1>3. Len(q) \in Nat /\ (q = <<>> <=> Len(q) = 0)
  BY DEF Queue
<1> HIDE DEF a
<1>4. \A i \in 1 .. Len(a) : Sized(a[i])
  BY <1>1, <1>2, <1>3 DEF Queue
<1>5. \A i \in 1 .. Len(a) - 1 : a[i].ready
  BY <1>2, <1>3 DEF Queue
<1>6. a # <<>>
  BY <1>2, <1>3
<1> QED BY <1>2, <1>4, <1>5, <1>6 DEF Queue, a

\* The last request may be replaced by what it becomes.
LEMMA Replaced ==
  ASSUME NEW q, Queue(q), q # <<>>, NEW r, Sized(r)
  PROVE  LET a == [q EXCEPT ![Len(q)] = r]
         IN  /\ Queue(a) /\ a # <<>> /\ Len(a) = Len(q) /\ a[Len(q)] = r
             /\ \A i \in 1 .. Len(q) - 1 : a[i] = q[i]
<1> DEFINE a == [q EXCEPT ![Len(q)] = r]
<1>1. Len(q) \in Nat \ {0} /\ q \in Seq(Request) /\ r \in Request
  BY DEF Queue, Sized
<1>2. /\ a \in Seq(Request) /\ Len(a) = Len(q) /\ a[Len(q)] = r
      /\ \A i \in 1 .. Len(q) - 1 : a[i] = q[i]
  BY <1>1
<1> HIDE DEF a
<1>3. \A i \in 1 .. Len(a) : Sized(a[i])
  BY <1>1, <1>2 DEF Queue
<1>4. \A i \in 1 .. Len(a) - 1 : a[i].ready
  BY <1>1, <1>2 DEF Queue
<1>5. a # <<>>
  BY <1>1, <1>2
<1> QED BY <1>2, <1>3, <1>4, <1>5 DEF Queue, a

\* What no step does to the queue: change a complete request, or lose one.
Frozen(q, a) ==
    /\ Len(q) <= Len(a)
    /\ \A i \in 1 .. Len(q) : q[i].ready => a[i] = q[i]

LEMMA RecvStep ==
  ASSUME IInv, NEW n \in 1 .. Len(unsent), Recv(n)
  PROVE  IInv' /\ Frozen(requests, requests')
<1> DEFINE L == Len(requests)
<1>1. Queue(requests) /\ TypeOK /\ L \in Nat /\ (requests = <<>> <=> L = 0)
  BY QueueOfIInv DEF Queue
<1>2. str' \in Seq(Tokens) /\ unsent' \in Seq(Tokens)
  BY <1>1, Split DEF TypeOK, Recv
<1>3. Queue(requests') /\ requests' # <<>> /\ ~requests'[Len(requests')].ready
      /\ Frozen(requests, requests')
  <2>1. CASE requests = <<>>
    <3>1. requests' = Append(requests, NewRequest)
      BY <2>1 DEF Recv
    <3>3. Queue(requests') /\ requests' # <<>> /\ Len(requests') = L + 1
          /\ requests'[L + 1] = NewRequest
      BY <1>1, <2>1, <3>1, Begun
    <3>2. Queue(requests') /\ requests' # <<>> /\ Len(requests') = 1
          /\ requests'[1] = NewRequest
      BY <1>1, <2>1, <3>3
    <3> QED BY <2>1, <3>2, NewRequestFact DEF Frozen
  <2>2. CASE requests # <<>> /\ Back.ready
    <3>1. requests' = Append(requests, NewRequest)
      BY <2>2 DEF Recv
    <3> QED BY <1>1, <2>2, <3>1, Begun, NewRequestFact DEF Frozen, Back
  <2>3. CASE requests # <<>> /\ ~Back.ready
    <3>1. requests' = requests
      BY <2>3 DEF Recv
    <3>2. Frozen(requests, requests')
      BY <1>1, <3>1 DEF Frozen
    <3>3. requests'[Len(requests')] = Back
      BY <3>1 DEF Back
    <3> QED BY <1>1, <2>3, <3>1, <3>2, <3>3
  <2> QED BY <2>1, <2>2, <2>3
<1>4. TypeOK'
  BY <1>1, <1>2, <1>3 DEF TypeOK, Recv, Queue
<1>5. \A i \in DOMAIN requests' : i \in 1 .. Len(requests')
  BY <1>3 DEF Queue
<1>6. ~Back'.ready
  BY <1>3 DEF Back
<1> QED BY <1>3, <1>4, <1>5, <1>6 DEF IInv, Queue

LEMMA FeedStep ==
  ASSUME IInv, Feed
  PROVE  IInv' /\ Frozen(requests, requests')
<1> DEFINE L   == Len(requests)
           fed == AddRequest(Back, str)
           q   == [requests EXCEPT ![L] = fed.req]
<1>1. Queue(requests) /\ TypeOK /\ requests # <<>> /\ ~Back.ready /\ L \in Nat \ {0}
  BY QueueOfIInv DEF Queue, Feed
<1>2. Sized(Back) /\ str \in Seq(Tokens)
  BY <1>1 DEF Queue, Back, TypeOK
<1>3. Sized(fed.req) /\ fed.rest \in Seq(Tokens)
  BY <1>1, <1>2, AddRequestFact
<1>4. /\ str' = fed.rest
      /\ requests' = IF fed.rest # <<>> /\ fed.req.ready THEN Append(q, NewRequest) ELSE q
      /\ at' = IF fed.rest = <<>> THEN "route" ELSE "feed"
      /\ UNCHANGED <<stream, cuts, unsent, verdict>>
  BY DEF Feed
<1> HIDE DEF fed
<1>5. Queue(q) /\ q # <<>> /\ Len(q) = L /\ q[L] = fed.req
      /\ \A i \in 1 .. L - 1 : q[i] = requests[i]
  BY <1>1, <1>3, Replaced
<1> HIDE DEF q
<1>6. Frozen(requests, q)
  <2>1. \A i \in 1 .. L : requests[i].ready => i \in 1 .. L - 1
    BY <1>1 DEF Back
  <2> QED BY <1>1, <1>5, <2>1 DEF Frozen
<1>7. /\ Queue(requests') /\ requests' # <<>> /\ Frozen(requests, requests')
      /\ at' = "feed" => ~Back'.ready
  <2>1. CASE fed.rest # <<>> /\ fed.req.ready
    <3>1. requests' = Append(q, NewRequest)
      BY <1>4, <2>1
    <3>2. Queue(requests') /\ requests' # <<>> /\ Len(requests') = L + 1
          /\ requests'[L + 1] = NewRequest /\ \A i \in 1 .. L : requests'[i] = q[i]
      BY <1>5, <2>1, <3>1, Begun
    <3>3. ~Back'.ready
      BY <3>2, NewRequestFact DEF Back
    <3>4. Frozen(requests, requests')
      BY <1>1, <1>5, <1>6, <3>2 DEF Frozen
    <3> QED BY <3>2, <3>3, <3>4
  <2>2. CASE ~(fed.rest # <<>> /\ fed.req.ready)
    <3>1. requests' = q
      BY <1>4, <2>2
    <3>2. Back' = fed.req
      BY <1>5, <3>1 DEF Back
    <3> QED BY <1>4, <1>5, <1>6, <2>2, <3>1, <3>2
  <2> QED BY <2>1, <2>2
<1>8. TypeOK'
  BY <1>1, <1>3, <1>4, <1>7 DEF TypeOK, Queue
<1>9. \A i \in DOMAIN requests' : i \in 1 .. Len(requests')
  BY <1>7 DEF Queue
<1> QED BY <1>7, <1>8, <1>9 DEF IInv, Queue

\* The other steps leave the queue alone.
LEMMA QuietStep ==
  ASSUME IInv, Route \/ Respond \/ UNCHANGED vars
  PROVE  IInv' /\ Frozen(requests, requests')
<1>1. /\ requests' = requests /\ stream' = stream /\ unsent' = unsent /\ str' = str
      /\ at' = "feed" => at = "feed"
  BY DEF Route, Respond, vars
<1>2. TypeOK'
  BY <1>1 DEF IInv, TypeOK, Route, Respond, vars
<1>3. Frozen(requests, requests')
  BY <1>1 DEF Frozen, IInv, TypeOK
<1> QED BY <1>1, <1>2, <1>3 DEF IInv, Back

LEMMA InitIInv == Init => IInv
<1> SUFFICES ASSUME Init PROVE IInv
  OBVIOUS
<1>1. stream \in Seq(Tokens)
  BY StreamsAssumption DEF Init
<1>2. TypeOK
  BY <1>1 DEF Init, TypeOK
<1> QED BY <1>2 DEF Init, IInv

LEMMA NextIInv == IInv /\ [Next]_vars => IInv' /\ Frozen(requests, requests')
  BY RecvStep, FeedStep, QuietStep DEF Next, Server

\* Only the last request of the queue is incomplete, it is fed only while it is,
\* and a complete one has exactly the body it declared.
THEOREM RequestsFramed == Spec => []Framed
<1>1. IInv => Framed
  BY DEF IInv, Framed, Sized
<1> QED BY <1>1, InitIInv, NextIInv, PTL DEF Spec

\* Bytes that come later never change a complete request.
THEOREM RequestsFrozen == Spec => CompleteFrozen
<1> DEFINE Step == \A i \in DOMAIN requests :
             requests[i].ready => i \in DOMAIN requests' /\ requests'[i] = requests[i]
<1>1. IInv /\ [Next]_vars => [Step]_vars
  <2> SUFFICES ASSUME IInv, [Next]_vars PROVE Step
    OBVIOUS
  <2>1. Frozen(requests, requests') /\ IInv'
    BY NextIInv
  <2>2. DOMAIN requests = 1 .. Len(requests) /\ DOMAIN requests' = 1 .. Len(requests')
        /\ Len(requests) \in Nat /\ Len(requests') \in Nat
    BY <2>1 DEF IInv, TypeOK
  <2> QED BY <2>1, <2>2 DEF Frozen
<1> QED BY <1>1, InitIInv, NextIInv, PTL DEF Spec, CompleteFrozen

----------------------------------------------------------------------------
(* Where things are in the stream                                          *)

\* s is what t holds behind its first k tokens, or the beginning of that.
Part(s, k, t) ==
    /\ k \in Nat /\ k + Len(s) <= Len(t)
    /\ \A i \in 1 .. Len(s) : s[i] = t[k + i]

LEMMA PartSplit ==
  ASSUME NEW s \in Seq(Tokens), NEW t \in Seq(Tokens), NEW k \in Nat, Part(s, k, t),
         NEW n \in 0 .. Len(s)
  PROVE  /\ Part(SubSeq(s, 1, n), k, t)
         /\ Part(SubSeq(s, n + 1, Len(s)), k + n, t)
         /\ Len(SubSeq(s, n + 1, Len(s))) = Len(s) - n
<1> DEFINE a == SubSeq(s, 1, n)
           b == SubSeq(s, n + 1, Len(s))
<1>1. Len(a) = n /\ \A i \in 1 .. n : a[i] = s[i]
  OBVIOUS
<1>2. Len(b) = Len(s) - n /\ \A i \in 1 .. Len(s) - n : b[i] = s[n + i]
  OBVIOUS
<1> HIDE DEF a, b
<1>3. Part(a, k, t)
  <2>1. k + Len(s) <= Len(t) /\ \A i \in 1 .. Len(s) : s[i] = t[k + i]
    BY DEF Part
  <2>2. Len(s) \in Nat /\ Len(t) \in Nat /\ n <= Len(s)
    OBVIOUS
  <2>3. k + Len(a) <= Len(t)
    BY <1>1, <2>1, <2>2
  <2>4. \A i \in 1 .. Len(a) : a[i] = t[k + i]
    BY <1>1, <2>1, <2>2
  <2> QED BY <2>3, <2>4 DEF Part
<1>4. Part(b, k + n, t)
  <2>1. k + n \in Nat /\ k + n + Len(b) <= Len(t)
    BY <1>2 DEF Part
  <2>2. ASSUME NEW i \in 1 .. Len(b) PROVE b[i] = t[k + n + i]
    <3>1. b[i] = s[n + i] /\ n + i \in 1 .. Len(s)
      BY <1>2
    <3>2. s[n + i] = t[k + (n + i)]
      BY <3>1 DEF Part
    <3>3. k + (n + i) = k + n + i
      BY <1>2
    <3> QED BY <3>1, <3>2, <3>3
  <2> QED BY <2>1, <2>2 DEF Part
<1> QED BY <1>2, <1>3, <1>4 DEF a, b

LEMMA PartJoined ==
  ASSUME NEW a \in Seq(Tokens), NEW b \in Seq(Tokens), NEW t \in Seq(Tokens), NEW k \in Nat,
         Part(a, k, t), Part(b, k + Len(a), t)
  PROVE  Part(a \o b, k, t)
<1> DEFINE c == a \o b
<1>1. /\ Len(c) = Len(a) + Len(b)
      /\ \A i \in 1 .. Len(a) : c[i] = a[i]
      /\ \A i \in 1 .. Len(b) : c[Len(a) + i] = b[i]
  OBVIOUS
<1>2. Len(a) \in Nat /\ Len(b) \in Nat /\ Len(t) \in Nat
  OBVIOUS
<1> HIDE DEF c
<1>3. k + Len(c) <= Len(t)
  BY <1>1, <1>2 DEF Part
<1>4. ASSUME NEW i \in 1 .. Len(c) PROVE c[i] = t[k + i]
  <2>1. CASE i <= Len(a)
    <3>1. i \in 1 .. Len(a)
      BY <1>1, <1>2, <2>1
    <3>2. c[i] = a[i] /\ a[i] = t[k + i]
      BY <1>1, <3>1 DEF Part
    <3> QED BY <3>2
  <2>2. CASE i > Len(a)
    <3>1. PICK j \in 1 .. Len(b) : i = Len(a) + j
      <4>1. i - Len(a) \in 1 .. Len(b) /\ i = Len(a) + (i - Len(a))
        BY <1>1, <1>2, <2>2
      <4> QED BY <4>1
    <3>2. c[i] = b[j] /\ b[j] = t[k + Len(a) + j]
      BY <1>1, <3>1 DEF Part
    <3>3. k + Len(a) + j = k + i
      BY <1>2, <3>1
    <3> QED BY <3>2, <3>3
  <2> QED BY <1>1, <1>2, <2>1, <2>2
<1> QED BY <1>3, <1>4 DEF Part, c

\* A part is the subsequence between its bounds.
LEMMA PartIs ==
  ASSUME NEW s \in Seq(Tokens), NEW t \in Seq(Tokens), NEW k \in Nat, Part(s, k, t)
  PROVE  s = SubSeq(t, k + 1, k + Len(s))
<1> DEFINE u == SubSeq(t, k + 1, k + Len(s))
<1>1. k + Len(s) <= Len(t) /\ Len(s) \in Nat
  BY DEF Part
<1>2. Len(u) = Len(s) /\ u \in Seq(Tokens)
  BY <1>1
<1>3. \A i \in 1 .. Len(s) : u[i] = t[k + i]
  BY <1>1
<1> HIDE DEF u
<1>4. \A i \in 1 .. Len(s) : s[i] = u[i]
  BY <1>3 DEF Part
<1>5. s = u
  BY <1>2, <1>4
<1> QED BY <1>5 DEF u

\* What the first empty line is: an end, and none is before it.
LEMMA FirstEndLeast ==
  ASSUME NEW s \in Seq(Tokens), Ends(s) # {}
  PROVE  FirstEnd(s) \in Ends(s) /\ \A m \in Ends(s) : FirstEnd(s) <= m
<1>1. Ends(s) \subseteq Nat
  BY DEF Ends
<1>2. \E n \in Ends(s) : \A m \in Ends(s) : n <= m
  BY <1>1, LeastElement
<1> QED BY <1>2 DEF FirstEnd

LEMMA FirstEndIs ==
  ASSUME NEW s \in Seq(Tokens), NEW n \in Ends(s), \A m \in Ends(s) : n <= m
  PROVE  FirstEnd(s) = n
<1>1. FirstEnd(s) \in Ends(s) /\ FirstEnd(s) <= n /\ n <= FirstEnd(s)
  BY FirstEndLeast
<1>2. FirstEnd(s) \in Int /\ n \in Int
  BY <1>1 DEF Ends
<1> QED BY <1>1, <1>2

\* A beginning that holds an empty line is judged as the whole is: where the head
\* ends, what its method is, whether it is valid and whether it declares a body.
LEMMA Judged ==
  ASSUME NEW h \in Seq(Tokens), NEW t \in Seq(Tokens), Part(h, 0, t), Ends(h) # {}
  PROVE  /\ Ends(t) # {} /\ FirstEnd(h) = FirstEnd(t) /\ FirstEnd(t) \in 2 .. Len(h)
         /\ MethodOf(h) = MethodOf(t)
         /\ ValidHeader(h) <=> ValidHeader(t)
         /\ ValidBody(h) <=> ValidBody(t)
<1> DEFINE n == FirstEnd(h)
<1>1. n \in Ends(h) /\ \A m \in Ends(h) : n <= m
  BY FirstEndLeast
<1>2. Len(h) <= Len(t) /\ \A i \in 1 .. Len(h) : h[i] = t[i]
  BY DEF Part
<1>3. n \in 2 .. Len(h) /\ h[n - 1] = "end1" /\ h[n] = "end2"
  BY <1>1 DEF Ends
<1> HIDE DEF n
<1>4. n \in Ends(t)
  BY <1>2, <1>3 DEF Ends
<1>5. ASSUME NEW m \in Ends(t) PROVE n <= m
  <2>1. CASE m <= Len(h)
    <3>1. m \in 2 .. Len(h) /\ t[m - 1] = "end1" /\ t[m] = "end2"
      BY <2>1 DEF Ends
    <3>2. m - 1 \in 1 .. Len(h) /\ m \in 1 .. Len(h)
      BY <3>1
    <3>3. h[m - 1] = "end1" /\ h[m] = "end2"
      BY <1>2, <3>1, <3>2
    <3>4. m \in Ends(h)
      BY <3>1, <3>3 DEF Ends
    <3> QED BY <1>1, <3>4
  <2>2. CASE ~(m <= Len(h))
    BY <1>3, <2>2 DEF Ends
  <2> QED BY <2>1, <2>2
<1>6. FirstEnd(t) = n
  BY <1>4, <1>5, FirstEndIs
<1>7. h[1] = t[1]
  BY <1>2, <1>3
<1>8. \A i \in 2 .. n - 2 : h[i] = t[i]
  BY <1>2, <1>3
<1>9. ValidHeader(h) <=> ValidHeader(t)
  BY <1>4, <1>6, <1>7, <1>8 DEF ValidHeader, n
<1>10. MethodOf(h) = MethodOf(t)
  BY <1>7 DEF MethodOf
<1>11. ValidBody(h) <=> ValidBody(t)
  BY <1>7, <1>9 DEF ValidBody
<1> QED BY <1>3, <1>4, <1>6, <1>9, <1>10, <1>11 DEF n

\* A longer beginning still holds an empty line.
LEMMA EndsKept ==
  ASSUME NEW a \in Seq(Tokens), NEW c \in Seq(Tokens), NEW t \in Seq(Tokens),
         Part(a, 0, t), Part(c, 0, t), Len(a) <= Len(c), Ends(a) # {}
  PROVE  Ends(c) # {}
<1>1. PICK m \in Ends(a) : TRUE
  OBVIOUS
<1>2. m \in 2 .. Len(a) /\ a[m - 1] = "end1" /\ a[m] = "end2"
  BY <1>1 DEF Ends
<1>3. /\ m \in 2 .. Len(c) /\ m - 1 \in 1 .. Len(a) /\ m \in 1 .. Len(a)
      /\ m - 1 \in 1 .. Len(c) /\ m \in 1 .. Len(c)
  BY <1>2
<1>4. /\ \A i \in 1 .. Len(a) : a[i] = t[0 + i]
      /\ \A i \in 1 .. Len(c) : c[i] = t[0 + i]
  BY DEF Part
<1>5. c[m - 1] = "end1" /\ c[m] = "end2"
  BY <1>2, <1>3, <1>4
<1>6. m \in Ends(c)
  BY <1>3, <1>5 DEF Ends
<1> QED BY <1>6

\* A head without its empty line, and what follows it where no empty line is cut:
\* the first empty line of what follows is the first of the stream.
LEMMA NotCut ==
  ASSUME NEW h \in Seq(Tokens), NEW s \in Seq(Tokens), NEW t \in Seq(Tokens),
         Part(h, 0, t), Part(s, Len(h), t), Ends(h) = {}, h # <<>> => t[Len(h)] # "end1"
  PROVE  /\ Ends(s) = {} => Ends(h \o s) = {}
         /\ Ends(s) # {} => /\ Ends(t) # {}
                            /\ FirstEnd(t) = Len(h) + FirstEnd(s)
                            /\ Ends(h \o SubSeq(s, 1, FirstEnd(s))) # {}
<1> DEFINE k == Len(h)
           c == h \o s
<1>0. /\ k \in Nat /\ Len(s) \in Nat /\ Len(t) \in Nat /\ k + Len(s) <= Len(t)
      /\ (h # <<>> <=> k # 0)
  BY DEF Part
<1>1. \A i \in 1 .. k : h[i] = t[i]
  BY DEF Part
<1>2. \A i \in 1 .. Len(s) : s[i] = t[k + i]
  BY DEF Part
<1>3. Part(c, 0, t) /\ Len(c) = k + Len(s) /\ c \in Seq(Tokens)
  BY PartJoined, Joined
<1> HIDE DEF c
<1>4. \A i \in 1 .. k + Len(s) : c[i] = t[i]
  BY <1>3 DEF Part
<1> HIDE DEF k
<1>5. ASSUME NEW m \in 2 .. k + Len(s), t[m - 1] = "end1", t[m] = "end2"
      PROVE  m - k \in Ends(s)
  <2>1. m > k
    <3>1. SUFFICES ASSUME m <= k PROVE FALSE
      BY <1>0
    <3>2. m \in Ends(h)
      BY <1>0, <1>1, <1>5, <3>1 DEF Ends, k
    <3> QED BY <3>2
  <2>2. m # k + 1
    BY <1>0, <1>5 DEF k
  <2>3. m - k \in 2 .. Len(s)
    BY <1>0, <2>1, <2>2
  <2>4. s[m - k - 1] = t[m - 1] /\ s[m - k] = t[m]
    <3>1. m - k - 1 \in 1 .. Len(s) /\ m - k \in 1 .. Len(s)
      BY <1>0, <2>3
    <3>2. k + (m - k - 1) = m - 1 /\ k + (m - k) = m
      BY <1>0
    <3>3. s[m - k - 1] = t[k + (m - k - 1)] /\ s[m - k] = t[k + (m - k)]
      BY <1>2, <3>1
    <3> QED BY <3>2, <3>3
  <2> QED BY <1>5, <2>3, <2>4 DEF Ends
<1>6. Ends(s) = {} => Ends(c) = {}
  <2> SUFFICES ASSUME NEW m \in Ends(c) PROVE Ends(s) # {}
    OBVIOUS
  <2>1. m \in 2 .. k + Len(s) /\ c[m - 1] = "end1" /\ c[m] = "end2"
    BY <1>3 DEF Ends
  <2>2. t[m - 1] = "end1" /\ t[m] = "end2"
    BY <1>0, <1>4, <2>1
  <2> QED BY <1>5, <2>1, <2>2
<1>7. ASSUME Ends(s) # {}
      PROVE  /\ Ends(t) # {}
             /\ FirstEnd(t) = k + FirstEnd(s)
             /\ Ends(h \o SubSeq(s, 1, FirstEnd(s))) # {}
  <2> DEFINE n == FirstEnd(s)
             d == h \o SubSeq(s, 1, n)
  <2>1. n \in Ends(s) /\ \A m \in Ends(s) : n <= m
    BY <1>7, FirstEndLeast
  <2>2. n \in 2 .. Len(s) /\ s[n - 1] = "end1" /\ s[n] = "end2"
    BY <2>1 DEF Ends
  <2>a. SubSeq(s, 1, n) \in Seq(Tokens) /\ Len(SubSeq(s, 1, n)) = n
    BY <1>0, <2>2, Split
  <2>b. Part(SubSeq(s, 1, n), k, t)
    BY <1>0, <2>2, PartSplit DEF k
  <2>c. Part(d, 0, t) /\ Len(d) = k + n
    <3> HIDE DEF n
    <3> DEFINE b == SubSeq(s, 1, n)
    <3>1. b \in Seq(Tokens) /\ Len(b) = n /\ Part(b, k, t)
      BY <2>a, <2>b
    <3> HIDE DEF b
    <3>a. Len(h \o b) = k + n
      BY <3>1, Joined DEF k
    <3>b. Part(b, 0 + Len(h), t)
      <4>1. 0 + Len(h) = k
        BY <1>0 DEF k
      <4> QED BY <3>1, <4>1
    <3>c. Part(h \o b, 0, t)
      BY <3>1, <3>b, PartJoined
    <3>2. Part(h \o b, 0, t) /\ Len(h \o b) = k + n
      BY <3>a, <3>c
    <3> QED BY <3>2 DEF b
  <2> HIDE DEF n, d
  <2>3. t[(k + n) - 1] = "end1" /\ t[k + n] = "end2"
    <3>1. n - 1 \in 1 .. Len(s) /\ n \in 1 .. Len(s) /\ k + (n - 1) = (k + n) - 1
      BY <1>0, <2>2
    <3> QED BY <1>2, <2>2, <3>1
  <2>4. k + n \in Ends(t)
    BY <1>0, <2>2, <2>3 DEF Ends
  <2>5. ASSUME NEW m \in Ends(t) PROVE k + n <= m
    <3>1. CASE m <= k + Len(s)
      <4>1. m - k \in Ends(s)
        BY <1>0, <1>5, <3>1 DEF Ends
      <4>2. n <= m - k
        BY <2>1, <4>1
      <4> QED BY <1>0, <2>2, <4>2 DEF Ends
    <3>2. CASE ~(m <= k + Len(s))
      BY <1>0, <2>2, <3>2 DEF Ends
    <3> QED BY <3>1, <3>2
  <2>6. FirstEnd(t) = k + n
    BY <2>4, <2>5, FirstEndIs
  <2>7. k + n \in Ends(d)
    <3>1. \A i \in 1 .. k + n : d[i] = t[i]
      BY <2>c DEF Part
    <3>2. k + n \in 2 .. Len(d) /\ (k + n) - 1 \in 1 .. k + n /\ k + n \in 1 .. k + n
      BY <1>0, <2>2, <2>c
    <3>3. d[(k + n) - 1] = "end1" /\ d[k + n] = "end2"
      BY <2>3, <3>1, <3>2
    <3>4. k + n \in {i \in 2 .. Len(d) : d[i - 1] = "end1" /\ d[i] = "end2"}
      <4>1. PICK j : j = k + n
        OBVIOUS
      <4>2. j \in 2 .. Len(d) /\ d[j - 1] = "end1" /\ d[j] = "end2"
        BY <3>2, <3>3, <4>1, Zenon
      <4>3. j \in {i \in 2 .. Len(d) : d[i - 1] = "end1" /\ d[i] = "end2"}
        BY <4>2
      <4> QED BY <4>1, <4>3
    <3> QED BY <3>4 DEF Ends
  <2> QED BY <2>4, <2>6, <2>7 DEF n, d
<1> QED BY <1>6, <1>7 DEF c, k

----------------------------------------------------------------------------
(* The first request, when p tokens of the stream t have been fed          *)

\* Its head is all there is of it.
Waiting(r, t, p) ==
    ~r.ready /\ ~r.has_body /\ Len(r.header) = p /\ Part(r.header, 0, t)

InHead(r, t, p) ==
    /\ Waiting(r, t, p) /\ Ends(r.header) = {}
    /\ r.error = IF p > HeaderLimit THEN "limit" ELSE "malformed"

\* A head that is too long, or that announces a body and declares none, is never
\* complete: what follows is added to it.
Endless(t) == FirstEnd(t) > HeaderLimit \/ (MethodOf(t) = "POST" /\ ~ValidBody(t))

Stuck(r, t, p) ==
    /\ Waiting(r, t, p) /\ Ends(r.header) # {} /\ Endless(t)
    /\ IF p > HeaderLimit THEN r.error = "limit" ELSE r.error \in {"malformed", "none"}

\* Its head is the stream's first.
Headed(r, t) ==
    /\ Part(r.header, 0, t) /\ Ends(r.header) # {}
    /\ Len(r.header) = FirstEnd(t) /\ FirstEnd(t) <= HeaderLimit

InBody(r, t, p) ==
    /\ r.has_body /\ Headed(r, t) /\ ValidBody(t) /\ r.error = "none"
    /\ Part(r.body, FirstEnd(t), t)
    /\ ~r.ready => p = FirstEnd(t) + Len(r.body)

Bodiless(r, t) ==
    /\ r.ready /\ ~r.has_body /\ Headed(r, t) /\ MethodOf(t) = "GET"
    /\ r.error = IF ValidHeader(t) THEN "none" ELSE "malformed"

First(r, t, p) == InHead(r, t, p) \/ Stuck(r, t, p) \/ InBody(r, t, p) \/ Bodiless(r, t)

\* addBody() takes what follows the head.
LEMMA BodyLocated ==
  ASSUME NEW r \in Request, ~r.ready, Len(r.body) <= BodyLen,
         NEW t \in Seq(Tokens), NEW p \in Nat, InBody(r, t, p),
         NEW s \in Seq(Tokens), Part(s, p, t)
  PROVE  LET f  == AddBody(r, s)
             p2 == p + (Len(s) - Len(f.rest))
         IN  /\ f.rest \in Seq(Tokens) /\ Len(f.rest) <= Len(s)
             /\ Part(f.rest, p2, t) /\ InBody(f.req, t, p2)
<1> DEFINE expected == BodyLen - Len(r.body)
           n == FirstEnd(t)
<1>1. expected \in Nat /\ r.body \in Seq(Tokens) /\ Len(r.body) + expected = BodyLen
      /\ Len(r.body) \in Nat /\ Len(s) \in Nat
  BY LengthsAssumption DEF Request
<1>2. /\ r.has_body /\ Headed(r, t) /\ ValidBody(t) /\ r.error = "none"
      /\ Part(r.body, n, t) /\ p = n + Len(r.body) /\ n \in Nat
  BY DEF InBody, Part
<1>a. AddBody(r, s) =
        IF Len(s) > expected
        THEN [req  |-> [r EXCEPT !.body = r.body \o SubSeq(s, 1, expected), !.ready = TRUE],
              rest |-> SubSeq(s, expected + 1, Len(s))]
        ELSE [req  |-> [r EXCEPT !.body = r.body \o s, !.ready = Len(r.body \o s) = BodyLen],
              rest |-> <<>>]
  BY DEF AddBody
<1> HIDE DEF expected, n
<1>3. CASE Len(s) > expected
  <2> DEFINE a == SubSeq(s, 1, expected)
             z == SubSeq(s, expected + 1, Len(s))
             b == r.body \o a
             q == [r EXCEPT !.body = b, !.ready = TRUE]
  <2>1. a \in Seq(Tokens) /\ z \in Seq(Tokens)
    BY <1>1, <1>3, Split
  <2>2. Part(a, p, t) /\ Part(z, p + expected, t) /\ Len(z) = Len(s) - expected
    BY <1>1, <1>3, PartSplit
  <2>3. AddBody(r, s) = [req |-> q, rest |-> z]
    BY <1>3, <1>a
  <2> HIDE DEF a, z
  <2>4. Part(b, n, t)
    BY <1>1, <1>2, <2>1, <2>2, PartJoined
  <2> HIDE DEF b
  <2>5. q.has_body /\ q.header = r.header /\ q.error = r.error /\ q.body = b /\ q.ready
    BY <1>2 DEF Request
  <2> HIDE DEF q
  <2>6. \A k : InBody(q, t, k)
    BY <1>2, <2>4, <2>5 DEF InBody, Headed, n
  <2>7. AddBody(r, s).req = q /\ AddBody(r, s).rest = z
    BY <2>3
  <2>8. p + (Len(s) - Len(z)) = p + expected /\ Len(z) <= Len(s)
    BY <1>1, <2>2
  <2> QED BY <2>1, <2>2, <2>6, <2>7, <2>8
<1>4. CASE ~(Len(s) > expected)
  <2> DEFINE b == r.body \o s
             q == [r EXCEPT !.body = b, !.ready = Len(b) = BodyLen]
  <2>1. AddBody(r, s) = [req |-> q, rest |-> <<>>]
    BY <1>4, <1>a
  <2>2. Part(b, n, t)
    BY <1>1, <1>2, PartJoined
  <2>3. Len(b) = Len(r.body) + Len(s)
    BY <1>1, Joined
  <2> HIDE DEF b
  <2>4. q.has_body /\ q.header = r.header /\ q.error = r.error /\ q.body = b
    BY <1>2 DEF Request
  <2> HIDE DEF q
  <2>5. p + (Len(s) - Len(<<>>)) = n + Len(b) /\ Len(<<>>) <= Len(s)
    BY <1>1, <1>2, <2>3
  <2>6. InBody(q, t, n + Len(b))
    BY <1>2, <2>2, <2>4 DEF InBody, Headed, n
  <2>7. Part(<<>>, n + Len(b), t) /\ <<>> \in Seq(Tokens)
    BY <1>1, <1>2, <2>2, <2>3 DEF Part
  <2>8. AddBody(r, s).req = q /\ AddBody(r, s).rest = <<>>
    BY <2>1
  <2> QED BY <2>5, <2>6, <2>7, <2>8
<1> QED BY <1>3, <1>4

\* addRequest() keeps the first request what the stream says it is, as long as no
\* empty line is cut.
LEMMA FirstLocated ==
  ASSUME NEW r, Sized(r), ~r.ready, NEW t \in Seq(Tokens), NEW p \in Nat, First(r, t, p),
         NEW s \in Seq(Tokens), Part(s, p, t),
         InHead(r, t, p) /\ p # 0 => t[p] # "end1"
  PROVE  LET f  == AddRequest(r, s)
             p2 == p + (Len(s) - Len(f.rest))
         IN  /\ f.rest \in Seq(Tokens) /\ Len(f.rest) <= Len(s)
             /\ Part(f.rest, p2, t) /\ First(f.req, t, p2)
             /\ f.req.has_body \/ f.req.ready \/ Ends(f.req.header) # {}
                \/ (f.rest = <<>> /\ InHead(r, t, p) /\ Ends(s) = {})
<1> DEFINE n == FirstEnd(t)
<1>1. r \in Request /\ r.header \in Seq(Tokens) /\ Len(s) \in Nat /\ Len(t) \in Nat
  BY DEF Sized, Request
<1>2. CASE r.has_body
  <2>1. InBody(r, t, p)
    BY <1>2 DEF First, InHead, Stuck, Waiting, Bodiless
  <2>2. Len(r.body) <= BodyLen
    BY <1>2, LengthsAssumption DEF Sized, Request
  <2>3. AddRequest(r, s) = AddBody(r, s)
    BY <1>2 DEF AddRequest
  <2>4. LET f  == AddBody(r, s)
            p2 == p + (Len(s) - Len(f.rest))
        IN  /\ f.rest \in Seq(Tokens) /\ Len(f.rest) <= Len(s)
            /\ Part(f.rest, p2, t) /\ InBody(f.req, t, p2)
    BY <1>1, <2>1, <2>2, BodyLocated
  <2> QED BY <2>3, <2>4 DEF First, InBody
<1>3. CASE ~r.has_body
  <2>0. /\ InHead(r, t, p) \/ Stuck(r, t, p)
        /\ Len(r.header) = p /\ Part(r.header, 0, t)
    BY <1>3 DEF First, InHead, Stuck, Waiting, Bodiless, InBody
  <2>a. r.header # <<>> <=> p # 0
    BY <1>1, <2>0
  <2>1. ASSUME Ends(r.header) = {}
        PROVE  /\ InHead(r, t, p)
               /\ Ends(s) = {} => Ends(r.header \o s) = {}
               /\ Ends(s) # {} => n = p + FirstEnd(s)
    <3>1. InHead(r, t, p)
      BY <2>0, <2>1 DEF Stuck
    <3> QED BY <1>1, <2>0, <2>a, <2>1, <3>1, NotCut DEF n
  <2>2. CASE Ends(s) = {}
    <3> DEFINE h == r.header \o s
               q == [r EXCEPT !.header = h,
                              !.error  = IF Len(h) > HeaderLimit THEN "limit" ELSE r.error]
    <3>1. AddRequest(r, s) = [req |-> q, rest |-> <<>>]
      BY <1>3, <2>2 DEF AddRequest
    <3>2. h \in Seq(Tokens) /\ Len(h) = p + Len(s)
      BY <1>1, <2>0, Joined
    <3>3. Part(h, 0, t)
      <4>1. Part(s, 0 + Len(r.header), t)
        BY <2>0
      <4> QED BY <1>1, <2>0, <4>1, PartJoined
    <3>4. Part(<<>>, Len(h), t) /\ p + (Len(s) - Len(<<>>)) = Len(h) /\ Len(<<>>) <= Len(s)
          /\ <<>> \in Seq(Tokens)
      BY <1>1, <3>2, <3>3 DEF Part
    <3>5. Ends(r.header) = {} => Ends(h) = {}
      BY <2>1, <2>2
    <3>6. Ends(r.header) # {} => Ends(h) # {}
      <4>1. Len(r.header) <= Len(h)
        BY <1>1, <2>0, <3>2
      <4> HIDE DEF h
      <4> QED BY <1>1, <2>0, <3>2, <3>3, <4>1, EndsKept
    <3> HIDE DEF h
    <3>7. /\ ~q.ready /\ ~q.has_body /\ q.header = h
          /\ q.error = IF Len(h) > HeaderLimit THEN "limit" ELSE r.error
      BY <1>1, <1>3
    <3> HIDE DEF q
    <3>8. Waiting(q, t, Len(h))
      BY <3>3, <3>7 DEF Waiting
    <3>9. ASSUME ~(Len(h) > HeaderLimit) PROVE ~(p > HeaderLimit)
      BY <1>1, <3>2, <3>9, LengthsAssumption
    <3>10. CASE Ends(r.header) = {}
      <4>1. InHead(q, t, Len(h))
        BY <2>1, <3>5, <3>7, <3>8, <3>9, <3>10 DEF InHead
      <4> QED BY <2>1, <2>2, <3>1, <3>4, <3>10, <4>1 DEF First
    <3>11. CASE Ends(r.header) # {}
      <4>1. Stuck(r, t, p)
        BY <2>0, <3>11 DEF InHead
      <4>2. Stuck(q, t, Len(h))
        BY <3>6, <3>7, <3>8, <3>9, <3>11, <4>1 DEF Stuck
      <4>3. Ends(q.header) # {}
        BY <3>6, <3>7, <3>11
      <4> QED BY <3>1, <3>4, <4>2, <4>3 DEF First
    <3> QED BY <3>10, <3>11
  <2>3. CASE Ends(s) # {}
    <3> DEFINE e    == FirstEnd(s)
               h    == r.header \o SubSeq(s, 1, e)
               tail == SubSeq(s, e + 1, Len(s))
               q    == [r EXCEPT !.header = h, !.header_ready = TRUE, !.method = MethodOf(h),
                                 !.error = IF ValidHeader(h) THEN "none" ELSE r.error]
               over == [r EXCEPT !.header = h, !.error = "limit"]
               got  == [q EXCEPT !.ready = TRUE]
               body == [q EXCEPT !.has_body = TRUE]
    <3>1. e \in 2 .. Len(s)
      BY <2>3, FirstEndFact
    <3>2. /\ SubSeq(s, 1, e) \in Seq(Tokens) /\ Len(SubSeq(s, 1, e)) = e
          /\ tail \in Seq(Tokens)
      BY <1>1, <3>1, Split
    <3>3. Part(SubSeq(s, 1, e), p, t) /\ Part(tail, p + e, t) /\ Len(tail) = Len(s) - e
      BY <1>1, <3>1, PartSplit
    <3>4. AddRequest(r, s) =
            IF Len(h) > HeaderLimit THEN [req |-> over, rest |-> tail]
            ELSE IF q.method = "GET" THEN [req |-> got, rest |-> tail]
            ELSE IF ValidBody(h) THEN AddBody(body, tail)
            ELSE [req |-> q, rest |-> tail]
      BY <1>3, <2>3 DEF AddRequest
    <3>5. /\ h \in Seq(Tokens) /\ Len(h) = p + e /\ Part(h, 0, t) /\ Ends(h) # {}
          /\ Ends(r.header) = {} => n = p + e
      <4> HIDE DEF e, tail
      <4> DEFINE b == SubSeq(s, 1, e)
      <4>1. b \in Seq(Tokens) /\ Len(b) = e /\ Part(b, 0 + Len(r.header), t)
        BY <2>0, <3>2, <3>3
      <4> HIDE DEF b
      <4>2. r.header \o b \in Seq(Tokens) /\ Len(r.header \o b) = p + e
        BY <1>1, <2>0, <4>1, Joined
      <4>3. Part(r.header \o b, 0, t)
        BY <1>1, <2>0, <4>1, PartJoined
      <4>4. Ends(r.header) = {} => Ends(r.header \o b) # {} /\ n = p + e
        <5> SUFFICES ASSUME Ends(r.header) = {} PROVE Ends(r.header \o b) # {} /\ n = p + e
          OBVIOUS
        <5>1. Part(s, Len(r.header), t)
          BY <2>0
        <5>2. r.header # <<>> => t[Len(r.header)] # "end1"
          BY <2>0, <2>1, <2>a
        <5>3. Ends(r.header \o SubSeq(s, 1, FirstEnd(s))) # {}
          BY <1>1, <2>0, <2>3, <5>1, <5>2, NotCut
        <5> QED BY <2>1, <2>3, <5>3 DEF b, e
      <4>5. Ends(r.header) # {} => Ends(r.header \o b) # {}
        <5>1. Len(r.header) <= Len(r.header \o b)
          BY <1>1, <2>0, <3>1, <4>2
        <5> QED BY <1>1, <2>0, <4>2, <4>3, <5>1, EndsKept
      <4> QED BY <4>2, <4>3, <4>4, <4>5 DEF b
    <3> HIDE DEF h, tail
    <3>6. /\ Ends(t) # {} /\ FirstEnd(h) = n /\ n \in 2 .. Len(h)
          /\ MethodOf(h) = MethodOf(t) /\ (ValidHeader(h) <=> ValidHeader(t))
          /\ (ValidBody(h) <=> ValidBody(t))
      BY <3>5, Judged
    <3> HIDE DEF e, n
    <3>b. e \in Nat /\ p + e \in Nat /\ p + (Len(s) - Len(tail)) = p + e /\ Len(tail) <= Len(s)
      BY <1>1, <3>1, <3>3
    <3>c. /\ ~(p + e > HeaderLimit) => ~(p > HeaderLimit)
      BY <3>b, LengthsAssumption
    <3>d. Ends(r.header) # {} => Stuck(r, t, p)
      BY <2>0 DEF InHead
    <3>7. CASE Len(h) > HeaderLimit
      <4>1. AddRequest(r, s).req = over /\ AddRequest(r, s).rest = tail
        BY <3>4, <3>7
      <4>2. ~over.ready /\ ~over.has_body /\ over.header = h /\ over.error = "limit"
        BY <1>1, <1>3 DEF Request
      <4> HIDE DEF over
      <4>3. Endless(t)
        <5>1. CASE Ends(r.header) = {}
          BY <3>5, <3>7, <5>1 DEF Endless, n
        <5>2. CASE Ends(r.header) # {}
          BY <3>d, <5>2 DEF Stuck
        <5> QED BY <5>1, <5>2
      <4>4. Stuck(over, t, p + e)
        BY <3>5, <3>7, <4>2, <4>3 DEF Stuck, Waiting
      <4> QED BY <3>2, <3>3, <3>5, <3>b, <4>1, <4>2, <4>4 DEF First
    <3>8. CASE ~(Len(h) > HeaderLimit)
      <4>1. /\ q.method = MethodOf(t) /\ ~q.ready /\ ~q.has_body /\ q.header = h
            /\ q.error = IF ValidHeader(t) THEN "none" ELSE r.error
            /\ q.body = r.body /\ q \in Request
        <5>1. MethodOf(h) \in {"GET", "POST"}
          BY DEF MethodOf
        <5>2. q \in Request
          BY <1>1, <3>5, <5>1 DEF Request
        <5>3. q.method = MethodOf(h) /\ ~q.ready /\ ~q.has_body /\ q.header = h
              /\ q.error = (IF ValidHeader(h) THEN "none" ELSE r.error) /\ q.body = r.body
          BY <1>1, <1>3 DEF Request
        <5> QED BY <3>6, <5>2, <5>3
      <4> HIDE DEF q
      <4>2. r.body = <<>>
        BY <1>3 DEF Sized
      <4>3. n <= Len(h) /\ Len(h) <= HeaderLimit /\ ~(p > HeaderLimit) /\ ~(p + e > HeaderLimit)
            /\ n <= HeaderLimit /\ n \in Nat
        BY <3>5, <3>6, <3>8, <3>c, <3>b, LengthsAssumption
      <4>4. Ends(r.header) # {} => MethodOf(t) = "POST" /\ ~ValidBody(t)
        <5> SUFFICES ASSUME Ends(r.header) # {} PROVE MethodOf(t) = "POST" /\ ~ValidBody(t)
          OBVIOUS
        <5>1. Endless(t)
          BY <3>d DEF Stuck
        <5> QED BY <4>3, <5>1, LengthsAssumption DEF Endless, n
      <4>5. CASE MethodOf(t) = "GET"
        <5>1. AddRequest(r, s).req = got /\ AddRequest(r, s).rest = tail
          BY <3>4, <3>8, <4>1, <4>5
        <5>2. got.ready /\ ~got.has_body /\ got.header = h /\ got.error = q.error
          BY <4>1 DEF Request
        <5> HIDE DEF got
        <5>3. Ends(r.header) = {} /\ Len(h) = n
          BY <3>5, <4>4, <4>5
        <5>4. r.error = "malformed"
          BY <2>1, <4>3, <5>3 DEF InHead
        <5>5. Bodiless(got, t)
          BY <3>5, <4>1, <4>3, <4>5, <5>2, <5>3, <5>4 DEF Bodiless, Headed, n
        <5> QED BY <3>2, <3>3, <3>b, <5>1, <5>2, <5>5 DEF First
      <4>6. CASE MethodOf(t) # "GET" /\ ValidBody(t)
        <5>1. AddRequest(r, s) = AddBody(body, tail)
          BY <3>4, <3>6, <3>8, <4>1, <4>6
        <5>2. body.has_body /\ ~body.ready /\ body.header = h /\ body.error = q.error
              /\ body.body = <<>> /\ body \in Request
          BY <4>1, <4>2 DEF Request
        <5> HIDE DEF body
        <5>3. Ends(r.header) = {} /\ Len(h) = n
          BY <3>5, <4>4, <4>6
        <5>4. ValidHeader(t)
          BY <4>6 DEF ValidBody
        <5>5. p + e = n /\ n + Len(<<>>) = n /\ Len(<<>>) = 0
          BY <3>5, <4>3, <5>3
        <5>6. Part(<<>>, n, t)
          BY <3>5, <4>3, <5>3, <5>5 DEF Part
        <5>7. InBody(body, t, n)
          BY <3>5, <4>1, <4>3, <4>6, <5>2, <5>3, <5>4, <5>5, <5>6 DEF InBody, Headed, n
        <5>8. Part(tail, n, t) /\ Len(body.body) <= BodyLen
          BY <3>3, <5>2, <5>5, LengthsAssumption
        <5>9. LET f  == AddBody(body, tail)
                  p2 == n + (Len(tail) - Len(f.rest))
              IN  /\ f.rest \in Seq(Tokens) /\ Len(f.rest) <= Len(tail)
                  /\ Part(f.rest, p2, t) /\ InBody(f.req, t, p2)
          BY <3>2, <4>3, <5>2, <5>7, <5>8, BodyLocated
        <5> DEFINE z == AddBody(body, tail).rest
        <5>10. z \in Seq(Tokens) /\ Len(z) \in Nat /\ Len(tail) \in Nat /\ Len(z) <= Len(tail)
          BY <3>2, <5>9
        <5> HIDE DEF z
        <5>11. n + (Len(tail) - Len(z)) = p + (Len(s) - Len(z)) /\ Len(z) <= Len(s)
          BY <1>1, <3>3, <3>b, <5>5, <5>10
        <5> QED BY <5>1, <5>9, <5>11 DEF First, InBody, z
      <4>7. CASE MethodOf(t) # "GET" /\ ~ValidBody(t)
        <5>1. AddRequest(r, s).req = q /\ AddRequest(r, s).rest = tail
          BY <3>4, <3>6, <3>8, <4>1, <4>7
        <5>2. MethodOf(t) = "POST"
          BY <4>7 DEF MethodOf
        <5>3. r.error \in {"malformed", "none"}
          BY <2>0, <4>3 DEF InHead, Stuck
        <5>4. Stuck(q, t, p + e)
          BY <3>5, <4>1, <4>3, <4>7, <5>2, <5>3 DEF Stuck, Waiting, Endless
        <5> QED BY <3>2, <3>3, <3>5, <3>b, <4>1, <5>1, <5>4 DEF First
      <4> QED BY <4>5, <4>6, <4>7
    <3> QED BY <3>7, <3>8
  <2> QED BY <2>2, <2>3
<1> QED BY <1>2, <1>3

----------------------------------------------------------------------------
(* What was routed is what was sent                                        *)

\* How many tokens have been returned by recv(), and fed to requests.
Received == Len(stream) - Len(unsent)
Fed == Received - Len(str)

\* What is still to come is the end of the stream; a request is routed only when it
\* is complete.
Placed ==
    /\ Part(unsent, Received, stream)
    /\ at # "feed" => str = <<>>
    /\ at = "route" => requests # <<>>
    /\ requests = <<>> => Fed = 0
    /\ verdict = "route" => /\ requests # <<>> /\ requests[1].ready
                            /\ requests[1].error = "none"

\* Where no empty line is cut, the first request is what the stream says it is, and
\* until it is complete what is being fed is what comes next.
FirstInv ==
    "blank" \notin cuts =>
      /\ requests = <<>> \/ ~requests[1].ready => Part(str, Fed, stream)
      /\ requests # <<>> => First(requests[1], stream, Fed)
      /\ unsent # <<>> /\ Received # 0 => stream[Received] # "end1"
      /\ at = "feed" /\ InHead(requests[1], stream, Fed) /\ Fed # 0 => stream[Fed] # "end1"

\* Where its head comes in one piece, the first request is never left in its head.
WholeInv ==
    HeadsFirst /\ cuts \subseteq {"body"} =>
      /\ requests # <<>> /\ InHead(requests[1], stream, Fed) =>
           at = "feed" /\ Fed = 0 /\ Ends(str) # {}
      /\ verdict \in {"none"} \cup Deserved(stream)
      /\ at = "closed" => verdict # "none"

JInv == IInv /\ Placed /\ FirstInv /\ WholeInv

\* What the stream's first request deserves, said of the stream itself.
LEMMA DeservedFact ==
  ASSUME NEW t \in Seq(Tokens), Ends(t) # {}
  PROVE  /\ FirstEnd(t) > HeaderLimit => Deserved(t) = {"431"}
         /\ FirstEnd(t) <= HeaderLimit /\ MethodOf(t) = "POST" /\ ~ValidBody(t) =>
              Deserved(t) = {"400", "431"}
         /\ FirstEnd(t) <= HeaderLimit /\ MethodOf(t) = "GET" /\ ~ValidHeader(t) =>
              Deserved(t) = {"400"}
         /\ FirstEnd(t) <= HeaderLimit /\ MethodOf(t) = "GET" /\ ValidHeader(t) =>
              Deserved(t) = {"route"}
         /\ FirstEnd(t) <= HeaderLimit /\ MethodOf(t) = "POST" /\ ValidBody(t) =>
              Deserved(t) = {"route"}
<1> DEFINE n == FirstEnd(t)
           h == SubSeq(t, 1, n)
<1>1. n \in 2 .. Len(t) /\ t[n - 1] = "end1" /\ t[n] = "end2"
  BY FirstEndLeast DEF Ends
<1>2. h \in Seq(Tokens) /\ Len(h) = n
  BY <1>1, Split
<1>3. Part(h, 0, t)
  <2>1. Part(t, 0, t)
    BY DEF Part
  <2> QED BY <1>1, <2>1, PartSplit
<1> HIDE DEF h
<1>4. n \in Ends(h)
  <2>1. \A i \in 1 .. Len(h) : h[i] = t[0 + i]
    BY <1>3 DEF Part
  <2>2. n - 1 \in 1 .. Len(h) /\ n \in 1 .. Len(h) /\ n \in 2 .. Len(h)
    BY <1>1, <1>2
  <2> HIDE DEF n
  <2>3. h[n - 1] = "end1" /\ h[n] = "end2"
    BY <1>1, <2>1, <2>2
  <2> QED BY <2>2, <2>3 DEF Ends
<1>5. /\ MethodOf(h) = MethodOf(t)
      /\ ValidHeader(h) <=> ValidHeader(t)
      /\ ValidBody(h) <=> ValidBody(t)
  BY <1>2, <1>3, <1>4, Judged
<1>6. Deserved(t) =
        CASE n > HeaderLimit -> {"431"}
          [] n <= HeaderLimit /\ MethodOf(t) = "POST" /\ ~ValidBody(t) -> {"400", "431"}
          [] n <= HeaderLimit /\ ~ValidHeader(t) /\ MethodOf(t) = "GET" -> {"400"}
          [] OTHER -> {"route"}
  BY <1>5 DEF Deserved, h
<1>7. n \in Int /\ HeaderLimit \in Int
  BY <1>1, LengthsAssumption
<1>8. ValidBody(t) => ValidHeader(t)
  BY DEF ValidBody
<1>9. n > HeaderLimit <=> ~(n <= HeaderLimit)
  BY <1>7
<1> HIDE DEF n
<1> QED BY <1>6, <1>8, <1>9 DEF n

LEMMA MethodFact == \A t : MethodOf(t) \in {"GET", "POST"}
  BY DEF MethodOf

\* What a complete first request is answered.
LEMMA Complete ==
  ASSUME NEW r \in Request, NEW t \in Seq(Tokens), NEW p, First(r, t, p), r.ready,
         r.error = "none"
  PROVE  /\ Headed(r, t) /\ Ends(t) # {} /\ Deserved(t) = {"route"}
         /\ r.has_body => Part(r.body, FirstEnd(t), t)
<1>1. InBody(r, t, p) \/ Bodiless(r, t)
  BY DEF First, InHead, Stuck, Waiting
<1>2. Headed(r, t)
  BY <1>1 DEF InBody, Bodiless
<1>3. FirstEnd(t) <= HeaderLimit
  BY <1>2 DEF Headed
<1>4. r.has_body => Part(r.body, FirstEnd(t), t)
  BY <1>1 DEF InBody, Bodiless
<1>5. \/ MethodOf(t) = "GET" /\ ValidHeader(t)
      \/ MethodOf(t) = "POST" /\ ValidBody(t)
  <2>1. ValidBody(t) => MethodOf(t) = "POST"
    BY DEF ValidBody, MethodOf
  <2> QED BY <1>1, <2>1 DEF InBody, Bodiless
<1>6. /\ r.header \in Seq(Tokens) /\ Part(r.header, 0, t) /\ Ends(r.header) # {}
      /\ Len(r.header) <= Len(t)
  BY <1>2 DEF Headed, Part, Request
<1>7. Ends(t) # {}
  <2>1. Part(t, 0, t)
    BY DEF Part
  <2> QED BY <1>6, <2>1, EndsKept
<1>8. Deserved(t) = {"route"}
  BY <1>3, <1>5, <1>7, DeservedFact
<1> QED BY <1>2, <1>4, <1>7, <1>8

LEMMA NumbersFact ==
  ASSUME IInv, Placed
  PROVE  /\ stream \in Seq(Tokens) /\ unsent \in Seq(Tokens) /\ str \in Seq(Tokens)
         /\ Len(stream) \in Nat /\ Len(unsent) \in Nat /\ Len(str) \in Nat
         /\ Received \in Nat /\ Fed \in Int /\ Received + Len(unsent) = Len(stream)
         /\ Fed + Len(str) = Received
         /\ unsent # <<>> <=> Len(unsent) # 0
<1>1. stream \in Seq(Tokens) /\ unsent \in Seq(Tokens) /\ str \in Seq(Tokens)
  BY StreamsAssumption DEF IInv, TypeOK
<1>2. Received \in Nat
  BY DEF Placed, Part
<1> QED BY <1>1, <1>2 DEF Received, Fed

\* The last token of a piece is not the first half of an empty line, or it is the
\* last of all.
LEMMA LastOfPiece ==
  ASSUME IInv, Placed, NEW n \in 1 .. Len(unsent), Recv(n), "blank" \notin cuts
  PROVE  unsent' # <<>> => stream[Received + n] # "end1"
<1>1. unsent[n] = stream[Received + n]
  BY DEF Placed, Part
<1>2. unsent' = SubSeq(unsent, n + 1, Len(unsent)) /\ Len(unsent) \in Nat
  BY NumbersFact DEF Recv
<1>3. n = Len(unsent) => unsent' = <<>>
  BY <1>2, NumbersFact
<1>4. Place("end1") = "blank"
  BY DEF Place, Heads
<1> QED BY <1>1, <1>3, <1>4 DEF Recv

\* Where its head comes in one piece, what recv() returns first holds it all.
LEMMA FirstPiece ==
  ASSUME IInv, Placed, NEW n \in 1 .. Len(unsent), Recv(n), HeadsFirst, cuts \subseteq {"body"},
         Received = 0
  PROVE  Ends(str') # {}
<1> DEFINE m == FirstEnd(stream)
<1>1. stream \in Streams /\ Ends(stream) # {} /\ \A i \in 1 .. m - 2 : Place(stream[i]) = "head"
  BY DEF HeadsFirst, IInv, TypeOK
<1>2. m \in 2 .. Len(stream) /\ stream[m - 1] = "end1" /\ stream[m] = "end2"
  BY <1>1, NumbersFact, FirstEndLeast DEF Ends
<1> HIDE DEF m
<1>3. Len(unsent) = Len(stream) /\ \A i \in 1 .. Len(unsent) : unsent[i] = stream[i]
  BY NumbersFact DEF Placed, Part
<1>4. Place("end1") = "blank"
  BY DEF Place, Heads
<1>5. n >= m
  <2>1. n = Len(unsent) \/ Place(stream[n]) = "body"
    BY <1>3 DEF Recv
  <2>2. n \notin 1 .. m - 2 \/ n = Len(unsent)
    BY <1>1, <2>1 DEF m
  <2>3. n # m - 1 \/ n = Len(unsent)
    BY <1>2, <1>4, <2>1
  <2> QED BY <1>2, <1>3, <2>2, <2>3, NumbersFact
<1>6. str' = SubSeq(unsent, 1, n)
  BY DEF Recv
<1>7. Len(str') = n /\ \A i \in 1 .. n : str'[i] = unsent[i]
  BY <1>6, NumbersFact
<1>8. m - 1 \in 1 .. n /\ m \in 1 .. n /\ m \in 2 .. Len(str')
  BY <1>2, <1>5, <1>7
<1>9. str'[m - 1] = "end1" /\ str'[m] = "end2"
  BY <1>2, <1>3, <1>7, <1>8
<1>10. m \in Ends(str')
  BY <1>8, <1>9 DEF Ends
<1> QED BY <1>10

LEMMA NewFirst ==
  ASSUME NEW t \in Seq(Tokens)
  PROVE  InHead(NewRequest, t, 0)
<1>1. /\ NewRequest.header = <<>> /\ ~NewRequest.ready /\ ~NewRequest.has_body
      /\ NewRequest.error = "malformed"
  BY DEF NewRequest
<1>2. Part(<<>>, 0, t) /\ Len(<<>>) = 0
  BY DEF Part
<1>3. Ends(<<>>) = {}
  BY DEF Ends
<1>4. ~(0 > HeaderLimit)
  BY LengthsAssumption
<1> QED BY <1>1, <1>2, <1>3, <1>4 DEF InHead, Waiting

LEMMA RecvJ ==
  ASSUME JInv, NEW n \in 1 .. Len(unsent), Recv(n)
  PROVE  Placed' /\ FirstInv' /\ WholeInv'
<1>0. IInv /\ Placed /\ FirstInv /\ WholeInv
  BY DEF JInv
<1>1. /\ at = "recv" /\ at' = "feed" /\ stream' = stream /\ cuts' = cuts /\ verdict' = verdict
      /\ str' = SubSeq(unsent, 1, n) /\ unsent' = SubSeq(unsent, n + 1, Len(unsent))
      /\ str = <<>>
  BY <1>0 DEF Recv, Placed
<1>2. /\ Part(str', Received, stream) /\ Part(unsent', Received + n, stream)
      /\ Len(unsent') = Len(unsent) - n /\ Len(str') = n
  <2>1. Part(unsent, Received, stream) /\ n \in 0 .. Len(unsent)
    BY <1>0 DEF Placed
  <2>2. Part(SubSeq(unsent, 1, n), Received, stream)
    BY <1>0, <2>1, NumbersFact, PartSplit
  <2>3. Part(SubSeq(unsent, n + 1, Len(unsent)), Received + n, stream)
        /\ Len(SubSeq(unsent, n + 1, Len(unsent))) = Len(unsent) - n
    BY <1>0, <2>1, NumbersFact, PartSplit
  <2>4. Len(SubSeq(unsent, 1, n)) = n
    BY <1>0, <2>1, NumbersFact, Split
  <2> QED BY <1>1, <2>2, <2>3, <2>4
<1>3. Received' = Received + n /\ Fed' = Received /\ Fed = Received
  <2>1. Len(str) = 0 /\ Len(unsent') = Len(unsent) - n /\ Len(str') = n /\ stream' = stream
    BY <1>1, <1>2
  <2>2. Len(stream) \in Nat /\ Len(unsent) \in Nat
    BY <1>0, NumbersFact
  <2>3. Received' = Len(stream) - (Len(unsent) - n) /\ Fed' = Received' - n
    BY <2>1 DEF Received, Fed
  <2>4. Received = Len(stream) - Len(unsent) /\ Fed = Received - 0
    BY <2>1 DEF Received, Fed
  <2> QED BY <2>2, <2>3, <2>4
<1>4. /\ requests' # <<>>
      /\ requests = <<>> => requests'[1] = NewRequest
      /\ requests # <<>> => requests'[1] = requests[1]
  <2>1. requests \in Seq(Request) /\ NewRequest \in Request
    BY <1>0, NewRequestFact DEF IInv, TypeOK, Sized
  <2>2. requests' \in {<<NewRequest>>, Append(requests, NewRequest), requests}
        /\ (requests' = <<NewRequest>> \/ requests # <<>>)
        /\ (requests = <<>> => requests' = <<NewRequest>>)
        /\ (requests # <<>> => requests' \in {Append(requests, NewRequest), requests})
    BY DEF Recv
  <2>3. Append(requests, NewRequest) # <<>>
        /\ (requests # <<>> => Append(requests, NewRequest)[1] = requests[1])
    BY <2>1
  <2> QED BY <2>2, <2>3
<1>5. Placed'
  BY <1>0, <1>1, <1>2, <1>3, <1>4 DEF Placed
<1>6. requests = <<>> => InHead(NewRequest, stream, Received) /\ Received = 0
  BY <1>0, <1>3, NumbersFact, NewFirst DEF Placed
<1>7. FirstInv'
  <2> SUFFICES ASSUME "blank" \notin cuts PROVE FirstInv'
    BY <1>1 DEF FirstInv
  <2>1. unsent # <<>>
    BY <1>0, NumbersFact
  <2>2. First(requests'[1], stream, Received)
    BY <1>0, <1>3, <1>4, <1>6 DEF FirstInv, First
  <2>3. Received # 0 => stream[Received] # "end1"
    BY <1>0, <2>1 DEF FirstInv
  <2>4. unsent' # <<>> => stream[Received + n] # "end1"
    BY <1>0, LastOfPiece
  <2> QED BY <1>1, <1>2, <1>3, <2>2, <2>3, <2>4 DEF FirstInv
<1>8. WholeInv'
  <2> SUFFICES ASSUME HeadsFirst, cuts \subseteq {"body"} PROVE WholeInv'
    BY <1>1 DEF WholeInv, HeadsFirst
  <2>1. ASSUME InHead(requests'[1], stream, Received) PROVE requests = <<>>
    BY <1>0, <1>1, <1>3, <1>4, <2>1 DEF WholeInv
  <2>2. requests = <<>> => Received = 0 /\ Ends(str') # {}
    BY <1>0, <1>6, FirstPiece
  <2> QED BY <1>0, <1>1, <1>3, <2>1, <2>2 DEF WholeInv
<1> QED BY <1>5, <1>7, <1>8

LEMMA FeedJ ==
  ASSUME JInv, Feed
  PROVE  Placed' /\ FirstInv' /\ WholeInv'
<1> DEFINE L   == Len(requests)
           fed == AddRequest(Back, str)
<1>0. IInv /\ Placed /\ FirstInv /\ WholeInv
  BY DEF JInv
<1>1. /\ at = "feed" /\ str' = fed.rest
      /\ at' = (IF fed.rest = <<>> THEN "route" ELSE "feed")
      /\ stream' = stream /\ cuts' = cuts /\ unsent' = unsent /\ verdict' = verdict
  BY DEF Feed
<1>2. IInv' /\ Frozen(requests, requests')
  BY <1>0, FeedStep
<1>3. /\ requests # <<>> /\ ~Back.ready /\ L \in Nat \ {0} /\ requests \in Seq(Request)
      /\ \A i \in 1 .. L - 1 : requests[i].ready
      /\ Sized(Back)
  <2>1. Queue(requests) /\ requests # <<>> /\ ~Back.ready
    BY <1>0, <1>1, QueueOfIInv
  <2>2. L \in Nat \ {0} /\ requests \in Seq(Request)
    BY <2>1 DEF Queue
  <2> QED BY <2>1, <2>2 DEF Queue, Back
<1>4. requests' # <<>> /\ Len(requests') \in Nat
  <2>1. requests' \in Seq(Request)
    BY <1>2 DEF IInv, TypeOK
  <2>2. Len(requests') >= L
    BY <1>2 DEF Frozen
  <2> QED BY <1>3, <2>1, <2>2
<1>5. requests[1].ready => requests'[1] = requests[1]
  BY <1>2, <1>3 DEF Frozen
<1>6. ~requests[1].ready => Back = requests[1] /\ requests'[1] = fed.req
  <2> SUFFICES ASSUME ~requests[1].ready PROVE Back = requests[1] /\ requests'[1] = fed.req
    OBVIOUS
  <2>1. L = 1
    <3>1. 1 \notin 1 .. L - 1
      BY <1>3
    <3> HIDE DEF L
    <3> QED BY <1>3, <3>1
  <2> DEFINE q == [requests EXCEPT ![L] = fed.req]
  <2>2. requests' = IF fed.rest # <<>> /\ fed.req.ready THEN Append(q, NewRequest) ELSE q
    BY DEF Feed
  <2>3. fed.req \in Request /\ NewRequest \in Request
    BY <1>0, <1>3, AddRequestFact, NewRequestFact, NumbersFact DEF Sized
  <2> HIDE DEF fed
  <2>4. q \in Seq(Request) /\ Len(q) = 1 /\ q[1] = fed.req
    BY <1>3, <2>1, <2>3
  <2> HIDE DEF q
  <2>5. Append(q, NewRequest)[1] = q[1]
    <3>1. q \in Seq(Request) /\ Len(q) = 1
      BY <2>4
    <3> QED BY <2>3, <3>1
  <2>6. requests'[1] = fed.req
    BY <2>2, <2>4, <2>5
  <2> QED BY <2>1, <2>6 DEF Back
<1>7. Received' = Received /\ fed.rest \in Seq(Tokens) /\ Len(fed.rest) \in Nat
      /\ Fed' = Fed + (Len(str) - Len(fed.rest))
  <2>1. fed.rest \in Seq(Tokens)
    BY <1>0, <1>3, AddRequestFact, NumbersFact
  <2>2. Received' = Received /\ Fed' = Received - Len(fed.rest)
    BY <1>1 DEF Received, Fed
  <2> HIDE DEF fed
  <2> QED BY <1>0, <2>1, <2>2, NumbersFact
<1>8. Placed'
  <2>1. verdict' = "route" => requests'[1].ready /\ requests'[1].error = "none"
    BY <1>0, <1>1, <1>5 DEF Placed
  <2> QED BY <1>0, <1>1, <1>4, <1>7, <2>1 DEF Placed
<1>9. ASSUME "blank" \notin cuts, ~requests[1].ready
      PROVE  /\ Part(fed.rest, Fed', stream) /\ First(fed.req, stream, Fed')
             /\ InHead(fed.req, stream, Fed') =>
                  fed.rest = <<>> /\ InHead(requests[1], stream, Fed) /\ Ends(str) = {}
  <2>1. Part(str, Fed, stream) /\ First(Back, stream, Fed)
        /\ (InHead(Back, stream, Fed) /\ Fed # 0 => stream[Fed] # "end1")
    BY <1>0, <1>1, <1>3, <1>6, <1>9 DEF FirstInv
  <2>2. Fed \in Nat
    BY <2>1 DEF Part
  <2>3. LET p2 == Fed + (Len(str) - Len(fed.rest))
        IN  /\ Part(fed.rest, p2, stream) /\ First(fed.req, stream, p2)
            /\ fed.req.has_body \/ fed.req.ready \/ Ends(fed.req.header) # {}
               \/ (fed.rest = <<>> /\ InHead(Back, stream, Fed) /\ Ends(str) = {})
    BY <1>0, <1>3, <2>1, <2>2, NumbersFact, FirstLocated
  <2>4. InHead(fed.req, stream, Fed') =>
          ~fed.req.has_body /\ ~fed.req.ready /\ Ends(fed.req.header) = {}
    BY DEF InHead, Waiting
  <2> QED BY <1>6, <1>7, <1>9, <2>3, <2>4
<1>10. FirstInv'
  <2> SUFFICES ASSUME "blank" \notin cuts PROVE FirstInv'
    BY <1>1 DEF FirstInv
  <2>1. unsent' # <<>> /\ Received' # 0 => stream[Received'] # "end1"
    BY <1>0, <1>1, <1>7 DEF FirstInv
  <2>2. CASE requests[1].ready
    <3>1. \A p : First(requests[1], stream, p) => InBody(requests[1], stream, p) \/ Bodiless(requests[1], stream)
      BY <2>2 DEF First, InHead, Stuck, Waiting
    <3>2. First(requests[1], stream, Fed)
      BY <1>0, <1>3 DEF FirstInv
    <3>3. First(requests[1], stream, Fed')
      BY <2>2, <3>1, <3>2 DEF First, InBody
    <3>4. ~InHead(requests[1], stream, Fed')
      BY <2>2 DEF InHead, Waiting
    <3> QED BY <1>1, <1>4, <1>5, <2>1, <2>2, <3>3, <3>4 DEF FirstInv
  <2>3. CASE ~requests[1].ready
    <3>1. requests'[1] = fed.req
      BY <1>6, <2>3
    <3>2. at' = "feed" => ~InHead(fed.req, stream, Fed')
      BY <1>1, <1>9, <2>3
    <3> QED BY <1>1, <1>9, <2>1, <2>3, <3>1, <3>2 DEF FirstInv
  <2> QED BY <2>2, <2>3
<1>11. WholeInv'
  <2> SUFFICES ASSUME HeadsFirst, cuts \subseteq {"body"} PROVE WholeInv'
    BY <1>1 DEF WholeInv, HeadsFirst
  <2>1. "blank" \notin cuts
    OBVIOUS
  <2>2. ~InHead(requests'[1], stream, Fed')
    <3>1. CASE requests[1].ready
      BY <1>5, <3>1 DEF InHead, Waiting
    <3>2. CASE ~requests[1].ready
      <4>1. SUFFICES ASSUME InHead(fed.req, stream, Fed') PROVE FALSE
        BY <1>6, <3>2
      <4>2. InHead(requests[1], stream, Fed) /\ Ends(str) = {}
        BY <1>9, <2>1, <3>2, <4>1
      <4> QED BY <1>0, <1>3, <4>2 DEF WholeInv
    <3> QED BY <3>1, <3>2
  <2>3. at' # "closed"
    BY <1>1
  <2> QED BY <1>0, <1>1, <2>2, <2>3 DEF WholeInv
<1> QED BY <1>8, <1>10, <1>11

\* What is decided about a first request whose head is all there.
LEMMA Ruled ==
  ASSUME NEW r \in Request, NEW t \in Seq(Tokens), NEW p \in Nat,
         First(r, t, p), ~InHead(r, t, p)
  PROVE  /\ r.error = "malformed" => "400" \in Deserved(t)
         /\ r.error = "limit" => "431" \in Deserved(t)
         /\ r.error = "none" /\ r.ready => "route" \in Deserved(t)
<1>1. Ends(r.header) # {} /\ Part(r.header, 0, t) /\ r.header \in Seq(Tokens)
  BY DEF First, Stuck, Waiting, InBody, Bodiless, Headed, Request
<1>2. Ends(t) # {} /\ FirstEnd(t) \in 2 .. Len(r.header)
  BY <1>1, Judged
<1>3. FirstEnd(t) \in Int /\ HeaderLimit \in Int /\ Len(r.header) \in Nat
      /\ FirstEnd(t) <= Len(r.header)
  BY <1>1, <1>2, LengthsAssumption
<1>4. CASE Stuck(r, t, p)
  <2>1. ~r.ready /\ Len(r.header) = p /\ Endless(t)
        /\ IF p > HeaderLimit THEN r.error = "limit" ELSE r.error \in {"malformed", "none"}
    BY <1>4 DEF Stuck, Waiting
  <2>2. CASE FirstEnd(t) > HeaderLimit
    <3>1. p > HeaderLimit
      BY <1>3, <2>1, <2>2
    <3>2. Deserved(t) = {"431"}
      BY <1>2, <2>2, DeservedFact
    <3> QED BY <2>1, <3>1, <3>2
  <2>3. CASE ~(FirstEnd(t) > HeaderLimit)
    <3>1. FirstEnd(t) <= HeaderLimit
      BY <1>3, <2>3
    <3>2. Deserved(t) = {"400", "431"}
      BY <1>2, <2>1, <2>3, <3>1, DeservedFact DEF Endless
    <3> QED BY <2>1, <3>2
  <2> QED BY <2>2, <2>3
<1>5. CASE InBody(r, t, p)
  <2>1. r.error = "none"
    BY <1>5 DEF InBody
  <2>2. r.ready => Deserved(t) = {"route"}
    BY <2>1, Complete
  <2> QED BY <2>1, <2>2
<1>6. CASE Bodiless(r, t)
  <2>1. r.ready /\ MethodOf(t) = "GET" /\ FirstEnd(t) <= HeaderLimit
        /\ r.error = IF ValidHeader(t) THEN "none" ELSE "malformed"
    BY <1>6 DEF Bodiless, Headed
  <2>2. CASE ValidHeader(t)
    <3>1. Deserved(t) = {"route"}
      BY <1>2, <2>1, <2>2, DeservedFact
    <3> QED BY <2>1, <2>2, <3>1
  <2>3. CASE ~ValidHeader(t)
    <3>1. Deserved(t) = {"400"}
      BY <1>2, <2>1, <2>3, DeservedFact
    <3> QED BY <2>1, <2>3, <3>1
  <2> QED BY <2>2, <2>3
<1> QED BY <1>4, <1>5, <1>6 DEF First

LEMMA RouteJ ==
  ASSUME JInv, Route
  PROVE  Placed' /\ FirstInv' /\ WholeInv'
<1> DEFINE front == requests[1]
<1>0. IInv /\ Placed /\ FirstInv /\ WholeInv
  BY DEF JInv
<1>1. /\ at = "route" /\ at' = "recv"
      /\ stream' = stream /\ cuts' = cuts /\ unsent' = unsent /\ str' = str /\ requests' = requests
      /\ verdict' = CASE front.error = "malformed" -> "400"
                      [] front.error = "limit" -> "431"
                      [] front.error = "none" /\ front.ready -> "route"
                      [] OTHER -> verdict
  BY DEF Route
<1>2. requests # <<>> /\ front \in Request
  <2>1. requests # <<>> /\ requests \in Seq(Request)
    BY <1>0, <1>1 DEF Placed, IInv, TypeOK
  <2> QED BY <2>1
<1>3. Received' = Received /\ Fed' = Fed
  BY <1>1 DEF Received, Fed
<1> HIDE DEF front
<1>4. \/ front.error = "malformed" /\ verdict' = "400"
      \/ front.error = "limit" /\ verdict' = "431"
      \/ front.error = "none" /\ front.ready /\ verdict' = "route"
      \/ front.error = "none" /\ ~front.ready /\ verdict' = verdict
  <2>1. front.error \in {"malformed", "limit", "none"} /\ front.ready \in BOOLEAN
    BY <1>2 DEF Request
  <2> QED BY <1>1, <2>1
<1>5. Placed'
  <2>1. verdict' = "route" => front.ready /\ front.error = "none"
    BY <1>0, <1>4 DEF Placed, front
  <2> QED BY <1>0, <1>1, <1>2, <1>3, <2>1 DEF Placed, front
<1>6. FirstInv'
  BY <1>0, <1>1, <1>3 DEF FirstInv
<1>7. WholeInv'
  <2> SUFFICES ASSUME HeadsFirst, cuts \subseteq {"body"} PROVE WholeInv'
    BY <1>1 DEF WholeInv, HeadsFirst
  <2>1. ~InHead(front, stream, Fed)
    BY <1>0, <1>1, <1>2 DEF WholeInv, front
  <2>2. First(front, stream, Fed) /\ Fed \in Nat
    <3>1. First(front, stream, Fed)
      BY <1>0, <1>2 DEF FirstInv, front
    <3>2. Fed = Received
      <4>1. Len(str) = 0
        BY <1>0, <1>1 DEF Placed
      <4> QED BY <1>0, <4>1, NumbersFact
    <3> QED BY <1>0, <3>1, <3>2, NumbersFact
  <2>3. /\ front.error = "malformed" => "400" \in Deserved(stream)
        /\ front.error = "limit" => "431" \in Deserved(stream)
        /\ front.error = "none" /\ front.ready => "route" \in Deserved(stream)
    BY <1>0, <1>2, <2>1, <2>2, NumbersFact, Ruled
  <2>4. verdict' \in {"none"} \cup Deserved(stream)
    BY <1>0, <1>4, <2>3 DEF WholeInv
  <2>5. at' # "closed"
    BY <1>1
  <2> QED BY <1>1, <1>3, <2>1, <2>4, <2>5 DEF WholeInv, front
<1> QED BY <1>5, <1>6, <1>7

LEMMA RespondJ ==
  ASSUME JInv, Respond
  PROVE  Placed' /\ FirstInv' /\ WholeInv'
<1>0. IInv /\ Placed /\ FirstInv /\ WholeInv
  BY DEF JInv
<1>1. /\ at = "recv" /\ at' = "closed" /\ verdict # "none"
      /\ stream' = stream /\ cuts' = cuts /\ unsent' = unsent /\ str' = str /\ requests' = requests
      /\ verdict' = verdict
  BY DEF Respond
<1>2. Received' = Received /\ Fed' = Fed
  BY <1>1 DEF Received, Fed
<1>3. Placed'
  BY <1>0, <1>1, <1>2 DEF Placed
<1>4. FirstInv'
  BY <1>0, <1>1, <1>2 DEF FirstInv
<1>5. WholeInv'
  BY <1>0, <1>1, <1>2 DEF WholeInv, HeadsFirst
<1> QED BY <1>3, <1>4, <1>5

LEMMA StutterJ ==
  ASSUME JInv, UNCHANGED vars
  PROVE  Placed' /\ FirstInv' /\ WholeInv'
<1>0. IInv /\ Placed /\ FirstInv /\ WholeInv
  BY DEF JInv
<1>1. /\ at' = at /\ verdict' = verdict /\ stream' = stream /\ cuts' = cuts
      /\ unsent' = unsent /\ str' = str /\ requests' = requests
  BY DEF vars
<1>2. Received' = Received /\ Fed' = Fed
  BY <1>1 DEF Received, Fed
<1> QED BY <1>0, <1>1, <1>2 DEF Placed, FirstInv, WholeInv, HeadsFirst

LEMMA InitJ == Init => JInv
<1> SUFFICES ASSUME Init PROVE JInv
  OBVIOUS
<1>1. /\ stream \in Seq(Tokens) /\ unsent = stream /\ str = <<>> /\ requests = <<>>
      /\ verdict = "none" /\ at = "recv"
  BY StreamsAssumption DEF Init
<1>2. Received = 0 /\ Fed = 0
  <2>1. Len(stream) \in Nat /\ Len(unsent) = Len(stream) /\ Len(str) = 0
    BY <1>1
  <2> QED BY <2>1 DEF Received, Fed
<1>3. Part(stream, 0, stream) /\ Part(<<>>, 0, stream)
  BY <1>1 DEF Part
<1>4. Placed
  BY <1>1, <1>2, <1>3 DEF Placed
<1>5. FirstInv
  BY <1>1, <1>2, <1>3 DEF FirstInv
<1>6. WholeInv
  BY <1>1 DEF WholeInv
<1> QED BY <1>4, <1>5, <1>6, InitIInv DEF JInv

LEMMA NextJ == JInv /\ [Next]_vars => JInv'
<1> SUFFICES ASSUME JInv, [Next]_vars PROVE JInv'
  OBVIOUS
<1>1. IInv'
  BY NextIInv DEF JInv
<1>2. Placed' /\ FirstInv' /\ WholeInv'
  BY RecvJ, FeedJ, RouteJ, RespondJ, StutterJ DEF Next, Server
<1> QED BY <1>1, <1>2 DEF JInv

\* Every request is routed by what its own connection sent, however it was cut.
LEMMA RoutedRight == JInv => RoutedAsSent
<1> SUFFICES ASSUME JInv, verdict = "route", "blank" \notin cuts
             PROVE  LET n == FirstEnd(stream) IN
                    /\ Deserved(stream) = {"route"}
                    /\ requests[1].header = SubSeq(stream, 1, n)
                    /\ requests[1].has_body => requests[1].body = SubSeq(stream, n + 1, n + BodyLen)
  BY DEF RoutedAsSent
<1> DEFINE r == requests[1]
           n == FirstEnd(stream)
<1>1. /\ requests # <<>> /\ r.ready /\ r.error = "none" /\ First(r, stream, Fed)
      /\ stream \in Seq(Tokens)
  BY NumbersFact DEF JInv, Placed, FirstInv
<1>2. Sized(r)
  <2>1. requests \in Seq(Request) /\ 1 \in DOMAIN requests
    BY <1>1 DEF JInv, IInv, TypeOK
  <2> QED BY <2>1 DEF JInv, IInv
<1> HIDE DEF r
<1>3. Headed(r, stream) /\ Deserved(stream) = {"route"}
      /\ (r.has_body => Part(r.body, n, stream))
  BY <1>1, <1>2, Complete DEF Sized
<1>4. r.header \in Seq(Tokens) /\ r.body \in Seq(Tokens) /\ (r.has_body => Len(r.body) = BodyLen)
  BY <1>1, <1>2 DEF Sized, Request
<1>5. r.header = SubSeq(stream, 1, n)
  <2>1. Part(r.header, 0, stream) /\ Len(r.header) = n
    BY <1>3 DEF Headed
  <2>2. r.header = SubSeq(stream, 0 + 1, 0 + Len(r.header))
    BY <1>1, <1>4, <2>1, PartIs
  <2>3. 0 + 1 = 1 /\ 0 + Len(r.header) = n
    BY <1>4, <2>1
  <2> QED BY <2>2, <2>3
<1>6. r.has_body => r.body = SubSeq(stream, n + 1, n + BodyLen)
  <2> SUFFICES ASSUME r.has_body PROVE r.body = SubSeq(stream, n + 1, n + BodyLen)
    OBVIOUS
  <2>1. Part(r.body, n, stream) /\ n \in Nat
    BY <1>3 DEF Part
  <2>2. r.body = SubSeq(stream, n + 1, n + Len(r.body))
    BY <1>1, <1>4, <2>1, PartIs
  <2> QED BY <1>4, <2>2
<1> QED BY <1>3, <1>5, <1>6 DEF r

\* Where no empty line is cut, a request that is routed has its own head and its own
\* body, for any streams, cuts, limits and body lengths (Client::clientRecvHttp).
THEOREM RoutedIsSent == Spec => []RoutedAsSent
  BY InitJ, NextJ, RoutedRight, PTL DEF Spec

\* Where every stream begins with a head, and heads come in one piece, the response
\* that leaves is the one the first request deserves: with the theorem above, all of
\* AsSent.
THEOREM AnsweredIsSent ==
  ASSUME HeadsFirst
  PROVE  Spec => []AsSent
<1>1. JInv => AnsweredAsSent
  BY DEF JInv, WholeInv, AnsweredAsSent
<1>2. JInv => AsSent
  BY <1>1, RoutedRight DEF AsSent
<1> QED BY <1>2, InitJ, NextJ, PTL DEF Spec

----------------------------------------------------------------------------
(* What FlattenSeq() joins                                                 *)

\* f[i] joins the first i sequences of s, for each i up to n.
Joins(f, s, n) == f = [i \in 1 .. n |-> IF i = 1 THEN s[i] ELSE f[i - 1] \o s[i]]

\* What that says of the first k of them.
JoinsTo(f, s, k) == \A i \in 1 .. k : f[i] = IF i = 1 THEN s[i] ELSE f[i - 1] \o s[i]

LEMMA JoinsAt ==
  ASSUME NEW f, NEW s, NEW n \in Nat, Joins(f, s, n), NEW k \in Nat, k <= n
  PROVE  JoinsTo(f, s, k)
<1>1. \A i \in 1 .. k : i \in 1 .. n
  OBVIOUS
<1> QED BY <1>1 DEF Joins, JoinsTo

LEMMA JoinsExists ==
  ASSUME NEW s, NEW n \in Nat
  PROVE  \E f : Joins(f, s, n)
<1> DEFINE Bad == {k \in Nat : ~\E f : Joins(f, s, k)}
<1>1. SUFFICES ASSUME Bad # {} PROVE FALSE
  OBVIOUS
<1>2. PICK k \in Bad : \A m \in Bad : k <= m
  BY <1>1, LeastElement
<1>3. CASE k = 0
  <2>1. Joins([i \in 1 .. 0 |-> 0], s, 0)
    BY DEF Joins
  <2> QED BY <1>2, <1>3, <2>1
<1>4. CASE k # 0
  <2>1. k - 1 \in Nat /\ k - 1 \notin Bad
    BY <1>2, <1>4
  <2>2. PICK f : Joins(f, s, k - 1)
    BY <2>1
  <2> DEFINE g == [i \in 1 .. k |-> IF i = k THEN IF k = 1 THEN s[k] ELSE f[k - 1] \o s[k] ELSE f[i]]
  <2>3. \A i \in 1 .. k - 1 : f[i] = IF i = 1 THEN s[i] ELSE f[i - 1] \o s[i]
    BY <2>2 DEF Joins
  <2>4. ASSUME NEW i \in 1 .. k
        PROVE  g[i] = IF i = 1 THEN s[i] ELSE g[i - 1] \o s[i]
    <3>1. k \in Nat /\ (i # 1 => i - 1 \in 1 .. k /\ i - 1 # k)
      BY <1>2
    <3>2. CASE i = k
      BY <3>1, <3>2
    <3>3. CASE i # k
      <4>1. i \in 1 .. k - 1 /\ g[i] = f[i]
        BY <3>1, <3>3
      <4>2. i # 1 => g[i - 1] = f[i - 1]
        BY <3>1
      <4> HIDE DEF g
      <4> QED BY <2>3, <4>1, <4>2
    <3> QED BY <3>2, <3>3
  <2>5. g = [i \in 1 .. k |-> g[i]]
    OBVIOUS
  <2> HIDE DEF g
  <2>6. Joins(g, s, k)
    <3>1. [i \in 1 .. k |-> g[i]] = [i \in 1 .. k |-> IF i = 1 THEN s[i] ELSE g[i - 1] \o s[i]]
      BY <2>4
    <3> QED BY <2>5, <3>1 DEF Joins
  <2> QED BY <1>2, <2>6
<1> QED BY <1>3, <1>4

LEMMA FlattenJoins ==
  ASSUME NEW s, Len(s) \in Nat \ {0}
  PROVE  \E f : Joins(f, s, Len(s)) /\ FlattenSeq(s) = f[Len(s)]
<1> DEFINE f == CHOOSE g : Joins(g, s, Len(s))
<1>1. Joins(f, s, Len(s))
  BY JoinsExists
<1>2. FlattenSeq(s) = f[Len(s)]
  BY DEF FlattenSeq, Joins
<1> QED BY <1>1, <1>2

\* Sequences of sequences that begin alike are joined alike.
LEMMA JoinedAlike ==
  ASSUME NEW s, NEW t, NEW f, NEW g, NEW k \in Nat, JoinsTo(f, s, k), JoinsTo(g, t, k),
         \A i \in 1 .. k : s[i] = t[i]
  PROVE  \A i \in 1 .. k : f[i] = g[i]
<1> DEFINE Bad == {i \in 1 .. k : f[i] # g[i]}
<1>1. SUFFICES ASSUME Bad # {} PROVE FALSE
  OBVIOUS
<1>2. PICK i \in Bad : \A j \in Bad : i <= j
  <2>1. Bad \subseteq Nat
    OBVIOUS
  <2> HIDE DEF Bad
  <2> QED BY <1>1, <2>1, LeastElement
<1>3. i \in 1 .. k
  BY <1>2
<1>4. /\ f[i] = IF i = 1 THEN s[i] ELSE f[i - 1] \o s[i]
      /\ g[i] = IF i = 1 THEN t[i] ELSE g[i - 1] \o t[i]
  BY <1>3 DEF JoinsTo
<1>5. i # 1 => i - 1 \in 1 .. k /\ i - 1 \notin Bad
  <2>1. ~(i <= i - 1)
    BY <1>3
  <2> QED BY <1>2, <1>3, <2>1
<1> QED BY <1>2, <1>3, <1>4, <1>5

\* What is joined of sequences over S is a sequence over S.
LEMMA JoinedIn ==
  ASSUME NEW S, NEW s, NEW f, NEW n \in Nat, JoinsTo(f, s, n), \A i \in 1 .. n : s[i] \in Seq(S)
  PROVE  \A i \in 1 .. n : f[i] \in Seq(S)
<1> DEFINE Bad == {i \in 1 .. n : f[i] \notin Seq(S)}
<1>1. SUFFICES ASSUME Bad # {} PROVE FALSE
  OBVIOUS
<1>2. PICK i \in Bad : \A j \in Bad : i <= j
  <2>1. Bad \subseteq Nat
    OBVIOUS
  <2> HIDE DEF Bad
  <2> QED BY <1>1, <2>1, LeastElement
<1>3. i \in 1 .. n /\ s[i] \in Seq(S)
  BY <1>2
<1>4. f[i] = IF i = 1 THEN s[i] ELSE f[i - 1] \o s[i]
  BY <1>3 DEF JoinsTo
<1>5. i # 1 => i - 1 \in 1 .. n /\ i - 1 \notin Bad
  <2>1. ~(i <= i - 1)
    BY <1>3
  <2> QED BY <1>2, <1>3, <2>1
<1>6. i # 1 => f[i - 1] \in Seq(S)
  BY <1>5
<1>7. f[i] \in Seq(S)
  BY <1>3, <1>4, <1>6
<1> QED BY <1>2, <1>7

\* What is joined in front of the last sequence does not depend on the last.
LEMMA FlattenReplaced ==
  ASSUME NEW S, NEW s, NEW t, Len(s) \in Nat \ {0}, Len(t) = Len(s),
         \A i \in 1 .. Len(s) - 1 : s[i] = t[i] /\ s[i] \in Seq(S),
         s[Len(s)] \in Seq(S), t[Len(s)] \in Seq(S)
  PROVE  \E pre \in Seq(S) : /\ FlattenSeq(s) = pre \o s[Len(s)]
                             /\ FlattenSeq(t) = pre \o t[Len(s)]
<1> DEFINE L == Len(s)
<1>1. PICK f : Joins(f, s, L) /\ FlattenSeq(s) = f[L]
  BY FlattenJoins
<1>2. PICK g : Joins(g, t, L) /\ FlattenSeq(t) = g[L]
  BY FlattenJoins
<1> HIDE DEF L
<1>3. L \in Nat \ {0}
  BY DEF L
<1>a. JoinsTo(f, s, L) /\ JoinsTo(g, t, L)
  <2>1. L \in Nat /\ L <= L
    BY <1>3
  <2> QED BY <1>1, <1>2, <2>1, JoinsAt
<1>4. /\ f[L] = IF L = 1 THEN s[L] ELSE f[L - 1] \o s[L]
      /\ g[L] = IF L = 1 THEN t[L] ELSE g[L - 1] \o t[L]
  <2>1. L \in 1 .. L
    BY <1>3
  <2> QED BY <1>a, <2>1 DEF JoinsTo
<1>5. CASE L = 1
  <2>1. f[L] = <<>> \o s[L] /\ g[L] = <<>> \o t[L] /\ <<>> \in Seq(S)
    BY <1>4, <1>5, ConcatEmptySeq DEF L
  <2> QED BY <1>1, <1>2, <2>1 DEF L
<1>6. CASE L # 1
  <2>1. L - 1 \in Nat /\ L - 1 <= L /\ L - 1 \in 1 .. L - 1
    BY <1>3, <1>6
  <2>2. \A i \in 1 .. L - 1 : s[i] = t[i] /\ s[i] \in Seq(S)
    BY DEF L
  <2>3. f[L - 1] = g[L - 1]
    <3>1. JoinsTo(f, s, L - 1) /\ JoinsTo(g, t, L - 1)
      BY <1>3, <1>a DEF JoinsTo
    <3>2. \A i \in 1 .. L - 1 : s[i] = t[i]
      BY <2>2
    <3>3. \A i \in 1 .. L - 1 : f[i] = g[i]
      BY <2>1, <3>1, <3>2, JoinedAlike
    <3> QED BY <2>1, <3>3
  <2>5. f[L] \in Seq(S) /\ f[L - 1] \in Seq(S)
    <3>1. L \in Nat /\ L \in 1 .. L /\ L - 1 \in 1 .. L
      BY <1>3, <1>6
    <3>2. \A i \in 1 .. L : s[i] \in Seq(S)
      <4>1. \A i \in 1 .. L : i = L \/ i \in 1 .. L - 1
        BY <1>3
      <4>2. s[L] \in Seq(S)
        BY DEF L
      <4> QED BY <2>2, <4>1, <4>2
    <3>3. \A i \in 1 .. L : f[i] \in Seq(S)
      BY <1>a, <3>1, <3>2, JoinedIn
    <3> QED BY <3>1, <3>3
  <2>4. f[L - 1] = g[L - 1] /\ f[L - 1] \in Seq(S)
    BY <2>3, <2>5
  <2> QED BY <1>1, <1>2, <1>4, <1>6, <2>4 DEF L
<1> QED BY <1>5, <1>6

\* An empty sequence at the end adds nothing.
LEMMA FlattenBegun ==
  ASSUME NEW S, NEW s, NEW t, Len(s) \in Nat, Len(t) = Len(s) + 1, Len(s) = 0 => s = <<>>,
         \A i \in 1 .. Len(s) : t[i] = s[i] /\ s[i] \in Seq(S), t[Len(s) + 1] = <<>>
  PROVE  FlattenSeq(t) = FlattenSeq(s)
<1> DEFINE L == Len(s)
<1>1. L \in Nat /\ L + 1 \in Nat \ {0}
  OBVIOUS
<1>2. PICK g : Joins(g, t, L + 1) /\ FlattenSeq(t) = g[L + 1]
  BY <1>1, FlattenJoins
<1>a. JoinsTo(g, t, L + 1)
  <2> HIDE DEF L
  <2>1. L + 1 \in Nat /\ L + 1 <= L + 1
    BY <1>1
  <2> QED BY <1>2, <2>1, JoinsAt
<1>3. g[L + 1] = IF L + 1 = 1 THEN t[L + 1] ELSE g[L + 1 - 1] \o t[L + 1]
  <2> HIDE DEF L
  <2>1. L + 1 \in 1 .. L + 1
    BY <1>1
  <2> QED BY <1>1, <1>a, <2>1 DEF JoinsTo
<1>4. CASE L = 0
  <2>1. g[L + 1] = <<>>
    BY <1>3, <1>4
  <2>2. FlattenSeq(s) = s /\ s = <<>>
    BY <1>4 DEF FlattenSeq
  <2> QED BY <1>2, <2>1, <2>2
<1>5. CASE L # 0
  <2>1. PICK f : Joins(f, s, L) /\ FlattenSeq(s) = f[L]
    BY <1>1, <1>5, FlattenJoins
  <2>2. \A i \in 1 .. L : s[i] = t[i] /\ s[i] \in Seq(S)
    OBVIOUS
  <2>a. t[L + 1] = <<>>
    OBVIOUS
  <2> HIDE DEF L
  <2>3. f[L] = g[L] /\ f[L] \in Seq(S)
    <3>1. L <= L /\ L \in 1 .. L
      BY <1>1, <1>5
    <3>4. \A i \in 1 .. L : s[i] = t[i]
      BY <2>2
    <3>5. JoinsTo(f, s, L)
      BY <1>1, <2>1, <3>1, JoinsAt
    <3>6. JoinsTo(g, t, L)
      BY <1>1, <1>a DEF JoinsTo
    <3>2. \A i \in 1 .. L : f[i] = g[i]
      <4>1. L \in Nat
        BY <1>1
      <4> QED BY <4>1, <3>4, <3>5, <3>6, JoinedAlike
    <3>3. \A i \in 1 .. L : f[i] \in Seq(S)
      BY <1>1, <2>2, <3>5, JoinedIn
    <3> QED BY <3>1, <3>2, <3>3
  <2>4. L + 1 # 1 /\ L + 1 - 1 = L
    BY <1>1, <1>5
  <2>5. g[L + 1] = g[L] \o <<>>
    BY <1>3, <2>4, <2>a
  <2>6. f[L] \o <<>> = f[L]
    BY <2>3, ConcatEmptySeq
  <2> QED BY <1>2, <2>1, <2>3, <2>5, <2>6
<1> QED BY <1>4, <1>5

----------------------------------------------------------------------------
(* Nothing is lost                                                         *)

LEMMA Associative ==
  ASSUME NEW a \in Seq(Tokens), NEW b \in Seq(Tokens), NEW c \in Seq(Tokens)
  PROVE  (a \o b) \o c = a \o (b \o c)
  BY ConcatAssociative

Bytes(r) == r.header \o r.body
Held(q) == [i \in DOMAIN q |-> Bytes(q[i])]

LEMMA HeldFact ==
  ASSUME NEW q \in Seq(Request)
  PROVE  /\ Len(Held(q)) = Len(q)
         /\ \A i \in 1 .. Len(q) : Held(q)[i] = Bytes(q[i]) /\ Held(q)[i] \in Seq(Tokens)
<1>1. DOMAIN q = 1 .. Len(q) /\ Len(q) \in Nat
  OBVIOUS
<1>2. ASSUME NEW i \in 1 .. Len(q) PROVE Bytes(q[i]) \in Seq(Tokens)
  <2>a. q[i] \in Request
    OBVIOUS
  <2>1. q[i].header \in Seq(Tokens) /\ q[i].body \in Seq(Tokens)
    BY <2>a DEF Request
  <2> QED BY <2>1, Joined DEF Bytes
<1>3. Held(q) = [i \in 1 .. Len(q) |-> Bytes(q[i])]
  BY <1>1 DEF Held
<1>4. Len(Held(q)) = Len(q)
  BY <1>1, <1>3
<1> QED BY <1>2, <1>3, <1>4

\* What the requests of a queue hold, in their order.
AllHeld(q) == FlattenSeq(Held(q))

LEMMA HeldReplaced ==
  ASSUME NEW q, Queue(q), q # <<>>, NEW r, Sized(r)
  PROVE  \E pre \in Seq(Tokens) :
           /\ AllHeld(q) = pre \o Bytes(q[Len(q)])
           /\ AllHeld([q EXCEPT ![Len(q)] = r]) = pre \o Bytes(r)
<1> DEFINE a == [q EXCEPT ![Len(q)] = r]
           L == Len(q)
<1>1. q \in Seq(Request) /\ L \in Nat \ {0}
  BY DEF Queue
<1>2. a \in Seq(Request) /\ Len(a) = L /\ a[L] = r /\ \A i \in 1 .. L - 1 : a[i] = q[i]
  BY Replaced DEF Queue
<1> HIDE DEF a
<1>3. /\ Len(Held(q)) = L /\ Len(Held(a)) = L
      /\ \A i \in 1 .. L : Held(q)[i] = Bytes(q[i]) /\ Held(q)[i] \in Seq(Tokens)
      /\ \A i \in 1 .. L : Held(a)[i] = Bytes(a[i]) /\ Held(a)[i] \in Seq(Tokens)
  BY <1>1, <1>2, HeldFact
<1> HIDE DEF L
<1>4. L \in 1 .. L /\ \A i \in 1 .. L - 1 : i \in 1 .. L
  BY <1>1
<1> DEFINE s == Held(q)
           t == Held(a)
<1>5. /\ Len(s) \in Nat \ {0} /\ Len(t) = Len(s) /\ Len(s) = L
      /\ \A i \in 1 .. Len(s) - 1 : s[i] = t[i] /\ s[i] \in Seq(Tokens)
      /\ s[Len(s)] \in Seq(Tokens) /\ t[Len(s)] \in Seq(Tokens)
  BY <1>1, <1>2, <1>3, <1>4
<1>6. s[L] = Bytes(q[L]) /\ t[L] = Bytes(r)
  BY <1>2, <1>3, <1>4
<1> HIDE DEF s, t
<1>7. \E pre \in Seq(Tokens) : FlattenSeq(s) = pre \o s[Len(s)] /\ FlattenSeq(t) = pre \o t[Len(s)]
  BY <1>5, FlattenReplaced
<1> QED BY <1>5, <1>6, <1>7 DEF AllHeld, a, s, t, L

LEMMA HeldBegun ==
  ASSUME NEW q, Queue(q), q # <<>> => q[Len(q)].ready
  PROVE  AllHeld(Append(q, NewRequest)) = AllHeld(q)
<1> DEFINE a == Append(q, NewRequest)
           L == Len(q)
<1>1. q \in Seq(Request) /\ L \in Nat
  BY DEF Queue
<1>2. a \in Seq(Request) /\ Len(a) = L + 1 /\ a[L + 1] = NewRequest /\ \A i \in 1 .. L : a[i] = q[i]
  BY Begun DEF Queue
<1> HIDE DEF a
<1>3. /\ Len(Held(q)) = L /\ Len(Held(a)) = L + 1
      /\ \A i \in 1 .. L : Held(q)[i] = Bytes(q[i]) /\ Held(q)[i] \in Seq(Tokens)
      /\ \A i \in 1 .. L + 1 : Held(a)[i] = Bytes(a[i])
  BY <1>1, <1>2, HeldFact
<1>4. Bytes(NewRequest) = <<>>
  BY DEF Bytes, NewRequest
<1>5. L = 0 => Held(q) = <<>>
  <2>1. L = 0 => q = <<>>
    BY <1>1
  <2> QED BY <2>1 DEF Held
<1> HIDE DEF L
<1>6. L + 1 \in 1 .. L + 1 /\ \A i \in 1 .. L : i \in 1 .. L + 1
  BY <1>1
<1> DEFINE s == Held(q)
           t == Held(a)
<1>7. /\ Len(s) \in Nat /\ Len(t) = Len(s) + 1 /\ (Len(s) = 0 => s = <<>>)
      /\ \A i \in 1 .. Len(s) : t[i] = s[i] /\ s[i] \in Seq(Tokens)
      /\ t[Len(s) + 1] = <<>>
  BY <1>1, <1>2, <1>3, <1>4, <1>5, <1>6
<1> HIDE DEF s, t
<1>8. FlattenSeq(t) = FlattenSeq(s)
  BY <1>7, FlattenBegun
<1> QED BY <1>8 DEF AllHeld, a, s, t

\* A sequence is its first tokens and the rest.
LEMMA Rejoined ==
  ASSUME NEW s \in Seq(Tokens), NEW n \in 0 .. Len(s)
  PROVE  SubSeq(s, 1, n) \o SubSeq(s, n + 1, Len(s)) = s
<1>1. 1 \in 1 .. Len(s) + 1 /\ n \in 1 - 1 .. Len(s) /\ Len(s) \in n .. Len(s)
  OBVIOUS
<1>2. SubSeq(s, 1, n) \o SubSeq(s, n + 1, Len(s)) = SubSeq(s, 1, Len(s))
  BY <1>1, ConcatAdjacentSubSeq
<1> QED BY <1>2, SubSeqFull

\* addBody() drops nothing: what it has not taken it returns.
LEMMA BodyConserved ==
  ASSUME NEW r \in Request, Len(r.body) <= BodyLen, NEW s \in Seq(Tokens)
  PROVE  Bytes(AddBody(r, s).req) \o AddBody(r, s).rest = Bytes(r) \o s
<1> DEFINE expected == BodyLen - Len(r.body)
<1>1. expected \in Nat /\ r.body \in Seq(Tokens) /\ r.header \in Seq(Tokens) /\ Len(s) \in Nat
  BY LengthsAssumption DEF Request
<1>a. AddBody(r, s) =
        IF Len(s) > expected
        THEN [req  |-> [r EXCEPT !.body = r.body \o SubSeq(s, 1, expected), !.ready = TRUE],
              rest |-> SubSeq(s, expected + 1, Len(s))]
        ELSE [req  |-> [r EXCEPT !.body = r.body \o s, !.ready = Len(r.body \o s) = BodyLen],
              rest |-> <<>>]
  BY DEF AddBody
<1>b. ASSUME NEW x \in Seq(Tokens), NEW y \in Seq(Tokens)
      PROVE  (r.header \o (r.body \o x)) \o y = (r.header \o r.body) \o (x \o y)
  <2>1. r.header \o r.body \in Seq(Tokens)
    BY <1>1, Joined
  <2>2. r.header \o (r.body \o x) = (r.header \o r.body) \o x
    BY <1>1, Associative
  <2>3. ((r.header \o r.body) \o x) \o y = (r.header \o r.body) \o (x \o y)
    BY <2>1, Associative
  <2> QED BY <2>2, <2>3
<1> HIDE DEF expected
<1>2. CASE Len(s) > expected
  <2> DEFINE x == SubSeq(s, 1, expected)
             y == SubSeq(s, expected + 1, Len(s))
             q == [r EXCEPT !.body = r.body \o x, !.ready = TRUE]
  <2>1. expected \in 0 .. Len(s)
    BY <1>1, <1>2
  <2>2. x \in Seq(Tokens) /\ y \in Seq(Tokens) /\ x \o y = s
    BY <2>1, Split, Rejoined
  <2>3. AddBody(r, s) = [req |-> q, rest |-> y]
    BY <1>2, <1>a
  <2> HIDE DEF x, y
  <2>4. q.header = r.header /\ q.body = r.body \o x
    BY DEF Request
  <2> HIDE DEF q
  <2>5. Bytes(q) \o y = Bytes(r) \o (x \o y)
    <3>1. x \in Seq(Tokens) /\ y \in Seq(Tokens)
      BY <2>2
    <3>2. (r.header \o (r.body \o x)) \o y = (r.header \o r.body) \o (x \o y)
      BY <1>b, <3>1
    <3>3. Bytes(q) = r.header \o (r.body \o x)
      BY <2>4 DEF Bytes
    <3>4. Bytes(r) = r.header \o r.body
      BY DEF Bytes
    <3> QED BY <3>2, <3>3, <3>4
  <2>6. AddBody(r, s).req = q /\ AddBody(r, s).rest = y
    BY <2>3
  <2> QED BY <2>2, <2>5, <2>6
<1>3. CASE ~(Len(s) > expected)
  <2> DEFINE q == [r EXCEPT !.body = r.body \o s, !.ready = Len(r.body \o s) = BodyLen]
  <2>1. AddBody(r, s) = [req |-> q, rest |-> <<>>]
    BY <1>3, <1>a
  <2>2. q.header = r.header /\ q.body = r.body \o s
    BY DEF Request
  <2> HIDE DEF q
  <2>3. <<>> \in Seq(Tokens) /\ s \o <<>> = s
    BY ConcatEmptySeq
  <2>4. Bytes(q) \o <<>> = Bytes(r) \o (s \o <<>>)
    BY <1>b, <2>2, <2>3 DEF Bytes
  <2>5. AddBody(r, s).req = q /\ AddBody(r, s).rest = <<>>
    BY <2>1
  <2> QED BY <2>3, <2>4, <2>5
<1> QED BY <1>2, <1>3

\* Nor does addRequest().
LEMMA RequestConserved ==
  ASSUME NEW r, Sized(r), ~r.ready, NEW s \in Seq(Tokens)
  PROVE  Bytes(AddRequest(r, s).req) \o AddRequest(r, s).rest = Bytes(r) \o s
<1>1. /\ r \in Request /\ r.header \in Seq(Tokens) /\ r.body \in Seq(Tokens)
      /\ Len(r.body) <= BodyLen
  <2>1. r \in Request /\ r.header \in Seq(Tokens) /\ r.body \in Seq(Tokens)
    BY DEF Sized, Request
  <2> QED BY <2>1, LengthsAssumption DEF Sized
<1>2. CASE r.has_body
  BY <1>1, <1>2, BodyConserved DEF AddRequest
<1>3. ASSUME ~r.has_body, NEW x \in Seq(Tokens)
      PROVE  /\ r.body = <<>> /\ r.header \o x \in Seq(Tokens)
             /\ (r.header \o x) \o <<>> = r.header \o x
             /\ Bytes(r) = r.header
  <2>1. r.body = <<>> /\ r.header \o x \in Seq(Tokens)
    BY <1>1, <1>3, Joined DEF Sized
  <2> QED BY <1>1, <2>1, ConcatEmptySeq DEF Bytes
<1>4. CASE ~r.has_body /\ Ends(s) = {}
  <2> DEFINE h == r.header \o s
             q == [r EXCEPT !.header = h,
                            !.error  = IF Len(h) > HeaderLimit THEN "limit" ELSE r.error]
  <2>1. AddRequest(r, s) = [req |-> q, rest |-> <<>>]
    BY <1>4 DEF AddRequest
  <2>2. r.body = <<>> /\ h \in Seq(Tokens) /\ h \o <<>> = h /\ Bytes(r) = r.header
    BY <1>3, <1>4
  <2>3. Bytes(r) \o s = h
    BY <2>2
  <2> HIDE DEF h
  <2>4. q.header = h /\ q.body = <<>>
    BY <1>1, <2>2 DEF Request
  <2> HIDE DEF q
  <2>5. AddRequest(r, s).req = q /\ AddRequest(r, s).rest = <<>>
    BY <2>1
  <2>6. Bytes(q) \o <<>> = h
    BY <2>2, <2>4, ConcatEmptySeq DEF Bytes
  <2> QED BY <2>3, <2>5, <2>6
<1>5. CASE ~r.has_body /\ Ends(s) # {}
  <2> DEFINE x    == SubSeq(s, 1, FirstEnd(s))
             h    == r.header \o x
             tail == SubSeq(s, FirstEnd(s) + 1, Len(s))
             q    == [r EXCEPT !.header = h, !.header_ready = TRUE, !.method = MethodOf(h),
                               !.error = IF ValidHeader(h) THEN "none" ELSE r.error]
             over == [r EXCEPT !.header = h, !.error = "limit"]
             got  == [q EXCEPT !.ready = TRUE]
             body == [q EXCEPT !.has_body = TRUE]
  <2>1. FirstEnd(s) \in 2 .. Len(s) /\ FirstEnd(s) \in 0 .. Len(s)
    BY <1>5, FirstEndFact
  <2>2. x \in Seq(Tokens) /\ tail \in Seq(Tokens) /\ x \o tail = s
    BY <2>1, Split, Rejoined
  <2>3. AddRequest(r, s) =
          IF Len(h) > HeaderLimit THEN [req |-> over, rest |-> tail]
          ELSE IF q.method = "GET" THEN [req |-> got, rest |-> tail]
          ELSE IF ValidBody(h) THEN AddBody(body, tail)
          ELSE [req |-> q, rest |-> tail]
    BY <1>5 DEF AddRequest
  <2> HIDE DEF x, tail
  <2>4. r.body = <<>> /\ h \in Seq(Tokens) /\ h \o <<>> = h /\ Bytes(r) = r.header
    BY <1>3, <1>5, <2>2
  <2>5. h \o tail = Bytes(r) \o s
    <3>1. PICK a \in Seq(Tokens) : a = r.header
      BY <1>1
    <3>2. (a \o x) \o tail = a \o (x \o tail)
      BY <2>2, Associative
    <3> QED BY <2>2, <2>4, <3>1, <3>2
  <2>6. MethodOf(h) \in {"GET", "POST"}
    BY MethodFact
  <2> HIDE DEF h
  <2>7. over.header = h /\ over.body = <<>>
    BY <1>1, <2>4 DEF Request
  <2>a. ValidHeader(h) \in BOOLEAN
    BY DEF ValidHeader
  <2>8. q \in Request /\ q.header = h /\ q.body = <<>>
    BY <1>1, <2>4, <2>6, <2>a DEF Request
  <2> HIDE DEF q, over
  <2>9. /\ got.header = h /\ got.body = <<>>
        /\ body \in Request /\ body.header = h /\ body.body = <<>>
    BY <2>8 DEF Request
  <2> HIDE DEF got, body
  <2>10. Bytes(over) = h /\ Bytes(got) = h /\ Bytes(q) = h /\ Bytes(body) = h
    BY <2>4, <2>7, <2>8, <2>9 DEF Bytes
  <2>11. Bytes(AddBody(body, tail).req) \o AddBody(body, tail).rest = h \o tail
    <3>1. Len(body.body) <= BodyLen
      BY <2>9, LengthsAssumption
    <3> QED BY <2>2, <2>9, <2>10, <3>1, BodyConserved
  <2>12. \/ AddRequest(r, s) = AddBody(body, tail)
         \/ /\ AddRequest(r, s).req \in {over, got, q}
            /\ AddRequest(r, s).rest = tail
    BY <2>3
  <2> QED BY <2>5, <2>10, <2>11, <2>12
<1> QED BY <1>2, <1>4, <1>5

LEMMA HeldTyped ==
  ASSUME NEW q, Queue(q)
  PROVE  AllHeld(q) \in Seq(Tokens)
<1>1. CASE q = <<>>
  <2>1. Held(q) = <<>>
    BY <1>1 DEF Held
  <2> QED BY <2>1 DEF AllHeld, FlattenSeq
<1>2. CASE q # <<>>
  <2>1. q \in Seq(Request) /\ Len(q) \in 1 .. Len(q) /\ Sized(q[Len(q)])
    BY <1>2 DEF Queue
  <2>2. PICK pre \in Seq(Tokens) : AllHeld(q) = pre \o Bytes(q[Len(q)])
    BY <1>2, <2>1, HeldReplaced
  <2>3. Bytes(q[Len(q)]) \in Seq(Tokens)
    BY <2>1, Joined DEF Bytes, Sized, Request
  <2> QED BY <2>2, <2>3, Joined
<1> QED BY <1>1, <1>2

LEMMA ConservedIs ==
  Conserved <=> (AllHeld(requests) \o str) \o unsent = stream
  BY DEF Conserved, AllHeld, Held, Bytes

LEMMA RecvConserves ==
  ASSUME JInv, NEW n \in 1 .. Len(unsent), Recv(n), Conserved
  PROVE  Conserved'
<1>1. IInv /\ Queue(requests) /\ str = <<>> /\ unsent \in Seq(Tokens)
  BY QueueOfIInv, NumbersFact DEF JInv, Placed, Recv
<1>2. AllHeld(requests') = AllHeld(requests) /\ AllHeld(requests) \in Seq(Tokens)
  <2>1. requests = <<>> => <<NewRequest>> = Append(requests, NewRequest)
    BY DEF NewRequest
  <2>2. \/ requests' = requests
        \/ /\ requests' = Append(requests, NewRequest)
           /\ requests # <<>> => requests[Len(requests)].ready
    BY <2>1 DEF Recv, Back
  <2> QED BY <1>1, <2>2, HeldBegun, HeldTyped
<1>3. /\ str' = SubSeq(unsent, 1, n) /\ unsent' = SubSeq(unsent, n + 1, Len(unsent))
      /\ stream' = stream
  BY DEF Recv
<1>4. str' \in Seq(Tokens) /\ unsent' \in Seq(Tokens) /\ str' \o unsent' = unsent
  <2>1. n \in 0 .. Len(unsent)
    BY <1>1
  <2> QED BY <1>1, <1>3, <2>1, Split, Rejoined
<1> DEFINE all == AllHeld(requests)
<1>5. (all \o str) \o unsent = all \o unsent
  BY <1>1, <1>2, ConcatEmptySeq
<1>6. (all \o str') \o unsent' = all \o (str' \o unsent')
  BY <1>2, <1>4, Associative
<1>7. (AllHeld(requests') \o str') \o unsent' = stream'
  BY <1>2, <1>3, <1>4, <1>5, <1>6, ConservedIs
<1> QED BY <1>7 DEF Conserved, AllHeld, Held, Bytes

LEMMA FeedConserves ==
  ASSUME JInv, Feed, Conserved
  PROVE  Conserved'
<1> DEFINE L   == Len(requests)
           fed == AddRequest(Back, str)
           q   == [requests EXCEPT ![L] = fed.req]
<1>1. /\ Queue(requests) /\ requests # <<>> /\ ~Back.ready /\ Back = requests[L]
      /\ str \in Seq(Tokens) /\ unsent \in Seq(Tokens) /\ Sized(Back)
  <2>1. Queue(requests) /\ requests # <<>> /\ ~Back.ready
    BY QueueOfIInv DEF JInv, Feed
  <2>2. Len(requests) \in 1 .. Len(requests)
    BY <2>1 DEF Queue
  <2> QED BY <2>1, <2>2, NumbersFact DEF JInv, Queue, Back
<1>2. Sized(fed.req) /\ fed.rest \in Seq(Tokens)
  BY <1>1, AddRequestFact
<1>3. Bytes(fed.req) \o fed.rest = Bytes(Back) \o str
  BY <1>1, RequestConserved
<1>4. /\ str' = fed.rest /\ unsent' = unsent /\ stream' = stream
      /\ requests' = IF fed.rest # <<>> /\ fed.req.ready THEN Append(q, NewRequest) ELSE q
  BY DEF Feed
<1> HIDE DEF fed
<1>5. PICK pre \in Seq(Tokens) : /\ AllHeld(requests) = pre \o Bytes(Back)
                                 /\ AllHeld(q) = pre \o Bytes(fed.req)
  BY <1>1, <1>2, HeldReplaced
<1>6. Queue(q) /\ q # <<>> /\ Len(q) = L /\ q[L] = fed.req
  BY <1>1, <1>2, Replaced
<1> HIDE DEF q
<1>7. AllHeld(requests') = AllHeld(q)
  BY <1>4, <1>6, HeldBegun
<1>8. Bytes(Back) \in Seq(Tokens) /\ Bytes(fed.req) \in Seq(Tokens)
  BY <1>1, <1>2, Joined DEF Bytes, Sized, Request
<1>9. (pre \o Bytes(Back)) \o str = (pre \o Bytes(fed.req)) \o fed.rest
  <2>1. (pre \o Bytes(Back)) \o str = pre \o (Bytes(Back) \o str)
    BY <1>1, <1>8, Associative
  <2>2. (pre \o Bytes(fed.req)) \o fed.rest = pre \o (Bytes(fed.req) \o fed.rest)
    BY <1>2, <1>8, Associative
  <2> QED BY <1>3, <2>1, <2>2
<1>10. (AllHeld(requests') \o str') \o unsent' = stream'
  BY <1>4, <1>5, <1>7, <1>9, ConservedIs
<1> QED BY <1>10 DEF Conserved, AllHeld, Held, Bytes

LEMMA InitConserves == Init => Conserved
<1> SUFFICES ASSUME Init PROVE Conserved
  OBVIOUS
<1>1. requests = <<>> /\ str = <<>> /\ unsent = stream /\ stream \in Seq(Tokens)
  BY StreamsAssumption DEF Init
<1>2. AllHeld(requests) = <<>>
  <2>1. Held(requests) = <<>>
    BY <1>1 DEF Held
  <2> QED BY <2>1 DEF AllHeld, FlattenSeq
<1>3. <<>> \o <<>> = <<>> /\ <<>> \o stream = stream
  BY <1>1, ConcatEmptySeq
<1> QED BY <1>1, <1>2, <1>3, ConservedIs

\* No byte that the peer sent is lost, doubled or moved on its way into the requests, for
\* any streams, cuts, limits and body lengths (Client::clientRecvHttp, addRequest,
\* addBody).
THEOREM NothingLost == Spec => []Conserved
<1>1. JInv /\ Conserved /\ [Next]_vars => Conserved'
  <2> SUFFICES ASSUME JInv, Conserved, [Next]_vars PROVE Conserved'
    OBVIOUS
  <2>1. CASE \E n \in 1 .. Len(unsent) : Recv(n)
    BY <2>1, RecvConserves
  <2>2. CASE Feed
    BY <2>2, FeedConserves
  <2>3. CASE Route \/ Respond \/ UNCHANGED vars
    <3>1. requests' = requests /\ str' = str /\ unsent' = unsent /\ stream' = stream
      BY <2>3 DEF Route, Respond, vars
    <3> QED BY <3>1 DEF Conserved
  <2> QED BY <2>1, <2>2, <2>3 DEF Next, Server
<1> QED BY <1>1, InitJ, NextJ, InitConserves, PTL DEF Spec
=============================================================================
