--------------------------- MODULE RequestFraming ---------------------------
(***************************************************************************)
(* How the bytes of one connection become requests: Client::clientRecvHttp *)
(* feeds what each recv() returned to the HttpRequest at the back of its   *)
(* queue until nothing is left, and then decides about the one in front.   *)
(*                                                                         *)
(* Bytes are tokens.  A head is a start line with its fields ("get", with  *)
(* a well-formed GET; "post", POST with a type and a length; "open", POST  *)
(* without them; "junk", a malformed start line; "late", a POST with a     *)
(* malformed field), maybe continued by more fields ("fld"), and ended by  *)
(* an empty line, whose two halves CRLF CRLF are "end1" and "end2".        *)
(* Everything else is "b".                                                 *)
(***************************************************************************)
EXTENDS Integers, SequencesExt

CONSTANTS Streams,      \* what peers may send, from the first byte to the last
          Deliveries,   \* for each way a stream may arrive, where recv() may cut it, see Place
          HeaderLimit,  \* client_header_buffer_size, in tokens
          BodyLen       \* the Content-Length of every "post"

Heads  == {"get", "post", "open", "junk", "late"}
Tokens == Heads \cup {"fld", "end1", "end2", "b"}

ASSUME StreamsAssumption == Streams \subseteq Seq(Tokens)
ASSUME DeliveriesAssumption == Deliveries \subseteq SUBSET {"head", "blank", "body"}
ASSUME LengthsAssumption == HeaderLimit \in Nat /\ BodyLen \in Nat

VARIABLES stream,    \* what the peer sends in all
          cuts,      \* where this one is cut
          unsent,    \* what recv() has not returned yet
          str,       \* what clientRecvHttp() has not fed to a request yet
          requests,  \* the queue
          verdict,   \* how the front was routed last: "none" so far, "route",
                     \* "400" or "431"
          at         \* where the connection is

vars == <<stream, cuts, unsent, str, requests, verdict, at>>

\* Where a cut after token t falls.
Place(t) == CASE t \in Heads \cup {"fld"} -> "head"
              [] t = "end1" -> "blank"
              [] OTHER -> "body"

NewRequest == [header |-> <<>>, body |-> <<>>, method |-> "GET", error |-> "malformed",
               has_body |-> FALSE, header_ready |-> FALSE, ready |-> FALSE]

Request == [header : Seq(Tokens), body : Seq(Tokens), method : {"GET", "POST"},
            error : {"malformed", "limit", "none"},
            has_body : BOOLEAN, header_ready : BOOLEAN, ready : BOOLEAN]

----------------------------------------------------------------------------
(* HttpRequest                                                             *)

\* The ends of the empty lines in s.
Ends(s) == {n \in 2 .. Len(s) : s[n - 1] = "end1" /\ s[n] = "end2"}
FirstEnd(s) == CHOOSE n \in Ends(s) : \A m \in Ends(s) : n <= m

\* validateHeader(): a start line, fields, an empty line.  What follows the
\* empty line is not looked at.
ValidHeader(h) ==
    /\ Ends(h) # {}
    /\ h[1] \in {"get", "post", "open"}
    /\ \A n \in 2 .. FirstEnd(h) - 2 : h[n] = "fld"

\* validateStartLine(): the method is known as soon as the start line is.
MethodOf(h) == IF h[1] \in {"post", "open", "late"} THEN "POST" ELSE "GET"

\* validateBody(): Content-Type and Content-Length were given.
ValidBody(h) == h[1] = "post" /\ ValidHeader(h)

\* Mutant: one byte too many is taken for the body.
AddBodyGreedy(r, s) ==
    LET expected == BodyLen - Len(r.body) + 1 IN
    IF Len(s) > expected
    THEN [req  |-> [r EXCEPT !.body = r.body \o SubSeq(s, 1, expected), !.ready = TRUE],
          rest |-> SubSeq(s, expected + 1, Len(s))]
    ELSE [req  |-> [r EXCEPT !.body = r.body \o s, !.ready = Len(r.body \o s) >= BodyLen],
          rest |-> <<>>]

\* Mutant: a body that ends with the bytes at hand is not complete.
AddBodyOpen(r, s) ==
    LET expected == BodyLen - Len(r.body) IN
    IF Len(s) > expected
    THEN [req  |-> [r EXCEPT !.body = r.body \o SubSeq(s, 1, expected), !.ready = TRUE],
          rest |-> SubSeq(s, expected + 1, Len(s))]
    ELSE [req  |-> [r EXCEPT !.body = r.body \o s], rest |-> <<>>]

\* addBody(): what it takes of s, and what it returns to the caller
AddBody(r, s) ==
    LET expected == BodyLen - Len(r.body) IN
    IF Len(s) > expected
    THEN [req  |-> [r EXCEPT !.body = r.body \o SubSeq(s, 1, expected), !.ready = TRUE],
          rest |-> SubSeq(s, expected + 1, Len(s))]
    ELSE [req  |-> [r EXCEPT !.body = r.body \o s, !.ready = Len(r.body \o s) = BodyLen],
          rest |-> <<>>]

\* addRequest(): the end of the head is looked for in s alone.
AddRequest(r, s) ==
    IF r.has_body THEN AddBody(r, s)
    ELSE IF Ends(s) = {}
    THEN LET h == r.header \o s
         IN  [req  |-> [r EXCEPT !.header = h,
                                 !.error  = IF Len(h) > HeaderLimit THEN "limit" ELSE r.error],
              rest |-> <<>>]
    ELSE LET h    == r.header \o SubSeq(s, 1, FirstEnd(s))
             tail == SubSeq(s, FirstEnd(s) + 1, Len(s))
             q    == [r EXCEPT !.header = h, !.header_ready = TRUE, !.method = MethodOf(h),
                               !.error = IF ValidHeader(h) THEN "none" ELSE r.error]
         IN  IF Len(h) > HeaderLimit
             THEN [req |-> [r EXCEPT !.header = h, !.error = "limit"], rest |-> tail]
             ELSE IF q.method = "GET" THEN [req |-> [q EXCEPT !.ready = TRUE], rest |-> tail]
             ELSE IF ValidBody(h) THEN AddBody([q EXCEPT !.has_body = TRUE], tail)
             ELSE [req |-> q, rest |-> tail]

----------------------------------------------------------------------------
(* Client::clientRecvHttp                                                  *)

Back == requests[Len(requests)]

Init ==
    /\ stream \in Streams
    /\ cuts \in Deliveries
    /\ unsent = stream
    /\ str = <<>>
    /\ requests = <<>>
    /\ verdict = "none"
    /\ at = "recv"

\* Mutant: a new request is only begun when there is none at all.
RecvIntoLast(n) ==
    /\ at = "recv"
    /\ n = Len(unsent) \/ Place(unsent[n]) \in cuts
    /\ str' = SubSeq(unsent, 1, n)
    /\ unsent' = SubSeq(unsent, n + 1, Len(unsent))
    /\ requests' = IF requests = <<>> THEN <<NewRequest>> ELSE requests
    /\ at' = "feed"
    /\ UNCHANGED <<stream, cuts, verdict>>

\* recv() returns the next n tokens.
Recv(n) ==
    /\ at = "recv"
    /\ n = Len(unsent) \/ Place(unsent[n]) \in cuts
    /\ str' = SubSeq(unsent, 1, n)
    /\ unsent' = SubSeq(unsent, n + 1, Len(unsent))
    /\ requests' = IF requests = <<>> THEN <<NewRequest>>
                   ELSE IF Back.ready THEN Append(requests, NewRequest)
                   ELSE requests
    /\ at' = "feed"
    /\ UNCHANGED <<stream, cuts, verdict>>

\* Mutant: what a request leaves over is dropped.
FeedOnce ==
    /\ at = "feed"
    /\ requests' = [requests EXCEPT ![Len(requests)] = AddRequest(Back, str).req]
    /\ str' = <<>>
    /\ at' = "route"
    /\ UNCHANGED <<stream, cuts, unsent, verdict>>

\* One turn of the loop around addRequest().
Feed ==
    /\ at = "feed"
    /\ LET fed == AddRequest(Back, str)
           q   == [requests EXCEPT ![Len(requests)] = fed.req]
       IN  /\ str' = fed.rest
           /\ requests' = IF fed.rest # <<>> /\ fed.req.ready THEN Append(q, NewRequest) ELSE q
           /\ at' = IF fed.rest = <<>> THEN "route" ELSE "feed"
    /\ UNCHANGED <<stream, cuts, unsent, verdict>>

\* Mutant: the newest request decides.
RouteBack ==
    /\ at = "route"
    /\ at' = "recv"
    /\ verdict' = CASE Back.error = "malformed" -> "400"
                    [] Back.error = "limit" -> "431"
                    [] Back.error = "none" /\ Back.ready -> "route"
                    [] OTHER -> verdict
    /\ UNCHANGED <<stream, cuts, unsent, str, requests>>

\* The front request is refused, routed, or waited for.
Route ==
    LET front == requests[1] IN
    /\ at = "route"
    /\ at' = "recv"
    /\ verdict' = CASE front.error = "malformed" -> "400"
                    [] front.error = "limit" -> "431"
                    [] front.error = "none" /\ front.ready -> "route"
                    [] OTHER -> verdict
    /\ UNCHANGED <<stream, cuts, unsent, str, requests>>

\* A later round of the event loop sends the response and closes.
Respond ==
    /\ at = "recv" /\ verdict # "none"
    /\ at' = "closed"
    /\ UNCHANGED <<stream, cuts, unsent, str, requests, verdict>>

Server == Feed \/ Route \/ Respond
Next == (\E n \in 1 .. Len(unsent) : Recv(n)) \/ Server

Spec == Init /\ [][Next]_vars

\* The loop goes on, and the peer sends all it has to send.
FairSpec == Spec /\ WF_vars(Next)

----------------------------------------------------------------------------
(* Properties                                                              *)

TypeOK ==
    /\ stream \in Streams /\ cuts \in Deliveries
    /\ unsent \in Seq(Tokens) /\ str \in Seq(Tokens)
    /\ requests \in Seq(Request)
    /\ verdict \in {"none", "route", "400", "431"}
    /\ at \in {"recv", "feed", "route", "closed"}

\* Only the last request in the queue can be incomplete, it is never fed when
\* it is complete, and a complete request has the body it declared.
Framed ==
    /\ \A i \in 1 .. Len(requests) - 1 : requests[i].ready
    /\ at = "feed" => requests # <<>> /\ ~Back.ready
    /\ \A i \in DOMAIN requests :
         requests[i].has_body => IF requests[i].ready THEN Len(requests[i].body) = BodyLen
                                 ELSE Len(requests[i].body) < BodyLen

\* A complete request is never changed by the bytes that come after it.
CompleteFrozen ==
    [][\A i \in DOMAIN requests :
         requests[i].ready => i \in DOMAIN requests' /\ requests'[i] = requests[i]]_vars

\* No byte is lost, doubled or moved: the requests in the queue, what is being
\* fed and what is still to come are the stream.
Conserved ==
    FlattenSeq([i \in DOMAIN requests |-> requests[i].header \o requests[i].body])
      \o str \o unsent = stream

\* What the first request of a whole stream deserves.  A POST that declares no
\* length never ends: whatever follows goes to its head.
Deserved(s) ==
    LET n == FirstEnd(s)
        h == SubSeq(s, 1, n)
    IN CASE n > HeaderLimit -> {"431"}
         [] n <= HeaderLimit /\ MethodOf(h) = "POST" /\ ~ValidBody(h) -> {"400", "431"}
         [] n <= HeaderLimit /\ ~ValidHeader(h) /\ MethodOf(h) = "GET" -> {"400"}
         [] OTHER -> {"route"}

\* Where every stream begins with a head, nothing but a head before its first empty
\* line, "in one piece" says what it means: a cut in "body" is behind that line.
HeadsFirst ==
    \A s \in Streams : Ends(s) # {} /\ \A i \in 1 .. FirstEnd(s) - 2 : Place(s[i]) = "head"

\* As long as its head comes in one piece, and whenever the response leaves, the
\* first request is answered as it would be had the stream come at once.
AnsweredAsSent == (at = "closed" /\ cuts \subseteq {"body"}) => verdict \in Deserved(stream)

\* As long as no empty line is cut, a request that is routed is the first one the
\* peer sent: its own head, and the bytes that follow its own empty line as its
\* body.
RoutedAsSent ==
    (verdict = "route" /\ "blank" \notin cuts) =>
      LET n == FirstEnd(stream) IN
      /\ Deserved(stream) = {"route"}
      /\ requests[1].header = SubSeq(stream, 1, n)
      /\ requests[1].has_body => requests[1].body = SubSeq(stream, n + 1, n + BodyLen)

\* A peer that sends a whole request, or a malformed one, its head in one piece,
\* is answered.
Decided == <>(at = "closed" \/ stream[1] = "open" \/ ~(cuts \subseteq {"body"}))

\* What is answered and what is routed is what was sent, however it was cut.
AsSent == AnsweredAsSent /\ RoutedAsSent
=============================================================================
