---------------------------- MODULE MCEventLoop ----------------------------
(* Service with the values the TLC runs need.                            *)
EXTENDS Service, TLC

CONSTANTS c1, c2   \* the two connections

\* Descriptor numbers: seven are enough for one CGI child and a file beside it
\* (opening the pipes of a child takes four at a time), three leave room for one
\* connection and one file.
Fds7 == 1 .. 7
Fds3 == 1 .. 3

Get  == <<"full">>
Post == <<"head", "rest">>

Pages == {<<"file", Get>>, <<"page", Get>>, <<"deny", Get>>}
Plain == Pages \cup {<<"cgi", Get>>}

\* c1 may send any of reqs, c2 any of others.
Of(reqs, others) == [x \in Conn |-> IF x = c1 THEN reqs ELSE others]

ReqOneCgi  == Of(Plain, Pages)
ReqOnePost == Of(Plain \cup {<<"cgi", Post>>, <<"file", Post>>, <<"page", <<"bad">>>>}, Pages)
ReqFaults  == Of({<<"cgi", Post>>, <<"file", <<"part", "rest">>>>, <<"deny", Get \o Get>>},
                 {<<"page", Get>>})

----------------------------------------------------------------------------
(* What became of the server on its way: two experiments, of constants alone. *)

NoFd == 0
Array == INSTANCE FdArray WITH Invalid <- NoFd
Echo  == INSTANCE EchoServer WITH Listener <- 1, Connections <- 2 .. 4, Closed <- NoFd

\* Poll sets of up to five places and buffers of up to three, filled from the front.
Sockets == {[n \in DOMAIN q |-> [fd |-> IF q[n] = "hole" THEN NoFd ELSE n, events |-> IF q[n] = "OUT" THEN "OUT" ELSE "IN"]] :
              q \in UNION {[1 .. len -> {"hole", "IN", "OUT"}] : len \in 0 .. 5}}
Buffers == {[n \in 1 .. len |-> [fd |-> IF n <= full THEN 10 + n ELSE NoFd, events |-> "IN"]] :
              len \in 0 .. 3, full \in 0 .. 3}
DraftsCompress == Array!Compressed(Sockets, Buffers)
DraftsPoll     == Echo!PolledAreOpen(3)

\* Nothing is lost when a poll set is compressed (simple_fd_array.cpp:47-81), and the echo
\* server polls what it has open (simple_server.c:142-325).
DraftsExact == pc.at = "poll" => DraftsCompress /\ DraftsPoll
=============================================================================
