----------------------------- MODULE EchoServer -----------------------------
(***************************************************************************)
(* The draft of the server (draftting/simple_server.c): one listening      *)
(* socket, an array of descriptors to poll, and what comes in is sent      *)
(* back.  A state s is                                                     *)
(*   fds         the first nfds entries of the array, Closed for -1        *)
(*   open        the descriptors the process has open                      *)
(*   end_server, compress_array, broken   the flags, and that the loop     *)
(*               over the entries was left                                 *)
(*   ended       that the process is at its end                            *)
(* What the world w does in a round of the loop: [poll, revents, new,      *)
(* accept, recv].                                                          *)
(***************************************************************************)
EXTENDS Naturals, SequencesExt, FiniteSetsExt

CONSTANTS Listener,      \* the descriptor of the listening socket
          Connections,   \* descriptors that accept() may give
          Closed

SetupCalls == {"socket", "setsockopt", "ioctl", "bind", "listen"}

\* Up to the loop: a call that fails ends the process, and closes the socket before.
Setup(fails) ==
    [fds |-> <<Listener>>, open |-> IF fails \in SetupCalls THEN {} ELSE {Listener}, end_server |-> FALSE,
     compress_array |-> FALSE, broken |-> FALSE, ended |-> fails \in SetupCalls]

\* accept() until it would block; any other failure is the end of the server.
AcceptAll(s, w) ==
    [s EXCEPT !.fds = @ \o w.new, !.open = @ \cup ToSet(w.new), !.end_server = @ \/ w.accept = "fails"]

\* recv() and send() until recv() would block.  The peer has closed, or a call fails:
\* the connection is closed.
ReceiveAll(s, n, w) ==
    IF w.recv[s.fds[n]] = "blocks" THEN s
    ELSE [s EXCEPT !.open = @ \ {s.fds[n]}, !.fds[n] = Closed, !.compress_array = TRUE]

\* One entry of those that were polled: anything but POLLIN is the end of the server.
Entry(s, n, w) ==
    CASE s.broken \/ w.revents[s.fds[n]] = "nothing" -> s
      [] ~s.broken /\ w.revents[s.fds[n]] = "other" -> [s EXCEPT !.end_server = TRUE, !.broken = TRUE]
      [] ~s.broken /\ w.revents[s.fds[n]] = "IN" /\ s.fds[n] = Listener -> AcceptAll(s, w)
      [] OTHER -> ReceiveAll(s, n, w)

\* Mutant: after a closed entry the one that took its place is not looked at.
CompressOnce(s) ==
    LET one(k, fd) == IF fd = Closed /\ ~k.skips THEN [k EXCEPT !.skips = TRUE]
                      ELSE [out |-> Append(k.out, fd), skips |-> FALSE]
    IN  IF s.compress_array
        THEN [s EXCEPT !.compress_array = FALSE, !.fds = FoldLeft(one, [out |-> <<>>, skips |-> FALSE], @).out]
        ELSE s

\* The entries behind a closed one move up.
Compress(s) ==
    IF s.compress_array
    THEN [s EXCEPT !.compress_array = FALSE, !.fds = SelectSeq(@, LAMBDA fd : fd # Closed)] ELSE s

\* Behind the loop: all that is in the array is closed.
CleanUp(s) == [s EXCEPT !.open = @ \ ToSet(s.fds), !.ended = TRUE]

\* The loop, once.
Round(s, w) ==
    IF w.poll \in {"fails", "times out"} THEN CleanUp(s)
    ELSE LET s2 == Compress(FoldLeft(LAMBDA k, n : Entry(k, n, w), s, [n \in DOMAIN s.fds |-> n]))
         IN  IF s2.end_server THEN CleanUp(s2) ELSE [s2 EXCEPT !.broken = FALSE]

\* What may happen in a round: up to MaxNew peers connect.
MaxNew == 2
Worlds(s) ==
    LET fresh == Connections \ s.open
        polled == ToSet(s.fds)
        news == UNION {{q \in [1 .. n -> fresh] : IsInjective(q)} : n \in 0 .. MaxNew}
    IN  [poll : {"reports"}, revents : [polled -> {"nothing", "IN", "other"}], new : news,
         accept : {"blocks", "fails"}, recv : [polled -> {"blocks", "closed"}]]
        \cup [poll : {"fails", "times out"}, revents : {<<>>}, new : {<<>>}, accept : {"blocks"}, recv : {<<>>}]

After[n \in Nat] ==
    IF n = 0 THEN {Setup(fails) : fails \in SetupCalls \cup {"none"}}
    ELSE UNION {{Round(s, w) : w \in Worlds(s)} : s \in {s \in After[n - 1] : ~s.ended}}

----------------------------------------------------------------------------
(* Property                                                                *)

\* The descriptors that are polled are those that are open, each once and the listening
\* one first, whoever came and went in the same round; and none is open at the end,
\* whatever ended it (simple_server.c:142-325).
PolledAreOpen(Rounds) ==
    \A n \in 0 .. Rounds : \A s \in After[n] :
      IF s.ended THEN s.open = {}
      ELSE ToSet(s.fds) = s.open /\ IsInjective(s.fds) /\ s.fds[1] = Listener
=============================================================================
