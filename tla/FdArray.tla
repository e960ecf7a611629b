------------------------------ MODULE FdArray ------------------------------
(***************************************************************************)
(* The experiment of which resetFds() of the server came                   *)
(* (test_class/test_resetFds): a poll set of a fixed length in which       *)
(* descriptors have become invalid, and a buffer of new ones, are brought  *)
(* together without holes.                                                 *)
(*                                                                         *)
(* An entry is [fd, events]; Invalid stands for the descriptor -1.         *)
(***************************************************************************)
EXTENDS Naturals, SequencesExt, FiniteSetsExt

CONSTANT Invalid

Live(entries) == {n \in DOMAIN entries : entries[n].fd # Invalid}

\* resetFdsInit(): what is counted, and what is an exception.  Only as many places of
\* the buffer are looked at as it has valid descriptors.
BufferCounter(buffer) == Cardinality(Live(buffer))
PollTracker(sockets)  == Max(Live(sockets) \cup {0})
FdCounter(sockets, buffer) == Cardinality(Live(sockets)) + BufferCounter(buffer)
Refused(sockets, buffer) ==
    LET front == {n \in Live(buffer) : n <= BufferCounter(buffer)}
    IN  \/ FdCounter(sockets, buffer) > Len(sockets)
        \/ \E n \in front : \E k \in 1 .. n : k \notin Live(buffer)

\* swap() of a place of the poll set and the next of the buffer
TakeAt(k, n) ==
    [k EXCEPT !.sockets[n] = k.buffer[k.taken + 1], !.buffer[k.taken + 1] = k.sockets[n], !.taken = @ + 1]

\* A hole is filled from the buffer, and when that is empty with the last that is valid.
FillHole(k, n) ==
    LET behind == {m \in Live(k.sockets) : m > n /\ m <= k.poll_tracker}
    IN  IF n \in Live(k.sockets) THEN k
        ELSE IF k.taken < k.buffer_counter THEN TakeAt(k, n)
        ELSE IF behind = {} THEN k
        ELSE [k EXCEPT !.sockets = [@ EXCEPT ![n] = k.sockets[Max(behind)], ![Max(behind)] = k.sockets[n]]]

\* Mutant: the rest of the buffer is put where the last hole was filled.
AppendRestBlind(k, m) == IF k.taken < k.buffer_counter THEN TakeAt(k, k.poll_tracker + 1) ELSE k

\* What the buffer still has goes to the next place that is not valid.
AppendRest(k, m) ==
    IF k.taken < k.buffer_counter
    THEN TakeAt(k, Min({n \in DOMAIN k.sockets : n > k.poll_tracker /\ n \notin Live(k.sockets)})) ELSE k

\* resetFds()
ResetFds(sockets, buffer) ==
    LET k0 == [sockets |-> sockets, buffer |-> buffer, taken |-> 0,
               poll_tracker |-> PollTracker(sockets), buffer_counter |-> BufferCounter(buffer)]
        k1 == FoldLeft(FillHole, k0, [n \in 1 .. k0.poll_tracker |-> n])
        k2 == FoldLeft(AppendRest, k1, [m \in DOMAIN buffer |-> m])
    IN  [k2 EXCEPT !.buffer_counter = 0, !.poll_tracker = FdCounter(sockets, buffer)]

\* checkResetFds(), with which the experiment judges itself
CheckResetFds(k, fd_counter) ==
    LET holes == {n \in DOMAIN k.sockets : n \notin Live(k.sockets)}
        check == Min(holes \cup {Len(k.sockets) + 1}) - 1
    IN  /\ \A n \in check + 1 .. Len(k.sockets) : n \in Live(k.sockets) => k.sockets[n].events = "IN"
        /\ check = k.poll_tracker /\ check = fd_counter /\ k.buffer_counter = 0
        /\ \A n \in DOMAIN k.buffer : n \notin Live(k.buffer) /\ k.buffer[n].events = "IN"

----------------------------------------------------------------------------
(* Property                                                                *)

\* Every valid descriptor of the poll set and the buffer is there once afterwards, with
\* the events that were asked for it, before all that is not valid, and the experiment
\* finds it so (resetfd.cpp:14-43, simple_fd_array.cpp:47-81).
Entries(array) == {array[n] : n \in Live(array)}
Compressed(Sockets, Buffers) ==
    \A sockets \in Sockets, buffer \in Buffers : ~Refused(sockets, buffer) =>
      LET k == ResetFds(sockets, buffer) IN
      /\ Entries(k.sockets) = Entries(sockets) \cup Entries(buffer)
      /\ Live(k.sockets) = 1 .. FdCounter(sockets, buffer)
      /\ CheckResetFds(k, FdCounter(sockets, buffer))
=============================================================================
