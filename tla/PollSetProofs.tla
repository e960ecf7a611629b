--------------------------- MODULE PollSetProofs ---------------------------
(***************************************************************************)
(* Proof that the poll set and client_mapping are exact between rounds     *)
(* (TablesExact), that the loop never follows client_mapping to a Client   *)
(* that was destroyed (NeverUndefined), and that a response is sent once   *)
(* and whole (ResponsesIntact), for all values of the constants, as long   *)
(* as traffic is Orderly.                                                  *)
(*   1. the order in which resetFds() keeps entries;                       *)
(*   2. the hypothesis Orderly, the invariant Steady, and what it says of  *)
(*      an entry of the poll set and its owner;                            *)
(*   3. Outcome and Talk: what one call of handleClient() may do to the    *)
(*      tables and to the exchange with a peer, and what becomes of them   *)
(*      in the other steps of the loop, of peers and of children;          *)
(*   4. every branch of handleClient() stays within Outcome and Talk: a    *)
(*      content is read or written, a response sent, a request routed and  *)
(*      received;                                                          *)
(*   5. Steady is inductive, and the theorems.                             *)
(***************************************************************************)
EXTENDS EventLoopProofs

----------------------------------------------------------------------------
(* The places of a set in their order                                      *)

\* How many places of S come before i.
Before(S, i) == Cardinality({j \in S : j < i})

LEMMA NthBefore ==
  ASSUME NEW L \in Nat, NEW S, S \subseteq 1 .. L, NEW n \in 1 .. Cardinality(S)
  PROVE  Nth(S, n) \in S /\ Before(S, Nth(S, n)) = n - 1
BY NthIsIn DEF Before

\* A place has fewer places before it than a later one.
LEMMA FewerBefore ==
  ASSUME NEW L \in Nat, NEW S, S \subseteq 1 .. L, NEW i \in S, NEW k \in S, i < k
  PROVE  /\ Before(S, i) \in Nat /\ Before(S, k) \in Nat /\ Cardinality(S) \in Nat
         /\ Before(S, i) < Before(S, k) /\ Before(S, k) < Cardinality(S)
<1> DEFINE Below(n) == {j \in S : j < n}
<1>1. IsFiniteSet(S) /\ Cardinality(S) \in Nat
  <2>1. IsFiniteSet(1 .. L)
    BY FS_Interval
  <2> QED BY <2>1, FS_Subset, FS_CardinalityType
<1>2. \A n : Below(n) \subseteq S /\ IsFiniteSet(Below(n)) /\ Cardinality(Below(n)) \in Nat
  <2> SUFFICES ASSUME NEW n
               PROVE  Below(n) \subseteq S /\ IsFiniteSet(Below(n))
                      /\ Cardinality(Below(n)) \in Nat
    OBVIOUS
  <2>1. Below(n) \in SUBSET S
    OBVIOUS
  <2> HIDE DEF Below
  <2> QED BY <1>1, <2>1, FS_Subset, FS_CardinalityType
<1>3. (\A j \in S : j < i => j < k) /\ ~(i < i) /\ ~(k < k)
  OBVIOUS
<1>4. /\ Below(i) \subseteq Below(k) /\ i \in Below(k) /\ i \notin Below(i)
      /\ k \in S /\ k \notin Below(k)
  BY <1>3, Zenon
<1> HIDE DEF Below
<1>5. Below(i) # Below(k) /\ Below(k) # S
  BY <1>4
<1>6. /\ Cardinality(Below(i)) < Cardinality(Below(k))
      /\ Cardinality(Below(k)) < Cardinality(S)
  <2>1. Cardinality(Below(i)) <= Cardinality(Below(k))
        /\ (Cardinality(Below(i)) = Cardinality(Below(k)) => Below(i) = Below(k))
    BY <1>2, <1>4, FS_Subset
  <2>2. Cardinality(Below(k)) <= Cardinality(S)
        /\ (Cardinality(Below(k)) = Cardinality(S) => Below(k) = S)
    BY <1>1, <1>2, FS_Subset
  <2> QED BY <1>1, <1>2, <1>5, <2>1, <2>2
<1> QED BY <1>1, <1>2, <1>6 DEF Below, Before

\* Places that have as many before them are the same.
LEMMA SamePlace ==
  ASSUME NEW L \in Nat, NEW S, S \subseteq 1 .. L, NEW i \in S, NEW k \in S,
         Before(S, i) = Before(S, k)
  PROVE  i = k
<1>1. i \in Nat /\ k \in Nat
  OBVIOUS
<1>2. CASE i < k
  <2>1. Before(S, i) < Before(S, k) /\ Before(S, i) \in Nat
    BY <1>2, FewerBefore
  <2> QED BY <2>1
<1>3. CASE k < i
  <2>1. Before(S, k) < Before(S, i) /\ Before(S, i) \in Nat
    BY <1>3, FewerBefore
  <2> QED BY <2>1
<1> QED BY <1>1, <1>2, <1>3

\* Nth lists the places of S, each once, in their order.
LEMMA NthOrder ==
  ASSUME NEW L \in Nat, NEW S, S \subseteq 1 .. L,
         NEW m \in 1 .. Cardinality(S), NEW n \in 1 .. Cardinality(S)
  PROVE  /\ m < n => Nth(S, m) < Nth(S, n)
         /\ Nth(S, m) = Nth(S, n) => m = n
<1>1. /\ Nth(S, m) \in S /\ Before(S, Nth(S, m)) = m - 1
      /\ Nth(S, n) \in S /\ Before(S, Nth(S, n)) = n - 1
  BY NthBefore
<1>2. m \in Int /\ n \in Int /\ \A i \in S : i \in Nat
  OBVIOUS
<1>3. ASSUME m < n
      PROVE  Nth(S, m) < Nth(S, n)
  <2>1. CASE Nth(S, n) < Nth(S, m)
    <3>1. Before(S, Nth(S, n)) < Before(S, Nth(S, m))
      BY <1>1, <2>1, FewerBefore
    <3> QED BY <1>1, <1>2, <1>3, <3>1
  <2>2. CASE Nth(S, n) = Nth(S, m)
    BY <1>1, <1>2, <1>3, <2>2
  <2>3. Nth(S, m) \in Nat /\ Nth(S, n) \in Nat
    BY <1>1, <1>2
  <2> QED BY <2>1, <2>2, <2>3
<1>4. Nth(S, m) = Nth(S, n) => m = n
  BY <1>1, <1>2
<1> QED BY <1>3, <1>4

LEMMA NthOnto ==
  ASSUME NEW L \in Nat, NEW S, S \subseteq 1 .. L, NEW i \in S
  PROVE  \E n \in 1 .. Cardinality(S) : Nth(S, n) = i
<1> DEFINE Below(k) == {j \in S : j < k}
           n == Cardinality(Below(i)) + 1
<1>1. IsFiniteSet(S) /\ Cardinality(S) \in Nat
  <2>1. IsFiniteSet(1 .. L)
    BY FS_Interval
  <2> QED BY <2>1, FS_Subset, FS_CardinalityType
<1>2. Below(i) \in SUBSET S /\ i \notin Below(i)
  <2>1. ~(i < i)
    OBVIOUS
  <2> QED BY <2>1, Zenon
<1>3. n \in 1 .. Cardinality(S)
  <2> HIDE DEF Below
  <2>1. Below(i) # S /\ Cardinality(Below(i)) \in Nat
    BY <1>1, <1>2, FS_Subset, FS_CardinalityType
  <2>2. Cardinality(Below(i)) <= Cardinality(S)
        /\ (Cardinality(Below(i)) = Cardinality(S) => Below(i) = S)
    BY <1>1, <1>2, FS_Subset
  <2> QED BY <1>1, <2>1, <2>2
<1>4. Nth(S, n) \in S /\ Before(S, Nth(S, n)) = n - 1
  <2> HIDE DEF n
  <2> QED BY <1>3, NthBefore
<1>5. Before(S, Nth(S, n)) = Before(S, i)
  <2>1. Cardinality(Below(i)) \in Nat
    BY <1>1, <1>2, FS_Subset, FS_CardinalityType
  <2>2. Before(S, i) = Cardinality(Below(i))
    BY DEF Before
  <2> HIDE DEF Below
  <2> QED BY <1>4, <2>1, <2>2
<1>6. Nth(S, n) = i
  <2> HIDE DEF n
  <2> QED BY <1>4, <1>5, SamePlace
<1> QED BY <1>3, <1>6

\* The first places of S, when S starts with them.
LEMMA NthFirst ==
  ASSUME NEW L \in Nat, NEW S, S \subseteq 1 .. L, NEW l \in Nat, 1 .. l \subseteq S
  PROVE  /\ l <= Cardinality(S) /\ Cardinality(S) \in Nat
         /\ \A n \in 1 .. l : n \in 1 .. Cardinality(S) /\ Nth(S, n) = n
<1>1. IsFiniteSet(S) /\ Cardinality(S) \in Nat
  <2>1. IsFiniteSet(1 .. L)
    BY FS_Interval
  <2> QED BY <2>1, FS_Subset, FS_CardinalityType
<1>2. l <= Cardinality(S)
  <2>1. Cardinality(1 .. l) = l
    BY FS_Interval
  <2> QED BY <1>1, <2>1, FS_Subset
<1>3. ASSUME NEW n \in 1 .. l
      PROVE  n \in 1 .. Cardinality(S) /\ Nth(S, n) = n
  <2>1. n \in 1 .. Cardinality(S) /\ n \in S
    BY <1>1, <1>2
  <2>2. {j \in S : j < n} = 1 .. n - 1
    <3>1. \A j : j \in {k \in S : k < n} <=> j \in 1 .. n - 1
      <4>1. n \in Nat /\ n <= l
        OBVIOUS
      <4>2. \A j : j \in S /\ j < n => j \in 1 .. n - 1
        BY <4>1
      <4>3. \A j \in 1 .. n - 1 : j \in 1 .. l /\ j < n
        BY <4>1
      <4>4. \A j : j \in S /\ j < n <=> j \in 1 .. n - 1
        BY <4>2, <4>3
      <4> QED BY <4>4, Zenon
    <3> QED BY <3>1, SameElements
  <2>3. Before(S, n) = n - 1
    <3>1. Cardinality(1 .. n - 1) = n - 1
      BY FS_Interval
    <3> QED BY <2>2, <3>1 DEF Before
  <2>4. Nth(S, n) \in S /\ Before(S, Nth(S, n)) = n - 1
    BY <2>1, NthBefore
  <2> QED BY <2>1, <2>3, <2>4, SamePlace
<1> QED BY <1>1, <1>2, <1>3

----------------------------------------------------------------------------
(* The hypothesis                                                          *)

\* No child exits before it has read its input, and no peer leaves before it is answered.
Calm == Faults \cap {"hangup", "ignores"} = {}

\* Each connection sends one request, of one segment or, in Calm traffic, a head and
\* one more; at most one connection asks for a script; no child crashes, no file
\* shrinks, no deadline passes.  (Outside of it a content is replaced while the poll set
\* still has an entry for it, and the tables do not stay exact.)
Orderly ==
    /\ Faults \subseteq {"hangup", "fork", "ignores", "stop"}
    /\ \A x \in Conn : \A r \in Requests[x] :
          \/ Len(r[2]) <= 1
          \/ Len(r[2]) = 2 /\ r[2][1] = "head" /\ Calm
    /\ \A x \in Conn, y \in Conn :
          (\E r \in Requests[x] : r[1] = "cgi") /\ (\E r \in Requests[y] : r[1] = "cgi")
          => x = y

----------------------------------------------------------------------------
(* The invariant                                                           *)

Running == pc.at \in {"poll", "client", "server", "reset"}

\* The entries of clients, the entries to come, and the descriptors to be deleted.
Later == NListen + 1 .. Len(socket_fds)
Added == Range(buffer_new_fd)
Marks == Range(fds_to_be_deleted)

FdAt(i) == socket_fds[i].fd
Kind(f)  == fdtab[f][1]
Owner(f) == fdtab[f][2]

Watched(f) == (\E i \in Later : FdAt(i) = f) \/ (\E e \in Added : e.fd = f)

\* handleClient() has been at entry i in this round.
Passed(i) == \/ pc.at \in {"server", "reset"}
             \/ pc.at = "client" /\ i < pc.i

Twice(s, f) == \E k \in 1 .. Len(s), l \in 1 .. Len(s) : k # l /\ s[k] = f /\ s[l] = f

\* A list without repetitions.
Distinct(s) == \A i \in 1 .. Len(s), j \in 1 .. Len(s) : s[i] = s[j] => i = j

\* An entry watches the direction that a descriptor opened for a client has.
Wired(obj, events) ==
    /\ obj \in Roles \X Conn
    /\ obj[1] \in {"file", "cgiOut"} => events = "IN"
    /\ obj[1] = "cgiIn" => events = "OUT"

\* The poll set: the listening sockets, then entries of clients.
Polled ==
    /\ Len(socket_fds) >= NListen
    /\ \A i \in Listening : socket_fds[i] = [fd |-> i, events |-> "IN"]
    /\ \A i \in Later : Wired(fdtab[FdAt(i)], socket_fds[i].events)
    /\ \A i \in Later, j \in Later : socket_fds[i] = socket_fds[j] => i = j

\* What is added at the end of the round is not watched yet.
Pending ==
    /\ \A e \in Added : Wired(fdtab[e.fd], e.events)
    /\ \A e \in Added, i \in Later : FdAt(i) # e.fd
    /\ Distinct(buffer_new_fd)

\* A descriptor that is, or will be, watched leads to its owner, no other does.
Mapped ==
    \A f \in Fd : client_mapping[f] = IF Watched(f) THEN Owner(f) ELSE Nobody

\* The socket of every client is watched in both directions, or will be.
BothWays ==
    \A x \in Present, dir \in {"IN", "OUT"} :
       \/ \E i \in Later : socket_fds[i] = [fd |-> client[x].sock, events |-> dir]
       \/ [fd |-> client[x].sock, events |-> dir] \in Added

\* The socket of a client comes before its content.
SocketsFirst ==
    \A i \in Later, j \in Later :
       Owner(FdAt(i)) = Owner(FdAt(j)) /\ Kind(FdAt(i)) = "socket" /\ Kind(FdAt(j)) # "socket"
       => i < j

\* A connection that was just accepted has asked for nothing yet.
Accepted ==
    \A e \in Added : Kind(e.fd) = "socket" =>
       /\ pc.at \in {"server", "reset"}
       /\ client[Owner(e.fd)].content = "none" /\ ~client[Owner(e.fd)].doomed

\* A content that was just opened has produced nothing; its client is to stay.
Opened ==
    \A e \in Added : Kind(e.fd) # "socket" =>
       /\ ~client[Owner(e.fd)].ready /\ ~client[Owner(e.fd)].doomed
       /\ \A i \in Later : Owner(FdAt(i)) = Owner(e.fd) =>
             Kind(FdAt(i)) = "socket" /\ (socket_fds[i].events = "IN" => Passed(i))

\* The entries of a client go when the client goes, its socket not before.
Erasures ==
    /\ \A i \in Later : client[Owner(FdAt(i))].doomed =>
          FdAt(i) \in Marks /\ (Kind(FdAt(i)) = "socket" => Twice(fds_to_be_deleted, FdAt(i)))
    /\ \A i \in Later : Kind(FdAt(i)) = "socket" /\ FdAt(i) \in Marks =>
          client[Owner(FdAt(i))].doomed
    /\ pc.at = "poll" => buffer_new_fd = <<>> /\ fds_to_be_deleted = <<>>

\* A content that made its response ready is watched no more after this round.
ReadyMarked ==
    \A i \in Later : Kind(FdAt(i)) \in {"file", "cgiOut"} /\ client[Owner(FdAt(i))].ready =>
       Passed(i) /\ FdAt(i) \in Marks

\* Where a peer may leave early no script has a body to read: its input pipe is watched
\* for one round, and its response not ready before its socket was passed in that round.
InputMarked ==
    "hangup" \in Faults =>
       \A i \in Later : Kind(FdAt(i)) = "cgiIn" =>
          /\ Passed(i) => FdAt(i) \in Marks
          /\ client[Owner(FdAt(i))].ready =>
                \A k \in Later : fdtab[FdAt(k)] = <<"socket", Owner(FdAt(i))>> => Passed(k)

\* What poll() may have reported.
Reported(rev, kind, events) ==
    /\ kind = "socket" => rev \subseteq {events}
    /\ kind = "file" => rev \subseteq {"IN"}
    /\ kind = "cgiOut" => rev \subseteq {"IN", "HUP"}
    /\ kind = "cgiIn" => /\ rev \subseteq {"OUT", "ERR"}
                         /\ "OUT" \in rev \/ (rev = {} /\ Calm)

InRound ==
    pc.at = "client" =>
       /\ pc.i \in Later
       /\ \A i \in Later : Reported(revents[i], Kind(FdAt(i)), socket_fds[i].events)

Tables ==
    /\ Polled /\ Pending /\ Mapped /\ BothWays
    /\ SocketsFirst /\ Accepted /\ Opened /\ Erasures
    /\ ReadyMarked /\ InputMarked /\ InRound

\* The front request was complete, or refused: it has been routed.
Routed == {"ready", "part", "bad"}

\* A Client prepares one response, to the one request of its peer.
Fit(c, ask) ==
    /\ c.content # "none" => c.req \in Routed /\ c.given
    /\ c.ready => c.req \in Routed
    /\ c.begun => c.ready
    /\ c.req \notin Routed => c.got = 0
    /\ c.content = "file" => c.got = c.pos /\ (c.ready => c.got = FileLen)
    /\ c.content = "cgi" => ask = "cgi"
    /\ c.ready /\ ask = "file" /\ c.status = 200 => c.content = "file"
    /\ ~c.more
    /\ c.body # "none" => Calm

\* No child was shot or failed, and one that has not read its input still runs.
Healthy(k, ask) ==
    /\ ~k.shot
    /\ k.run \in {"none", "running", "ok", "waited ok"}
    /\ k.run # "none" => ask = "cgi"
    /\ k.full => k.run = "running" /\ Calm

\* The segments a peer has still to send, or the server to read.
Unread(n) == Len(n.inbox) + Len(n.unsent)
NextSegment(n) == IF n.inbox # <<>> THEN n.inbox[1] ELSE n.unsent[1]

\* Nothing follows a request.
OneRequest(n, req) ==
    /\ req \in Routed => Unread(n) = 0
    /\ req = "body" => Unread(n) <= 1
    /\ Unread(n) <= 2
    /\ req = "none" /\ Unread(n) = 2 => NextSegment(n) = "head"
    /\ Unread(n) = 2 \/ (req = "body" /\ Unread(n) = 1) => Calm

Peer(x, n) ==
    /\ n.ask = "cgi" => \E r \in Requests[x] : r[1] = "cgi"
    /\ n.stage = "new" => Unread(n) = 0 /\ n.ask # "cgi"
    /\ n.stage \in {"queued", "accepted"} => n.up \/ "hangup" \in Faults

\* What holds between a connection, its client and its child.
Exchange(x) ==
    /\ Fit(client[x], net[x].ask) /\ Healthy(kid[x], net[x].ask)
    /\ OneRequest(net[x], client[x].req) /\ Peer(x, net[x])

Exchanges == \A x \in Conn : Exchange(x)

Steady == Exchanges /\ (Running => Tables) /\ pc.at # "undefined"

----------------------------------------------------------------------------
(* Entries and their owners                                                *)

LEMMA LaterEntries ==
  ASSUME Lists
  PROVE  /\ Len(socket_fds) \in Nat /\ DOMAIN socket_fds = 1 .. Len(socket_fds)
         /\ Later \subseteq 1 .. Len(socket_fds)
         /\ \A i \in 1 .. Len(socket_fds) :
               socket_fds[i] \in Entry /\ FdAt(i) \in Fd
               /\ socket_fds[i] = [fd |-> FdAt(i), events |-> socket_fds[i].events]
<1>1. /\ Len(socket_fds) \in Nat /\ DOMAIN socket_fds = 1 .. Len(socket_fds)
      /\ \A i \in 1 .. Len(socket_fds) : socket_fds[i] \in Entry
  BY DEF Lists
<1>2. Later \subseteq 1 .. Len(socket_fds)
  BY <1>1, FdAssumption DEF Later
<1>3. \A e \in Entry : e.fd \in Fd /\ e = [fd |-> e.fd, events |-> e.events]
  BY DEF Entry
<1> QED BY <1>1, <1>2, <1>3 DEF FdAt

\* The elements of a list.
LEMMA InRange ==
  ASSUME NEW S, NEW s \in Seq(S)
  PROVE  /\ Range(s) \subseteq S
         /\ \A k \in 1 .. Len(s) : s[k] \in Range(s)
         /\ \A e \in Range(s) : \E k \in 1 .. Len(s) : s[k] = e
BY DEF Range

LEMMA AppendRange ==
  ASSUME NEW S, NEW s \in Seq(S), NEW t \in Seq(S)
  PROVE  s \o t \in Seq(S) /\ Range(s \o t) = Range(s) \cup Range(t)
<1>1. /\ s \o t \in Seq(S) /\ Len(s \o t) = Len(s) + Len(t)
      /\ Len(s) \in Nat /\ Len(t) \in Nat
      /\ \A k \in 1 .. Len(s) + Len(t) :
            (s \o t)[k] = IF k <= Len(s) THEN s[k] ELSE t[k - Len(s)]
  OBVIOUS
<1>2. \A e \in Range(s \o t) : e \in Range(s) \cup Range(t)
  <2> SUFFICES ASSUME NEW e \in Range(s \o t) PROVE e \in Range(s) \cup Range(t)
    OBVIOUS
  <2>1. PICK k \in 1 .. Len(s) + Len(t) : (s \o t)[k] = e
    BY <1>1, InRange
  <2>2. CASE k <= Len(s)
    BY <1>1, <2>1, <2>2, InRange
  <2>3. CASE ~(k <= Len(s))
    <3>1. k - Len(s) \in 1 .. Len(t) /\ e = t[k - Len(s)]
      BY <1>1, <2>1, <2>3
    <3> QED BY <3>1, InRange
  <2> QED BY <2>2, <2>3
<1>3. \A e \in Range(s) : e \in Range(s \o t)
  <2> SUFFICES ASSUME NEW e \in Range(s) PROVE e \in Range(s \o t)
    OBVIOUS
  <2>1. PICK k \in 1 .. Len(s) : s[k] = e
    BY InRange
  <2>2. k \in 1 .. Len(s \o t) /\ (s \o t)[k] = e
    BY <1>1, <2>1
  <2> QED BY <1>1, <2>2, InRange
<1>4. \A e \in Range(t) : e \in Range(s \o t)
  <2> SUFFICES ASSUME NEW e \in Range(t) PROVE e \in Range(s \o t)
    OBVIOUS
  <2>1. PICK k \in 1 .. Len(t) : t[k] = e
    BY InRange
  <2>2. k + Len(s) \in 1 .. Len(s \o t) /\ (s \o t)[k + Len(s)] = e
    BY <1>1, <2>1
  <2> QED BY <1>1, <2>2, InRange
<1> QED BY <1>1, <1>2, <1>3, <1>4

\* What is listed, once or twice, stays so when the list grows.
LEMMA TwiceKept ==
  ASSUME NEW S, NEW s \in Seq(S), NEW t \in Seq(S), NEW f
  PROVE  /\ Twice(s, f) \/ Twice(t, f) => Twice(s \o t, f)
         /\ Twice(s, f) => f \in Range(s)
<1>1. /\ s \o t \in Seq(S) /\ Len(s \o t) = Len(s) + Len(t)
      /\ Len(s) \in Nat /\ Len(t) \in Nat
      /\ \A k \in 1 .. Len(s) + Len(t) :
            (s \o t)[k] = IF k <= Len(s) THEN s[k] ELSE t[k - Len(s)]
  OBVIOUS
<1>2. ASSUME Twice(s, f) PROVE Twice(s \o t, f)
  BY <1>1, <1>2 DEF Twice
<1>3. ASSUME Twice(t, f) PROVE Twice(s \o t, f)
  <2>1. PICK k \in 1 .. Len(t), l \in 1 .. Len(t) : k # l /\ t[k] = f /\ t[l] = f
    BY <1>3 DEF Twice
  <2> DEFINE a == k + Len(s)
             b == l + Len(s)
  <2>2. /\ a \in 1 .. Len(s \o t) /\ b \in 1 .. Len(s \o t) /\ a # b
        /\ (s \o t)[a] = f /\ (s \o t)[b] = f
    BY <1>1, <2>1
  <2> QED BY <2>2 DEF Twice
<1>4. Twice(s, f) => f \in Range(s)
  BY InRange DEF Twice
<1> QED BY <1>2, <1>3, <1>4

\* Whom an open descriptor belongs to, and as what.
LEMMA OwnerHolds ==
  ASSUME Sound, NEW f \in Fd, fdtab[f] \in Roles \X Conn
  PROVE  /\ Owner(f) \in Present /\ Owner(f) \in Conn
         /\ Kind(f) \in Roles /\ fdtab[f] = <<Kind(f), Owner(f)>> /\ fdtab[f] # Free
         /\ Kind(f) = "socket" => f = client[Owner(f)].sock
         /\ Kind(f) = "file" =>
               client[Owner(f)].content = "file" /\ f = client[Owner(f)].in
         /\ Kind(f) = "cgiOut" =>
               client[Owner(f)].content = "cgi" /\ f = client[Owner(f)].in
         /\ Kind(f) = "cgiIn" =>
               client[Owner(f)].content = "cgi" /\ f = client[Owner(f)].out
<1>1. /\ Kind(f) \in Roles /\ Owner(f) \in Conn /\ fdtab[f] = <<Kind(f), Owner(f)>>
      /\ fdtab[f] # Free
  BY NobodyAssumption DEF Kind, Owner, Free
<1>2. Holds(Owner(f), Kind(f), f)
  BY <1>1, SoundImplies DEF FdOwnership
<1> QED BY <1>1, <1>2 DEF Holds, Present, Roles

\* A watched descriptor is open and belongs to a client.
LEMMA WatchedOwned ==
  ASSUME Sound, Lists, Polled, Pending, NEW f, Watched(f)
  PROVE  f \in Fd /\ fdtab[f] \in Roles \X Conn
<1>1. CASE \E i \in Later : FdAt(i) = f
  <2>1. PICK i \in Later : FdAt(i) = f
    BY <1>1
  <2> QED BY <2>1, LaterEntries DEF Polled, Wired
<1>2. CASE \E e \in Added : e.fd = f
  <2>1. PICK e \in Added : e.fd = f
    BY <1>2
  <2>2. buffer_new_fd \in Seq(Entry) /\ Added \subseteq Entry
    BY InRange DEF Lists, Added
  <2> QED BY <2>1, <2>2, EntryType DEF Pending, Wired
<1> QED BY <1>1, <1>2 DEF Watched

\* A content has one entry in the poll set.
LEMMA OneEntry ==
  ASSUME Lists, Polled, NEW i \in Later, NEW j \in Later, FdAt(i) = FdAt(j),
         Kind(FdAt(i)) # "socket"
  PROVE  i = j
<1>1. Wired(fdtab[FdAt(i)], socket_fds[i].events) /\ Wired(fdtab[FdAt(i)], socket_fds[j].events)
  BY DEF Polled
<1>2. socket_fds[i].events = socket_fds[j].events
  BY <1>1 DEF Wired, Kind, Roles
<1>3. socket_fds[i] = socket_fds[j]
  BY <1>2, LaterEntries
<1> QED BY <1>3 DEF Polled

----------------------------------------------------------------------------
(* What one call of handleClient() may do                                  *)

ContentRoles == {"file", "cgiOut", "cgiIn"}

\* Entries are added for what was opened: by a request, for a client without content.
Adds(x, i, p, new) ==
    /\ p.buf = buffer_new_fd \o new
    /\ p.map = [f \in Fd |-> IF \E e \in Range(new) : e.fd = f THEN x ELSE client_mapping[f]]
    /\ Distinct(new)
    /\ \A e \in Range(new) : /\ fdtab[e.fd] = Free /\ p.fd[e.fd] \in ContentRoles \X {x}
                             /\ Wired(p.fd[e.fd], e.events)
    /\ new # <<>> =>
         /\ Kind(FdAt(i)) = "socket" /\ socket_fds[i].events = "IN"
         /\ client[x].content = "none" /\ ~p.c.ready /\ ~p.c.doomed

\* Only what x holds is marked: its socket when x goes, and then everything; its
\* content when the response is ready.
Deletes(x, i, p, new) ==
    /\ p.del = fds_to_be_deleted \o new
    /\ \A f \in Range(new) :
          Watched(f) => Owner(f) = x /\ (Kind(f) = "socket" => p.c.doomed)
    /\ p.c.doomed =>
         /\ Twice(new, client[x].sock)
         /\ \A j \in Later : Owner(FdAt(j)) = x => FdAt(j) \in Range(new)
         /\ \A e \in Added : Owner(e.fd) # x
    /\ Kind(FdAt(i)) \in {"file", "cgiOut"} /\ p.c.ready => FdAt(i) \in Range(new)
    /\ "hangup" \in Faults /\ Kind(FdAt(i)) = "cgiIn" => FdAt(i) \in Range(new)

\* The tables after entry i, of x, was handled.
Outcome(x, i, p) ==
    /\ p.c.sock = client[x].sock
    /\ \A f : Watched(f) => p.fd[f] = fdtab[f]
    /\ p.c.ready => \/ client[x].ready \/ client[x].content = "none"
                    \/ Kind(FdAt(i)) \in {"file", "cgiOut"}
    /\ \E new \in Seq(Entry) : Adds(x, i, p, new)
    /\ \E new \in Seq(Fd) : Deletes(x, i, p, new)

\* The exchange with the peer of x after that.
Talk(x, p) ==
    /\ Fit(p.c, net[x].ask) /\ Healthy(p.kid[x], net[x].ask)
    /\ \A y \in Conn : y # x => p.kid[y] = kid[y]
    /\ OneRequest([net[x] EXCEPT !.inbox = p.inbox], p.c.req)
    /\ client[x].begun => p.c.begun \/ p.c.doomed
    /\ p.answered > net[x].answered /\ net[x].ask = "file" /\ p.c.status = 200
       => p.c.got = FileLen

\* The round moves on by one entry.
LEMMA PassedNext ==
  ASSUME Lists, pc.at = "client", pc' = NextClient, NEW j \in Later
  PROVE  /\ Passed(j) => Passed(j)'
         /\ j = pc.i => Passed(j)'
         /\ Passed(j)' => Passed(j) \/ j = pc.i
         /\ pc'.at \in {"client", "server"}
         /\ pc'.at = "client" => pc'.i \in 1 .. Len(socket_fds) /\ pc'.i = pc.i + 1
<1>1. /\ pc.i \in 1 .. Len(socket_fds) /\ Len(revents) = Len(socket_fds)
      /\ Len(socket_fds) \in Nat /\ j \in 1 .. Len(socket_fds)
  BY LaterEntries DEF Lists
<1>2. CASE pc.i < Len(revents)
  <2>1. pc'.at = "client" /\ pc'.i = pc.i + 1
    BY <1>2 DEF NextClient, At
  <2> QED BY <1>1, <1>2, <2>1 DEF Passed
<1>3. CASE ~(pc.i < Len(revents))
  <2>1. pc'.at = "server"
    BY <1>3 DEF NextClient, At
  <2>2. j < pc.i \/ j = pc.i
    BY <1>1, <1>3
  <2> QED BY <2>1, <2>2 DEF Passed
<1> QED BY <1>2, <1>3

\* The entry being handled leads to its owner, which is a client.
LEMMA AtEntry ==
  ASSUME IInv, Tables, pc.at = "client"
  PROVE  /\ pc.i \in Later /\ FdAt(pc.i) \in Fd /\ Watched(FdAt(pc.i))
         /\ fdtab[FdAt(pc.i)] \in Roles \X Conn
         /\ client_mapping[FdAt(pc.i)] = Owner(FdAt(pc.i))
         /\ Owner(FdAt(pc.i)) \in Present /\ Owner(FdAt(pc.i)) \in Conn
<1>1. Sound /\ Lists /\ Polled /\ Pending /\ Mapped /\ pc.i \in Later
  BY DEF IInv, Tables, InRound
<1>2. FdAt(pc.i) \in Fd /\ Watched(FdAt(pc.i))
  BY <1>1, LaterEntries DEF Watched
<1>3. fdtab[FdAt(pc.i)] \in Roles \X Conn
  BY <1>1, <1>2, WatchedOwned
<1> QED BY <1>1, <1>2, <1>3, OwnerHolds DEF Mapped

\* The loop passes over an entry of a client that is to go.
LEMMA SkipTables ==
  ASSUME IInv, Tables, pc.at = "client", pc' = NextClient,
         UNCHANGED <<socket_fds, revents, buffer_new_fd, fds_to_be_deleted,
                     client_mapping, client, fdtab>>,
         client[Owner(FdAt(pc.i))].doomed
  PROVE  Tables'
<1>1. Sound /\ Lists /\ Polled /\ Erasures /\ pc.i \in Later
  BY DEF IInv, Tables, InRound
<1>2. \A j \in Later : /\ Passed(j) => Passed(j)'
                       /\ Passed(j)' => Passed(j) \/ j = pc.i
  BY <1>1, PassedNext
<1>3. pc'.at \in {"client", "server"} /\ (pc'.at = "client" => pc'.i \in Later)
  <2>1. /\ pc'.at \in {"client", "server"}
        /\ pc'.at = "client" => pc'.i \in 1 .. Len(socket_fds) /\ pc'.i = pc.i + 1
    BY <1>1, PassedNext
  <2> QED BY <1>1, <2>1, FdAssumption DEF Later
<1>4. /\ Later' = Later /\ Added' = Added /\ Marks' = Marks
      /\ \A j : FdAt(j)' = FdAt(j)
      /\ \A f : Kind(f)' = Kind(f) /\ Owner(f)' = Owner(f) /\ Watched(f)' = Watched(f)
  BY DEF Later, Added, Marks, FdAt, Kind, Owner, Watched
<1>5. Polled' /\ Pending' /\ Mapped' /\ BothWays' /\ SocketsFirst'
  <2>1. Polled' /\ Pending'
    BY <1>4 DEF Tables, Polled, Pending
  <2>2. Mapped'
    BY <1>4 DEF Tables, Mapped
  <2>3. BothWays' /\ SocketsFirst'
    BY <1>4 DEF Tables, BothWays, SocketsFirst, Present
  <2> QED BY <2>1, <2>2, <2>3
<1>6. Accepted' /\ Opened'
  <2>1. \A e \in Added : Kind(e.fd) # "socket"
    BY DEF Tables, Accepted
  <2> QED BY <1>2, <1>4, <2>1 DEF Tables, Accepted, Opened
<1>7. Erasures'
  BY <1>3, <1>4 DEF Tables, Erasures
<1>8. ReadyMarked'
  BY <1>2, <1>4 DEF Tables, ReadyMarked
<1>9. InputMarked'
  <2>1. ASSUME "hangup" \in Faults, NEW j \in Later, Kind(FdAt(j)) = "cgiIn", Passed(j)'
        PROVE  FdAt(j) \in Marks
    <3>1. CASE j = pc.i
      BY <1>1, <3>1 DEF Erasures
    <3>2. CASE j # pc.i
      BY <1>2, <2>1, <3>2 DEF Tables, InputMarked
    <3> QED BY <3>1, <3>2
  <2>2. ASSUME "hangup" \in Faults, NEW j \in Later, Kind(FdAt(j)) = "cgiIn",
               client[Owner(FdAt(j))].ready, NEW k \in Later,
               fdtab[FdAt(k)] = <<"socket", Owner(FdAt(j))>>
        PROVE  Passed(k)'
    BY <1>2, <2>2 DEF Tables, InputMarked
  <2> QED BY <1>4, <2>1, <2>2 DEF InputMarked
<1>10. InRound'
  BY <1>3, <1>4 DEF Tables, InRound
<1> QED BY <1>5, <1>6, <1>7, <1>8, <1>9, <1>10 DEF Tables

\* Lists without repetitions stay so when one is added to the other.
LEMMA DistinctAppend ==
  ASSUME NEW S, NEW s \in Seq(S), NEW t \in Seq(S), Distinct(s), Distinct(t),
         \A e \in Range(s) : e \notin Range(t)
  PROVE  Distinct(s \o t)
<1>1. /\ Len(s \o t) = Len(s) + Len(t) /\ Len(s) \in Nat /\ Len(t) \in Nat
      /\ \A k \in 1 .. Len(s) : (s \o t)[k] = s[k] /\ s[k] \in Range(s)
      /\ \A k \in Len(s) + 1 .. Len(s) + Len(t) :
            /\ k - Len(s) \in 1 .. Len(t) /\ (s \o t)[k] = t[k - Len(s)]
            /\ t[k - Len(s)] \in Range(t)
  BY InRange
<1> SUFFICES ASSUME NEW i \in 1 .. Len(s) + Len(t), NEW j \in 1 .. Len(s) + Len(t),
                    (s \o t)[i] = (s \o t)[j]
             PROVE  i = j
  BY <1>1 DEF Distinct
<1>2. CASE i \in 1 .. Len(s) /\ j \in 1 .. Len(s)
  BY <1>1, <1>2 DEF Distinct
<1>3. CASE i \in 1 .. Len(s) /\ j \notin 1 .. Len(s)
  <2>1. j \in Len(s) + 1 .. Len(s) + Len(t)
    BY <1>1, <1>3
  <2> QED BY <1>1, <1>3, <2>1
<1>4. CASE i \notin 1 .. Len(s) /\ j \in 1 .. Len(s)
  <2>1. i \in Len(s) + 1 .. Len(s) + Len(t)
    BY <1>1, <1>4
  <2> QED BY <1>1, <1>4, <2>1
<1>5. CASE i \notin 1 .. Len(s) /\ j \notin 1 .. Len(s)
  <2>1. /\ i \in Len(s) + 1 .. Len(s) + Len(t) /\ j \in Len(s) + 1 .. Len(s) + Len(t)
        /\ i \in Int /\ j \in Int
    BY <1>1, <1>5
  <2>2. i - Len(s) = j - Len(s)
    BY <1>1, <2>1 DEF Distinct
  <2> QED BY <1>1, <2>1, <2>2
<1> QED BY <1>2, <1>3, <1>4, <1>5

\* The tables after the handler of entry i, of x, has stored its image.
LEMMA StoreTables ==
  ASSUME IInv, Tables, pc.at = "client", NEW i, i = pc.i, NEW x \in Conn,
         x = Owner(FdAt(i)), ~client[x].doomed,
         NEW p, Good(p, x, fdtab), Outcome(x, i, p), Store(x, p)
  PROVE  Tables'
<1>1. /\ Sound /\ Lists /\ Polled /\ Pending /\ Mapped /\ BothWays /\ SocketsFirst
      /\ Accepted /\ Opened /\ Erasures /\ ReadyMarked /\ InputMarked /\ InRound
  BY DEF IInv, Tables
<1>2. i \in Later /\ FdAt(i) \in Fd /\ fdtab[FdAt(i)] \in Roles \X Conn
      /\ x \in Present /\ Kind(FdAt(i)) \in Roles
  BY AtEntry DEF Kind
<1>3. /\ client' = [client EXCEPT ![x] = p.c] /\ fdtab' = p.fd /\ kid' = p.kid
      /\ buffer_new_fd' = p.buf /\ fds_to_be_deleted' = p.del /\ client_mapping' = p.map
      /\ pc' = NextClient /\ socket_fds' = socket_fds /\ revents' = revents
  BY DEF Store
<1>4. PICK new \in Seq(Entry) : Adds(x, i, p, new)
  BY DEF Outcome
<1>5. PICK marks \in Seq(Fd) : Deletes(x, i, p, marks)
  BY DEF Outcome
<1>6. /\ buffer_new_fd \in Seq(Entry) /\ fds_to_be_deleted \in Seq(Fd)
      /\ Added \subseteq Entry /\ Range(new) \subseteq Entry /\ Marks \subseteq Fd
  BY <1>1, InRange DEF Lists, Added, Marks
<1>7. Added' = Added \cup Range(new) /\ Marks' = Marks \cup Range(marks)
  <2>1. Added' = Range(p.buf) /\ Marks' = Range(p.del)
    BY <1>3 DEF Added, Marks
  <2> QED BY <1>4, <1>5, <1>6, <2>1, AppendRange DEF Adds, Deletes, Added, Marks
<1>8. /\ client' \in [Conn -> ClientRec] /\ client'[x] = p.c
      /\ \A y \in Conn : y # x => client'[y] = client[y]
      /\ Present' = Present
  <2>1. client \in [Conn -> ClientRec] /\ p.c \in ClientRec /\ p.c.here
    BY <1>1 DEF Sound, Types, Good
  <2>2. /\ client' \in [Conn -> ClientRec] /\ client'[x] = p.c
        /\ \A y \in Conn : y # x => client'[y] = client[y]
    BY <1>3, <2>1
  <2>3. Present' = Present
    BY <1>2, <2>1, <2>2 DEF Present
  <2> QED BY <2>2, <2>3
<1>9. /\ Later' = Later /\ \A j : FdAt(j)' = FdAt(j)
      /\ \A f : Watched(f) => Kind(f)' = Kind(f) /\ Owner(f)' = Owner(f) /\ fdtab'[f] = fdtab[f]
  BY <1>3 DEF Later, FdAt, Kind, Owner, Outcome
<1>10. /\ \A j \in Later : Watched(FdAt(j))
       /\ \A e \in Added : Watched(e.fd)
       /\ \A f : Watched(f) => /\ f \in Fd /\ fdtab[f] \in Roles \X Conn /\ fdtab[f] # Free
                               /\ Owner(f) \in Present /\ Owner(f) \in Conn
  <2>1. \A f : Watched(f) => f \in Fd /\ fdtab[f] \in Roles \X Conn
    BY <1>1, WatchedOwned
  <2>2. (\A j \in Later : Watched(FdAt(j))) /\ \A e \in Added : Watched(e.fd)
    BY DEF Watched
  <2> QED BY <1>1, <2>1, <2>2, OwnerHolds
<1>11. \A e \in Range(new) :
          /\ ~Watched(e.fd) /\ e.fd \in Fd
          /\ Kind(e.fd)' \in ContentRoles /\ Owner(e.fd)' = x /\ Wired(fdtab'[e.fd], e.events)
  <2> SUFFICES ASSUME NEW e \in Range(new)
               PROVE  /\ ~Watched(e.fd) /\ e.fd \in Fd
                      /\ Kind(e.fd)' \in ContentRoles /\ Owner(e.fd)' = x
                      /\ Wired(fdtab'[e.fd], e.events)
    OBVIOUS
  <2>1. /\ fdtab[e.fd] = Free /\ p.fd[e.fd] \in ContentRoles \X {x}
        /\ Wired(p.fd[e.fd], e.events)
    BY <1>4 DEF Adds
  <2>2. e.fd \in Fd
    BY <1>6, EntryType
  <2> QED BY <1>3, <1>10, <2>1, <2>2 DEF Kind, Owner
<1>12. \A j \in Later : /\ Passed(j) => Passed(j)'
                        /\ j = i => Passed(j)'
                        /\ Passed(j)' => Passed(j) \/ j = i
  BY <1>1, <1>3, PassedNext
<1>13. pc'.at \in {"client", "server"} /\ (pc'.at = "client" => pc'.i \in Later)
  <2>1. /\ pc'.at \in {"client", "server"}
        /\ pc'.at = "client" => pc'.i \in 1 .. Len(socket_fds) /\ pc'.i = pc.i + 1
    BY <1>1, <1>2, <1>3, PassedNext
  <2> QED BY <1>2, <2>1, FdAssumption DEF Later
<1>14. Polled'
  BY <1>1, <1>3, <1>9, <1>10 DEF Polled
<1>15. Pending'
  <2>1. \A e \in Added' : Wired(fdtab'[e.fd], e.events)
    BY <1>1, <1>7, <1>9, <1>10, <1>11 DEF Pending
  <2>2. \A e \in Added', j \in Later : FdAt(j) # e.fd
    BY <1>1, <1>7, <1>10, <1>11 DEF Pending
  <2>3. Distinct(buffer_new_fd')
    <3>1. \A e \in Range(buffer_new_fd) : e \notin Range(new)
      BY <1>10, <1>11 DEF Added
    <3>2. Distinct(buffer_new_fd) /\ Distinct(new) /\ buffer_new_fd' = buffer_new_fd \o new
      BY <1>1, <1>3, <1>4 DEF Pending, Adds
    <3> QED BY <1>6, <3>1, <3>2, DistinctAppend
  <2> QED BY <1>9, <2>1, <2>2, <2>3 DEF Pending
<1>16. Mapped'
  <2>1. ASSUME NEW f \in Fd
        PROVE  /\ Watched(f)' <=> Watched(f) \/ \E e \in Range(new) : e.fd = f
               /\ client_mapping'[f] = IF \E e \in Range(new) : e.fd = f THEN x
                                       ELSE client_mapping[f]
    <3>1. Watched(f)' <=> Watched(f) \/ \E e \in Range(new) : e.fd = f
      <4>1. Watched(f)' <=> (\E j \in Later : FdAt(j) = f) \/ \E e \in Added' : e.fd = f
        BY <1>9 DEF Watched
      <4> QED BY <1>7, <4>1 DEF Watched
    <3>2. p.map[f] = IF \E e \in Range(new) : e.fd = f THEN x ELSE client_mapping[f]
      BY <1>4 DEF Adds
    <3> QED BY <1>3, <3>1, <3>2
  <2>2. ASSUME NEW f \in Fd
        PROVE  client_mapping'[f] = IF Watched(f)' THEN Owner(f)' ELSE Nobody
    <3>1. CASE \E e \in Range(new) : e.fd = f
      BY <1>11, <2>1, <3>1
    <3>2. CASE ~ \E e \in Range(new) : e.fd = f
      BY <1>1, <1>9, <2>1, <3>2 DEF Mapped
    <3> QED BY <3>1, <3>2
  <2> QED BY <2>2 DEF Mapped
<1>17. BothWays'
  <2>1. \A y \in Present : client'[y].sock = client[y].sock
    BY <1>8 DEF Outcome, Present
  <2>2. ASSUME NEW y \in Present, NEW dir \in {"IN", "OUT"}
        PROVE  \/ \E j \in Later : socket_fds[j] = [fd |-> client[y].sock, events |-> dir]
               \/ [fd |-> client[y].sock, events |-> dir] \in Added'
    BY <1>1, <1>7 DEF BothWays
  <2>3. ASSUME NEW y \in Present', NEW dir \in {"IN", "OUT"}
        PROVE  \/ \E j \in Later' :
                     socket_fds'[j] = [fd |-> client'[y].sock, events |-> dir]
               \/ [fd |-> client'[y].sock, events |-> dir] \in Added'
    <3>1. y \in Present /\ client'[y].sock = client[y].sock
      BY <1>8, <2>1, <2>3
    <3>2. socket_fds' = socket_fds /\ Later' = Later
      BY <1>3, <1>9
    <3> QED BY <2>2, <3>1, <3>2
  <2> QED BY <2>3 DEF BothWays
<1>18. SocketsFirst'
  BY <1>1, <1>9, <1>10 DEF SocketsFirst
<1>19. Accepted'
  <2>1. \A e \in Added : Kind(e.fd)' # "socket"
    BY <1>1, <1>9, <1>10 DEF Accepted
  <2>2. \A e \in Range(new) : Kind(e.fd)' # "socket"
    BY <1>11 DEF ContentRoles
  <2> QED BY <1>7, <2>1, <2>2 DEF Accepted
<1>20. Opened'
  <2>1. ASSUME NEW e \in Added
        PROVE  /\ ~client'[Owner(e.fd)].ready /\ ~client'[Owner(e.fd)].doomed
               /\ \A j \in Later : Owner(FdAt(j)) = Owner(e.fd) =>
                     Kind(FdAt(j)) = "socket" /\ (socket_fds[j].events = "IN" => Passed(j)')
    <3>1. /\ Kind(e.fd) # "socket" /\ ~client[Owner(e.fd)].ready
          /\ ~client[Owner(e.fd)].doomed
          /\ \A j \in Later : Owner(FdAt(j)) = Owner(e.fd) =>
                Kind(FdAt(j)) = "socket" /\ (socket_fds[j].events = "IN" => Passed(j))
      BY <1>1 DEF Accepted, Opened
    <3>2. e.fd \in Fd /\ fdtab[e.fd] \in Roles \X Conn /\ Owner(e.fd) \in Conn
      BY <1>10
    <3>3. CASE Owner(e.fd) = x
      <4>1. client[x].content # "none"
        BY <1>1, <3>1, <3>2, <3>3, OwnerHolds DEF Roles
      <4>2. Kind(FdAt(i)) = "socket"
        BY <1>2, <3>1, <3>3
      <4>3. ~p.c.ready
        BY <3>1, <3>3, <4>1, <4>2 DEF Outcome
      <4>4. ~p.c.doomed
        BY <1>5, <3>3 DEF Deletes
      <4> QED BY <1>8, <1>12, <3>1, <3>3, <4>3, <4>4
    <3>4. CASE Owner(e.fd) # x
      BY <1>8, <1>12, <3>1, <3>2, <3>4
    <3> QED BY <3>3, <3>4
  <2>2. ASSUME NEW e \in Range(new)
        PROVE  /\ ~client'[x].ready /\ ~client'[x].doomed
               /\ \A j \in Later : Owner(FdAt(j)) = x =>
                     Kind(FdAt(j)) = "socket" /\ (socket_fds[j].events = "IN" => Passed(j)')
    <3>1. new # <<>>
      BY DEF Range
    <3>2. /\ Kind(FdAt(i)) = "socket" /\ socket_fds[i].events = "IN"
          /\ client[x].content = "none" /\ ~p.c.ready /\ ~p.c.doomed
      BY <1>4, <3>1 DEF Adds
    <3>3. ASSUME NEW j \in Later, Owner(FdAt(j)) = x
          PROVE  Kind(FdAt(j)) = "socket" /\ (socket_fds[j].events = "IN" => Passed(j)')
      <4>1. Kind(FdAt(j)) = "socket" /\ FdAt(j) = client[x].sock /\ FdAt(i) = client[x].sock
        BY <1>1, <1>2, <1>10, <3>2, <3>3, OwnerHolds DEF Roles
      <4>2. socket_fds[j].events = "IN" => socket_fds[j] = socket_fds[i]
        <5>1. /\ socket_fds[j] = [fd |-> FdAt(j), events |-> socket_fds[j].events]
              /\ socket_fds[i] = [fd |-> FdAt(i), events |-> socket_fds[i].events]
          BY <1>1, <1>2, LaterEntries
        <5> QED BY <3>2, <4>1, <5>1
      <4>3. socket_fds[j].events = "IN" => j = i
        BY <1>1, <1>2, <4>2 DEF Polled
      <4> QED BY <1>12, <4>1, <4>3
    <3> QED BY <1>8, <3>2, <3>3
  <2>3. \A j \in Later : Kind(FdAt(j))' = Kind(FdAt(j)) /\ Owner(FdAt(j))' = Owner(FdAt(j))
    BY <1>9, <1>10
  <2>4. \A e \in Added : Owner(e.fd)' = Owner(e.fd)
    BY <1>9, <1>10
  <2> QED BY <1>3, <1>7, <1>9, <1>11, <2>1, <2>2, <2>3, <2>4 DEF Opened
<1>21. Erasures'
  <2>1. ASSUME NEW j \in Later, client'[Owner(FdAt(j))].doomed
        PROVE  /\ FdAt(j) \in Marks'
               /\ Kind(FdAt(j)) = "socket" => Twice(fds_to_be_deleted', FdAt(j))
    <3>1. fds_to_be_deleted' = fds_to_be_deleted \o marks
      BY <1>3, <1>5 DEF Deletes
    <3>2. CASE Owner(FdAt(j)) = x
      <4>1. /\ Twice(marks, client[x].sock) /\ FdAt(j) \in Range(marks)
        BY <1>5, <1>8, <2>1, <3>2 DEF Deletes
      <4>2. Kind(FdAt(j)) = "socket" => FdAt(j) = client[x].sock
        BY <1>1, <1>10, <3>2, OwnerHolds
      <4> QED BY <1>6, <1>7, <3>1, <4>1, <4>2, TwiceKept
    <3>3. CASE Owner(FdAt(j)) # x
      <4>1. client[Owner(FdAt(j))].doomed
        BY <1>8, <1>10, <2>1, <3>3
      <4>2. FdAt(j) \in Marks
            /\ (Kind(FdAt(j)) = "socket" => Twice(fds_to_be_deleted, FdAt(j)))
        BY <1>1, <4>1 DEF Erasures
      <4> QED BY <1>6, <1>7, <3>1, <4>2, TwiceKept
    <3> QED BY <3>2, <3>3
  <2>2. ASSUME NEW j \in Later, Kind(FdAt(j)) = "socket", FdAt(j) \in Marks'
        PROVE  client'[Owner(FdAt(j))].doomed
    <3>1. CASE FdAt(j) \in Marks
      <4>1. client[Owner(FdAt(j))].doomed
        BY <1>1, <2>2, <3>1 DEF Erasures
      <4> QED BY <1>8, <1>10, <4>1
    <3>2. CASE FdAt(j) \in Range(marks)
      <4>1. Owner(FdAt(j)) = x /\ p.c.doomed
        BY <1>5, <1>10, <2>2, <3>2 DEF Deletes
      <4> QED BY <1>8, <4>1
    <3> QED BY <1>7, <2>2, <3>1, <3>2
  <2>3. \A j \in Later : Kind(FdAt(j))' = Kind(FdAt(j)) /\ Owner(FdAt(j))' = Owner(FdAt(j))
    BY <1>9, <1>10
  <2> QED BY <1>9, <1>13, <2>1, <2>2, <2>3 DEF Erasures
<1>22. ReadyMarked'
  <2>1. ASSUME NEW j \in Later, Kind(FdAt(j)) \in {"file", "cgiOut"},
               client'[Owner(FdAt(j))].ready
        PROVE  Passed(j)' /\ FdAt(j) \in Marks'
    <3>1. CASE client[Owner(FdAt(j))].ready
      BY <1>1, <1>7, <1>12, <2>1, <3>1 DEF ReadyMarked
    <3>2. CASE ~client[Owner(FdAt(j))].ready
      <4>1. Owner(FdAt(j)) = x /\ p.c.ready
        BY <1>8, <1>10, <2>1, <3>2
      <4>2. client[x].content # "none" /\ FdAt(j) = client[x].in
        BY <1>1, <1>10, <2>1, <4>1, OwnerHolds
      <4>3. Kind(FdAt(i)) \in {"file", "cgiOut"}
        BY <3>2, <4>1, <4>2 DEF Outcome
      <4>4. FdAt(i) = client[x].in
        BY <1>1, <1>2, <4>3, OwnerHolds
      <4>5. j = i
        BY <1>1, <1>2, <4>2, <4>3, <4>4, OneEntry
      <4>6. FdAt(i) \in Range(marks)
        BY <1>5, <4>1, <4>3 DEF Deletes
      <4> QED BY <1>7, <1>12, <4>5, <4>6
    <3> QED BY <3>1, <3>2
  <2>2. \A j \in Later : Kind(FdAt(j))' = Kind(FdAt(j)) /\ Owner(FdAt(j))' = Owner(FdAt(j))
    BY <1>9, <1>10
  <2> QED BY <1>9, <2>1, <2>2 DEF ReadyMarked
<1>23. InputMarked'
  <2>1. ASSUME "hangup" \in Faults, NEW j \in Later, Kind(FdAt(j)) = "cgiIn", Passed(j)'
        PROVE  FdAt(j) \in Marks'
    <3>1. CASE j = i
      BY <1>5, <1>7, <2>1, <3>1 DEF Deletes
    <3>2. CASE j # i
      BY <1>1, <1>7, <1>12, <2>1, <3>2 DEF InputMarked
    <3> QED BY <3>1, <3>2
  <2>2. ASSUME "hangup" \in Faults, NEW j \in Later, Kind(FdAt(j)) = "cgiIn",
               client'[Owner(FdAt(j))].ready, NEW k \in Later,
               fdtab[FdAt(k)] = <<"socket", Owner(FdAt(j))>>
        PROVE  Passed(k)'
    <3>1. CASE client[Owner(FdAt(j))].ready
      BY <1>1, <1>12, <2>2, <3>1 DEF InputMarked
    <3>2. CASE ~client[Owner(FdAt(j))].ready
      <4>1. Owner(FdAt(j)) = x /\ p.c.ready
        BY <1>8, <1>10, <2>2, <3>2
      <4>2. client[x].content # "none"
        BY <1>1, <1>10, <2>2, <4>1, OwnerHolds
      <4>3. Kind(FdAt(i)) \in {"file", "cgiOut"}
        BY <3>2, <4>1, <4>2 DEF Outcome
      <4>4. Owner(FdAt(k)) = x /\ Kind(FdAt(k)) = "socket"
        BY <2>2, <4>1 DEF Owner, Kind
      <4>5. k < i
        BY <1>1, <1>2, <4>3, <4>4 DEF SocketsFirst
      <4> QED BY <1>12, <4>5 DEF Passed
    <3> QED BY <3>1, <3>2
  <2>3. \A j \in Later : /\ Kind(FdAt(j))' = Kind(FdAt(j)) /\ Owner(FdAt(j))' = Owner(FdAt(j))
                         /\ fdtab'[FdAt(j)] = fdtab[FdAt(j)]
    BY <1>9, <1>10
  <2> QED BY <1>9, <2>1, <2>2, <2>3 DEF InputMarked
<1>24. InRound'
  <2>1. \A j \in Later : Kind(FdAt(j))' = Kind(FdAt(j))
    BY <1>9, <1>10
  <2> QED BY <1>1, <1>3, <1>9, <1>13, <2>1 DEF InRound
<1> QED BY <1>14, <1>15, <1>16, <1>17, <1>18, <1>19, <1>20, <1>21, <1>22, <1>23, <1>24
    DEF Tables

----------------------------------------------------------------------------
(* The tables after the other steps of the loop                            *)

\* Peers and children do not touch the tables.
LEMMA QuietTables ==
  ASSUME Tables, UNCHANGED proc
  PROVE  Tables'
<1>1. /\ Later' = Later /\ Added' = Added /\ Marks' = Marks
      /\ \A j : FdAt(j)' = FdAt(j)
      /\ \A j : Passed(j)' = Passed(j)
      /\ \A f : Kind(f)' = Kind(f) /\ Owner(f)' = Owner(f) /\ Watched(f)' = Watched(f)
      /\ Present' = Present
  BY DEF proc, Later, Added, Marks, FdAt, Kind, Owner, Watched, Present, Passed
<1>2. Polled' /\ Pending' /\ Mapped' /\ BothWays' /\ SocketsFirst'
  <2>1. Polled' /\ Pending' /\ SocketsFirst'
    BY <1>1 DEF Tables, Polled, Pending, SocketsFirst, proc
  <2>2. Mapped' /\ BothWays'
    BY <1>1 DEF Tables, Mapped, BothWays, proc
  <2> QED BY <2>1, <2>2
<1>3. Accepted' /\ Opened' /\ Erasures'
  BY <1>1 DEF Tables, Accepted, Opened, Erasures, proc
<1>4. ReadyMarked' /\ InputMarked' /\ InRound'
  BY <1>1 DEF Tables, ReadyMarked, InputMarked, InRound, proc
<1> QED BY <1>2, <1>3, <1>4 DEF Tables

\* At the start nothing but the listening sockets is watched.
LEMMA InitTables == Init => Tables
<1> SUFFICES ASSUME Init PROVE Tables
  OBVIOUS
<1>1. /\ Len(socket_fds) = NListen /\ buffer_new_fd = <<>> /\ fds_to_be_deleted = <<>>
      /\ \A i \in Listening : socket_fds[i] = [fd |-> i, events |-> "IN"]
      /\ \A f \in Fd : client_mapping[f] = Nobody
      /\ pc.at = "poll"
  BY FdAssumption DEF Init, Listening, At
<1>2. Later = {} /\ Added = {} /\ Present = {} /\ Marks = {}
  BY <1>1, FdAssumption DEF Later, Added, Marks, Range, Present, Init, NoClient
<1>3. Polled /\ Pending /\ Mapped /\ BothWays /\ SocketsFirst
  BY <1>1, <1>2, FdAssumption
     DEF Polled, Pending, Mapped, BothWays, SocketsFirst, Watched, Distinct
<1>4. Accepted /\ Opened /\ Erasures /\ ReadyMarked /\ InputMarked /\ InRound
  BY <1>1, <1>2 DEF Accepted, Opened, Erasures, ReadyMarked, InputMarked, InRound
<1> QED BY <1>3, <1>4 DEF Tables

\* poll() reports of a descriptor what its kind lets it report.
LEMMA ReadyReported ==
  ASSUME Lists, Polled, NEW i \in Later, Healthy(kid[Owner(FdAt(i))], net[Owner(FdAt(i))].ask)
  PROVE  Reported(Ready(socket_fds[i]), Kind(FdAt(i)), socket_fds[i].events)
<1> DEFINE obj == fdtab[FdAt(i)]
           events == socket_fds[i].events
<1>1. /\ obj \in Roles \X Conn /\ obj[1] = Kind(FdAt(i)) /\ obj[2] = Owner(FdAt(i))
      /\ Wired(obj, events) /\ socket_fds[i].fd = FdAt(i) /\ events \in {"IN", "OUT"}
  BY LaterEntries, EntryType DEF Polled, Wired, Kind, Owner, FdAt
<1>2. obj # Free /\ obj # Listener
  <2>1. "free" \notin Roles /\ "listen" \notin Roles
    BY DEF Roles
  <2> QED BY <1>1, <2>1 DEF Free, Listener
<1>3. CASE obj[1] = "socket"
  BY <1>1, <1>2, <1>3 DEF Ready, Reported
<1>4. CASE obj[1] = "file"
  BY <1>1, <1>2, <1>4 DEF Ready, Reported, Wired
<1>5. CASE obj[1] = "cgiOut"
  BY <1>1, <1>2, <1>5 DEF Ready, Reported, Wired
<1>6. CASE obj[1] = "cgiIn"
  <2>1. Ready(socket_fds[i]) =
           (IF kid[obj[2]].full THEN {} ELSE {"OUT"} \cap {events})
           \cup (IF kid[obj[2]].run # "running" THEN {"ERR"} ELSE {})
    BY <1>1, <1>2, <1>6 DEF Ready
  <2>2. events = "OUT" /\ (kid[obj[2]].full => kid[obj[2]].run = "running" /\ Calm)
    BY <1>1, <1>6 DEF Wired, Healthy
  <2> QED BY <1>1, <1>6, <2>1, <2>2 DEF Reported
<1> QED BY <1>1, <1>3, <1>4, <1>5, <1>6 DEF Roles

\* A round begins.
LEMMA PollTables ==
  ASSUME IInv, Tables, Poll,
         \A y \in Conn : Healthy(kid[y], net[y].ask)
  PROVE  Tables'
<1>1. /\ Sound /\ Lists /\ Polled /\ Pending /\ Mapped /\ BothWays /\ SocketsFirst
      /\ Accepted /\ Opened /\ Erasures /\ ReadyMarked /\ InputMarked /\ InRound
  BY DEF IInv, Tables
<1>2. /\ pc.at = "poll" /\ pc' = FirstClient
      /\ revents' = [i \in DOMAIN socket_fds |-> Ready(socket_fds[i])]
      /\ UNCHANGED <<socket_fds, buffer_new_fd, fds_to_be_deleted, client_mapping,
                     client, fdtab>>
  BY DEF Poll
<1>3. Added = {} /\ Marks = {}
  BY <1>1, <1>2 DEF Erasures, Added, Marks, Range
<1>4. /\ Later' = Later /\ Added' = {} /\ Marks' = {}
      /\ \A j : FdAt(j)' = FdAt(j)
      /\ \A f : Kind(f)' = Kind(f) /\ Owner(f)' = Owner(f) /\ Watched(f)' = Watched(f)
      /\ Present' = Present
  BY <1>2, <1>3 DEF Later, Added, Marks, FdAt, Kind, Owner, Watched, Present
<1>5. /\ \A j \in Later : ~Passed(j) /\ ~Passed(j)'
      /\ pc'.at \in {"client", "server"} /\ (pc'.at = "client" => pc'.i \in Later)
  <2>1. Len(socket_fds) \in Nat /\ NListen \in Nat
    BY <1>1, FdAssumption, LaterEntries
  <2>2. CASE Len(socket_fds) > NListen
    <3>1. pc'.at = "client" /\ pc'.i = NListen + 1
      BY <1>2, <2>2 DEF FirstClient, At
    <3> QED BY <1>2, <2>1, <2>2, <3>1 DEF Later, Passed
  <2>3. CASE ~(Len(socket_fds) > NListen)
    <3>1. pc'.at = "server" /\ Later = {}
      BY <1>2, <2>1, <2>3 DEF FirstClient, At, Later
    <3> QED BY <3>1
  <2> QED BY <2>2, <2>3
<1>6. Polled' /\ Pending' /\ Mapped' /\ BothWays' /\ SocketsFirst'
  <2>1. Polled' /\ Pending' /\ SocketsFirst'
    BY <1>1, <1>2, <1>3, <1>4 DEF Polled, Pending, SocketsFirst
  <2>2. Mapped' /\ BothWays'
    BY <1>1, <1>2, <1>3, <1>4 DEF Mapped, BothWays
  <2> QED BY <2>1, <2>2
<1>7. Accepted' /\ Opened'
  BY <1>4 DEF Accepted, Opened
<1>8. Erasures'
  BY <1>1, <1>2, <1>3, <1>4, <1>5 DEF Erasures
<1>9. ReadyMarked' /\ InputMarked'
  BY <1>1, <1>2, <1>4, <1>5 DEF ReadyMarked, InputMarked
<1>10. InRound'
  <2>1. ASSUME NEW j \in Later
        PROVE  Reported(revents'[j], Kind(FdAt(j)), socket_fds[j].events)
    <3>1. FdAt(j) \in Fd /\ j \in DOMAIN socket_fds /\ fdtab[FdAt(j)] \in Roles \X Conn
      BY <1>1, LaterEntries DEF Polled, Wired
    <3>2. Owner(FdAt(j)) \in Conn
      BY <1>1, <3>1, OwnerHolds
    <3>3. Reported(Ready(socket_fds[j]), Kind(FdAt(j)), socket_fds[j].events)
      BY <1>1, <3>2, ReadyReported
    <3> QED BY <1>2, <3>1, <3>3
  <2> QED BY <1>2, <1>4, <1>5, <2>1 DEF InRound
<1> QED BY <1>6, <1>7, <1>8, <1>9, <1>10 DEF Tables

\* A connection is accepted: its socket is to be watched in both directions.
LEMMA AcceptTables ==
  ASSUME IInv, Tables, pc.at = "server", pc'.at \in {"server", "reset"},
         UNCHANGED <<socket_fds, revents, fds_to_be_deleted>>,
         NEW x \in Conn \ Present, NEW f \in Fd, fdtab[f] = Free,
         fdtab' = Assign(fdtab, f, <<"socket", x>>),
         client' = [client EXCEPT ![x] = [NoClient EXCEPT !.here = TRUE, !.sock = f]],
         client_mapping' = [client_mapping EXCEPT ![f] = x],
         buffer_new_fd' = buffer_new_fd \o <<[fd |-> f, events |-> "IN"],
                                            [fd |-> f, events |-> "OUT"]>>
  PROVE  Tables'
<1> DEFINE new == <<[fd |-> f, events |-> "IN"], [fd |-> f, events |-> "OUT"]>>
<1>1. /\ Sound /\ Lists /\ Polled /\ Pending /\ Mapped /\ BothWays /\ SocketsFirst
      /\ Accepted /\ Opened /\ Erasures /\ ReadyMarked /\ InputMarked /\ InRound
  BY DEF IInv, Tables
<1>2. /\ new \in Seq(Entry) /\ Distinct(new) /\ buffer_new_fd' = buffer_new_fd \o new
      /\ \A e : e \in Range(new) <=> \E dir \in {"IN", "OUT"} : e = [fd |-> f, events |-> dir]
  <2>1. new \in Seq(Entry)
    BY EntryType
  <2>2. /\ Len(new) = 2 /\ DOMAIN new = 1 .. 2
        /\ new[1] = [fd |-> f, events |-> "IN"] /\ new[2] = [fd |-> f, events |-> "OUT"]
        /\ new[1] # new[2] /\ 1 .. 2 = {1, 2}
    OBVIOUS
  <2> HIDE DEF new
  <2>3. Distinct(new)
    BY <2>2 DEF Distinct
  <2>4. Range(new) = {new[1], new[2]}
    BY <2>2 DEF Range
  <2> QED BY <2>1, <2>2, <2>3, <2>4 DEF new
<1> HIDE DEF new
<1>3. buffer_new_fd \in Seq(Entry) /\ Added \subseteq Entry /\ Added' = Added \cup Range(new)
  <2>1. buffer_new_fd \in Seq(Entry)
    BY <1>1 DEF Lists
  <2>2. new \in Seq(Entry) /\ buffer_new_fd' = buffer_new_fd \o new
    BY <1>2
  <2>3. Range(buffer_new_fd \o new) = Range(buffer_new_fd) \cup Range(new)
    BY <2>1, <2>2, AppendRange
  <2>4. Range(buffer_new_fd) \subseteq Entry
    BY <2>1, InRange
  <2> QED BY <2>1, <2>2, <2>3, <2>4 DEF Added
<1>4. /\ Later' = Later /\ Marks' = Marks /\ \A j : FdAt(j)' = FdAt(j)
      /\ \A j : Passed(j) /\ Passed(j)'
  BY DEF Later, Marks, FdAt, Passed
<1>5. /\ \A j \in Later : Watched(FdAt(j))
      /\ \A e \in Added : Watched(e.fd)
      /\ \A g : Watched(g) => /\ g \in Fd /\ fdtab[g] \in Roles \X Conn /\ g # f
                              /\ Owner(g) \in Present /\ Owner(g) \in Conn
  <2>1. \A g : Watched(g) => g \in Fd /\ fdtab[g] \in Roles \X Conn
    BY <1>1, WatchedOwned
  <2>2. (\A j \in Later : Watched(FdAt(j))) /\ \A e \in Added : Watched(e.fd)
    BY DEF Watched
  <2> QED BY <1>1, <2>1, <2>2, OwnerHolds
<1>6. /\ fdtab'[f] = <<"socket", x>> /\ Kind(f)' = "socket" /\ Owner(f)' = x
      /\ \A g : Watched(g) => /\ Kind(g)' = Kind(g) /\ Owner(g)' = Owner(g)
                              /\ fdtab'[g] = fdtab[g] /\ Owner(g) # x
  <2>1. fdtab \in [Fd -> Object]
    BY <1>1 DEF Sound, Types
  <2>2. fdtab'[f] = <<"socket", x>> /\ \A g \in Fd : g # f => fdtab'[g] = fdtab[g]
    BY <2>1 DEF Assign
  <2>3. Kind(f)' = "socket" /\ Owner(f)' = x
    <3> DEFINE obj == <<"socket", x>>
    <3>1. obj[1] = "socket" /\ obj[2] = x
      OBVIOUS
    <3>2. fdtab'[f] = obj
      BY <2>2
    <3> HIDE DEF obj
    <3> QED BY <3>1, <3>2 DEF Kind, Owner
  <2>4. ASSUME NEW g, Watched(g)
        PROVE  /\ Kind(g)' = Kind(g) /\ Owner(g)' = Owner(g)
               /\ fdtab'[g] = fdtab[g] /\ Owner(g) # x
    <3>1. g \in Fd /\ g # f /\ Owner(g) \in Present
      BY <1>5, <2>4
    <3>2. fdtab'[g] = fdtab[g] /\ Owner(g) # x
      BY <2>2, <3>1
    <3> QED BY <3>2 DEF Kind, Owner
  <2> QED BY <2>2, <2>3, <2>4
<1>7. /\ client'[x].sock = f /\ client'[x].content = "none" /\ ~client'[x].doomed
      /\ \A y \in Conn : y # x => client'[y] = client[y]
      /\ Present' = Present \cup {x}
  <2>1. client \in [Conn -> ClientRec] /\ x \in Conn
    BY <1>1 DEF Sound, Types
  <2>2. /\ client'[x] = [NoClient EXCEPT !.here = TRUE, !.sock = f]
        /\ \A y \in Conn : y # x => client'[y] = client[y]
    BY <2>1
  <2>3. /\ client'[x].sock = f /\ client'[x].content = "none" /\ ~client'[x].doomed
        /\ client'[x].here
    <3> DEFINE d == [NoClient EXCEPT !.here = TRUE, !.sock = f]
    <3>1. d.sock = f /\ d.content = "none" /\ ~d.doomed /\ d.here
      BY DEF NoClient
    <3> HIDE DEF d
    <3>2. client'[x] = d
      BY <2>2 DEF d
    <3> QED BY <3>1, <3>2
  <2>4. Present' = Present \cup {x}
    BY <2>1, <2>2, <2>3 DEF Present
  <2> QED BY <2>2, <2>3, <2>4
<1>8. /\ \A j \in Later : /\ Kind(FdAt(j))' = Kind(FdAt(j)) /\ Owner(FdAt(j))' = Owner(FdAt(j))
                          /\ fdtab'[FdAt(j)] = fdtab[FdAt(j)]
                          /\ client'[Owner(FdAt(j))] = client[Owner(FdAt(j))]
      /\ \A e \in Added : /\ Kind(e.fd)' = Kind(e.fd) /\ Owner(e.fd)' = Owner(e.fd)
                          /\ fdtab'[e.fd] = fdtab[e.fd]
                          /\ client'[Owner(e.fd)] = client[Owner(e.fd)]
  <2>1. \A g : Watched(g) => client'[Owner(g)] = client[Owner(g)]
    BY <1>5, <1>6, <1>7
  <2>2. \A g : Watched(g) => /\ Kind(g)' = Kind(g) /\ Owner(g)' = Owner(g)
                              /\ fdtab'[g] = fdtab[g]
    BY <1>6
  <2>3. ASSUME NEW j \in Later
        PROVE  /\ Kind(FdAt(j))' = Kind(FdAt(j)) /\ Owner(FdAt(j))' = Owner(FdAt(j))
               /\ fdtab'[FdAt(j)] = fdtab[FdAt(j)]
               /\ client'[Owner(FdAt(j))] = client[Owner(FdAt(j))]
    BY <1>4, <1>5, <2>1, <2>2
  <2>4. ASSUME NEW e \in Added
        PROVE  /\ Kind(e.fd)' = Kind(e.fd) /\ Owner(e.fd)' = Owner(e.fd)
               /\ fdtab'[e.fd] = fdtab[e.fd]
               /\ client'[Owner(e.fd)] = client[Owner(e.fd)]
    BY <1>5, <2>1, <2>2
  <2> QED BY <2>3, <2>4
<1>9. \A e \in Range(new) : /\ e.fd = f /\ Kind(e.fd)' = "socket" /\ Owner(e.fd)' = x
                            /\ fdtab'[e.fd] = <<"socket", x>>
                            /\ e.events \in {"IN", "OUT"}
  <2>1. \A e \in Range(new) : e.fd = f /\ e.events \in {"IN", "OUT"}
    BY <1>2
  <2> QED BY <1>6, <2>1
<1>10. Polled'
  BY <1>1, <1>4, <1>8 DEF Polled
<1>11. Pending'
  <2>1. \A e \in Added' : Wired(fdtab'[e.fd], e.events)
    <3>1. \A e \in Added : Wired(fdtab'[e.fd], e.events)
      BY <1>1, <1>8 DEF Pending
    <3>2. \A e \in Range(new) : Wired(fdtab'[e.fd], e.events)
      <4>1. \A dir : Wired(<<"socket", x>>, dir)
        BY DEF Wired, Roles
      <4> QED BY <1>9, <4>1
    <3> QED BY <1>3, <3>1, <3>2
  <2>2. \A e \in Added', j \in Later : FdAt(j) # e.fd
    BY <1>1, <1>3, <1>5, <1>9 DEF Pending
  <2>3. Distinct(buffer_new_fd')
    <3>1. \A e \in Range(buffer_new_fd) : e \notin Range(new)
      BY <1>5, <1>9 DEF Added
    <3> QED BY <1>1, <1>2, <1>3, <3>1, DistinctAppend DEF Pending
  <2> QED BY <1>4, <2>1, <2>2, <2>3 DEF Pending
<1>12. Mapped'
  <2>1. ASSUME NEW g \in Fd
        PROVE  /\ Watched(g)' <=> Watched(g) \/ g = f
               /\ client_mapping'[g] = IF g = f THEN x ELSE client_mapping[g]
    <3>1. Watched(g)' <=> (\E j \in Later : FdAt(j) = g) \/ \E e \in Added' : e.fd = g
      BY <1>4 DEF Watched
    <3>2. (\E e \in Range(new) : e.fd = g) <=> g = f
      BY <1>2
    <3>3. client_mapping \in [Fd -> Conn \cup {Nobody}]
      BY <1>1 DEF Sound, Types
    <3> QED BY <1>3, <3>1, <3>2, <3>3 DEF Watched
  <2>2. ASSUME NEW g \in Fd
        PROVE  client_mapping'[g] = IF Watched(g)' THEN Owner(g)' ELSE Nobody
    BY <1>1, <1>6, <2>1 DEF Mapped
  <2> QED BY <2>2 DEF Mapped
<1>13. BothWays'
  <2>1. ASSUME NEW y \in Present', NEW dir \in {"IN", "OUT"}
        PROVE  \/ \E j \in Later' :
                     socket_fds'[j] = [fd |-> client'[y].sock, events |-> dir]
               \/ [fd |-> client'[y].sock, events |-> dir] \in Added'
    <3>1. CASE y = x
      BY <1>2, <1>3, <1>7, <3>1
    <3>2. CASE y # x
      <4>1. y \in Present /\ client'[y].sock = client[y].sock
        BY <1>7, <3>2 DEF Present
      <4>2. \/ \E j \in Later : socket_fds[j] = [fd |-> client[y].sock, events |-> dir]
            \/ [fd |-> client[y].sock, events |-> dir] \in Added
        BY <1>1, <4>1 DEF BothWays
      <4> QED BY <1>3, <1>4, <4>1, <4>2
    <3> QED BY <3>1, <3>2
  <2> QED BY <2>1 DEF BothWays
<1>14. SocketsFirst' /\ InRound'
  BY <1>1, <1>4, <1>8 DEF SocketsFirst, InRound
<1>15. Accepted'
  <2>1. ASSUME NEW e \in Added, Kind(e.fd)' = "socket"
        PROVE  client'[Owner(e.fd)'].content = "none" /\ ~client'[Owner(e.fd)'].doomed
    BY <1>1, <1>8, <2>1 DEF Accepted
  <2>2. ASSUME NEW e \in Range(new)
        PROVE  client'[Owner(e.fd)'].content = "none" /\ ~client'[Owner(e.fd)'].doomed
    BY <1>7, <1>9
  <2> QED BY <1>3, <2>1, <2>2 DEF Accepted
<1>16. Opened'
  <2>1. ASSUME NEW e \in Added, Kind(e.fd) # "socket"
        PROVE  /\ ~client[Owner(e.fd)].ready /\ ~client[Owner(e.fd)].doomed
               /\ \A j \in Later : Owner(FdAt(j)) = Owner(e.fd) => Kind(FdAt(j)) = "socket"
    BY <1>1, <2>1 DEF Opened
  <2>2. ASSUME NEW e \in Added', Kind(e.fd)' # "socket"
        PROVE  e \in Added
    BY <1>3, <1>9, <2>2
  <2> QED BY <1>4, <1>8, <2>1, <2>2 DEF Opened
<1>17. Erasures'
  BY <1>1, <1>4, <1>8 DEF Erasures
<1>18. ReadyMarked' /\ InputMarked'
  BY <1>1, <1>4, <1>8 DEF ReadyMarked, InputMarked
<1> QED BY <1>10, <1>11, <1>12, <1>13, <1>14, <1>15, <1>16, <1>17, <1>18 DEF Tables

LEMMA HandleServerTables ==
  ASSUME IInv, Tables, HandleServer
  PROVE  Tables'
<1>1. /\ pc.at = "server" /\ pc' = NextServer /\ pc.i \in Listening
      /\ UNCHANGED <<socket_fds, revents, fds_to_be_deleted>>
      /\ Sound /\ Lists
  BY DEF HandleServer, IInv, Sound, Types
<1>2. pc'.at \in {"server", "reset"}
  BY <1>1, NextPlaces
<1>3. CASE "IN" \in revents[pc.i] /\ backlog[pc.i] # <<>> /\ NthFree(fdtab, 1) # {}
  <2> DEFINE x == Head(backlog[pc.i])
  <2>1. PICK f \in NthFree(fdtab, 1) :
          /\ fdtab' = Assign(fdtab, f, <<"socket", x>>)
          /\ client' = [client EXCEPT ![x] = [NoClient EXCEPT !.here = TRUE, !.sock = f]]
          /\ client_mapping' = [client_mapping EXCEPT ![f] = x]
          /\ buffer_new_fd' = buffer_new_fd \o <<[fd |-> f, events |-> "IN"],
                                                [fd |-> f, events |-> "OUT"]>>
    BY <1>3 DEF HandleServer
  <2>2. f \in Fd /\ fdtab[f] = Free
    BY DEF NthFree
  <2>3. x \in Conn \ Present
    <3>1. backlog[pc.i] \in Seq(Conn)
      BY <1>1 DEF Sound, Types
    <3>2. x \in Conn /\ 1 \in 1 .. Len(backlog[pc.i]) /\ x = backlog[pc.i][1]
      BY <1>3, <3>1
    <3>3. net[x].stage = "queued"
      BY <1>1, <3>2 DEF Sound, Queues
    <3>4. x \notin Present
      BY <1>1, <3>3 DEF Sound, Queues
    <3> QED BY <3>2, <3>4
  <2> HIDE DEF x
  <2> QED BY <1>1, <1>2, <2>1, <2>2, <2>3, AcceptTables
<1>4. CASE ~("IN" \in revents[pc.i] /\ backlog[pc.i] # <<>> /\ NthFree(fdtab, 1) # {})
  <2>1. UNCHANGED <<fdtab, client, client_mapping, buffer_new_fd>>
    BY <1>4 DEF HandleServer
  <2>2. /\ Later' = Later /\ Added' = Added /\ Marks' = Marks
        /\ \A j : FdAt(j)' = FdAt(j)
        /\ \A j : Passed(j) /\ Passed(j)'
        /\ \A f : Kind(f)' = Kind(f) /\ Owner(f)' = Owner(f) /\ Watched(f)' = Watched(f)
        /\ Present' = Present
    BY <1>1, <1>2, <2>1 DEF Later, Added, Marks, FdAt, Kind, Owner, Watched, Present, Passed
  <2>3. Polled' /\ Pending' /\ SocketsFirst'
    BY <1>1, <2>1, <2>2 DEF Tables, Polled, Pending, SocketsFirst
  <2>4. Mapped' /\ BothWays'
    BY <1>1, <2>1, <2>2 DEF Tables, Mapped, BothWays
  <2>5. Accepted' /\ Opened' /\ Erasures'
    BY <1>1, <1>2, <2>1, <2>2 DEF Tables, Accepted, Opened, Erasures
  <2>6. ReadyMarked' /\ InputMarked' /\ InRound'
    BY <1>1, <1>2, <2>1, <2>2 DEF Tables, ReadyMarked, InputMarked, InRound
  <2> QED BY <2>3, <2>4, <2>5, <2>6 DEF Tables
<1> QED BY <1>3, <1>4

----------------------------------------------------------------------------
(* The tables after resetFds()                                             *)

\* A set of two has two elements.
LEMMA TwoElements ==
  ASSUME NEW k, NEW l
  PROVE  /\ IsFiniteSet({k}) /\ IsFiniteSet({k, l}) /\ Cardinality({k}) = 1
         /\ k # l => Cardinality({k, l}) = 2
         /\ Cardinality({k, l}) <= 2 /\ Cardinality({k, l}) \in Nat
<1>1. IsFiniteSet({k}) /\ Cardinality({k}) = 1
  BY FS_Singleton
<1>2. {k, l} = {k} \cup {l}
  OBVIOUS
<1>3. IsFiniteSet({k, l}) /\ Cardinality({k, l}) \in Nat
  <2>1. IsFiniteSet({k} \cup {l})
    BY <1>1, FS_AddElement
  <2>2. IsFiniteSet({k, l})
    BY <1>2, <2>1, Zenon
  <2>3. Cardinality({k, l}) \in Nat
    BY <2>2, FS_CardinalityType
  <2> QED BY <2>2, <2>3
<1>4. k # l => Cardinality({k, l}) = 2
  <2>1. k # l => Cardinality({k} \cup {l}) = Cardinality({k}) + 1
    BY <1>1, FS_AddElement
  <2> QED BY <1>1, <1>2, <2>1
<1>5. k = l => Cardinality({k, l}) = 1
  BY <1>1
<1> QED BY <1>1, <1>3, <1>4, <1>5

\* A list of marks takes with it exactly the entries of what it names: two of a socket,
\* which it names twice, one of anything else.
LEMMA ErasedIff ==
  ASSUME IInv, Tables, NEW i \in 1 .. Len(socket_fds)
  PROVE  Erased(i) <=> i \in Later /\ FdAt(i) \in Marks
<1>1. Sound /\ Lists /\ Polled /\ Erasures
  BY DEF IInv, Tables
<1>2. /\ Len(socket_fds) \in Nat /\ NListen \in Nat /\ i \in Nat
      /\ Later \subseteq 1 .. Len(socket_fds)
      /\ i \in Later <=> i > NListen
  <2>1. Len(socket_fds) \in Nat /\ NListen \in Nat
    BY <1>1, LaterEntries, FdAssumption
  <2> QED BY <2>1 DEF Later
<1> DEFINE fd == FdAt(i)
           places == {j \in NListen + 1 .. i : FdAt(j) = fd}
           named == {k \in DOMAIN fds_to_be_deleted : fds_to_be_deleted[k] = fd}
<1>3. Erased(i) <=> i \in Later /\ Cardinality(places) <= Cardinality(named)
  BY <1>2 DEF Erased, FdAt
<1> SUFFICES ASSUME i \in Later
             PROVE  Cardinality(places) <= Cardinality(named) <=> fd \in Marks
  BY <1>3
<1>4. /\ i \in places /\ places \subseteq Later
      /\ \A j \in places : j \in Later /\ FdAt(j) = fd
  BY <1>2 DEF Later
<1>5. IsFiniteSet(places) /\ IsFiniteSet(named)
      /\ Cardinality(places) \in Nat /\ Cardinality(named) \in Nat
  <2>1. fds_to_be_deleted \in Seq(Fd)
    BY <1>1 DEF Lists
  <2>2. named \in SUBSET (1 .. Len(fds_to_be_deleted)) /\ Len(fds_to_be_deleted) \in Nat
    BY <2>1
  <2>3. places \in SUBSET (1 .. Len(socket_fds))
    BY <1>2, <1>4
  <2>4. IsFiniteSet(1 .. Len(socket_fds)) /\ IsFiniteSet(1 .. Len(fds_to_be_deleted))
    BY <1>2, <2>2, FS_Interval
  <2> HIDE DEF places, named
  <2> QED BY <2>2, <2>3, <2>4, FS_Subset, FS_CardinalityType
<1>6. fd \in Marks <=> named # {}
  BY DEF Marks, Range
<1>7. Twice(fds_to_be_deleted, fd) => \E k \in named, l \in named : k # l
  <2>1. DOMAIN fds_to_be_deleted = 1 .. Len(fds_to_be_deleted)
    BY <1>1 DEF Lists
  <2> QED BY <2>1 DEF Twice
<1>8. /\ Kind(fd) # "socket" => \A j \in places : j = i
      /\ \A j \in places, m \in places : j # i /\ m # i => j = m
  <2>1. ASSUME Kind(fd) # "socket", NEW j \in places
        PROVE  j = i
    BY <1>1, <1>4, <2>1, OneEntry
  <2>2. ASSUME NEW j \in places, NEW m \in places, j # i, m # i
        PROVE  j = m
    <3>1. /\ socket_fds[i] = [fd |-> fd, events |-> socket_fds[i].events]
          /\ socket_fds[j] = [fd |-> fd, events |-> socket_fds[j].events]
          /\ socket_fds[m] = [fd |-> fd, events |-> socket_fds[m].events]
          /\ socket_fds[i].events \in {"IN", "OUT"} /\ socket_fds[j].events \in {"IN", "OUT"}
          /\ socket_fds[m].events \in {"IN", "OUT"}
      BY <1>1, <1>2, <1>4, LaterEntries, EntryType
    <3>2. socket_fds[i] # socket_fds[j] /\ socket_fds[i] # socket_fds[m]
      BY <1>1, <1>4, <2>2 DEF Polled
    <3>3. socket_fds[j] = socket_fds[m]
      BY <3>1, <3>2
    <3> QED BY <1>1, <1>4, <3>3 DEF Polled
  <2> QED BY <2>1, <2>2
<1>9. fd \in Marks /\ Kind(fd) = "socket" => Twice(fds_to_be_deleted, fd)
  BY <1>1 DEF Erasures
<1> HIDE DEF places, named, fd
<1>10. Cardinality(places) >= 1
  <2>1. Cardinality(places) # 0
    BY <1>4, <1>5, FS_EmptySet
  <2> QED BY <1>5, <2>1
<1>11. CASE fd \notin Marks
  <2>1. Cardinality(named) = 0
    BY <1>6, <1>11, FS_EmptySet
  <2> QED BY <1>10, <1>5, <1>11, <2>1
<1>12. CASE fd \in Marks /\ Kind(fd) # "socket"
  <2>1. places = {i}
    BY <1>4, <1>8, <1>12
  <2>2. Cardinality(places) = 1
    BY <2>1, TwoElements
  <2>3. Cardinality(named) # 0
    BY <1>5, <1>6, <1>12, FS_EmptySet
  <2> QED BY <1>5, <1>12, <2>2, <2>3
<1>13. CASE fd \in Marks /\ Kind(fd) = "socket"
  <2>1. PICK k \in named, l \in named : k # l
    BY <1>7, <1>9, <1>13
  <2>2. {k, l} \subseteq named /\ Cardinality({k, l}) = 2 /\ IsFiniteSet({k, l})
    BY <2>1, TwoElements
  <2>3. Cardinality(named) >= 2
    BY <1>5, <2>2, FS_Subset
  <2>4. \E m \in places : places \subseteq {i, m}
    BY <1>4, <1>8
  <2>5. PICK m \in places : places \subseteq {i, m}
    BY <2>4
  <2>6. Cardinality(places) <= 2
    <3>1. IsFiniteSet({i, m}) /\ Cardinality({i, m}) <= 2 /\ Cardinality({i, m}) \in Nat
      BY TwoElements
    <3>2. Cardinality(places) <= Cardinality({i, m})
      BY <2>5, <3>1, FS_Subset
    <3> QED BY <1>5, <3>1, <3>2
  <2> QED BY <1>5, <1>13, <2>3, <2>6
<1> QED BY <1>11, <1>12, <1>13

\* The places of the entries that stay.
Kept == {i \in DOMAIN socket_fds : ~Erased(i)}

\* The entries that stay come first, in their order, then those that are added.
LEMMA KeptPlaces ==
  ASSUME IInv, Tables, ResetFds
  PROVE  /\ Kept \subseteq 1 .. Len(socket_fds) /\ Len(socket_fds) \in Nat
         /\ Cardinality(Kept) \in Nat /\ NListen <= Cardinality(Kept)
         /\ Len(socket_fds') = Cardinality(Kept) + Len(buffer_new_fd)
         /\ Len(buffer_new_fd) \in Nat
         /\ \A i \in Listening : socket_fds'[i] = socket_fds[i]
         /\ \A n \in Later' : n <= Cardinality(Kept) =>
               /\ n \in 1 .. Cardinality(Kept) /\ Nth(Kept, n) \in Later
               /\ FdAt(Nth(Kept, n)) \notin Marks
               /\ socket_fds'[n] = socket_fds[Nth(Kept, n)]
         /\ \A n \in Later' : ~(n <= Cardinality(Kept)) =>
               /\ n - Cardinality(Kept) \in 1 .. Len(buffer_new_fd)
               /\ socket_fds'[n] = buffer_new_fd[n - Cardinality(Kept)]
               /\ socket_fds'[n] \in Added
         /\ \A m \in Later : FdAt(m) \notin Marks =>
               \E n \in Later' : n <= Cardinality(Kept) /\ socket_fds'[n] = socket_fds[m]
         /\ \A e \in Added : \E n \in Later' : socket_fds'[n] = e
<1> DEFINE old == [n \in 1 .. Cardinality(Kept) |-> socket_fds[Nth(Kept, n)]]
<1>1. /\ Sound /\ Lists /\ Tables
      /\ socket_fds \in Seq(Entry) /\ buffer_new_fd \in Seq(Entry)
      /\ Len(socket_fds) \in Nat /\ DOMAIN socket_fds = 1 .. Len(socket_fds)
      /\ Len(buffer_new_fd) \in Nat /\ NListen \in Nat
  BY FdAssumption DEF IInv, Lists
<1>2. \A i : i \in Kept <=> i \in 1 .. Len(socket_fds) /\ ~(i \in Later /\ FdAt(i) \in Marks)
  BY <1>1, ErasedIff DEF Kept
<1>3. Kept \subseteq 1 .. Len(socket_fds)
  BY <1>2
<1>4. 1 .. NListen \subseteq Kept
  <2>1. NListen <= Len(socket_fds) /\ \A i \in 1 .. NListen : i \notin Later
    BY <1>1 DEF Tables, Polled, Later
  <2> QED BY <1>1, <1>2, <2>1
<1>5. /\ NListen <= Cardinality(Kept) /\ Cardinality(Kept) \in Nat
      /\ \A n \in 1 .. NListen : n \in 1 .. Cardinality(Kept) /\ Nth(Kept, n) = n
  BY <1>1, <1>3, <1>4, NthFirst
<1>6. \A n \in 1 .. Cardinality(Kept) : Nth(Kept, n) \in Kept /\ socket_fds[Nth(Kept, n)] \in Entry
  <2> SUFFICES ASSUME NEW n \in 1 .. Cardinality(Kept)
               PROVE  Nth(Kept, n) \in Kept /\ socket_fds[Nth(Kept, n)] \in Entry
    OBVIOUS
  <2>1. Nth(Kept, n) \in Kept
    BY <1>1, <1>3, NthBefore
  <2>2. Nth(Kept, n) \in 1 .. Len(socket_fds)
    BY <1>3, <2>1
  <2> QED BY <1>1, <2>1, <2>2
<1>7. socket_fds' = old \o buffer_new_fd /\ old \in Seq(Entry) /\ Len(old) = Cardinality(Kept)
  <2>1. socket_fds' = old \o buffer_new_fd
    BY DEF ResetFds, Kept
  <2>2. old \in Seq(Entry) /\ Len(old) = Cardinality(Kept)
    BY <1>5, <1>6
  <2> QED BY <2>1, <2>2
<1>8. /\ Len(socket_fds') = Cardinality(Kept) + Len(buffer_new_fd)
      /\ \A n \in 1 .. Cardinality(Kept) : socket_fds'[n] = socket_fds[Nth(Kept, n)]
      /\ \A n \in 1 .. Len(socket_fds') : ~(n <= Cardinality(Kept)) =>
            /\ n - Cardinality(Kept) \in 1 .. Len(buffer_new_fd)
            /\ socket_fds'[n] = buffer_new_fd[n - Cardinality(Kept)]
      /\ \A n \in 1 .. Len(buffer_new_fd) :
            /\ n + Cardinality(Kept) \in 1 .. Len(socket_fds')
            /\ socket_fds'[n + Cardinality(Kept)] = buffer_new_fd[n]
  <2>1. \A n \in 1 .. Cardinality(Kept) : old[n] = socket_fds[Nth(Kept, n)]
    OBVIOUS
  <2> HIDE DEF old
  <2>2. /\ Len(old \o buffer_new_fd) = Len(old) + Len(buffer_new_fd)
        /\ \A n \in 1 .. Len(old) + Len(buffer_new_fd) :
              (old \o buffer_new_fd)[n] = IF n <= Len(old) THEN old[n]
                                          ELSE buffer_new_fd[n - Len(old)]
    BY <1>1, <1>7
  <2>3. /\ Len(socket_fds') = Len(old) + Len(buffer_new_fd)
        /\ \A n \in 1 .. Len(old) + Len(buffer_new_fd) :
              socket_fds'[n] = IF n <= Len(old) THEN old[n] ELSE buffer_new_fd[n - Len(old)]
    BY <1>7, <2>2
  <2> DEFINE c == Cardinality(Kept)
  <2>4. c \in Nat /\ Len(old) = c
    BY <1>5, <1>7
  <2> HIDE DEF c
  <2>5. \A n \in 1 .. c : socket_fds'[n] = old[n]
    BY <1>1, <2>3, <2>4
  <2>6. \A n \in 1 .. Len(socket_fds') : ~(n <= c) =>
            n - c \in 1 .. Len(buffer_new_fd) /\ socket_fds'[n] = buffer_new_fd[n - c]
    BY <1>1, <2>3, <2>4
  <2>7. ASSUME NEW n \in 1 .. Len(buffer_new_fd)
        PROVE  n + c \in 1 .. Len(socket_fds') /\ socket_fds'[n + c] = buffer_new_fd[n]
    <3>1. n + c \in 1 .. c + Len(buffer_new_fd) /\ ~(n + c <= c) /\ (n + c) - c = n
      BY <1>1, <2>4
    <3> QED BY <2>3, <2>4, <3>1
  <2> QED BY <2>1, <2>3, <2>4, <2>5, <2>6, <2>7 DEF c
<1> HIDE DEF old
<1>9. \A n : n \in Later' <=> n \in 1 .. Len(socket_fds') /\ ~(n <= NListen)
  BY <1>1, <1>5, <1>8 DEF Later
<1>10. \A i \in Listening : socket_fds'[i] = socket_fds[i]
  BY <1>5, <1>8 DEF Listening
<1>11. ASSUME NEW n \in Later', n <= Cardinality(Kept)
       PROVE  /\ n \in 1 .. Cardinality(Kept) /\ Nth(Kept, n) \in Later
              /\ FdAt(Nth(Kept, n)) \notin Marks
              /\ socket_fds'[n] = socket_fds[Nth(Kept, n)]
  <2>1. n \in 1 .. Cardinality(Kept) /\ n \notin 1 .. NListen
    BY <1>1, <1>5, <1>9, <1>11
  <2>2. Nth(Kept, n) \in Kept
    BY <1>6, <2>1
  <2>3. Nth(Kept, n) \notin 1 .. NListen
    <3> SUFFICES ASSUME Nth(Kept, n) \in 1 .. NListen PROVE FALSE
      OBVIOUS
    <3> DEFINE m == Nth(Kept, n)
    <3>1. m \in 1 .. Cardinality(Kept) /\ Nth(Kept, m) = m
      BY <1>5
    <3>2. m = n
      <4> HIDE DEF m
      <4>1. Nth(Kept, m) = Nth(Kept, n)
        BY <3>1 DEF m
      <4> QED BY <1>1, <1>3, <2>1, <3>1, <4>1, NthOrder
    <3> QED BY <2>1, <3>2
  <2>4. Nth(Kept, n) \in Later
    <3>1. Nth(Kept, n) \in 1 .. Len(socket_fds)
      BY <1>3, <2>2
    <3> QED BY <1>1, <2>3, <3>1 DEF Later
  <2> QED BY <1>2, <1>8, <2>1, <2>2, <2>4
<1>12. ASSUME NEW n \in Later', ~(n <= Cardinality(Kept))
       PROVE  /\ n - Cardinality(Kept) \in 1 .. Len(buffer_new_fd)
              /\ socket_fds'[n] = buffer_new_fd[n - Cardinality(Kept)]
              /\ socket_fds'[n] \in Added
  <2>1. /\ n - Cardinality(Kept) \in 1 .. Len(buffer_new_fd)
        /\ socket_fds'[n] = buffer_new_fd[n - Cardinality(Kept)]
    BY <1>8, <1>9, <1>12
  <2> QED BY <1>1, <2>1, InRange DEF Added
<1>13. ASSUME NEW m \in Later, FdAt(m) \notin Marks
       PROVE  \E n \in Later' : n <= Cardinality(Kept) /\ socket_fds'[n] = socket_fds[m]
  <2>1. m \in 1 .. Len(socket_fds) /\ m \notin 1 .. NListen
    BY <1>1, LaterEntries DEF Later
  <2>2. m \in Kept
    BY <1>2, <1>13, <2>1
  <2>3. PICK n \in 1 .. Cardinality(Kept) : Nth(Kept, n) = m
    BY <1>1, <1>3, <2>2, NthOnto
  <2>4. ~(n <= NListen)
    BY <1>1, <1>5, <2>1, <2>3
  <2>5. n \in Later'
    BY <1>1, <1>5, <1>8, <1>9, <2>4
  <2> QED BY <1>5, <1>8, <2>3, <2>5
<1>14. ASSUME NEW e \in Added
       PROVE  \E n \in Later' : socket_fds'[n] = e
  <2>1. PICK k \in 1 .. Len(buffer_new_fd) : buffer_new_fd[k] = e
    BY <1>1, InRange DEF Added
  <2>2. /\ k + Cardinality(Kept) \in 1 .. Len(socket_fds')
        /\ socket_fds'[k + Cardinality(Kept)] = e
    BY <1>8, <2>1
  <2>3. ~(k + Cardinality(Kept) <= NListen)
    BY <1>1, <1>5, <2>1
  <2> QED BY <1>9, <2>2, <2>3
<1> QED BY <1>1, <1>3, <1>5, <1>8, <1>10, <1>11, <1>12, <1>13, <1>14

\* What ~Client() closes belongs to a client that is to go.
LEMMA HeldByDoomed ==
  ASSUME Sound, NEW f \in Fd, NEW x \in Doomed, f \in Held(x)
  PROVE  fdtab[f] \in Roles \X Conn /\ Owner(f) = x
<1>1. x \in Conn /\ Owns(x, client[x], fdtab) /\ client[x] \in ClientRec /\ f # 0
  BY ClientSets DEF Doomed, Present, Sound, Ownership, Types
<1>2. client[x].content \in {"none", "file", "cgi"}
  BY <1>1 DEF ClientRec, ContentKind
<1>3. \E role \in Roles : fdtab[f] = <<role, x>>
  <2>1. CASE f = client[x].sock
    BY <1>1, <2>1 DEF Owns, Roles
  <2>2. CASE f = client[x].in
    BY <1>1, <1>2, <2>2 DEF Owns, Roles
  <2>3. CASE f = client[x].out
    BY <1>1, <1>2, <2>3 DEF Owns, Roles
  <2> QED BY <2>1, <2>2, <2>3 DEF Held
<1>4. PICK role \in Roles : fdtab[f] = <<role, x>>
  BY <1>3
<1> QED BY <1>1, <1>4 DEF Owner

\* A watched descriptor whose client stays is left as it is.
Stays(f) ==
    /\ f \in Fd /\ fdtab[f] \in Roles \X Conn /\ fdtab'[f] = fdtab[f]
    /\ Owner(f) \in Present /\ Owner(f) \notin Doomed
    /\ client'[Owner(f)] = client[Owner(f)]

LEMMA StayOrGo ==
  ASSUME IInv, Tables, ResetFds
  PROVE  /\ \A j \in Later : FdAt(j) \notin Marks => Stays(FdAt(j))
         /\ \A e \in Added : Stays(e.fd)
         /\ \A f \in Fd : client_mapping'[f] =
               IF \/ \E j \in Later : FdAt(j) = f /\ f \in Marks
                  \/ \E x \in Doomed : f \in Held(x)
               THEN Nobody ELSE client_mapping[f]
<1> DEFINE gone == {socket_fds[j].fd : j \in DOMAIN socket_fds \ Kept}
           held == UNION {Held(x) : x \in Doomed}
<1>1. /\ Sound /\ Lists /\ Polled /\ Pending /\ Accepted /\ Opened /\ Erasures
      /\ fdtab \in [Fd -> Object] /\ client \in [Conn -> ClientRec]
  BY DEF IInv, Tables, Sound, Types
<1>2. /\ client_mapping' = Forget(gone \cup held) /\ fdtab' = Release(fdtab, held)
      /\ client' = [x \in Conn |-> IF x \in Doomed THEN NoClient ELSE client[x]]
  BY DEF ResetFds, Kept
<1>3. \A f : f \in held <=> \E x \in Doomed : f \in Held(x)
  OBVIOUS
<1>4. \A f : f \in gone <=> \E j \in Later : FdAt(j) = f /\ f \in Marks
  <2>1. \A j : j \in DOMAIN socket_fds \ Kept <=> j \in Later /\ FdAt(j) \in Marks
    <3>1. DOMAIN socket_fds = 1 .. Len(socket_fds) /\ Later \subseteq 1 .. Len(socket_fds)
      BY <1>1, LaterEntries
    <3> QED BY <3>1, ErasedIff DEF Kept
  <2>2. \A f : f \in gone <=> \E j \in DOMAIN socket_fds \ Kept : FdAt(j) = f
    BY DEF FdAt
  <2> QED BY <2>1, <2>2
<1> HIDE DEF gone, held
<1>5. ASSUME NEW f, Watched(f), ~client[Owner(f)].doomed
      PROVE  Stays(f)
  <2>1. /\ f \in Fd /\ fdtab[f] \in Roles \X Conn /\ Owner(f) \in Present /\ Owner(f) \in Conn
    BY <1>1, <1>5, WatchedOwned, OwnerHolds
  <2>2. Owner(f) \notin Doomed
    BY <1>5 DEF Doomed
  <2>3. f \notin held
    BY <1>1, <1>3, <2>1, <2>2, HeldByDoomed
  <2>4. fdtab'[f] = fdtab[f] /\ client'[Owner(f)] = client[Owner(f)]
    BY <1>2, <2>1, <2>2, <2>3 DEF Release
  <2> QED BY <2>1, <2>2, <2>4 DEF Stays
<1>6. ASSUME NEW j \in Later, FdAt(j) \notin Marks
      PROVE  Stays(FdAt(j))
  <2>1. Watched(FdAt(j)) /\ ~client[Owner(FdAt(j))].doomed
    BY <1>1, <1>6 DEF Erasures, Watched
  <2> QED BY <1>5, <2>1
<1>7. ASSUME NEW e \in Added
      PROVE  Stays(e.fd)
  <2>1. Watched(e.fd) /\ ~client[Owner(e.fd)].doomed
    BY <1>1 DEF Accepted, Opened, Watched
  <2> QED BY <1>5, <2>1
<1>8. \A f \in Fd : client_mapping'[f] =
         IF f \in gone \cup held THEN Nobody ELSE client_mapping[f]
  BY <1>2 DEF Forget
<1> QED BY <1>3, <1>4, <1>6, <1>7, <1>8

LEMMA ResetTables ==
  ASSUME IInv, Tables, ResetFds
  PROVE  Tables'
<1>1. /\ Sound /\ Lists /\ Polled /\ Pending /\ Mapped /\ BothWays /\ SocketsFirst
      /\ Accepted /\ Opened /\ Erasures /\ ReadyMarked /\ InputMarked /\ InRound
  BY DEF IInv, Tables
<1>2. /\ pc.at = "reset" /\ pc'.at = "poll" /\ buffer_new_fd' = <<>> /\ fds_to_be_deleted' = <<>>
      /\ client' = [x \in Conn |-> IF x \in Doomed THEN NoClient ELSE client[x]]
  BY DEF ResetFds, At
<1>3. /\ Added' = {} /\ Marks' = {} /\ \A j : Passed(j)
      /\ Added \subseteq Entry /\ buffer_new_fd \in Seq(Entry)
  <2>1. buffer_new_fd \in Seq(Entry)
    BY <1>1 DEF Lists
  <2>2. Added \subseteq Entry
    BY <2>1, InRange DEF Added
  <2> QED BY <1>2, <2>1, <2>2 DEF Added, Marks, Range, Passed
<1> DEFINE c == Cardinality(Kept)
           at(n) == Nth(Kept, n)
<1>4. /\ Kept \subseteq 1 .. Len(socket_fds) /\ Len(socket_fds) \in Nat
      /\ c \in Nat /\ NListen <= c /\ NListen \in Nat
      /\ Len(socket_fds') = c + Len(buffer_new_fd) /\ Len(buffer_new_fd) \in Nat
      /\ \A i \in Listening : socket_fds'[i] = socket_fds[i]
      /\ \A n \in Later' : n <= c =>
            /\ n \in 1 .. c /\ at(n) \in Later
            /\ FdAt(at(n)) \notin Marks
            /\ socket_fds'[n] = socket_fds[at(n)]
      /\ \A n \in Later' : ~(n <= c) =>
            /\ n - c \in 1 .. Len(buffer_new_fd)
            /\ socket_fds'[n] = buffer_new_fd[n - c]
            /\ socket_fds'[n] \in Added
      /\ \A m \in Later : FdAt(m) \notin Marks =>
            \E n \in Later' : n <= c /\ socket_fds'[n] = socket_fds[m]
      /\ \A e \in Added : \E n \in Later' : socket_fds'[n] = e
  BY KeptPlaces, FdAssumption
<1>5. /\ \A j \in Later : FdAt(j) \notin Marks => Stays(FdAt(j))
      /\ \A e \in Added : Stays(e.fd)
      /\ \A f \in Fd : client_mapping'[f] =
            IF \/ \E j \in Later : FdAt(j) = f /\ f \in Marks
               \/ \E x \in Doomed : f \in Held(x)
            THEN Nobody ELSE client_mapping[f]
  BY StayOrGo
<1>6. \A m \in 1 .. c, n \in 1 .. c : at(m) = at(n) => m = n
  BY <1>4, NthOrder
<1>7. \A m \in 1 .. c, n \in 1 .. c : m < n => at(m) < at(n)
  BY <1>4, NthOrder
<1> HIDE DEF c, at
\* An entry of the new poll set is an old one or one that was to be added.
<1>8. ASSUME NEW n \in Later'
      PROVE  /\ FdAt(n)' = socket_fds'[n].fd /\ Stays(FdAt(n)') /\ n \in Int
             /\ n <= c => FdAt(n)' = FdAt(at(n))
             /\ ~(n <= c) => FdAt(n)' = socket_fds'[n].fd /\ socket_fds'[n] \in Added
  <2>1. FdAt(n)' = socket_fds'[n].fd
    BY DEF FdAt
  <2>2. n \in Int
    BY <1>4 DEF Later
  <2>3. n <= c => FdAt(n)' = FdAt(at(n)) /\ Stays(FdAt(n)')
    <3>1. n <= c => at(n) \in Later /\ FdAt(at(n)) \notin Marks /\ socket_fds'[n] = socket_fds[at(n)]
      BY <1>4
    <3>2. n <= c => FdAt(n)' = FdAt(at(n))
      BY <2>1, <3>1 DEF FdAt
    <3> QED BY <1>5, <3>1, <3>2
  <2>4. ~(n <= c) => socket_fds'[n] \in Added /\ Stays(FdAt(n)')
    BY <1>4, <1>5, <2>1
  <2> QED BY <2>1, <2>2, <2>3, <2>4
<1>9. Polled'
  <2>1. Len(socket_fds') >= NListen
    BY <1>4
  <2>2. \A i \in Listening : socket_fds'[i] = [fd |-> i, events |-> "IN"]
    BY <1>1, <1>4 DEF Polled
  <2>3. ASSUME NEW n \in Later'
        PROVE  Wired(fdtab'[FdAt(n)'], socket_fds'[n].events)
    <3>1. fdtab'[FdAt(n)'] = fdtab[FdAt(n)']
      BY <1>8 DEF Stays
    <3>2. CASE n <= c
      BY <1>1, <1>4, <1>8, <3>1, <3>2 DEF Polled
    <3>3. CASE ~(n <= c)
      BY <1>1, <1>4, <1>8, <3>1, <3>3 DEF Pending
    <3> QED BY <3>2, <3>3
  <2>4. ASSUME NEW m \in Later', NEW n \in Later', socket_fds'[m] = socket_fds'[n]
        PROVE  m = n
    <3>1. FdAt(m)' = FdAt(n)'
      BY <2>4, <1>8
    <3>2. CASE m <= c /\ n <= c
      <4>1. at(m) = at(n)
        BY <1>1, <1>4, <2>4, <3>2 DEF Polled
      <4> QED BY <1>4, <1>6, <3>2, <4>1
    <3>3. CASE ~(m <= c) /\ ~(n <= c)
      <4>1. /\ m - c \in 1 .. Len(buffer_new_fd) /\ n - c \in 1 .. Len(buffer_new_fd)
            /\ buffer_new_fd[m - c] = buffer_new_fd[n - c]
        BY <1>4, <2>4, <3>3
      <4>2. m - c = n - c
        BY <1>1, <4>1 DEF Pending, Distinct
      <4> QED BY <1>4, <1>8, <4>2
    <3>4. CASE m <= c /\ ~(n <= c)
      <4>1. at(m) \in Later /\ FdAt(m)' = FdAt(at(m))
        BY <1>4, <1>8, <3>4
      <4>2. socket_fds'[n] \in Added /\ FdAt(n)' = socket_fds'[n].fd
        BY <1>8, <3>4
      <4>3. FdAt(at(m)) # socket_fds'[n].fd
        BY <1>1, <4>1, <4>2 DEF Pending
      <4> QED BY <3>1, <4>1, <4>2, <4>3
    <3>5. CASE ~(m <= c) /\ n <= c
      <4>1. at(n) \in Later /\ FdAt(n)' = FdAt(at(n))
        BY <1>4, <1>8, <3>5
      <4>2. socket_fds'[m] \in Added /\ FdAt(m)' = socket_fds'[m].fd
        BY <1>8, <3>5
      <4>3. FdAt(at(n)) # socket_fds'[m].fd
        BY <1>1, <4>1, <4>2 DEF Pending
      <4> QED BY <3>1, <4>1, <4>2, <4>3
    <3> QED BY <3>2, <3>3, <3>4, <3>5
  <2> QED BY <2>1, <2>2, <2>3, <2>4 DEF Polled
<1>10. Pending' /\ Accepted' /\ Opened'
  <2>1. Distinct(buffer_new_fd')
    BY <1>2 DEF Distinct
  <2> QED BY <1>3, <2>1 DEF Pending, Accepted, Opened
<1>11. \A f : Watched(f)' <=> \E n \in Later' : FdAt(n)' = f
  BY <1>3 DEF Watched
<1>12. Mapped'
  <2>1. ASSUME NEW f \in Fd, Watched(f)'
        PROVE  client_mapping'[f] = Owner(f)'
    <3>1. PICK n \in Later' : FdAt(n)' = f
      BY <1>11, <2>1
    <3>2. Stays(f)
      BY <1>8, <3>1
    <3>3. Watched(f) /\ ~(\E j \in Later : FdAt(j) = f /\ f \in Marks)
      <4>1. CASE n <= c
        <5>1. f = FdAt(at(n)) /\ at(n) \in Later /\ f \notin Marks
          BY <1>4, <1>8, <3>1, <4>1
        <5> QED BY <5>1 DEF Watched
      <4>2. CASE ~(n <= c)
        <5>1. PICK e \in Added : f = e.fd
          BY <1>8, <3>1, <4>2
        <5> QED BY <1>1, <5>1 DEF Watched, Pending
      <4> QED BY <4>1, <4>2
    <3>4. ~(\E x \in Doomed : f \in Held(x))
      BY <1>1, <3>2, HeldByDoomed DEF Stays
    <3>5. client_mapping'[f] = client_mapping[f]
      BY <1>5, <3>3, <3>4
    <3> QED BY <1>1, <3>2, <3>3, <3>5 DEF Mapped, Stays, Owner
  <2>2. ASSUME NEW f \in Fd, ~(Watched(f)')
        PROVE  client_mapping'[f] = Nobody
    <3>1. CASE \E j \in Later : FdAt(j) = f
      <4>1. PICK j \in Later : FdAt(j) = f
        BY <3>1
      <4>2. CASE f \in Marks
        BY <1>5, <4>1, <4>2
      <4>3. CASE f \notin Marks
        <5>1. PICK n \in Later' : socket_fds'[n] = socket_fds[j]
          BY <1>4, <4>1, <4>3
        <5>2. FdAt(n)' = f
          BY <1>8, <4>1, <5>1 DEF FdAt
        <5> QED BY <1>11, <2>2, <5>2
      <4> QED BY <4>2, <4>3
    <3>2. CASE \E e \in Added : e.fd = f
      <4>1. PICK e \in Added : e.fd = f
        BY <3>2
      <4>2. PICK n \in Later' : socket_fds'[n] = e
        BY <1>4
      <4> QED BY <1>8, <1>11, <2>2, <4>1, <4>2
    <3>3. CASE ~Watched(f)
      BY <1>1, <1>5, <3>3 DEF Mapped
    <3> QED BY <3>1, <3>2, <3>3 DEF Watched
  <2>3. \A f \in Fd : client_mapping'[f] = IF Watched(f)' THEN Owner(f)' ELSE Nobody
    BY <2>1, <2>2
  <2> QED BY <2>3 DEF Mapped
<1>13. BothWays'
  <2>1. ASSUME NEW y \in Present', NEW dir \in {"IN", "OUT"}
        PROVE  \/ \E j \in Later' :
                     socket_fds'[j] = [fd |-> client'[y].sock, events |-> dir]
               \/ [fd |-> client'[y].sock, events |-> dir] \in Added'
    <3>1. y \in Present /\ y \notin Doomed /\ client'[y] = client[y] /\ y \in Conn
      BY <1>2 DEF Present, NoClient
    <3>2. ~client[y].doomed
      BY <3>1 DEF Doomed
    <3>3. CASE \E j \in Later : socket_fds[j] = [fd |-> client[y].sock, events |-> dir]
      <4>1. PICK j \in Later : socket_fds[j] = [fd |-> client[y].sock, events |-> dir]
        BY <3>3
      <4>2. FdAt(j) = client[y].sock /\ client[y].sock \in Fd
            /\ fdtab[client[y].sock] = <<"socket", y>>
        <5>1. Owns(y, client[y], fdtab)
          BY <1>1, <3>1 DEF Sound, Ownership
        <5> QED BY <4>1, <5>1 DEF Owns, FdAt
      <4>3. FdAt(j) \notin Marks
        <5>1. Kind(FdAt(j)) = "socket" /\ Owner(FdAt(j)) = y
          BY <4>2 DEF Kind, Owner
        <5> QED BY <1>1, <3>2, <5>1 DEF Erasures
      <4> QED BY <1>4, <3>1, <4>1, <4>3
    <3>4. CASE [fd |-> client[y].sock, events |-> dir] \in Added
      BY <1>4, <3>1, <3>4
    <3> QED BY <1>1, <3>1, <3>3, <3>4 DEF BothWays
  <2> QED BY <2>1 DEF BothWays
<1>14. SocketsFirst'
  <2>1. ASSUME NEW m \in Later', NEW n \in Later', Owner(FdAt(m)') = Owner(FdAt(n)'),
               Kind(FdAt(m)') = "socket", Kind(FdAt(n)') # "socket"
        PROVE  m < n
    <3>1. CASE m <= c /\ n <= c
      <4>1. /\ at(m) \in Later /\ at(n) \in Later /\ m \in 1 .. c /\ n \in 1 .. c
            /\ FdAt(m)' = FdAt(at(m)) /\ FdAt(n)' = FdAt(at(n))
        BY <1>4, <1>8, <3>1
      <4>2. at(m) < at(n)
        BY <1>1, <2>1, <4>1 DEF SocketsFirst
      <4>3. at(m) \in Int /\ at(n) \in Int /\ m \in Int /\ n \in Int
        BY <1>4, <4>1 DEF Later
      <4>4. ~(n < m) /\ m # n
        BY <1>7, <4>1, <4>2, <4>3
      <4> QED BY <4>3, <4>4
    <3>2. CASE m <= c /\ ~(n <= c)
      BY <1>4, <1>8, <3>2
    <3>3. CASE ~(m <= c)
      <4>1. client[Owner(FdAt(m)')].content = "none"
        BY <1>1, <1>8, <2>1, <3>3 DEF Accepted
      <4>2. client[Owner(FdAt(n)')].content # "none"
        <5>1. FdAt(n)' \in Fd /\ fdtab[FdAt(n)'] \in Roles \X Conn
          BY <1>8 DEF Stays
        <5> QED BY <1>1, <2>1, <5>1, OwnerHolds DEF Roles
      <4> QED BY <2>1, <4>1, <4>2
    <3> QED BY <3>1, <3>2, <3>3
  <2>2. \A n \in Later' : /\ fdtab'[FdAt(n)'] = fdtab[FdAt(n)']
    BY <1>8 DEF Stays
  <2> QED BY <2>1, <2>2 DEF SocketsFirst, Kind, Owner
<1>15. ASSUME NEW n \in Later'
       PROVE  /\ fdtab'[FdAt(n)'] = fdtab[FdAt(n)']
              /\ client'[fdtab'[FdAt(n)'][2]] = client[Owner(FdAt(n)')]
              /\ ~client[Owner(FdAt(n)')].doomed
              /\ ~(/\ Kind(FdAt(n)') \in {"file", "cgiOut"}
                   /\ client[Owner(FdAt(n)')].ready)
              /\ ~("hangup" \in Faults /\ Kind(FdAt(n)') = "cgiIn"
                   /\ client[Owner(FdAt(n)')].ready)
  <2>1. /\ fdtab'[FdAt(n)'] = fdtab[FdAt(n)']
        /\ client'[fdtab'[FdAt(n)'][2]] = client[Owner(FdAt(n)')]
        /\ ~client[Owner(FdAt(n)')].doomed
    BY <1>8 DEF Stays, Doomed, Owner
  <2>2. CASE n <= c
    <3>1. FdAt(n)' = FdAt(at(n)) /\ at(n) \in Later /\ FdAt(at(n)) \notin Marks
      BY <1>4, <1>8, <2>2
    <3> QED BY <1>1, <1>3, <2>1, <3>1 DEF ReadyMarked, InputMarked
  <2>3. CASE ~(n <= c)
    <3>1. PICK e \in Added : FdAt(n)' = e.fd
      BY <1>8, <2>3
    <3> QED BY <1>1, <2>1, <3>1 DEF Opened
  <2> QED BY <2>2, <2>3, <2>1
<1>16. Erasures'
  BY <1>2, <1>3, <1>15 DEF Erasures, Owner
<1>17. ReadyMarked'
  BY <1>15 DEF ReadyMarked, Owner, Kind
<1>18. InputMarked' /\ InRound'
  <2>1. (\A j : ~(Passed(j)')) /\ pc'.at # "client"
    BY <1>2 DEF Passed
  <2> QED BY <1>15, <2>1 DEF InputMarked, InRound, Owner, Kind
<1> QED BY <1>9, <1>10, <1>12, <1>13, <1>14, <1>16, <1>17, <1>18 DEF Tables

----------------------------------------------------------------------------
(* The exchanges, in the steps that are not the handling of an entry       *)

\* Every connection is one of NetRec, every client one of ClientRec.
LEMMA ExchangeTypes ==
  ASSUME IInv, NEW x \in Conn
  PROVE  /\ net \in [Conn -> NetRec] /\ net[x] \in NetRec
         /\ net[x].inbox \in Seq(Segments) /\ net[x].unsent \in Seq(Segments)
         /\ Len(net[x].inbox) \in Nat /\ Len(net[x].unsent) \in Nat /\ Unread(net[x]) \in Nat
         /\ client \in [Conn -> ClientRec] /\ client[x] \in ClientRec
         /\ kid \in [Conn -> Kid] /\ kid[x] \in Kid
<1>1. net \in [Conn -> NetRec] /\ client \in [Conn -> ClientRec] /\ kid \in [Conn -> Kid]
  BY DEF IInv, Sound, Lists, Types
<1>2. net[x] \in NetRec /\ client[x] \in ClientRec /\ kid[x] \in Kid
  BY <1>1
<1>3. net[x].inbox \in Seq(Segments) /\ net[x].unsent \in Seq(Segments)
  BY <1>2 DEF NetRec
<1>4. Len(net[x].inbox) \in Nat /\ Len(net[x].unsent) \in Nat
  BY <1>3
<1>5. Unread(net[x]) \in Nat
  <2> DEFINE a == Len(net[x].inbox)
             b == Len(net[x].unsent)
  <2>1. Unread(net[x]) = a + b /\ a \in Nat /\ b \in Nat
    BY <1>4 DEF Unread
  <2> HIDE DEF a, b
  <2> QED BY <2>1
<1> QED BY <1>1, <1>2, <1>3, <1>4, <1>5

\* A client that was not there, or has just come, fits whatever its peer asks.
LEMMA BlankFits ==
  ASSUME NEW ask, NEW f
  PROVE  /\ Fit(NoClient, ask)
         /\ Fit([NoClient EXCEPT !.here = TRUE, !.sock = f], ask)
         /\ [NoClient EXCEPT !.here = TRUE, !.sock = f].req = "none"
         /\ NoClient.req = "none"
         /\ Healthy(NoKid, ask)
<1>1. Fit(NoClient, ask) /\ NoClient.req = "none"
  BY DEF Fit, NoClient, Routed
<1>2. Fit([NoClient EXCEPT !.here = TRUE, !.sock = f], ask)
      /\ [NoClient EXCEPT !.here = TRUE, !.sock = f].req = "none"
  BY DEF Fit, NoClient, Routed
<1>3. Healthy(NoKid, ask)
  BY DEF Healthy, NoKid
<1> QED BY <1>1, <1>2, <1>3

\* Who asked for nothing may ask for what is on its way.
LEMMA OneRequestNone ==
  ASSUME NEW n, NEW req \in FrontRequest, Unread(n) \in Nat, OneRequest(n, req)
  PROVE  OneRequest(n, "none")
BY DEF OneRequest, Routed, FrontRequest

LEMMA SameMail ==
  ASSUME NEW m, NEW n, m.inbox = n.inbox, m.unsent = n.unsent, NEW req, OneRequest(n, req)
  PROVE  OneRequest(m, req)
BY DEF OneRequest, Unread, NextSegment

\* Nothing changed for x.
LEMMA ExchangeKept ==
  ASSUME NEW x \in Conn, Exchange(x),
         client'[x] = client[x], net'[x] = net[x], kid'[x] = kid[x]
  PROVE  Exchange(x)'
BY DEF Exchange

\* Of the other steps of the loop.
LEMMA LoopExchanges ==
  ASSUME IInv, Exchanges, Poll \/ HandleServer \/ ResetFds
  PROVE  Exchanges'
<1> SUFFICES ASSUME NEW x \in Conn PROVE Exchange(x)'
  BY DEF Exchanges
<1>1. Exchange(x) /\ Sound
  BY DEF Exchanges, IInv
<1>2. CASE client'[x] = client[x] /\ net'[x] = net[x] /\ kid'[x] = kid[x]
  BY <1>1, <1>2, ExchangeKept
<1>3. /\ net \in [Conn -> NetRec] /\ net[x] \in NetRec /\ Unread(net[x]) \in Nat
      /\ client \in [Conn -> ClientRec] /\ client[x] \in ClientRec
  BY ExchangeTypes, <1>1
<1>4. CASE Poll
  BY <1>2, <1>4 DEF Poll
<1>5. CASE HandleServer
  <2>1. CASE UNCHANGED <<client, net>>
    BY <1>2, <1>5, <2>1 DEF HandleServer
  <2>2. CASE ~UNCHANGED <<client, net>>
    <3> DEFINE y == Head(backlog[pc.i])
    <3>1. /\ pc.i \in Listening /\ backlog[pc.i] # <<>>
          /\ \E f \in Fd : client' = [client EXCEPT ![y] = [NoClient EXCEPT !.here = TRUE, !.sock = f]]
          /\ net' = [net EXCEPT ![y].stage = "accepted"] /\ kid' = kid
      BY <1>1, <1>5, <2>2 DEF HandleServer, NthFree, Sound, Types
    <3>2. y \in Conn /\ net[y].stage = "queued"
      <4>1. backlog[pc.i] \in Seq(Conn)
        BY <1>1, <3>1 DEF Sound, Types
      <4>2. y \in Conn /\ 1 \in 1 .. Len(backlog[pc.i]) /\ y = backlog[pc.i][1]
        BY <3>1, <4>1
      <4> QED BY <1>1, <3>1, <4>2 DEF Sound, Queues
    <3> HIDE DEF y
    <3>3. CASE x # y
      BY <1>2, <1>3, <3>1, <3>2, <3>3
    <3>4. CASE x = y
      <4>1. PICK f \in Fd : client' = [client EXCEPT ![y] = [NoClient EXCEPT !.here = TRUE, !.sock = f]]
        BY <3>1
      <4>2. client[x] = NoClient
        BY <1>1, <3>2, <3>4 DEF Sound, Queues, Ownership, Absent
      <4> DEFINE d == [NoClient EXCEPT !.here = TRUE, !.sock = f]
                 n == [net[x] EXCEPT !.stage = "accepted"]
      <4>3. Fit(d, net[x].ask) /\ d.req = "none" /\ client[x].req = "none"
        BY <4>2, BlankFits
      <4>4. /\ n.ask = net[x].ask /\ n.inbox = net[x].inbox /\ n.unsent = net[x].unsent
            /\ n.up = net[x].up /\ n.stage = "accepted"
        BY <1>3 DEF NetRec
      <4>5. client'[x] = d /\ net'[x] = n /\ kid'[x] = kid[x]
        BY <1>3, <3>1, <3>4, <4>1
      <4> HIDE DEF d, n
      <4>6. OneRequest(n, "none")
        BY <1>1, <4>3, <4>4, SameMail DEF Exchange
      <4>7. Peer(x, n)
        BY <1>1, <3>2, <3>4, <4>4 DEF Exchange, Peer
      <4> QED BY <1>1, <4>3, <4>4, <4>5, <4>6, <4>7 DEF Exchange
    <3> QED BY <3>3, <3>4
  <2> QED BY <2>1, <2>2
<1>6. CASE ResetFds
  <2>1. /\ client'[x] = IF x \in Doomed THEN NoClient ELSE client[x]
        /\ kid'[x] = IF x \in Doomed THEN NoKid ELSE kid[x]
        /\ net'[x] = IF x \in Doomed THEN [net[x] EXCEPT !.stage = "closed"] ELSE net[x]
    BY <1>6 DEF ResetFds
  <2>2. CASE x \notin Doomed
    BY <1>2, <2>1, <2>2
  <2>3. CASE x \in Doomed
    <3> DEFINE n == [net[x] EXCEPT !.stage = "closed"]
    <3>1. /\ n.ask = net[x].ask /\ n.inbox = net[x].inbox /\ n.unsent = net[x].unsent
          /\ n.stage = "closed"
      BY <1>3 DEF NetRec
    <3>2. client'[x] = NoClient /\ net'[x] = n /\ kid'[x] = NoKid
      BY <2>1, <2>3
    <3> HIDE DEF n
    <3>3. OneRequest(net[x], "none")
      <4>1. client[x].req \in FrontRequest
        BY <1>3 DEF ClientRec
      <4> QED BY <1>1, <1>3, <4>1, OneRequestNone DEF Exchange
    <3>4. OneRequest(n, "none")
      BY <3>1, <3>3, SameMail
    <3>5. Peer(x, n)
      BY <1>1, <3>1 DEF Exchange, Peer
    <3>6. Fit(NoClient, n.ask) /\ NoClient.req = "none" /\ Healthy(NoKid, n.ask)
      BY BlankFits
    <3> QED BY <3>2, <3>4, <3>5, <3>6 DEF Exchange
  <2> QED BY <2>2, <2>3
<1> QED BY <1>4, <1>5, <1>6

\* The process ends.
LEMMA EndExchanges ==
  ASSUME IInv, Exchanges, NEW how, ProcessEnds(how), UNCHANGED net
  PROVE  Exchanges'
<1> SUFFICES ASSUME NEW x \in Conn PROVE Exchange(x)'
  BY DEF Exchanges
<1>1. Exchange(x)
  BY DEF Exchanges
<1>2. client'[x] = NoClient /\ kid'[x] = NoKid /\ net'[x] = net[x]
  BY DEF ProcessEnds
<1>3. OneRequest(net[x], "none")
  <2>1. client[x].req \in FrontRequest /\ Unread(net[x]) \in Nat
    <3>1. client[x] \in ClientRec /\ Unread(net[x]) \in Nat
      BY ExchangeTypes
    <3> QED BY <3>1 DEF ClientRec
  <2> QED BY <1>1, <2>1, OneRequestNone DEF Exchange
<1>4. /\ Fit(NoClient, net[x].ask) /\ NoClient.req = "none" /\ Healthy(NoKid, net[x].ask)
  BY BlankFits
<1> QED BY <1>1, <1>2, <1>3, <1>4 DEF Exchange

LEMMA InitExchanges == Init => Exchanges
<1> SUFFICES ASSUME Init, NEW x \in Conn PROVE Exchange(x)
  BY DEF Exchanges
<1>1. /\ client[x] = NoClient /\ kid[x] = NoKid
      /\ net[x] = [stage |-> "new", ask |-> "page", unsent |-> <<>>,
                   inbox |-> <<>>, up |-> FALSE, answered |-> 0]
  BY DEF Init
<1>2. net[x].ask = "page" /\ net[x].stage = "new" /\ Unread(net[x]) = 0
  BY <1>1 DEF Unread
<1>3. OneRequest(net[x], "none") /\ Peer(x, net[x])
  BY <1>2 DEF OneRequest, Routed, Peer
<1> QED BY <1>1, <1>3, BlankFits DEF Exchange

----------------------------------------------------------------------------
(* The exchanges, in the steps of peers and children                       *)

\* A segment that arrives is still one to read, and the next is the same.
LEMMA SendKeeps ==
  ASSUME NEW n, NEW m, n.inbox \in Seq(Segments), n.unsent \in Seq(Segments),
         n.unsent # <<>>, m.inbox = Append(n.inbox, Head(n.unsent)), m.unsent = Tail(n.unsent)
  PROVE  Unread(m) = Unread(n) /\ NextSegment(m) = NextSegment(n)
<1>1. /\ Len(m.inbox) = Len(n.inbox) + 1 /\ Len(m.unsent) = Len(n.unsent) - 1
      /\ Len(n.inbox) \in Nat /\ Len(n.unsent) \in Nat
  <2>1. Head(n.unsent) \in Segments /\ Len(n.unsent) # 0
    OBVIOUS
  <2>2. Len(Append(n.inbox, Head(n.unsent))) = Len(n.inbox) + 1
        /\ Len(Tail(n.unsent)) = Len(n.unsent) - 1
    BY <2>1
  <2> QED BY <2>2
<1>2. Unread(m) = Unread(n)
  <2> DEFINE a == Len(n.inbox)
             b == Len(n.unsent)
  <2>1. Unread(n) = a + b /\ Unread(m) = (a + 1) + (b - 1) /\ a \in Nat /\ b \in Nat
    BY <1>1 DEF Unread
  <2> HIDE DEF a, b
  <2> QED BY <2>1
<1>3. NextSegment(m) = NextSegment(n)
  <2>1. Head(n.unsent) = n.unsent[1] /\ Head(n.unsent) \in Segments
    OBVIOUS
  <2>2. /\ m.inbox # <<>> /\ m.inbox[Len(n.inbox) + 1] = Head(n.unsent)
        /\ \A k \in 1 .. Len(n.inbox) : m.inbox[k] = n.inbox[k]
    <3> DEFINE s == n.inbox
               e == Head(n.unsent)
    <3> HIDE DEF s, e
    <3>1. s \in Seq(Segments) /\ e \in Segments /\ m.inbox = Append(s, e)
      BY <2>1 DEF s, e
    <3>2. Append(s, e)[Len(s) + 1] = e /\ Len(Append(s, e)) = Len(s) + 1 /\ Len(s) \in Nat
      BY <3>1
    <3>3. Append(s, e) # <<>>
      BY <3>1, <3>2
    <3>4. \A k \in 1 .. Len(s) : Append(s, e)[k] = s[k]
      BY <3>1
    <3> QED BY <3>1, <3>2, <3>3, <3>4 DEF s, e
  <2>3. CASE n.inbox = <<>>
    BY <2>1, <2>2, <2>3 DEF NextSegment
  <2>4. CASE n.inbox # <<>>
    <3>1. 1 \in 1 .. Len(n.inbox)
      BY <2>4
    <3> QED BY <2>2, <2>4, <3>1 DEF NextSegment
  <2> QED BY <2>3, <2>4
<1> QED BY <1>2, <1>3

LEMMA PeerExchanges ==
  ASSUME Orderly, IInv, Exchanges, NEW y \in Conn, Connect(y) \/ Send(y) \/ HangUp(y)
  PROVE  Exchanges'
<1> SUFFICES ASSUME NEW x \in Conn PROVE Exchange(x)'
  BY DEF Exchanges
<1>1. Exchange(x) /\ Exchange(y) /\ Sound
  BY DEF Exchanges, IInv
<1>2. /\ net \in [Conn -> NetRec] /\ net[y] \in NetRec
      /\ net[y].inbox \in Seq(Segments) /\ net[y].unsent \in Seq(Segments)
      /\ Len(net[y].inbox) \in Nat /\ Len(net[y].unsent) \in Nat
  BY ExchangeTypes
<1>3. client' = client /\ kid' = kid
  BY DEF Connect, Send, HangUp, proc
<1>4. CASE x # y
  <2>1. net'[x] = net[x]
    BY <1>2, <1>4 DEF Connect, Send, HangUp
  <2> QED BY <1>1, <1>3, <2>1, ExchangeKept
<1>5. CASE x = y /\ Connect(y)
  <2>1. PICK r \in Requests[y] :
           net' = [net EXCEPT ![y] = [@ EXCEPT !.stage = "queued", !.ask = r[1],
                                              !.unsent = r[2], !.up = TRUE]]
    BY <1>5 DEF Connect
  <2> DEFINE n == [net[y] EXCEPT !.stage = "queued", !.ask = r[1], !.unsent = r[2], !.up = TRUE]
  <2>2. net'[y] = n
    BY <1>2, <2>1
  <2>3. /\ n.stage = "queued" /\ n.ask = r[1] /\ n.unsent = r[2] /\ n.up = TRUE
        /\ n.inbox = net[y].inbox
    BY <1>2 DEF NetRec
  <2> HIDE DEF n
  <2>4. net[y].stage = "new" /\ net[y].ask # "cgi" /\ Unread(net[y]) = 0
    BY <1>1, <1>5 DEF Connect, Exchange, Peer
  <2>5. n.inbox = <<>> /\ Len(n.inbox) = 0
    <3> DEFINE a == Len(net[y].inbox)
               b == Len(net[y].unsent)
    <3>1. a + b = 0 /\ a \in Nat /\ b \in Nat
      BY <1>2, <2>4 DEF Unread
    <3>2. a = 0
      <4> HIDE DEF a, b
      <4> QED BY <3>1
    <3> QED BY <1>2, <2>3, <3>2
  <2>6. /\ r \in Asks \X Seq(Segments) /\ r[2] \in Seq(Segments) /\ Len(r[2]) \in Nat
        /\ \/ Len(r[2]) <= 1
           \/ Len(r[2]) = 2 /\ r[2][1] = "head" /\ Calm
    <3>1. r \in Asks \X Seq(Segments)
      BY RequestsAssumption
    <3>2. r[2] \in Seq(Segments)
      BY <3>1
    <3> QED BY <3>1, <3>2 DEF Orderly
  <2>7. Unread(n) = Len(r[2]) /\ NextSegment(n) = r[2][1]
    <3> DEFINE b == Len(r[2])
    <3>1. Unread(n) = 0 + b /\ b \in Nat
      BY <2>3, <2>5, <2>6 DEF Unread
    <3>2. NextSegment(n) = r[2][1]
      BY <2>3, <2>5 DEF NextSegment
    <3> HIDE DEF b
    <3>3. Unread(n) = b
      BY <3>1
    <3> QED BY <3>2, <3>3 DEF b
  <2>8. OneRequest(n, "none")
    <3> DEFINE b == Len(r[2])
    <3> HIDE DEF b
    <3>1. b \in Nat /\ Unread(n) = b /\ (b <= 1 \/ (b = 2 /\ NextSegment(n) = "head" /\ Calm))
      BY <2>6, <2>7 DEF b
    <3> QED BY <3>1 DEF OneRequest, Routed
  <2>9. client[y] = NoClient
    <3>1. y \notin Present
      BY <1>1, <2>4 DEF Sound, Queues
    <3> QED BY <1>1, <3>1 DEF Sound, Ownership, Absent
  <2>10. Fit(client[y], n.ask) /\ client[y].req = "none"
    BY <2>9, BlankFits
  <2>11. Healthy(kid[y], n.ask)
    BY <1>1, <2>4 DEF Exchange, Healthy
  <2>12. Peer(y, n)
    BY <2>3 DEF Peer
  <2> QED BY <1>3, <1>5, <2>2, <2>8, <2>10, <2>11, <2>12 DEF Exchange
<1>6. CASE x = y /\ Send(y)
  <2> DEFINE n == [net[y] EXCEPT !.inbox = Append(@, Head(net[y].unsent)),
                                 !.unsent = Tail(@)]
  <2>1. net'[y] = n /\ net[y].unsent # <<>>
    BY <1>2, <1>6 DEF Send
  <2>2. /\ n.stage = net[y].stage /\ n.ask = net[y].ask /\ n.up = net[y].up
        /\ n.inbox = Append(net[y].inbox, Head(net[y].unsent))
        /\ n.unsent = Tail(net[y].unsent)
    BY <1>2 DEF NetRec
  <2> HIDE DEF n
  <2>3. Unread(n) = Unread(net[y]) /\ NextSegment(n) = NextSegment(net[y])
    BY <1>2, <2>1, <2>2, SendKeeps
  <2>4. OneRequest(n, client[y].req) /\ Peer(y, n)
    BY <1>1, <2>2, <2>3 DEF Exchange, OneRequest, Peer
  <2> QED BY <1>1, <1>3, <1>6, <2>1, <2>2, <2>4 DEF Exchange
<1>7. CASE x = y /\ HangUp(y)
  <2> DEFINE n == [net[y] EXCEPT !.up = FALSE]
  <2>1. net'[y] = n /\ "hangup" \in Faults
    BY <1>2, <1>7 DEF HangUp
  <2>2. /\ n.stage = net[y].stage /\ n.ask = net[y].ask /\ n.inbox = net[y].inbox
        /\ n.unsent = net[y].unsent
    BY <1>2 DEF NetRec
  <2> HIDE DEF n
  <2>3. OneRequest(n, client[y].req)
    BY <1>1, <2>2, SameMail DEF Exchange
  <2>4. Peer(y, n)
    BY <1>1, <2>1, <2>2 DEF Exchange, Peer, Unread
  <2> QED BY <1>1, <1>3, <1>7, <2>1, <2>2, <2>3, <2>4 DEF Exchange
<1> QED BY <1>4, <1>5, <1>6, <1>7

LEMMA KidExchanges ==
  ASSUME Orderly, IInv, Exchanges, NEW y \in Conn,
         KidWrites(y) \/ KidReads(y) \/ KidExits(y) \/ KidFails(y)
  PROVE  Exchanges'
<1> SUFFICES ASSUME NEW x \in Conn PROVE Exchange(x)'
  BY DEF Exchanges
<1>1. Exchange(x) /\ Exchange(y)
  BY DEF Exchanges
<1>2. kid \in [Conn -> Kid] /\ kid[y] \in Kid
  BY ExchangeTypes
<1>3. client' = client /\ net' = net
  BY DEF KidWrites, KidReads, KidExits, KidFails, proc
<1>4. CASE x # y
  <2>1. kid'[x] = kid[x]
    BY <1>2, <1>4 DEF KidWrites, KidReads, KidExits, KidFails
  <2> QED BY <1>1, <1>3, <2>1, ExchangeKept
<1>5. CASE x = y
  <2>1. Healthy(kid'[y], net[y].ask)
    <3>1. CASE KidWrites(y)
      <4>1. kid'[y] = [kid[y] EXCEPT !.out = "unread"]
        BY <1>2, <3>1 DEF KidWrites
      <4> QED BY <1>1, <1>2, <4>1 DEF Exchange, Healthy, Kid
    <3>2. CASE KidReads(y)
      <4>1. kid'[y] = [kid[y] EXCEPT !.full = FALSE]
        BY <1>2, <3>2 DEF KidReads
      <4> QED BY <1>1, <1>2, <4>1 DEF Exchange, Healthy, Kid
    <3>3. CASE KidExits(y)
      <4>1. kid'[y] = [kid[y] EXCEPT !.run = "ok"] /\ kid[y].run = "running"
            /\ (~kid[y].full \/ "ignores" \in Faults)
        BY <1>2, <3>3 DEF KidExits
      <4>2. ~kid[y].full
        BY <1>1, <4>1 DEF Exchange, Healthy, Calm
      <4> QED BY <1>1, <1>2, <4>1, <4>2 DEF Exchange, Healthy, Kid
    <3>4. CASE KidFails(y)
      <4>1. "crash" \in Faults \/ kid[y].shot
        BY <3>4 DEF KidFails
      <4> QED BY <1>1, <4>1 DEF Exchange, Healthy, Orderly
    <3> QED BY <3>1, <3>2, <3>3, <3>4
  <2> QED BY <1>1, <1>3, <1>5, <2>1 DEF Exchange
<1> QED BY <1>4, <1>5

\* The handler of a client of x returns.
LEMMA StoreExchanges ==
  ASSUME IInv, Exchanges, NEW x \in Present, NEW p, Store(x, p), Talk(x, p)
  PROVE  Exchanges'
<1> SUFFICES ASSUME NEW y \in Conn PROVE Exchange(y)'
  BY DEF Exchanges
<1>1. Exchange(x) /\ Exchange(y) /\ x \in Conn
  BY DEF Exchanges, Present
<1>2. /\ net \in [Conn -> NetRec] /\ net[x] \in NetRec /\ client \in [Conn -> ClientRec]
  BY <1>1, ExchangeTypes
<1>3. /\ client' = [client EXCEPT ![x] = p.c] /\ kid' = p.kid
      /\ net' = [net EXCEPT ![x].inbox = p.inbox, ![x].answered = p.answered]
  BY DEF Store
<1>4. CASE y # x
  <2>1. client'[y] = client[y] /\ net'[y] = net[y] /\ kid'[y] = kid[y]
    BY <1>2, <1>3, <1>4 DEF Talk
  <2> QED BY <1>1, <2>1, ExchangeKept
<1>5. CASE y = x
  <2> DEFINE n == [net[x] EXCEPT !.inbox = p.inbox, !.answered = p.answered]
             m == [net[x] EXCEPT !.inbox = p.inbox]
  <2>1. client'[x] = p.c /\ kid'[x] = p.kid[x] /\ net'[x] = n
    <3>1. client'[x] = p.c /\ kid'[x] = p.kid[x]
      BY <1>1, <1>2, <1>3
    <3>2. net'[x] = n
      BY <1>1, <1>2, <1>3
    <3> QED BY <3>1, <3>2
  <2>2. /\ n.stage = net[x].stage /\ n.ask = net[x].ask /\ n.up = net[x].up
        /\ n.unsent = net[x].unsent /\ n.inbox = p.inbox
        /\ m.unsent = net[x].unsent /\ m.inbox = p.inbox
    BY <1>2 DEF NetRec
  <2>3. OneRequest(m, p.c.req)
    BY DEF Talk
  <2> HIDE DEF n, m
  <2>4. OneRequest(n, p.c.req)
    BY <2>2, <2>3, SameMail
  <2>5. net[x].stage # "new"
    BY DEF IInv, Sound, Queues
  <2>6. Peer(x, n)
    BY <1>1, <2>2, <2>5 DEF Exchange, Peer
  <2> QED BY <1>5, <2>1, <2>2, <2>4, <2>6 DEF Talk, Exchange
<1> QED BY <1>4, <1>5

----------------------------------------------------------------------------
(* Where handleClient() starts                                             *)

\* The loop is at entry i, of the client of x, which is to stay so far.
Handling(x, i) ==
    /\ IInv /\ Tables /\ Exchanges
    /\ pc.at = "client" /\ i = pc.i /\ x = Owner(FdAt(i)) /\ ~client[x].doomed

LEMMA HandlingFacts ==
  ASSUME NEW x, NEW i, Handling(x, i)
  PROVE  /\ x \in Conn /\ x \in Present /\ i \in Later /\ FdAt(i) \in Fd /\ ~Passed(i)
         /\ fdtab[FdAt(i)] = <<Kind(FdAt(i)), x>> /\ Kind(FdAt(i)) \in Roles
         /\ client[x] \in ClientRec /\ client[x].here /\ net[x] \in NetRec /\ kid \in [Conn -> Kid]
         /\ Owns(x, client[x], fdtab) /\ Good(Image(x), x, fdtab)
         /\ Exchange(x) /\ net[x].stage = "accepted"
<1>1. /\ IInv /\ Tables /\ Exchanges /\ pc.at = "client" /\ i = pc.i /\ x = Owner(FdAt(i))
      /\ Sound /\ Lists
  BY DEF Handling, IInv
<1>2. /\ i \in Later /\ FdAt(i) \in Fd /\ fdtab[FdAt(i)] \in Roles \X Conn
      /\ x \in Present /\ x \in Conn
  BY <1>1, AtEntry
<1>3. fdtab[FdAt(i)] = <<Kind(FdAt(i)), x>> /\ Kind(FdAt(i)) \in Roles
  BY <1>1, <1>2, OwnerHolds
<1>4. ~Passed(i)
  <2>1. i \in Int
    BY <1>1, <1>2, LaterEntries
  <2> QED BY <1>1, <2>1 DEF Passed
<1>5. /\ client[x] \in ClientRec /\ net[x] \in NetRec /\ kid \in [Conn -> Kid]
  BY <1>1, <1>2, ExchangeTypes
<1>6. client[x].here /\ Owns(x, client[x], fdtab) /\ net[x].stage = "accepted"
  BY <1>1, <1>2 DEF Present, Sound, Ownership, Queues
<1>7. Good(Image(x), x, fdtab)
  BY <1>1, <1>2, ImageGood
<1> QED BY <1>1, <1>2, <1>3, <1>4, <1>5, <1>6, <1>7 DEF Exchanges

LEMMA ImageIs ==
  ASSUME NEW x
  PROVE  /\ IsImage(Image(x)) /\ Image(x).x = x /\ Image(x).c = client[x]
         /\ Image(x).fd = fdtab /\ Image(x).kid = kid
         /\ Image(x).inbox = net[x].inbox /\ Image(x).up = net[x].up
         /\ Image(x).ask = net[x].ask /\ Image(x).answered = net[x].answered
         /\ Image(x).buf = buffer_new_fd /\ Image(x).del = fds_to_be_deleted
         /\ Image(x).map = client_mapping /\ Image(x).ret = TRUE /\ Image(x).killed = FALSE
BY DEF Image, IsImage, ImageFields

\* What a client has, entry by entry of the descriptor table.
LEMMA WhatIsHeld ==
  ASSUME NEW x, NEW i, Handling(x, i)
  PROVE  /\ Kind(FdAt(i)) = "socket" <=> FdAt(i) = client[x].sock
         /\ Kind(FdAt(i)) = "file" => client[x].content = "file" /\ FdAt(i) = client[x].in
         /\ Kind(FdAt(i)) = "cgiOut" => client[x].content = "cgi" /\ FdAt(i) = client[x].in
         /\ Kind(FdAt(i)) = "cgiIn" => client[x].content = "cgi" /\ FdAt(i) = client[x].out
         /\ Kind(FdAt(i)) # "socket" => client[x].content # "none"
         /\ Kind(FdAt(i)) \in {"file", "cgiOut"} => ~client[x].ready
<1>1. /\ FdAt(i) \in Fd /\ fdtab[FdAt(i)] = <<Kind(FdAt(i)), x>> /\ Kind(FdAt(i)) \in Roles
      /\ Owns(x, client[x], fdtab) /\ i \in Later /\ ~Passed(i) /\ ReadyMarked
      /\ x = Owner(FdAt(i))
  BY HandlingFacts DEF Handling, Tables
<1> DEFINE k == Kind(FdAt(i))
<1> HIDE DEF k
<1>2. fdtab[FdAt(i)] = <<k, x>> /\ k \in {"socket", "file", "cgiOut", "cgiIn"}
  BY <1>1 DEF k, Roles
<1>3. <<k, x>>[1] = k /\ <<"socket", x>>[1] = "socket"
  OBVIOUS
<1>4. k = "socket" <=> FdAt(i) = client[x].sock
  <2>1. FdAt(i) = client[x].sock => <<k, x>> = <<"socket", x>>
    BY <1>1, <1>2 DEF Owns
  <2>2. k = "socket" => FdAt(i) = client[x].sock
    BY <1>1, <1>2 DEF Owns
  <2> QED BY <1>3, <2>1, <2>2
<1>5. /\ k = "file" => client[x].content = "file" /\ FdAt(i) = client[x].in
      /\ k = "cgiOut" => client[x].content = "cgi" /\ FdAt(i) = client[x].in
      /\ k = "cgiIn" => client[x].content = "cgi" /\ FdAt(i) = client[x].out
  BY <1>1, <1>2 DEF Owns
<1>6. k \in {"file", "cgiOut"} => ~client[x].ready
  BY <1>1 DEF ReadyMarked, k
<1> QED BY <1>2, <1>4, <1>5, <1>6 DEF k

\* The descriptors of a content.
ContentFds(c) == CASE c.content = "none" -> <<>>
                   [] c.content = "file" -> <<c.in>>
                   [] OTHER -> <<c.in, c.out>>

LEMMA ContentFdsAre ==
  ASSUME NEW x \in Conn, NEW c \in ClientRec, NEW t, Owns(x, c, t)
  PROVE  /\ ContentFds(c) \in Seq(Fd)
         /\ \A f \in Range(ContentFds(c)) :
               f \in Fd /\ t[f] \in ContentRoles \X {x} /\ t[f][1] # "socket" /\ t[f][2] = x
         /\ \A f \in Fd : t[f] \in ContentRoles \X {x} => f \in Range(ContentFds(c))
<1>1. c.content \in {"none", "file", "cgi"}
  BY DEF ClientRec, ContentKind
<1>2. \A f \in Fd : t[f] \in ContentRoles \X {x} =>
         \/ t[f] = <<"file", x>> /\ c.content = "file" /\ f = c.in
         \/ t[f] = <<"cgiOut", x>> /\ c.content = "cgi" /\ f = c.in
         \/ t[f] = <<"cgiIn", x>> /\ c.content = "cgi" /\ f = c.out
  <2> SUFFICES ASSUME NEW f \in Fd, NEW role \in ContentRoles, t[f] = <<role, x>>
               PROVE  \/ t[f] = <<"file", x>> /\ c.content = "file" /\ f = c.in
                      \/ t[f] = <<"cgiOut", x>> /\ c.content = "cgi" /\ f = c.in
                      \/ t[f] = <<"cgiIn", x>> /\ c.content = "cgi" /\ f = c.out
    OBVIOUS
  <2> QED BY DEF ContentRoles, Owns
<1>3. \A role \in ContentRoles : /\ <<role, x>> \in ContentRoles \X {x}
                                 /\ <<role, x>>[1] # "socket" /\ <<role, x>>[2] = x
  BY DEF ContentRoles
<1>4. /\ c.content = "file" => c.in \in Fd /\ t[c.in] = <<"file", x>>
      /\ c.content = "cgi" => /\ c.in \in Fd /\ t[c.in] = <<"cgiOut", x>>
                              /\ c.out \in Fd /\ t[c.out] = <<"cgiIn", x>>
  BY DEF Owns
<1>5. CASE c.content = "none"
  <2>1. ContentFds(c) = <<>> /\ Range(<<>>) = {}
    BY <1>5 DEF ContentFds, Range
  <2> QED BY <1>2, <1>5, <2>1
<1>6. CASE c.content = "file"
  <2>1. ContentFds(c) = <<c.in>> /\ <<c.in>> \in Seq(Fd) /\ Range(<<c.in>>) = {c.in}
    <3>1. Range(<<c.in>>) = {c.in}
      BY DEF Range
    <3> QED BY <1>4, <1>6, <3>1 DEF ContentFds
  <2>2. t[c.in] \in ContentRoles \X {x} /\ t[c.in][1] # "socket" /\ t[c.in][2] = x
    BY <1>3, <1>4, <1>6 DEF ContentRoles
  <2>3. \A f \in Fd : t[f] \in ContentRoles \X {x} => f = c.in
    BY <1>2, <1>6
  <2> QED BY <1>4, <1>6, <2>1, <2>2, <2>3
<1>7. CASE c.content = "cgi"
  <2>1. /\ ContentFds(c) = <<c.in, c.out>> /\ <<c.in, c.out>> \in Seq(Fd)
        /\ Range(<<c.in, c.out>>) = {c.in, c.out}
    <3>1. Range(<<c.in, c.out>>) = {c.in, c.out}
      BY DEF Range
    <3> QED BY <1>4, <1>7, <3>1 DEF ContentFds
  <2>2. \A f \in {c.in, c.out} :
           t[f] \in ContentRoles \X {x} /\ t[f][1] # "socket" /\ t[f][2] = x
    BY <1>3, <1>4, <1>7 DEF ContentRoles
  <2>3. \A f \in Fd : t[f] \in ContentRoles \X {x} => f \in {c.in, c.out}
    BY <1>2, <1>7
  <2> QED BY <1>4, <1>7, <2>1, <2>2, <2>3
<1> QED BY <1>1, <1>5, <1>6, <1>7

\* A call that opens nothing.
LEMMA QuietOutcome ==
  ASSUME NEW x, NEW i, Handling(x, i), NEW p,
         p.c.sock = client[x].sock, p.buf = buffer_new_fd, p.map = client_mapping,
         \A f : Watched(f) => p.fd[f] = fdtab[f],
         p.c.ready => \/ client[x].ready \/ client[x].content = "none"
                      \/ Kind(FdAt(i)) \in {"file", "cgiOut"},
         NEW new \in Seq(Fd), Deletes(x, i, p, new)
  PROVE  Outcome(x, i, p)
<1>1. <<>> \in Seq(Entry) /\ Range(<<>>) = {} /\ buffer_new_fd \o <<>> = buffer_new_fd
  BY DEF Range, Handling, IInv, Lists
<1>2. Distinct(<<>>)
  BY DEF Distinct
<1>3. client_mapping = [f \in Fd |-> IF \E e \in Range(<<>>) : e.fd = f THEN x
                                     ELSE client_mapping[f]]
  BY <1>1 DEF Handling, IInv, Sound, Types
<1>4. Adds(x, i, p, <<>>)
  BY <1>1, <1>2, <1>3 DEF Adds
<1> QED BY <1>1, <1>4 DEF Outcome

\* A call for a content entry, which opens and closes nothing.
LEMMA ContentHandled ==
  ASSUME NEW x, NEW i, Handling(x, i), Kind(FdAt(i)) # "socket", NEW p,
         p.fd = fdtab, p.buf = buffer_new_fd, p.map = client_mapping,
         p.inbox = net[x].inbox, p.answered = net[x].answered,
         p.c.sock = client[x].sock, ~p.c.doomed, p.c.req = client[x].req,
         Fit(p.c, net[x].ask), Healthy(p.kid[x], net[x].ask),
         \A y \in Conn : y # x => p.kid[y] = kid[y],
         client[x].begun => p.c.begun,
         p.c.ready => client[x].ready \/ Kind(FdAt(i)) \in {"file", "cgiOut"},
         \/ /\ p.del = fds_to_be_deleted
            /\ ~(Kind(FdAt(i)) \in {"file", "cgiOut"} /\ p.c.ready)
            /\ ~("hangup" \in Faults /\ Kind(FdAt(i)) = "cgiIn")
         \/ p.del = Append(fds_to_be_deleted, FdAt(i))
         \/ /\ p.del = fds_to_be_deleted \o ContentFds(client[x])
            /\ Kind(FdAt(i)) \in {"file", "cgiOut"} /\ ~p.c.ready
  PROVE  Outcome(x, i, p) /\ Talk(x, p)
<1>1. /\ x \in Conn /\ FdAt(i) \in Fd /\ Owner(FdAt(i)) = x /\ fds_to_be_deleted \in Seq(Fd)
      /\ Owns(x, client[x], fdtab) /\ client[x] \in ClientRec /\ net[x] \in NetRec
      /\ Exchange(x)
  BY HandlingFacts DEF Handling, IInv, Lists
<1>2. \E new \in Seq(Fd) : Deletes(x, i, p, new)
  <2>1. CASE /\ p.del = fds_to_be_deleted
             /\ ~(Kind(FdAt(i)) \in {"file", "cgiOut"} /\ p.c.ready)
             /\ ~("hangup" \in Faults /\ Kind(FdAt(i)) = "cgiIn")
    <3>1. <<>> \in Seq(Fd) /\ Range(<<>>) = {} /\ fds_to_be_deleted \o <<>> = fds_to_be_deleted
      BY <1>1 DEF Range
    <3>2. Deletes(x, i, p, <<>>)
      BY <2>1, <3>1 DEF Deletes
    <3> QED BY <3>1, <3>2
  <2>2. CASE p.del = Append(fds_to_be_deleted, FdAt(i))
    <3> DEFINE f == FdAt(i)
    <3>1. /\ <<f>> \in Seq(Fd) /\ Range(<<f>>) = {f}
          /\ Append(fds_to_be_deleted, f) = fds_to_be_deleted \o <<f>>
      <4>1. f \in Fd
        BY <1>1
      <4> HIDE DEF f
      <4>2. Range(<<f>>) = {f}
        BY DEF Range
      <4> QED BY <1>1, <4>1, <4>2
    <3>2. Deletes(x, i, p, <<f>>)
      BY <1>1, <2>2, <3>1 DEF Deletes
    <3> QED BY <3>1, <3>2
  <2>3. CASE /\ p.del = fds_to_be_deleted \o ContentFds(client[x])
             /\ Kind(FdAt(i)) \in {"file", "cgiOut"} /\ ~p.c.ready
    <3>1. /\ ContentFds(client[x]) \in Seq(Fd)
          /\ \A f \in Range(ContentFds(client[x])) : Kind(f) # "socket" /\ Owner(f) = x
      BY <1>1, ContentFdsAre DEF Kind, Owner
    <3>2. Deletes(x, i, p, ContentFds(client[x]))
      BY <2>3, <3>1 DEF Deletes
    <3> QED BY <3>1, <3>2
  <2> QED BY <2>1, <2>2, <2>3
<1>3. PICK new \in Seq(Fd) : Deletes(x, i, p, new)
  BY <1>2
<1>4. Outcome(x, i, p)
  BY <1>3, QuietOutcome
<1>5. OneRequest([net[x] EXCEPT !.inbox = p.inbox], p.c.req)
  <2>1. [net[x] EXCEPT !.inbox = net[x].inbox] = net[x]
    BY <1>1 DEF NetRec
  <2> QED BY <1>1, <2>1 DEF Exchange
<1>6. Talk(x, p)
  <2>1. net[x].answered \in Nat
    BY <1>1 DEF NetRec
  <2> QED BY <1>5, <2>1 DEF Talk
<1> QED BY <1>4, <1>6

----------------------------------------------------------------------------
(* Reading from a content, and writing to one                              *)

\* q differs from p in the Client, in its child, and in what was returned.
Quiet(p, q) ==
    /\ IsImage(q) /\ q.x = p.x /\ q.fd = p.fd /\ q.inbox = p.inbox /\ q.up = p.up
    /\ q.ask = p.ask /\ q.answered = p.answered
    /\ q.buf = p.buf /\ q.del = p.del /\ q.map = p.map
    /\ q.kid \in [Conn -> Kid] /\ \A y \in Conn : y # p.x => q.kid[y] = p.kid[y]

\* What a Client has, and what it was asked, stays.
SameKeep(c, d) ==
    /\ d.sock = c.sock /\ d.doomed = c.doomed /\ d.req = c.req
    /\ d.content = c.content /\ d.in = c.in /\ d.out = c.out /\ d.given = c.given

\* No deadline passes and no file shrinks.
LEMMA OrderlyOracle ==
  ASSUME Orderly, NEW o \in Oracle
  PROVE  /\ ~o.late /\ ~o.shrinks
         /\ \A p, fd : TimeOut(p, fd, o) = p
<1>1. "late" \notin Faults /\ "shrink" \notin Faults
  BY DEF Orderly
<1>2. ~o.late /\ ~o.shrinks
  BY <1>1 DEF Oracle
<1> QED BY <1>2 DEF TimeOut, CheckTimer

\* A child that did not fail is reaped when it has exited, and nothing else happens.
LEMMA CheckStatusHealthy ==
  ASSUME NEW x \in Conn, NEW p, IsImage(p), p.x = x, p.kid \in [Conn -> Kid],
         NEW ask, Healthy(p.kid[x], ask)
  PROVE  /\ Quiet(p, CheckStatus(p)) /\ CheckStatus(p).c = p.c
         /\ CheckStatus(p).ret = TRUE /\ CheckStatus(p).killed = p.killed
         /\ Healthy(CheckStatus(p).kid[x], ask)
         /\ CheckStatus(p).kid[x].run = "running" <=> p.kid[x].run = "running"
<1> DEFINE q == CheckStatus(p)
           k == p.kid[x]
           j == [k EXCEPT !.run = "waited ok"]
<1>0. q = CheckStatus(p)
  OBVIOUS
<1> HIDE DEF q
<1>1. /\ k \in Kid /\ k.run \in {"none", "running", "ok", "waited ok"} /\ ~k.shot
      /\ k.run # "none" => ask = "cgi"
      /\ k.full => k.run = "running" /\ Calm
  BY DEF Healthy
<1>2. /\ j \in Kid /\ j.run = "waited ok" /\ j.out = k.out /\ j.full = k.full
      /\ j.shot = k.shot
  <2> HIDE DEF k
  <2>1. j \in Kid
    BY <1>1, KidTypes
  <2>2. j.run = "waited ok" /\ j.out = k.out /\ j.full = k.full /\ j.shot = k.shot
    BY <1>1 DEF Kid
  <2> QED BY <2>1, <2>2
<1>3. CASE p.c.content = "cgi" /\ k.run = "ok"
  <2> DEFINE kids == [p.kid EXCEPT ![x].run = "waited ok"]
  <2>1. kids \in [Conn -> Kid] /\ kids[x] = j /\ \A y \in Conn : y # x => kids[y] = p.kid[y]
    BY <1>2
  <2>2. q = [p EXCEPT !.kid = kids, !.ret = TRUE]
    BY <1>0, <1>3 DEF CheckStatus
  <2> HIDE DEF kids
  <2>3. /\ Quiet(p, q) /\ q.c = p.c /\ q.ret = TRUE /\ q.killed = p.killed /\ q.kid[x] = j
    BY <2>1, <2>2 DEF Quiet, IsImage, ImageFields
  <2> HIDE DEF j
  <2>4. k.full = FALSE
    <3>1. k.full \in BOOLEAN
      BY <1>1 DEF Kid
    <3> QED BY <1>1, <1>3, <3>1
  <2>5. Healthy(q.kid[x], ask)
    BY <1>1, <1>2, <1>3, <2>3, <2>4 DEF Healthy
  <2> QED BY <1>0, <1>2, <1>3, <2>3, <2>5
<1>4. CASE ~(p.c.content = "cgi" /\ k.run = "ok")
  <2>1. k.run # "failed" /\ k.run # "waited failed"
    BY <1>1
  <2>2. q = [p EXCEPT !.ret = p.c.content = "cgi" => k.run # "waited failed"]
    BY <1>0, <1>4, <2>1 DEF CheckStatus
  <2>3. (p.c.content = "cgi" => k.run # "waited failed") = TRUE
    BY <2>1
  <2>4. q = [p EXCEPT !.ret = TRUE]
    BY <2>2, <2>3
  <2>5. /\ Quiet(p, q) /\ q.c = p.c /\ q.ret = TRUE /\ q.killed = p.killed /\ q.kid = p.kid
    BY <2>4 DEF Quiet, IsImage, ImageFields
  <2> QED BY <1>0, <2>5
<1> QED BY <1>3, <1>4

\* The response is finished: what the Client keeps.
LEMMA FinishIs ==
  ASSUME NEW p, IsImage(p), p.c \in ClientRec, p.kid \in [Conn -> Kid], NEW q, q = FinishCgi(p)
  PROVE  /\ Quiet(p, q) /\ q.kid = p.kid /\ q.ret = p.ret /\ q.killed = p.killed
         /\ SameKeep(p.c, q.c) /\ q.c \in ClientRec
         /\ q.c.ready = TRUE /\ q.c.begun = FALSE /\ q.c.got = p.c.got /\ q.c.pos = p.c.pos
         /\ q.c.more = p.c.more /\ q.c.body = p.c.body /\ q.c.status = p.c.status
<1> DEFINE d == [p.c EXCEPT !.ready = TRUE, !.begun = FALSE]
<1>1. q = [p EXCEPT !.c = d]
  BY DEF FinishCgi
<1>2. /\ SameKeep(p.c, d) /\ d \in ClientRec
      /\ d.ready = TRUE /\ d.begun = FALSE /\ d.got = p.c.got /\ d.pos = p.c.pos
      /\ d.more = p.c.more /\ d.body = p.c.body /\ d.status = p.c.status
  BY DEF ClientRec, SameKeep
<1> HIDE DEF d
<1>3. Quiet(p, q) /\ q.kid = p.kid /\ q.ret = p.ret /\ q.killed = p.killed /\ q.c = d
  BY <1>1 DEF Quiet, IsImage, ImageFields
<1> QED BY <1>2, <1>3

LEMMA FinishFits ==
  ASSUME NEW c, NEW d, NEW ask, Fit(c, ask), c.content = "cgi",
         d.req = c.req, d.content = c.content, d.given = c.given, d.ready = TRUE,
         d.begun = FALSE, d.got = c.got, d.more = c.more, d.body = c.body
  PROVE  Fit(d, ask)
<1>1. ask = "cgi" /\ c.req \in Routed /\ c.given
  BY DEF Fit
<1> QED BY <1>1 DEF Fit

\* Only the list of deletions differs.
Marked(p, q) ==
    /\ IsImage(p) /\ p.x = q.x /\ p.c = q.c /\ p.fd = q.fd /\ p.kid = q.kid
    /\ p.inbox = q.inbox /\ p.up = q.up /\ p.ask = q.ask /\ p.answered = q.answered
    /\ p.buf = q.buf /\ p.map = q.map

LEMMA MarkFdIs ==
  ASSUME NEW q, IsImage(q), NEW fd
  PROVE  Marked(MarkFd(q, fd), q) /\ MarkFd(q, fd).del = Append(q.del, fd)
BY DEF MarkFd, IsImage, ImageFields, Marked

LEMMA MarkContentIs ==
  ASSUME NEW q, IsImage(q)
  PROVE  Marked(MarkContent(q), q) /\ MarkContent(q).del = q.del \o ContentFds(q.c)
<1> DEFINE s == q.del \o ContentFds(q.c)
<1>1. MarkContent(q) = [q EXCEPT !.del = s]
  BY DEF MarkContent, ContentFds
<1> HIDE DEF s
<1>2. Marked(MarkContent(q), q) /\ MarkContent(q).del = s
  BY <1>1 DEF IsImage, ImageFields, Marked
<1> QED BY <1>2 DEF s

\* After a transfer with a content that was handed over, its entry is kept or marked.
LEMMA Transferred ==
  ASSUME NEW x, NEW i, Handling(x, i), Kind(FdAt(i)) # "socket", NEW q,
         Quiet(Image(x), q), SameKeep(client[x], q.c),
         Fit(q.c, net[x].ask), Healthy(q.kid[x], net[x].ask), client[x].begun => q.c.begun,
         q.c.ready => client[x].ready \/ Kind(FdAt(i)) \in {"file", "cgiOut"},
         NEW p,
         \/ /\ p = q
            /\ ~(Kind(FdAt(i)) \in {"file", "cgiOut"} /\ q.c.ready)
            /\ ~("hangup" \in Faults /\ Kind(FdAt(i)) = "cgiIn")
         \/ p = MarkFd(q, FdAt(i))
         \/ p = MarkContent(q) /\ Kind(FdAt(i)) \in {"file", "cgiOut"} /\ ~q.c.ready
  PROVE  Outcome(x, i, p) /\ Talk(x, p) /\ AddClientContentFd(p) = p
<1>1. /\ q.fd = fdtab /\ q.inbox = net[x].inbox /\ q.answered = net[x].answered
      /\ q.buf = buffer_new_fd /\ q.del = fds_to_be_deleted /\ q.map = client_mapping
      /\ IsImage(q) /\ \A y \in Conn : y # x => q.kid[y] = kid[y]
  <2> DEFINE I == Image(x)
  <2>1. /\ I.x = x /\ I.fd = fdtab /\ I.inbox = net[x].inbox /\ I.answered = net[x].answered
        /\ I.buf = buffer_new_fd /\ I.del = fds_to_be_deleted /\ I.map = client_mapping
        /\ I.kid = kid /\ Quiet(I, q)
    BY ImageIs
  <2> HIDE DEF I
  <2> QED BY <2>1 DEF Quiet
<1>2. ContentFds(q.c) = ContentFds(client[x])
  BY DEF ContentFds, SameKeep
<1>3. /\ p.c = q.c /\ p.fd = q.fd /\ p.kid = q.kid
      /\ p.inbox = q.inbox /\ p.answered = q.answered /\ p.buf = q.buf /\ p.map = q.map
  <2>1. CASE p = q
    BY <2>1
  <2>2. CASE p = MarkFd(q, FdAt(i))
    BY <1>1, <2>2, MarkFdIs DEF Marked
  <2>3. CASE p = MarkContent(q)
    BY <1>1, <2>3, MarkContentIs DEF Marked
  <2> QED BY <2>1, <2>2, <2>3
<1>4. \/ /\ p.del = fds_to_be_deleted
         /\ ~(Kind(FdAt(i)) \in {"file", "cgiOut"} /\ p.c.ready)
         /\ ~("hangup" \in Faults /\ Kind(FdAt(i)) = "cgiIn")
      \/ p.del = Append(fds_to_be_deleted, FdAt(i))
      \/ /\ p.del = fds_to_be_deleted \o ContentFds(client[x])
         /\ Kind(FdAt(i)) \in {"file", "cgiOut"} /\ ~p.c.ready
  <2>1. CASE /\ p = q
             /\ ~(Kind(FdAt(i)) \in {"file", "cgiOut"} /\ q.c.ready)
             /\ ~("hangup" \in Faults /\ Kind(FdAt(i)) = "cgiIn")
    <3>1. p.del = fds_to_be_deleted /\ p.c = q.c
      BY <1>1, <2>1
    <3> QED BY <2>1, <3>1
  <2>2. CASE p = MarkFd(q, FdAt(i))
    <3>1. p.del = Append(fds_to_be_deleted, FdAt(i))
      BY <1>1, <2>2, MarkFdIs
    <3> QED BY <3>1
  <2>3. CASE p = MarkContent(q) /\ Kind(FdAt(i)) \in {"file", "cgiOut"} /\ ~q.c.ready
    <3>1. p.del = fds_to_be_deleted \o ContentFds(client[x])
      BY <1>1, <1>2, <2>3, MarkContentIs
    <3> QED BY <1>3, <2>3, <3>1
  <2> QED BY <2>1, <2>2, <2>3
<1>5. p.c.sock = client[x].sock /\ ~p.c.doomed /\ p.c.req = client[x].req
  BY <1>3 DEF SameKeep, Handling
<1>6. Outcome(x, i, p) /\ Talk(x, p)
  BY <1>1, <1>3, <1>4, <1>5, ContentHandled
<1>7. AddClientContentFd(p) = p
  <2>1. p.c.content = "none" \/ p.c.given
    BY <1>3 DEF Fit
  <2> QED BY <2>1 DEF AddClientContentFd
<1> QED BY <1>6, <1>7

LEMMA QuietTrans ==
  ASSUME NEW p, NEW q, NEW r, Quiet(p, q), Quiet(q, r)
  PROVE  Quiet(p, r)
BY DEF Quiet

\* What an image becomes by a new return value.
LEMMA RevisedRet ==
  ASSUME NEW p, IsImage(p), p.kid \in [Conn -> Kid], NEW b,
         NEW q, q = [p EXCEPT !.ret = b]
  PROVE  Quiet(p, q) /\ q.c = p.c /\ q.kid = p.kid /\ q.ret = b /\ q.killed = p.killed
BY DEF Quiet, IsImage, ImageFields

\* checkStatus() at the start of a transfer with the content of x.
LEMMA StatusChecked ==
  ASSUME NEW x, NEW i, Handling(x, i), NEW r, r = CheckStatus(Image(x))
  PROVE  /\ Quiet(Image(x), r) /\ r.c = client[x] /\ r.ret = TRUE /\ r.killed = FALSE /\ r.x = x
         /\ Healthy(r.kid[x], net[x].ask) /\ r.kid \in [Conn -> Kid] /\ IsImage(r)
         /\ r.kid[x].run = "running" <=> kid[x].run = "running"
<1> DEFINE I == Image(x)
<1>1. /\ IsImage(I) /\ I.x = x /\ I.kid = kid /\ I.c = client[x] /\ I.killed = FALSE
      /\ r = CheckStatus(I)
  BY ImageIs
<1>2. x \in Conn /\ kid \in [Conn -> Kid] /\ Healthy(kid[x], net[x].ask)
  BY HandlingFacts DEF Exchange
<1> HIDE DEF I
<1>3. /\ Quiet(I, r) /\ r.c = client[x] /\ r.ret = TRUE /\ r.killed = FALSE
      /\ Healthy(r.kid[x], net[x].ask)
      /\ r.kid[x].run = "running" <=> kid[x].run = "running"
  <2>1. Healthy(I.kid[x], net[x].ask) /\ I.kid \in [Conn -> Kid]
    BY <1>1, <1>2
  <2>2. /\ Quiet(I, r) /\ r.c = I.c /\ r.ret = TRUE /\ r.killed = I.killed
        /\ Healthy(r.kid[x], net[x].ask)
        /\ r.kid[x].run = "running" <=> I.kid[x].run = "running"
    <3>1. /\ IsImage(I) /\ I.x = x /\ I.kid \in [Conn -> Kid] /\ x \in Conn
          /\ Healthy(I.kid[x], net[x].ask) /\ r = CheckStatus(I)
      BY <1>1, <1>2, <2>1
    <3>2. Quiet(I, r) /\ r.c = I.c
      BY <3>1, CheckStatusHealthy
    <3>3. r.ret = TRUE /\ r.killed = I.killed
      BY <3>1, CheckStatusHealthy
    <3>4. Healthy(r.kid[x], net[x].ask)
      BY <3>1, CheckStatusHealthy
    <3>5. r.kid[x].run = "running" <=> I.kid[x].run = "running"
      <4>1. CheckStatus(I).kid[x].run = "running" <=> I.kid[x].run = "running"
        BY <3>1, CheckStatusHealthy, Zenon
      <4> QED BY <3>1, <4>1
    <3> QED BY <3>2, <3>3, <3>4, <3>5
  <2> QED BY <1>1, <2>2
<1>4. r.x = x /\ r.kid \in [Conn -> Kid] /\ IsImage(r)
  BY <1>1, <1>3 DEF Quiet
<1> QED BY <1>3, <1>4 DEF I

\* The transfer that follows.
LEMMA TransferIs ==
  ASSUME NEW p, CheckStatus(p).ret = TRUE, CheckStatus(p).c = p.c, NEW o
  PROVE  /\ p.c.content = "cgi" =>
               /\ ClientRecvContent(p, o) = ClientRecvCgi(CheckStatus(p), o)
               /\ CheckContentStatus(p) = FinishCgi(CheckStatus(p))
         /\ p.c.content = "file" =>
               ClientRecvContent(p, o) = ClientRecvStaticFile(CheckStatus(p), o)
BY DEF ClientRecvContent, CheckContentStatus

LEMMA FileRead ==
  ASSUME NEW x, NEW i, Handling(x, i), Kind(FdAt(i)) = "file", NEW o, ~o.shrinks,
         NEW q, q = ClientRecvContent(Image(x), o)
  PROVE  /\ Quiet(Image(x), q) /\ SameKeep(client[x], q.c)
         /\ Fit(q.c, net[x].ask) /\ Healthy(q.kid[x], net[x].ask)
         /\ client[x].begun => q.c.begun
         /\ q.ret => ~q.c.ready
<1> DEFINE r == CheckStatus(Image(x))
           c == client[x]
<1>1. /\ Quiet(Image(x), r) /\ r.c = c /\ r.ret = TRUE /\ r.x = x
      /\ Healthy(r.kid[x], net[x].ask) /\ r.kid \in [Conn -> Kid] /\ IsImage(r)
  BY StatusChecked
<1>2. c \in ClientRec /\ Fit(c, net[x].ask) /\ c.content = "file" /\ ~c.ready
  BY HandlingFacts, WhatIsHeld DEF Exchange
<1>3. q = ClientRecvStaticFile(r, o)
  <2>1. r = CheckStatus(Image(x)) /\ r.c = Image(x).c /\ Image(x).c = c
    BY <1>1, ImageIs
  <2> HIDE DEF r, c
  <2> QED BY <1>1, <1>2, <2>1, TransferIs
<1> HIDE DEF r
<1>4. /\ c.got = c.pos /\ c.pos \in 0 .. FileLen /\ FileLen \in Nat /\ ~c.begun
      /\ c.req \in Routed /\ c.given
  BY <1>2, FileLenAssumption DEF Fit, ClientRec, Reads
<1>5. CASE c.pos = FileLen
  <2>1. q = [r EXCEPT !.ret = FALSE]
    BY <1>1, <1>3, <1>4, <1>5 DEF ClientRecvStaticFile
  <2>2. Quiet(r, q) /\ q.c = c /\ q.kid = r.kid /\ q.ret = FALSE
    BY <1>1, <2>1, RevisedRet
  <2>3. Quiet(Image(x), q)
    BY <1>1, <2>2, QuietTrans
  <2> QED BY <1>1, <1>2, <2>2, <2>3 DEF SameKeep
<1>6. CASE c.pos # FileLen
  <2> DEFINE got == c.got + 1
             d == [c EXCEPT !.pos = c.pos + 1, !.got = got, !.ready = c.ready \/ got = FileLen]
  <2>1. q = [r EXCEPT !.c = d, !.ret = got # FileLen]
    <3>1. ~(r.c.got > FileLen) /\ ~(r.c.pos = FileLen \/ o.shrinks)
      BY <1>1, <1>4, <1>6
    <3> QED BY <1>1, <1>3, <3>1 DEF ClientRecvStaticFile
  <2>2. /\ SameKeep(c, d) /\ d.got = c.got + 1 /\ d.pos = c.pos + 1 /\ d.begun = c.begun
        /\ d.ready = (c.ready \/ got = FileLen) /\ d.more = c.more /\ d.body = c.body
        /\ d.status = c.status
    BY <1>2 DEF ClientRec, SameKeep
  <2> HIDE DEF d
  <2>3. Quiet(r, q) /\ q.c = d /\ q.kid = r.kid /\ q.ret = (got # FileLen)
    <3> DEFINE b == got # FileLen
    <3>1. q = [r EXCEPT !.c = d, !.ret = b]
      BY <2>1
    <3> HIDE DEF b
    <3>2. Quiet(r, q) /\ q.c = d /\ q.kid = r.kid /\ q.ret = b
      <4>1. IsImage(r) /\ r.kid \in [Conn -> Kid]
        BY <1>1
      <4> HIDE DEF c, got
      <4> QED BY <3>1, <4>1 DEF Quiet, IsImage, ImageFields
    <3> QED BY <3>2 DEF b
  <2>4. Quiet(Image(x), q)
    BY <1>1, <2>3, QuietTrans
  <2>5. Fit(d, net[x].ask)
    BY <1>2, <1>4, <2>2 DEF Fit, SameKeep
  <2> QED BY <1>1, <1>2, <1>4, <2>2, <2>3, <2>4, <2>5
<1> QED BY <1>5, <1>6

LEMMA CgiRead ==
  ASSUME NEW x, NEW i, Handling(x, i), Kind(FdAt(i)) = "cgiOut", NEW o,
         NEW q, q = ClientRecvContent(Image(x), o)
  PROVE  /\ Quiet(Image(x), q) /\ SameKeep(client[x], q.c)
         /\ Fit(q.c, net[x].ask) /\ Healthy(q.kid[x], net[x].ask)
         /\ client[x].begun => q.c.begun
         /\ q.ret => ~q.c.ready
<1> DEFINE r == CheckStatus(Image(x))
           c == client[x]
           f == FinishCgi(r)
<1>1. /\ Quiet(Image(x), r) /\ r.c = c /\ r.ret = TRUE /\ r.x = x
      /\ Healthy(r.kid[x], net[x].ask) /\ r.kid \in [Conn -> Kid] /\ IsImage(r)
  BY StatusChecked
<1>2. /\ c \in ClientRec /\ Fit(c, net[x].ask) /\ c.content = "cgi" /\ ~c.ready
      /\ x \in Conn
  BY HandlingFacts, WhatIsHeld DEF Exchange
<1>3. q = ClientRecvCgi(r, o)
  <2>1. r = CheckStatus(Image(x)) /\ r.c = Image(x).c /\ Image(x).c = c
    BY <1>1, ImageIs
  <2> HIDE DEF r, c
  <2> QED BY <1>1, <1>2, <2>1, TransferIs
<1>4. ~c.begun
  BY <1>2 DEF Fit
<1> HIDE DEF r
<1>5. /\ Quiet(r, f) /\ f.kid = r.kid /\ SameKeep(c, f.c) /\ IsImage(f) /\ f.x = x
      /\ Fit(f.c, net[x].ask)
  <2>1. /\ Quiet(r, f) /\ f.kid = r.kid /\ SameKeep(r.c, f.c)
        /\ f.c.ready = TRUE /\ f.c.begun = FALSE /\ f.c.got = r.c.got
        /\ f.c.more = r.c.more /\ f.c.body = r.c.body
    BY <1>1, <1>2, FinishIs
  <2>2. IsImage(f) /\ f.x = x
    BY <1>1, <2>1 DEF Quiet
  <2> HIDE DEF f
  <2>3. Fit(f.c, net[x].ask)
    BY <1>1, <1>2, <2>1, FinishFits DEF SameKeep
  <2> QED BY <1>1, <2>1, <2>2, <2>3
<1> HIDE DEF f
<1> DEFINE g == IF o.whole THEN f ELSE r
           h == IF r.kid[x].run = "running" THEN r ELSE f
<1>6. \A s \in {r, f} : /\ Quiet(Image(x), s) /\ s.kid = r.kid /\ SameKeep(c, s.c)
                        /\ IsImage(s) /\ s.x = x /\ Fit(s.c, net[x].ask)
  BY <1>1, <1>2, <1>5, QuietTrans DEF SameKeep
<1>7. CASE r.kid[x].out = "unread"
  <2> DEFINE kids == [r.kid EXCEPT ![x].out = "read"]
             b == ~o.whole
  <2>1. q = [g EXCEPT !.kid = kids, !.ret = b]
    BY <1>1, <1>3, <1>7 DEF ClientRecvCgi, f
  <2>2. /\ kids \in [Conn -> Kid] /\ \A y \in Conn : y # x => kids[y] = r.kid[y]
        /\ kids[x] = [r.kid[x] EXCEPT !.out = "read"]
    BY <1>1, <1>2, KidTypes
  <2>3. Healthy(kids[x], net[x].ask)
    <3> DEFINE k == r.kid[x]
    <3>1. k \in Kid /\ Healthy(k, net[x].ask) /\ kids[x] = [k EXCEPT !.out = "read"]
      BY <1>1, <1>2, <2>2
    <3> HIDE DEF k, kids
    <3> QED BY <3>1 DEF Healthy, Kid
  <2>4. g \in {r, f}
    OBVIOUS
  <2>5. q.ret = b /\ q.c = g.c /\ q.kid = kids /\ Quiet(g, q)
    <3> HIDE DEF g, kids, b
    <3>1. IsImage(g) /\ g.kid = r.kid /\ g.x = x
      BY <1>6, <2>4
    <3>2. \A y \in Conn : y # x => kids[y] = g.kid[y]
      BY <2>2, <3>1
    <3> QED BY <2>1, <2>2, <3>1, <3>2 DEF Quiet, IsImage, ImageFields
  <2>6. q.ret => ~q.c.ready
    BY <1>1, <1>2, <2>5
  <2> HIDE DEF g, kids, b
  <2>7. Quiet(Image(x), q)
    BY <1>6, <2>4, <2>5, QuietTrans
  <2> QED BY <1>4, <1>6, <2>3, <2>4, <2>5, <2>6, <2>7
<1>8. CASE r.kid[x].out # "unread"
  <2>1. q = [h EXCEPT !.ret = FALSE] /\ h \in {r, f}
    BY <1>1, <1>3, <1>8 DEF ClientRecvCgi, f
  <2> HIDE DEF h
  <2>2. Quiet(h, q) /\ q.c = h.c /\ q.kid = h.kid /\ q.ret = FALSE
    BY <1>1, <1>6, <2>1, RevisedRet
  <2>3. Quiet(Image(x), q)
    BY <1>6, <2>1, <2>2, QuietTrans
  <2> QED BY <1>1, <1>4, <1>6, <2>1, <2>2, <2>3
<1> QED BY <1>7, <1>8

\* The child has closed its output: the response is ready.
LEMMA CgiEnded ==
  ASSUME NEW x, NEW i, Handling(x, i), Kind(FdAt(i)) = "cgiOut",
         NEW q, q = CheckContentStatus(Image(x))
  PROVE  /\ Quiet(Image(x), q) /\ SameKeep(client[x], q.c)
         /\ Fit(q.c, net[x].ask) /\ Healthy(q.kid[x], net[x].ask)
         /\ client[x].begun => q.c.begun
         /\ q.ret
<1> DEFINE r == CheckStatus(Image(x))
           c == client[x]
<1>1. /\ Quiet(Image(x), r) /\ r.c = c /\ r.ret = TRUE /\ r.x = x
      /\ Healthy(r.kid[x], net[x].ask) /\ r.kid \in [Conn -> Kid] /\ IsImage(r)
  BY StatusChecked
<1>2. c \in ClientRec /\ Fit(c, net[x].ask) /\ c.content = "cgi" /\ ~c.begun
  BY HandlingFacts, WhatIsHeld DEF Exchange, Fit
<1>3. q = FinishCgi(r)
  <2>1. r = CheckStatus(Image(x)) /\ r.c = Image(x).c /\ Image(x).c = c
    BY <1>1, ImageIs
  <2> HIDE DEF r, c
  <2> QED BY <1>1, <1>2, <2>1, TransferIs
<1> HIDE DEF r
<1>4. /\ Quiet(r, q) /\ q.kid = r.kid /\ SameKeep(r.c, q.c) /\ q.ret = r.ret
      /\ q.c.ready = TRUE /\ q.c.begun = FALSE /\ q.c.got = r.c.got
      /\ q.c.more = r.c.more /\ q.c.body = r.c.body
  BY <1>1, <1>2, <1>3, FinishIs
<1>5. Fit(q.c, net[x].ask)
  BY <1>1, <1>2, <1>4, FinishFits DEF SameKeep
<1>6. Quiet(Image(x), q)
  BY <1>1, <1>4, QuietTrans
<1> QED BY <1>1, <1>2, <1>4, <1>5, <1>6

\* The body of the request is sent, or a part of it; or SIGPIPE ends the process.
LEMMA BodySent ==
  ASSUME NEW x, NEW i, Handling(x, i), Kind(FdAt(i)) = "cgiIn", NEW o,
         NEW q, q = ClientSendContent(Image(x), o)
  PROVE  \/ q.killed /\ q.ret /\ q.c = client[x]
         \/ /\ Quiet(Image(x), q) /\ SameKeep(client[x], q.c)
            /\ Fit(q.c, net[x].ask) /\ Healthy(q.kid[x], net[x].ask)
            /\ client[x].begun => q.c.begun
            /\ q.c.ready = client[x].ready
            /\ q.ret => Calm
<1> DEFINE r == CheckStatus(Image(x))
           c == client[x]
<1>1. /\ Quiet(Image(x), r) /\ r.c = c /\ r.ret = TRUE /\ r.x = x /\ r.killed = FALSE
      /\ Healthy(r.kid[x], net[x].ask) /\ r.kid \in [Conn -> Kid] /\ IsImage(r)
  BY StatusChecked
<1>2. /\ c \in ClientRec /\ Fit(c, net[x].ask) /\ c.content = "cgi" /\ x \in Conn
  BY HandlingFacts, WhatIsHeld DEF Exchange
<1>3. q = IF c.body \in {"none", "sent"} THEN [r EXCEPT !.ret = FALSE]
          ELSE IF r.kid[x].run # "running" THEN [r EXCEPT !.killed = TRUE]
          ELSE IF o.whole \/ c.body = "partly"
          THEN [r EXCEPT !.c = [r.c EXCEPT !.body = "sent"], !.ret = FALSE]
          ELSE [r EXCEPT !.c = [r.c EXCEPT !.body = "partly"],
                         !.kid = [r.kid EXCEPT ![x].full = TRUE], !.ret = TRUE]
  <2>1. Image(x).c.content = "cgi" /\ Image(x).x = x /\ r = CheckStatus(Image(x))
    BY <1>2, ImageIs
  <2>2. ~r.ret = FALSE /\ r.c.content = "cgi"
    BY <1>1, <1>2
  <2> HIDE DEF r, c
  <2> QED BY <1>1, <2>1, <2>2 DEF ClientSendContent
<1> HIDE DEF r
<1>4. CASE c.body \in {"none", "sent"}
  <2>1. q = [r EXCEPT !.ret = FALSE]
    BY <1>3, <1>4
  <2>2. Quiet(r, q) /\ q.c = r.c /\ q.kid = r.kid /\ q.ret = FALSE
    BY <1>1, <2>1, RevisedRet
  <2>3. Quiet(Image(x), q)
    BY <1>1, <2>2, QuietTrans
  <2> QED BY <1>1, <1>2, <2>2, <2>3 DEF SameKeep
<1>5. CASE c.body \notin {"none", "sent"} /\ r.kid[x].run # "running"
  <2>1. q = [r EXCEPT !.killed = TRUE]
    BY <1>3, <1>5
  <2>2. q.killed = TRUE /\ q.ret = TRUE /\ q.c = c
    BY <1>1, <2>1 DEF IsImage, ImageFields
  <2> QED BY <2>2
<1>6. CASE c.body \notin {"none", "sent"} /\ r.kid[x].run = "running"
  <2> DEFINE d(b) == [c EXCEPT !.body = b]
             k == [r.kid[x] EXCEPT !.full = TRUE]
             kids == [r.kid EXCEPT ![x].full = TRUE]
  <2>1. Calm
    BY <1>2, <1>6 DEF Fit
  <2>2. ASSUME NEW b \in {"sent", "partly"}
        PROVE  /\ SameKeep(c, d(b)) /\ d(b).begun = c.begun /\ d(b).ready = c.ready
               /\ Fit(d(b), net[x].ask)
    <3> DEFINE e == d(b)
    <3>1. /\ SameKeep(c, e) /\ e.begun = c.begun /\ e.ready = c.ready /\ e.got = c.got
          /\ e.pos = c.pos /\ e.status = c.status /\ e.more = c.more
      BY <1>2 DEF ClientRec, SameKeep
    <3> HIDE DEF e
    <3>2. Fit(e, net[x].ask)
      BY <1>2, <2>1, <3>1 DEF Fit, SameKeep
    <3> QED BY <3>1, <3>2 DEF e
  <2>3. /\ kids \in [Conn -> Kid] /\ \A y \in Conn : y # x => kids[y] = r.kid[y]
        /\ kids[x] = k
    BY <1>1, <1>2, KidTypes
  <2>4. Healthy(k, net[x].ask)
    <3> DEFINE j == r.kid[x]
    <3>1. j \in Kid /\ Healthy(j, net[x].ask) /\ j.run = "running" /\ k = [j EXCEPT !.full = TRUE]
      BY <1>1, <1>2, <1>6
    <3> HIDE DEF j, k
    <3>2. k.full = TRUE /\ k.run = j.run /\ k.shot = j.shot
      BY <3>1 DEF Kid
    <3> QED BY <2>1, <3>1, <3>2 DEF Healthy
  <2>5. CASE o.whole \/ c.body = "partly"
    <3>1. q = [r EXCEPT !.c = d("sent"), !.ret = FALSE]
      BY <1>1, <1>3, <1>6, <2>5
    <3> DEFINE e == d("sent")
    <3> HIDE DEF e
    <3>2. q = [r EXCEPT !.c = e, !.ret = FALSE]
      BY <3>1 DEF e
    <3>3. Quiet(r, q) /\ q.c = e /\ q.kid = r.kid /\ q.ret = FALSE
      BY <1>1, <3>2 DEF Quiet, IsImage, ImageFields
    <3>4. Quiet(Image(x), q)
      BY <1>1, <3>3, QuietTrans
    <3>5. SameKeep(c, e) /\ e.begun = c.begun /\ e.ready = c.ready /\ Fit(e, net[x].ask)
      BY <2>2 DEF e
    <3> QED BY <1>1, <3>3, <3>4, <3>5
  <2>6. CASE ~(o.whole \/ c.body = "partly")
    <3>1. q = [r EXCEPT !.c = d("partly"), !.kid = kids, !.ret = TRUE]
      BY <1>1, <1>3, <1>6, <2>6
    <3> DEFINE e == d("partly")
    <3> HIDE DEF e, kids
    <3>2. q = [r EXCEPT !.c = e, !.kid = kids, !.ret = TRUE]
      BY <3>1 DEF e
    <3>3. Quiet(r, q) /\ q.c = e /\ q.kid = kids
      <4>1. /\ IsImage(q) /\ q.x = r.x /\ q.fd = r.fd /\ q.inbox = r.inbox /\ q.up = r.up
            /\ q.ask = r.ask /\ q.answered = r.answered
            /\ q.buf = r.buf /\ q.del = r.del /\ q.map = r.map /\ q.c = e /\ q.kid = kids
        BY <1>1, <3>2 DEF IsImage, ImageFields
      <4> QED BY <1>1, <2>3, <4>1 DEF Quiet
    <3>4. Quiet(Image(x), q)
      BY <1>1, <3>3, QuietTrans
    <3>5. SameKeep(c, e) /\ e.begun = c.begun /\ e.ready = c.ready /\ Fit(e, net[x].ask)
      BY <2>2 DEF e
    <3> QED BY <2>1, <2>3, <2>4, <3>3, <3>4, <3>5
  <2> QED BY <2>5, <2>6
<1> QED BY <1>4, <1>5, <1>6

\* What the dispatch of a report gives.
LEMMA DispatchIs ==
  ASSUME NEW p, NEW fd, NEW rev, NEW o
  PROVE  /\ "IN" \in rev => Dispatch(p, fd, rev, o) = HandleClientRecv(p, fd, o)
         /\ "IN" \notin rev /\ "OUT" \in rev =>
               Dispatch(p, fd, rev, o) = HandleClientSent(p, fd, o)
         /\ "IN" \notin rev /\ "OUT" \notin rev /\ "HUP" \in rev =>
               Dispatch(p, fd, rev, o) = CleanUpClient(p, fd, o)
         /\ rev = {} => Dispatch(p, fd, rev, o) = p
         /\ fd # p.c.sock =>
               /\ LET q == ClientRecvContent(p, o) IN
                  HandleClientRecv(p, fd, o) = IF q.ret THEN q
                                               ELSE IF q.c.ready THEN MarkFd(q, fd)
                                               ELSE MarkContent(q)
               /\ LET q == ClientSendContent(p, o) IN
                  HandleClientSent(p, fd, o) = IF q.ret THEN q ELSE MarkFd(q, fd)
               /\ LET q == CheckContentStatus(p) IN
                  q.ret => CleanUpClient(p, fd, o) = MarkFd(q, fd)
<1>1. /\ "IN" \in rev => Dispatch(p, fd, rev, o) = HandleClientRecv(p, fd, o)
      /\ "IN" \notin rev /\ "OUT" \in rev =>
            Dispatch(p, fd, rev, o) = HandleClientSent(p, fd, o)
      /\ "IN" \notin rev /\ "OUT" \notin rev /\ "HUP" \in rev =>
            Dispatch(p, fd, rev, o) = CleanUpClient(p, fd, o)
  BY DEF Dispatch
<1>2. ASSUME rev = {} PROVE Dispatch(p, fd, rev, o) = p
  <2>1. "IN" \notin rev /\ "OUT" \notin rev /\ "HUP" \notin rev /\ rev # {"ERR"}
    BY <1>2
  <2> QED BY <2>1 DEF Dispatch
<1> QED BY <1>1, <1>2 DEF HandleClientRecv, HandleClientSent, CleanUpClient

\* handleClient() at an entry of a content.
LEMMA ContentEntry ==
  ASSUME Orderly, NEW x, NEW i, Handling(x, i), Kind(FdAt(i)) # "socket", NEW o \in Oracle,
         NEW p, p = Handled(x, FdAt(i), revents[i], o), ~p.killed
  PROVE  Outcome(x, i, p) /\ Talk(x, p)
<1> DEFINE I == Image(x)
           fd == FdAt(i)
           rev == revents[i]
           k == Kind(FdAt(i))
           s == Dispatch(I, fd, rev, o)
<1>1. /\ k \in {"file", "cgiOut", "cgiIn"} /\ fd # client[x].sock /\ I.c = client[x]
      /\ client[x].content # "none" /\ client[x].given
  <2>1. k \in Roles /\ Fit(client[x], net[x].ask)
    BY HandlingFacts DEF Exchange
  <2> QED BY <2>1, WhatIsHeld, ImageIs DEF Roles, Fit
<1>2. Reported(rev, k, socket_fds[i].events)
  BY HandlingFacts DEF Handling, Tables, InRound
<1>3. /\ Quiet(I, I) /\ SameKeep(client[x], I.c) /\ Fit(I.c, net[x].ask)
      /\ Healthy(I.kid[x], net[x].ask)
  BY HandlingFacts, ImageIs DEF Quiet, SameKeep, Exchange
<1>4. p = AddClientContentFd(s)
  BY OrderlyOracle DEF Handled
<1>5. \/ Outcome(x, i, s) /\ Talk(x, s) /\ AddClientContentFd(s) = s
      \/ s.killed /\ s.c = client[x]
  <2>1. CASE rev = {}
    <3>1. s = I
      BY <2>1, DispatchIs
    <3>2. ~(k \in {"file", "cgiOut"} /\ I.c.ready)
      BY <1>1, WhatIsHeld
    <3>3. ~("hangup" \in Faults /\ k = "cgiIn")
      BY <1>2, <2>1 DEF Reported, Calm
    <3> HIDE DEF s
    <3>4. Outcome(x, i, s) /\ Talk(x, s) /\ AddClientContentFd(s) = s
      BY <1>1, <1>3, <3>1, <3>2, <3>3, Transferred
    <3> QED BY <3>4
  <2>2. CASE k \in {"file", "cgiOut"} /\ "IN" \in rev
    <3> DEFINE q == ClientRecvContent(I, o)
    <3>1. s = IF q.ret THEN q ELSE IF q.c.ready THEN MarkFd(q, fd) ELSE MarkContent(q)
      <4> HIDE DEF I, fd, rev
      <4> QED BY <1>1, <2>2, DispatchIs
    <3>2. /\ Quiet(I, q) /\ SameKeep(client[x], q.c) /\ Fit(q.c, net[x].ask)
          /\ Healthy(q.kid[x], net[x].ask) /\ (client[x].begun => q.c.begun)
          /\ (q.ret => ~q.c.ready)
      BY <2>2, FileRead, CgiRead, OrderlyOracle
    <3> HIDE DEF q, s
    <3>3. \/ s = q /\ ~q.c.ready
          \/ s = MarkFd(q, fd)
          \/ s = MarkContent(q) /\ ~q.c.ready
      BY <3>1, <3>2
    <3> QED BY <2>2, <3>2, <3>3, Transferred
  <2>3. CASE k = "cgiOut" /\ "IN" \notin rev /\ rev # {}
    <3> DEFINE q == CheckContentStatus(I)
    <3>1. "OUT" \notin rev /\ "HUP" \in rev
      BY <1>2, <2>3 DEF Reported
    <3>2. /\ Quiet(I, q) /\ SameKeep(client[x], q.c) /\ Fit(q.c, net[x].ask)
          /\ Healthy(q.kid[x], net[x].ask) /\ (client[x].begun => q.c.begun) /\ q.ret
      BY <2>3, CgiEnded
    <3>3. s = MarkFd(q, fd)
      <4> HIDE DEF I, fd, rev
      <4> QED BY <1>1, <2>3, <3>1, <3>2, DispatchIs
    <3> HIDE DEF q, s
    <3> QED BY <2>3, <3>2, <3>3, Transferred
  <2>4. CASE k = "cgiIn" /\ rev # {}
    <3> DEFINE q == ClientSendContent(I, o)
    <3>1. "IN" \notin rev /\ "OUT" \in rev
      BY <1>2, <2>4 DEF Reported
    <3>2. s = IF q.ret THEN q ELSE MarkFd(q, fd)
      <4> HIDE DEF I, fd, rev
      <4> QED BY <1>1, <3>1, DispatchIs
    <3>3. \/ q.killed /\ q.ret /\ q.c = client[x]
          \/ /\ Quiet(I, q) /\ SameKeep(client[x], q.c) /\ Fit(q.c, net[x].ask)
             /\ Healthy(q.kid[x], net[x].ask) /\ (client[x].begun => q.c.begun)
             /\ q.c.ready = client[x].ready /\ (q.ret => Calm)
      BY <2>4, BodySent
    <3> HIDE DEF q, s
    <3>4. CASE q.killed /\ q.ret /\ q.c = client[x]
      BY <3>2, <3>4
    <3>5. CASE /\ Quiet(I, q) /\ SameKeep(client[x], q.c) /\ Fit(q.c, net[x].ask)
               /\ Healthy(q.kid[x], net[x].ask) /\ (client[x].begun => q.c.begun)
               /\ q.c.ready = client[x].ready /\ (q.ret => Calm)
      <4>1. \/ s = q /\ "hangup" \notin Faults
            \/ s = MarkFd(q, fd)
        BY <3>2, <3>5 DEF Calm
      <4> QED BY <2>4, <3>5, <4>1, Transferred
    <3> QED BY <3>3, <3>4, <3>5
  <2>5. k = "file" => "IN" \in rev \/ rev = {}
    BY <1>2 DEF Reported
  <2> QED BY <1>1, <2>1, <2>2, <2>3, <2>4, <2>5
<1>6. CASE Outcome(x, i, s) /\ Talk(x, s) /\ AddClientContentFd(s) = s
  BY <1>4, <1>6
<1>7. CASE s.killed /\ s.c = client[x]
  <2>1. AddClientContentFd(s) = s
    <3> HIDE DEF s
    <3> QED BY <1>1, <1>7 DEF AddClientContentFd
  <2> QED BY <1>4, <1>7, <2>1
<1> QED BY <1>5, <1>6, <1>7

----------------------------------------------------------------------------
(* The end of a connection, and sending a response                         *)

\* What the deletion of a content leaves.
LEMMA DeleteContentIs ==
  ASSUME NEW p, IsImage(p), p.c \in ClientRec
  PROVE  /\ IsImage(DeleteContent(p)) /\ DeleteContent(p).x = p.x
         /\ DeleteContent(p).fd = Release(p.fd, {p.c.in, p.c.out})
         /\ DeleteContent(p).kid = [p.kid EXCEPT ![p.x] = NoKid]
         /\ DeleteContent(p).c = [p.c EXCEPT !.content = "none", !.in = 0, !.out = 0,
                                             !.given = FALSE, !.pos = 0]
         /\ DeleteContent(p).inbox = p.inbox /\ DeleteContent(p).up = p.up
         /\ DeleteContent(p).ask = p.ask /\ DeleteContent(p).answered = p.answered
         /\ DeleteContent(p).buf = p.buf /\ DeleteContent(p).del = p.del
         /\ DeleteContent(p).map = p.map
BY DEF DeleteContent, WithContent, IsImage, ImageFields

\* What reset() leaves, when no request is queued behind the one that was answered.
Cleared(p, q) ==
    /\ IsImage(q) /\ q.x = p.x /\ q.fd = Release(p.fd, {p.c.in, p.c.out})
    /\ q.kid = [p.kid EXCEPT ![p.x] = NoKid]
    /\ q.inbox = p.inbox /\ q.answered = p.answered
    /\ q.buf = p.buf /\ q.del = p.del /\ q.map = p.map
    /\ q.c.sock = p.c.sock /\ q.c.doomed = p.c.doomed /\ q.c.content = "none"
    /\ q.c.req = "none" /\ q.c.ready = FALSE /\ q.c.begun = FALSE /\ q.c.got = 0
    /\ q.c.more = FALSE /\ q.c.body = "none"

LEMMA ResetIs ==
  ASSUME NEW p, IsImage(p), p.c \in ClientRec, ~p.c.more, NEW o
  PROVE  Cleared(p, Reset(p, o))
<1> DEFINE d == DeleteContent(p)
           e == [p.c EXCEPT !.content = "none", !.in = 0, !.out = 0, !.given = FALSE, !.pos = 0]
           f == [e EXCEPT !.ready = FALSE, !.begun = FALSE, !.got = 0, !.emergency = FALSE]
           g == [f EXCEPT !.status = 0, !.body = "none", !.more = FALSE, !.req = "none"]
           r == ResetResponse(d)
           q == Reset(p, o)
<1>1. /\ IsImage(d) /\ d.x = p.x /\ d.fd = Release(p.fd, {p.c.in, p.c.out})
      /\ d.kid = [p.kid EXCEPT ![p.x] = NoKid] /\ d.c = e
      /\ d.inbox = p.inbox /\ d.answered = p.answered
      /\ d.buf = p.buf /\ d.del = p.del /\ d.map = p.map
  BY DeleteContentIs
<1>2. q = [r EXCEPT !.c = [r.c EXCEPT !.status = 0, !.body = "none", !.more = FALSE,
                                      !.req = "none"]]
  BY DEF Reset
<1> HIDE DEF q
<1>3. r = [d EXCEPT !.c = f]
  <2> HIDE DEF d
  <2> QED BY <1>1 DEF ResetResponse
<1>4. /\ g.sock = p.c.sock /\ g.doomed = p.c.doomed /\ g.content = "none"
      /\ g.req = "none" /\ g.ready = FALSE /\ g.begun = FALSE /\ g.got = 0
      /\ g.more = FALSE /\ g.body = "none"
  BY DEF ClientRec
<1> HIDE DEF d, r
<1>5. r.c = f /\ IsImage(r) /\ r.x = d.x /\ r.fd = d.fd /\ r.kid = d.kid
      /\ r.inbox = d.inbox /\ r.answered = d.answered
      /\ r.buf = d.buf /\ r.del = d.del /\ r.map = d.map
  <2> HIDE DEF f
  <2> QED BY <1>1, <1>3 DEF IsImage, ImageFields
<1>6. q = [r EXCEPT !.c = g]
  BY <1>2, <1>5
<1> HIDE DEF f, g
<1>7. q.c = g /\ IsImage(q) /\ q.x = r.x /\ q.fd = r.fd /\ q.kid = r.kid
      /\ q.inbox = r.inbox /\ q.answered = r.answered
      /\ q.buf = r.buf /\ q.del = r.del /\ q.map = r.map
  BY <1>5, <1>6 DEF IsImage, ImageFields
<1>8. Cleared(p, q)
  BY <1>1, <1>4, <1>5, <1>7 DEF Cleared
<1> QED BY <1>8 DEF q

\* What marking a client changes.
LEMMA MarkClientIs ==
  ASSUME NEW q, IsImage(q), q.c \in ClientRec
  PROVE  /\ MarkClient(q).c = [q.c EXCEPT !.doomed = TRUE]
         /\ MarkClient(q).fd = q.fd /\ MarkClient(q).kid = q.kid
         /\ MarkClient(q).inbox = q.inbox /\ MarkClient(q).answered = q.answered
         /\ MarkClient(q).buf = q.buf /\ MarkClient(q).map = q.map
         /\ MarkClient(q).del = (q.del \o <<q.c.sock, q.c.sock>>) \o ContentFds(q.c)
<1> DEFINE p == MarkClient(q)
           d == [q.c EXCEPT !.doomed = TRUE]
           s == q.del \o <<q.c.sock, q.c.sock>>
           r == [q EXCEPT !.c = d, !.del = s]
<1>1. p = MarkContent(r)
  <2>1. [Doom(q) EXCEPT !.del = @ \o <<q.c.sock, q.c.sock>>] = r
    <3>1. Doom(q) = [q EXCEPT !.c = d] /\ Doom(q).del = q.del
      <4>1. Doom(q) = [q EXCEPT !.c = d]
        BY DEF Doom
      <4> HIDE DEF d
      <4> QED BY <4>1 DEF IsImage, ImageFields
    <3> HIDE DEF d
    <3> QED BY <3>1 DEF IsImage, ImageFields
  <2> HIDE DEF r
  <2> QED BY <2>1 DEF MarkClient
<1>2. d.content = q.c.content /\ d.in = q.c.in /\ d.out = q.c.out
  BY DEF ClientRec
<1>3. ContentFds(d) = ContentFds(q.c)
  <2> HIDE DEF d
  <2> QED BY <1>2 DEF ContentFds
<1> HIDE DEF p, d, s
<1>4. /\ IsImage(r) /\ r.c = d /\ r.fd = q.fd /\ r.kid = q.kid
      /\ r.inbox = q.inbox /\ r.answered = q.answered /\ r.buf = q.buf /\ r.map = q.map
      /\ r.del = s
  BY DEF IsImage, ImageFields
<1> HIDE DEF r
<1>5. Marked(p, r) /\ p.del = r.del \o ContentFds(r.c)
  BY <1>1, <1>4, MarkContentIs
<1>6. /\ p.c = d /\ p.fd = q.fd /\ p.kid = q.kid
      /\ p.inbox = q.inbox /\ p.answered = q.answered /\ p.buf = q.buf /\ p.map = q.map
  BY <1>4, <1>5 DEF Marked
<1>7. p.del = s \o ContentFds(q.c)
  BY <1>3, <1>4, <1>5
<1> QED BY <1>6, <1>7 DEF p, d, s

\* No entry of x is to be added when its socket is read, or its response sent.
LEMMA NoneAdded ==
  ASSUME NEW x, NEW i, Handling(x, i), Kind(FdAt(i)) = "socket",
         socket_fds[i].events = "IN" \/ client[x].ready
  PROVE  \A e \in Added : Owner(e.fd) # x
<1> SUFFICES ASSUME NEW e \in Added, Owner(e.fd) = x PROVE FALSE
  OBVIOUS
<1>1. /\ Accepted /\ Opened /\ pc.at = "client" /\ i \in Later /\ ~Passed(i)
      /\ Owner(FdAt(i)) = x
  BY HandlingFacts DEF Handling, Tables
<1>2. Kind(e.fd) # "socket"
  BY <1>1 DEF Accepted
<1> QED BY <1>1, <1>2 DEF Opened

\* The client goes: its socket twice, and its content, are marked.
LEMMA ClientGoes ==
  ASSUME NEW x, NEW i, Handling(x, i), Kind(FdAt(i)) = "socket",
         socket_fds[i].events = "IN" \/ client[x].ready,
         NEW q, Good(q, x, fdtab), q.c.sock = client[x].sock,
         q.buf = buffer_new_fd, q.del = fds_to_be_deleted, q.map = client_mapping,
         q.inbox = net[x].inbox, \A f : Watched(f) => q.fd[f] = fdtab[f],
         Fit(q.c, net[x].ask), Healthy(q.kid[x], net[x].ask),
         \A y \in Conn : y # x => q.kid[y] = kid[y],
         q.c.ready => client[x].ready,
         OneRequest(net[x], q.c.req),
         q.answered = net[x].answered \/ (q.c = client[x] /\ client[x].ready),
         NEW p, p = MarkClient(q)
  PROVE  Outcome(x, i, p) /\ Talk(x, p) /\ AddClientContentFd(p) = p
<1> DEFINE pair == <<client[x].sock, client[x].sock>>
           held == ContentFds(q.c)
           new  == pair \o held
<1>1. /\ x \in Conn /\ FdAt(i) \in Fd /\ FdAt(i) = client[x].sock /\ Owner(FdAt(i)) = x
      /\ Fit(client[x], net[x].ask) /\ net[x] \in NetRec
      /\ Sound /\ Lists /\ Polled /\ Pending
  BY HandlingFacts, WhatIsHeld DEF Handling, Exchange, IInv, Tables
<1>2. IsImage(q) /\ q.c \in ClientRec /\ Owns(x, q.c, q.fd)
  BY DEF Good
<1>3. /\ p.c = [q.c EXCEPT !.doomed = TRUE] /\ p.fd = q.fd /\ p.kid = q.kid
      /\ p.inbox = q.inbox /\ p.answered = q.answered /\ p.buf = q.buf /\ p.map = q.map
      /\ p.del = (fds_to_be_deleted \o pair) \o held
  <2>1. /\ p.c = [q.c EXCEPT !.doomed = TRUE] /\ p.fd = q.fd /\ p.kid = q.kid
        /\ p.inbox = q.inbox /\ p.answered = q.answered /\ p.buf = q.buf /\ p.map = q.map
        /\ p.del = (q.del \o <<q.c.sock, q.c.sock>>) \o ContentFds(q.c)
    <3> HIDE DEF pair, held
    <3>1. p = MarkClient(q)
      OBVIOUS
    <3> DEFINE m == MarkClient(q)
               k == [q.c EXCEPT !.doomed = TRUE]
               l == (q.del \o <<q.c.sock, q.c.sock>>) \o ContentFds(q.c)
    <3>2. /\ m.c = k /\ m.fd = q.fd /\ m.kid = q.kid
          /\ m.inbox = q.inbox /\ m.answered = q.answered /\ m.buf = q.buf /\ m.map = q.map
          /\ m.del = l
      BY <1>2, MarkClientIs
    <3>3. p = m
      BY <3>1
    <3> HIDE DEF m, k, l
    <3>4. /\ p.c = k /\ p.fd = q.fd /\ p.kid = q.kid
          /\ p.inbox = q.inbox /\ p.answered = q.answered /\ p.buf = q.buf /\ p.map = q.map
          /\ p.del = l
      BY <3>2, <3>3
    <3> QED BY <3>4 DEF k, l
  <2> QED BY <2>1
<1>4. /\ p.c.doomed = TRUE /\ p.c.sock = q.c.sock /\ p.c.req = q.c.req /\ p.c.ready = q.c.ready
      /\ p.c.begun = q.c.begun /\ p.c.content = q.c.content /\ p.c.given = q.c.given
      /\ p.c.got = q.c.got /\ p.c.pos = q.c.pos /\ p.c.status = q.c.status
      /\ p.c.more = q.c.more /\ p.c.body = q.c.body
  BY <1>2, <1>3 DEF ClientRec
<1>5. /\ held \in Seq(Fd)
      /\ \A f \in Range(held) : f \in Fd /\ q.fd[f][1] # "socket" /\ q.fd[f][2] = x
      /\ \A f \in Fd : q.fd[f] \in ContentRoles \X {x} => f \in Range(held)
  BY <1>1, <1>2, ContentFdsAre
<1>6. pair \in Seq(Fd) /\ Range(pair) = {client[x].sock} /\ Twice(pair, client[x].sock)
  <2> DEFINE f == client[x].sock
  <2>1. f \in Fd
    BY <1>1
  <2> HIDE DEF f
  <2>2. <<f, f>> \in Seq(Fd) /\ Len(<<f, f>>) = 2 /\ <<f, f>>[1] = f /\ <<f, f>>[2] = f
    BY <2>1
  <2>3. Range(<<f, f>>) = {f}
    BY DEF Range
  <2>4. Twice(<<f, f>>, f)
    <3>1. 1 \in 1 .. 2 /\ 2 \in 1 .. 2 /\ 1 # 2
      OBVIOUS
    <3> QED BY <2>2, <3>1 DEF Twice
  <2> QED BY <2>2, <2>3, <2>4 DEF f
<1> HIDE DEF pair, held
<1>7. /\ new \in Seq(Fd) /\ Range(new) = Range(pair) \cup Range(held)
      /\ Twice(new, client[x].sock)
  BY <1>5, <1>6, AppendRange, TwiceKept
<1>8. p.del = fds_to_be_deleted \o new
  <2>1. fds_to_be_deleted \in Seq(Fd)
    BY <1>1 DEF Lists
  <2> QED BY <1>3, <1>5, <1>6, <2>1
<1> HIDE DEF new
<1>9. ASSUME NEW f \in Range(new), Watched(f)
      PROVE  Owner(f) = x
  <2>1. CASE f \in Range(pair)
    BY <1>1, <1>6, <2>1
  <2>2. CASE f \in Range(held)
    BY <1>5, <1>9, <2>2 DEF Owner
  <2> QED BY <1>7, <1>9, <2>1, <2>2
<1>10. ASSUME NEW j \in Later, Owner(FdAt(j)) = x
       PROVE  FdAt(j) \in Range(new)
  <2>1. Watched(FdAt(j)) /\ FdAt(j) \in Fd /\ fdtab[FdAt(j)] \in Roles \X Conn
    <3>1. Watched(FdAt(j))
      BY DEF Watched
    <3> QED BY <1>1, <3>1, WatchedOwned
  <2>2. /\ Kind(FdAt(j)) \in Roles /\ fdtab[FdAt(j)] = <<Kind(FdAt(j)), x>>
        /\ Kind(FdAt(j)) = "socket" => FdAt(j) = client[x].sock
    BY <1>1, <1>10, <2>1, OwnerHolds
  <2>3. CASE Kind(FdAt(j)) = "socket"
    BY <1>6, <1>7, <2>2, <2>3
  <2>4. CASE Kind(FdAt(j)) # "socket"
    <3>1. Kind(FdAt(j)) \in ContentRoles
      BY <2>2, <2>4 DEF Roles, ContentRoles
    <3>2. q.fd[FdAt(j)] \in ContentRoles \X {x}
      BY <2>1, <2>2, <3>1
    <3> QED BY <1>5, <1>7, <2>1, <3>2
  <2> QED BY <2>3, <2>4
<1>11. Deletes(x, i, p, new)
  BY <1>4, <1>7, <1>8, <1>9, <1>10, NoneAdded DEF Deletes
<1>12. Outcome(x, i, p)
  <2>1. /\ p.c.sock = client[x].sock /\ p.buf = buffer_new_fd /\ p.map = client_mapping
        /\ \A f : Watched(f) => p.fd[f] = fdtab[f]
    BY <1>3, <1>4
  <2>2. p.c.ready => client[x].ready
    BY <1>4
  <2>3. new \in Seq(Fd)
    BY <1>7
  <2> QED BY <1>11, <2>1, <2>2, <2>3, QuietOutcome
<1>13. Talk(x, p)
  <2>1. Fit(p.c, net[x].ask)
    BY <1>4 DEF Fit
  <2>2. OneRequest([net[x] EXCEPT !.inbox = p.inbox], p.c.req)
    <3>1. [net[x] EXCEPT !.inbox = net[x].inbox] = net[x]
      BY <1>1 DEF NetRec
    <3> QED BY <1>3, <1>4, <3>1
  <2>3. p.answered > net[x].answered /\ net[x].ask = "file" /\ p.c.status = 200
        => p.c.got = FileLen
    <3>1. CASE q.answered = net[x].answered
      <4>1. net[x].answered \in Nat /\ p.answered = net[x].answered
        BY <1>1, <1>3, <3>1 DEF NetRec
      <4> QED BY <4>1
    <3>2. CASE q.c = client[x] /\ client[x].ready
      BY <1>1, <1>4, <3>2 DEF Fit
    <3> QED BY <3>1, <3>2
  <2> QED BY <1>3, <1>4, <2>1, <2>2, <2>3 DEF Talk
<1>14. AddClientContentFd(p) = p
  <2>1. p.c.content = "none" \/ p.c.given
    BY <1>4 DEF Fit
  <2> QED BY <2>1 DEF AddClientContentFd
<1> QED BY <1>12, <1>13, <1>14

\* The content of a response that is ready is watched no more when its socket is handled,
\* once the peer has gone.
LEMMA NoneWatched ==
  ASSUME NEW x, NEW i, Handling(x, i), Kind(FdAt(i)) = "socket", client[x].ready, ~net[x].up,
         NEW f \in {client[x].in, client[x].out}
  PROVE  ~Watched(f)
<1> SUFFICES ASSUME Watched(f) PROVE FALSE
  OBVIOUS
<1>1. /\ Sound /\ Lists /\ Polled /\ Pending /\ Accepted /\ Opened /\ SocketsFirst
      /\ ReadyMarked /\ InputMarked /\ pc.at = "client" /\ i = pc.i /\ x = Owner(FdAt(i))
  BY DEF Handling, IInv, Tables
<1>2. /\ x \in Conn /\ i \in Later /\ ~Passed(i) /\ fdtab[FdAt(i)] = <<"socket", x>>
      /\ client[x] \in ClientRec /\ Owns(x, client[x], fdtab)
      /\ Exchange(x) /\ net[x].stage = "accepted"
  BY HandlingFacts
<1>3. f \in Fd /\ fdtab[f] \in Roles \X Conn
  BY <1>1, WatchedOwned
<1>4. fdtab[f] \in ContentRoles \X {x}
  <2>1. 0 \notin Fd /\ client[x].content \in {"none", "file", "cgi"}
    BY <1>2, ClientSets DEF ClientRec, ContentKind
  <2> QED BY <1>2, <1>3, <2>1 DEF Owns, ContentRoles
<1>5. Owner(f) = x /\ Kind(f) \in {"file", "cgiOut", "cgiIn"} /\ Kind(f) # "socket"
  BY <1>4 DEF Owner, Kind, ContentRoles
<1>6. ASSUME NEW j \in Later, FdAt(j) = f
      PROVE  FALSE
  <2>1. CASE Kind(f) = "cgiIn"
    <3>1. "hangup" \in Faults
      BY <1>2 DEF Exchange, Peer
    <3>2. Passed(i)
      BY <1>1, <1>2, <1>5, <1>6, <2>1, <3>1 DEF InputMarked
    <3> QED BY <1>2, <3>2
  <2>2. CASE Kind(f) \in {"file", "cgiOut"}
    <3>1. Passed(j)
      BY <1>1, <1>5, <1>6, <2>2 DEF ReadyMarked
    <3>2. i < j
      BY <1>1, <1>2, <1>5, <1>6 DEF SocketsFirst
    <3>3. i \in Nat /\ j \in Nat /\ j < i
      BY <1>1, <1>2, <3>1, LaterEntries DEF Passed
    <3> QED BY <3>2, <3>3
  <2> QED BY <1>5, <2>1, <2>2
<1>7. ASSUME NEW e \in Added, e.fd = f
      PROVE  FALSE
  BY <1>1, <1>5, <1>7 DEF Opened
<1> QED BY <1>6, <1>7 DEF Watched

\* A call at a socket that opens and closes nothing, and after which the client stays.
LEMMA SocketQuiet ==
  ASSUME NEW x, NEW i, Handling(x, i), Kind(FdAt(i)) = "socket", NEW p,
         p.fd = fdtab, p.buf = buffer_new_fd, p.del = fds_to_be_deleted,
         p.map = client_mapping, p.answered = net[x].answered,
         p.c.sock = client[x].sock, ~p.c.doomed, Fit(p.c, net[x].ask),
         p.kid = kid, p.c.ready => client[x].ready, client[x].begun => p.c.begun,
         OneRequest([net[x] EXCEPT !.inbox = p.inbox], p.c.req)
  PROVE  Outcome(x, i, p) /\ Talk(x, p) /\ AddClientContentFd(p) = p
<1>1. /\ x \in Conn /\ fds_to_be_deleted \in Seq(Fd) /\ Exchange(x)
  BY HandlingFacts DEF Handling, IInv, Lists
<1>2. Deletes(x, i, p, <<>>)
  <2>1. Range(<<>>) = {} /\ fds_to_be_deleted \o <<>> = fds_to_be_deleted
    BY <1>1 DEF Range
  <2> QED BY <2>1 DEF Deletes
<1>3. Outcome(x, i, p)
  <2>1. <<>> \in Seq(Fd)
    OBVIOUS
  <2> QED BY <1>2, <2>1, QuietOutcome
<1>4. Talk(x, p)
  <2>1. net[x].answered \in Nat
    BY HandlingFacts DEF NetRec
  <2> QED BY <1>1, <2>1 DEF Talk, Exchange
<1>5. AddClientContentFd(p) = p
  <2>1. p.c.content = "none" \/ p.c.given
    BY DEF Fit
  <2> QED BY <2>1 DEF AddClientContentFd
<1> QED BY <1>3, <1>4, <1>5

\* Nothing is read from the socket, and nothing sent.
LEMMA SocketIdle ==
  ASSUME NEW x, NEW i, Handling(x, i), Kind(FdAt(i)) = "socket", NEW p, p = Image(x)
  PROVE  Outcome(x, i, p) /\ Talk(x, p) /\ AddClientContentFd(p) = p
<1>1. /\ p.c = client[x] /\ p.fd = fdtab /\ p.buf = buffer_new_fd /\ p.kid = kid
      /\ p.del = fds_to_be_deleted /\ p.map = client_mapping
      /\ p.answered = net[x].answered /\ p.inbox = net[x].inbox
  BY ImageIs
<1>2. net[x] \in NetRec /\ Fit(client[x], net[x].ask) /\ OneRequest(net[x], client[x].req)
  BY HandlingFacts DEF Exchange
<1>3. [net[x] EXCEPT !.inbox = p.inbox] = net[x]
  BY <1>1, <1>2 DEF NetRec
<1> QED BY <1>1, <1>2, <1>3, SocketQuiet DEF Handling

\* A response is sent: whole, or in part, or not at all when its peer has gone.
LEMMA ResponseSent ==
  ASSUME NEW x, NEW i, Handling(x, i), Kind(FdAt(i)) = "socket", client[x].ready, NEW o,
         NEW q, q = ClientSendResponse(Image(x), o),
         NEW p, p = IF q.ret THEN q ELSE MarkClient(q)
  PROVE  Outcome(x, i, p) /\ Talk(x, p) /\ AddClientContentFd(p) = p
<1> DEFINE I == Image(x)
           c == client[x]
<1>1. /\ x \in Conn /\ c \in ClientRec /\ net[x] \in NetRec /\ kid \in [Conn -> Kid]
      /\ Good(I, x, fdtab) /\ Fit(c, net[x].ask) /\ Healthy(kid[x], net[x].ask)
      /\ OneRequest(net[x], c.req) /\ ~c.more /\ ~c.doomed
      /\ Sound /\ Lists /\ Polled /\ Pending
  BY HandlingFacts DEF Exchange, Fit, Handling, IInv, Tables
<1>2. /\ IsImage(I) /\ I.x = x /\ I.c = c /\ I.fd = fdtab /\ I.kid = kid
      /\ I.inbox = net[x].inbox /\ I.up = net[x].up /\ I.answered = net[x].answered
      /\ I.buf = buffer_new_fd /\ I.del = fds_to_be_deleted /\ I.map = client_mapping
  BY ImageIs
<1> HIDE DEF I
<1> DEFINE a == IF I.up THEN I.answered + 1 ELSE I.answered
<1>3. \/ q = [I EXCEPT !.killed = TRUE]
      \/ ~net[x].up /\ q = [Reset(I, o) EXCEPT !.ret = FALSE]
      \/ q = [I EXCEPT !.answered = a, !.ret = FALSE]
      \/ q = [I EXCEPT !.c = [c EXCEPT !.begun = TRUE], !.ret = TRUE]
  <2>1. q = ClientSendResponse(I, o)
    BY DEF I
  <2> HIDE DEF c
  <2> QED BY <1>2, <2>1 DEF ClientSendResponse
<1>7. CASE q = [I EXCEPT !.killed = TRUE]
  <2>1. I.ret = TRUE
    BY ImageIs DEF I
  <2>2. /\ q.c = c /\ q.fd = fdtab /\ q.kid = kid
        /\ q.inbox = net[x].inbox /\ q.ret = TRUE /\ q.answered = net[x].answered
        /\ q.buf = buffer_new_fd /\ q.del = fds_to_be_deleted /\ q.map = client_mapping
    BY <1>2, <1>7, <2>1 DEF IsImage, ImageFields
  <2>3. OneRequest([net[x] EXCEPT !.inbox = q.inbox], c.req)
    <3>1. [net[x] EXCEPT !.inbox = net[x].inbox] = net[x]
      BY <1>1 DEF NetRec
    <3> QED BY <1>1, <2>2, <3>1
  <2>4. p = q
    BY <2>2
  <2> QED BY <1>1, <2>2, <2>3, <2>4, SocketQuiet
<1>4. CASE ~net[x].up /\ q = [Reset(I, o) EXCEPT !.ret = FALSE]
  <2> DEFINE r == Reset(I, o)
  <2>0. Cleared(I, r)
    <3>1. IsImage(I) /\ I.c \in ClientRec /\ ~I.c.more
      BY <1>1, <1>2
    <3> QED BY <3>1, ResetIs
  <2> HIDE DEF r
  <2>1. /\ IsImage(r) /\ r.x = I.x /\ r.fd = Release(I.fd, {I.c.in, I.c.out})
        /\ r.kid = [I.kid EXCEPT ![I.x] = NoKid]
        /\ r.inbox = I.inbox /\ r.answered = I.answered
        /\ r.buf = I.buf /\ r.del = I.del /\ r.map = I.map
        /\ r.c.sock = I.c.sock /\ r.c.doomed = I.c.doomed /\ r.c.content = "none"
        /\ r.c.req = "none" /\ r.c.ready = FALSE /\ r.c.begun = FALSE /\ r.c.got = 0
        /\ r.c.more = FALSE /\ r.c.body = "none"
    BY <2>0 DEF Cleared
  <2>2. Good(r, x, fdtab)
    BY <1>1, ResetGood DEF r
  <2>3. q = [r EXCEPT !.ret = FALSE]
    BY <1>4 DEF r
  <2>4. /\ q.c = r.c /\ q.fd = r.fd /\ q.kid = r.kid /\ q.inbox = r.inbox /\ q.ret = FALSE
        /\ q.answered = r.answered /\ q.buf = r.buf /\ q.del = r.del /\ q.map = r.map
    BY <2>1, <2>3 DEF IsImage, ImageFields
  <2>5. Good(q, x, fdtab)
    BY <1>1, <2>2, <2>3, SetRetGood
  <2>6. Fit(q.c, net[x].ask)
    BY <2>1, <2>4 DEF Fit, Routed
  <2>7. q.kid[x] = NoKid /\ \A y \in Conn : y # x => q.kid[y] = kid[y]
    BY <1>1, <1>2, <2>1, <2>4
  <2>8. Healthy(q.kid[x], net[x].ask)
    BY <2>7, BlankFits
  <2>9. \A f : Watched(f) => q.fd[f] = fdtab[f]
    <3> SUFFICES ASSUME NEW f, Watched(f) PROVE q.fd[f] = fdtab[f]
      OBVIOUS
    <3>1. f \in Fd
      BY <1>1, WatchedOwned
    <3>2. f \notin {c.in, c.out}
      BY <1>4, NoneWatched
    <3> QED BY <1>2, <2>1, <2>4, <3>1, <3>2 DEF Release
  <2>10. OneRequest(net[x], q.c.req)
    <3>1. c.req \in FrontRequest /\ Unread(net[x]) \in Nat
      BY <1>1, ExchangeTypes DEF ClientRec, Handling
    <3> QED BY <1>1, <2>1, <2>4, <3>1, OneRequestNone
  <2>11. p = MarkClient(q)
    BY <2>4
  <2>12. /\ q.c.sock = c.sock /\ q.buf = buffer_new_fd /\ q.del = fds_to_be_deleted
         /\ q.map = client_mapping /\ q.inbox = net[x].inbox /\ q.answered = net[x].answered
         /\ q.c.ready => client[x].ready
    BY <1>2, <2>1, <2>4
  <2> QED BY <2>5, <2>6, <2>7, <2>8, <2>9, <2>10, <2>11, <2>12, ClientGoes
<1>5. CASE q = [I EXCEPT !.answered = a, !.ret = FALSE]
  <2>1. a \in Nat
    BY <1>1 DEF Good
  <2> HIDE DEF a
  <2>2. /\ IsImage(q) /\ q.x = I.x /\ q.c = c /\ q.fd = fdtab /\ q.kid = kid /\ q.up = I.up
        /\ q.inbox = net[x].inbox /\ q.ret = FALSE /\ q.answered = a
        /\ q.buf = buffer_new_fd /\ q.del = fds_to_be_deleted /\ q.map = client_mapping
    BY <1>2, <1>5 DEF IsImage, ImageFields
  <2>3. Good(q, x, fdtab)
    <3>1. Alike(I, q)
      BY <1>1, <1>2, <2>1, <2>2 DEF Alike, Good
    <3> QED BY <1>1, <3>1, AlikeGood
  <2>4. p = MarkClient(q)
    BY <2>2
  <2> QED BY <1>1, <2>2, <2>3, <2>4, ClientGoes
<1>6. CASE q = [I EXCEPT !.c = [c EXCEPT !.begun = TRUE], !.ret = TRUE]
  <2> DEFINE d == [c EXCEPT !.begun = TRUE]
  <2>1. q = [I EXCEPT !.c = d, !.ret = TRUE]
    BY <1>6
  <2>2. /\ d.sock = c.sock /\ d.doomed = c.doomed /\ d.req = c.req /\ d.content = c.content
        /\ d.given = c.given /\ d.ready = c.ready /\ d.begun = TRUE /\ d.got = c.got
        /\ d.pos = c.pos /\ d.status = c.status /\ d.more = c.more /\ d.body = c.body
    BY <1>1 DEF ClientRec
  <2> HIDE DEF d
  <2>3. /\ q.c = d /\ q.fd = fdtab /\ q.kid = kid
        /\ q.inbox = net[x].inbox /\ q.ret = TRUE /\ q.answered = net[x].answered
        /\ q.buf = buffer_new_fd /\ q.del = fds_to_be_deleted /\ q.map = client_mapping
    BY <1>2, <2>1 DEF IsImage, ImageFields
  <2>4. Fit(d, net[x].ask)
    BY <1>1, <2>2 DEF Fit
  <2>5. OneRequest([net[x] EXCEPT !.inbox = q.inbox], d.req)
    <3>1. [net[x] EXCEPT !.inbox = net[x].inbox] = net[x]
      BY <1>1 DEF NetRec
    <3> QED BY <1>1, <2>2, <2>3, <3>1
  <2>6. p = q
    BY <2>3
  <2> QED BY <1>1, <2>2, <2>3, <2>4, <2>5, <2>6, SocketQuiet
<1> QED BY <1>3, <1>4, <1>5, <1>6, <1>7

\* handleClient() at the entry of a socket that has nothing to be read.
LEMMA SocketSends ==
  ASSUME Orderly, NEW x, NEW i, Handling(x, i), Kind(FdAt(i)) = "socket", NEW o \in Oracle,
         "IN" \notin revents[i], NEW p, p = Handled(x, FdAt(i), revents[i], o)
  PROVE  Outcome(x, i, p) /\ Talk(x, p)
<1> DEFINE I == Image(x)
           fd == FdAt(i)
           rev == revents[i]
           s == Dispatch(I, fd, rev, o)
<1>1. fd = I.c.sock /\ I.c = client[x] /\ rev \subseteq {socket_fds[i].events}
      /\ socket_fds[i].events \in {"IN", "OUT"}
  <2>1. fd = client[x].sock /\ I.c = client[x]
    BY WhatIsHeld, ImageIs
  <2>2. i \in Later /\ Lists /\ InRound /\ pc.at = "client"
    BY HandlingFacts DEF Handling, Tables, IInv
  <2>3. rev \subseteq {socket_fds[i].events}
    BY <2>2 DEF InRound, Reported
  <2>4. socket_fds[i].events \in {"IN", "OUT"}
    BY <2>2, LaterEntries, EntryType
  <2> QED BY <2>1, <2>3, <2>4
<1>2. p = AddClientContentFd(s)
  BY OrderlyOracle DEF Handled
<1>3. Outcome(x, i, s) /\ Talk(x, s) /\ AddClientContentFd(s) = s
  <2>1. CASE rev = {}
    <3>1. s = I
      BY <2>1, DispatchIs
    <3> HIDE DEF s
    <3> QED BY <3>1, SocketIdle
  <2>2. CASE rev # {}
    <3> DEFINE q == ClientSendResponse(I, o)
    <3>1. "OUT" \in rev
      BY <1>1, <2>2
    <3>2. s = IF ~client[x].ready THEN I ELSE IF q.ret THEN q ELSE MarkClient(q)
      <4>1. s = HandleClientSent(I, fd, o)
        BY <3>1, DispatchIs
      <4> HIDE DEF I, s, fd
      <4> QED BY <1>1, <4>1 DEF HandleClientSent
    <3> HIDE DEF s, q
    <3>3. CASE ~client[x].ready
      BY <3>2, <3>3, SocketIdle
    <3>4. CASE client[x].ready
      <4>1. q = ClientSendResponse(Image(x), o) /\ s = IF q.ret THEN q ELSE MarkClient(q)
        BY <3>2, <3>4 DEF q
      <4> QED BY <3>4, <4>1, ResponseSent
    <3> QED BY <3>3, <3>4
  <2> QED BY <2>1, <2>2
<1> QED BY <1>2, <1>3

----------------------------------------------------------------------------
(* The routing of a request                                                *)

\* What a Client was asked for, and by whom, stays.
SameAsk(c, d) ==
    d.sock = c.sock /\ d.doomed = c.doomed /\ d.req = c.req /\ d.more = c.more /\ d.body = c.body

\* From b to q only the content, the child of b.x and the response changed, of which
\* nothing was sent or read yet.
Keeps(b, q) ==
    /\ IsImage(q) /\ q.x = b.x /\ q.inbox = b.inbox /\ q.ask = b.ask
    /\ q.answered = b.answered /\ q.buf = b.buf /\ q.del = b.del /\ q.map = b.map
    /\ q.kid \in [Conn -> Kid] /\ Healthy(q.kid[b.x], b.ask)
    /\ \A y \in Conn : y # b.x => q.kid[y] = b.kid[y]
    /\ q.c \in ClientRec /\ SameAsk(b.c, q.c) /\ ~q.c.begun /\ q.c.got = 0

\* The Client has no content, a page, a file, a script.
Fresh(b, q) == Keeps(b, q) /\ q.fd = b.fd /\ q.c.content = "none" /\ q.c.in = 0 /\ q.c.out = 0

Page(b, q) == Fresh(b, q) /\ q.c.ready /\ (b.ask = "file" => q.c.status # 200)

FileOpen(b, q) ==
    /\ Keeps(b, q) /\ q.c.content = "file" /\ ~q.c.ready /\ ~q.c.given /\ q.c.pos = 0
    /\ q.c.in \in Fd /\ b.fd[q.c.in] = Free
    /\ q.fd = [b.fd EXCEPT ![q.c.in] = <<"file", b.x>>]

CgiOpen(b, q) ==
    /\ Keeps(b, q) /\ q.c.content = "cgi" /\ ~q.c.ready /\ ~q.c.given /\ b.ask = "cgi"
    /\ q.c.in \in Fd /\ b.fd[q.c.in] = Free /\ q.c.out \in Fd /\ b.fd[q.c.out] = Free
    /\ q.c.in # q.c.out
    /\ q.fd = [b.fd EXCEPT ![q.c.in] = <<"cgiOut", b.x>>, ![q.c.out] = <<"cgiIn", b.x>>]

\* No other connection has a child while b.x asks for a script.
Alone(b) ==
    /\ b.x \in Conn /\ b.fd \in [Fd -> Object] /\ b.kid \in [Conn -> Kid]
    /\ b.ask = "cgi" => \A y \in Conn : y # b.x => b.kid[y].run = "none" /\ ~b.kid[y].shot

LEMMA SetClientFresh ==
  ASSUME NEW b, NEW p, Fresh(b, p), NEW d \in ClientRec, SameAsk(p.c, d),
         d.content = "none", d.in = 0, d.out = 0, ~d.begun, d.got = 0,
         NEW q, q = [p EXCEPT !.c = d]
  PROVE  Fresh(b, q) /\ q.c = d
<1>1. IsImage(p)
  BY DEF Fresh, Keeps
<1>2. /\ IsImage(q) /\ q.c = d /\ q.x = p.x /\ q.fd = p.fd /\ q.kid = p.kid
      /\ q.inbox = p.inbox /\ q.ask = p.ask /\ q.answered = p.answered
      /\ q.buf = p.buf /\ q.del = p.del /\ q.map = p.map
  BY <1>1 DEF IsImage, ImageFields
<1> QED BY <1>2 DEF Fresh, Keeps, SameAsk

LEMMA StatusFresh ==
  ASSUME NEW b, NEW p, Fresh(b, p), NEW s \in Nat
  PROVE  /\ Fresh(b, WithStatus(p, s)) /\ WithStatus(p, s).c.status = s
         /\ WithStatus(p, s).c.ready = p.c.ready
<1> DEFINE d == [p.c EXCEPT !.status = s]
           q == WithStatus(p, s)
<1>1. d \in ClientRec /\ SameAsk(p.c, d) /\ d.content = "none" /\ d.in = 0 /\ d.out = 0
      /\ ~d.begun /\ d.got = 0 /\ d.status = s /\ d.ready = p.c.ready
  BY DEF Fresh, Keeps, ClientRec, SameAsk
<1>2. q = [p EXCEPT !.c = d]
  BY DEF WithStatus
<1> HIDE DEF d, q
<1>3. Fresh(b, q) /\ q.c = d
  BY <1>1, <1>2, SetClientFresh
<1> QED BY <1>1, <1>3 DEF q

LEMMA ResetFresh ==
  ASSUME NEW b, NEW p, Fresh(b, p)
  PROVE  /\ Fresh(b, ResetResponse(p)) /\ ~ResetResponse(p).c.ready
         /\ ResetResponse(p).c.status = p.c.status
<1> DEFINE d == [p.c EXCEPT !.ready = FALSE, !.begun = FALSE, !.got = 0, !.emergency = FALSE]
           q == ResetResponse(p)
<1>1. d \in ClientRec /\ SameAsk(p.c, d) /\ d.content = "none" /\ d.in = 0 /\ d.out = 0
      /\ ~d.begun /\ d.got = 0 /\ ~d.ready /\ d.status = p.c.status
  BY ClientSets DEF Fresh, Keeps, ClientRec, SameAsk
<1>2. q = [p EXCEPT !.c = d]
  BY DEF ResetResponse
<1> HIDE DEF d, q
<1>3. Fresh(b, q) /\ q.c = d
  BY <1>1, <1>2, SetClientFresh
<1> QED BY <1>1, <1>3 DEF q

\* There is no content to delete.
LEMMA DeletedFresh ==
  ASSUME NEW b, Alone(b), NEW p, Fresh(b, p)
  PROVE  /\ Fresh(b, DeleteContent(p)) /\ DeleteContent(p).c.ready = p.c.ready
         /\ DeleteContent(p).c.status = p.c.status
<1> DEFINE q == DeleteContent(p)
           d == [p.c EXCEPT !.content = "none", !.in = 0, !.out = 0, !.given = FALSE, !.pos = 0]
<1>1. IsImage(p) /\ p.c \in ClientRec /\ p.c.in = 0 /\ p.c.out = 0 /\ p.x = b.x /\ p.fd = b.fd
      /\ p.kid \in [Conn -> Kid] /\ b.x \in Conn /\ b.fd \in [Fd -> Object]
  BY DEF Fresh, Keeps, Alone
<1>2. /\ IsImage(q) /\ q.x = p.x /\ q.fd = Release(p.fd, {p.c.in, p.c.out})
      /\ q.kid = [p.kid EXCEPT ![p.x] = NoKid] /\ q.c = d
      /\ q.inbox = p.inbox /\ q.ask = p.ask /\ q.answered = p.answered
      /\ q.buf = p.buf /\ q.del = p.del /\ q.map = p.map
  BY <1>1, DeleteContentIs
<1>3. d \in ClientRec /\ SameAsk(p.c, d) /\ d.content = "none" /\ d.in = 0 /\ d.out = 0
      /\ ~d.begun /\ d.got = 0 /\ d.ready = p.c.ready /\ d.status = p.c.status
  BY ClientSets DEF Fresh, Keeps, ClientRec, SameAsk
<1> HIDE DEF d, q
<1>4. q.fd = b.fd
  <2>1. \A f \in Fd : f \notin {p.c.in, p.c.out}
    BY <1>1, ClientSets
  <2> QED BY <1>1, <1>2, <2>1 DEF Release
<1>5. /\ q.kid \in [Conn -> Kid] /\ q.kid[b.x] = NoKid
      /\ \A y \in Conn : y # b.x => q.kid[y] = p.kid[y]
  BY <1>1, <1>2, KidTypes
<1>6. Healthy(q.kid[b.x], b.ask)
  BY <1>5, BlankFits
<1>7. Keeps(b, q)
  BY <1>2, <1>3, <1>5, <1>6 DEF Fresh, Keeps, SameAsk
<1> QED BY <1>2, <1>3, <1>4, <1>7 DEF Fresh, q

LEMMA FinishFresh ==
  ASSUME NEW b, NEW p, Fresh(b, p)
  PROVE  Fresh(b, Finish(p)) /\ Finish(p).c.ready /\ Finish(p).c.status = p.c.status
<1> DEFINE d == [p.c EXCEPT !.ready = TRUE]
           q == Finish(p)
<1>1. d \in ClientRec /\ SameAsk(p.c, d) /\ d.content = "none" /\ d.in = 0 /\ d.out = 0
      /\ ~d.begun /\ d.got = 0 /\ d.ready /\ d.status = p.c.status
  BY DEF Fresh, Keeps, ClientRec, SameAsk
<1>2. q = [p EXCEPT !.c = d]
  BY DEF Finish
<1> HIDE DEF d, q
<1>3. Fresh(b, q) /\ q.c = d
  BY <1>1, <1>2, SetClientFresh
<1> QED BY <1>1, <1>3 DEF q

LEMMA DefaultErrorFresh ==
  ASSUME NEW b, Alone(b), NEW p, Fresh(b, p)
  PROVE  /\ Fresh(b, GetDefaultError(p)) /\ GetDefaultError(p).c.ready
         /\ GetDefaultError(p).c.status = p.c.status
<1> DEFINE e == DeleteContent(p)
           d == [e.c EXCEPT !.ready = TRUE, !.begun = FALSE, !.got = 0]
           q == GetDefaultError(p)
<1>1. Fresh(b, e) /\ e.c.status = p.c.status
  BY DeletedFresh
<1>2. q = [e EXCEPT !.c = d]
  BY DEF GetDefaultError
<1> HIDE DEF e
<1>3. d \in ClientRec /\ SameAsk(e.c, d) /\ d.content = "none" /\ d.in = 0 /\ d.out = 0
      /\ ~d.begun /\ d.got = 0 /\ d.ready /\ d.status = e.c.status
  BY <1>1, ClientSets DEF Fresh, Keeps, ClientRec, SameAsk
<1> HIDE DEF d, q
<1>4. Fresh(b, q) /\ q.c = d
  BY <1>1, <1>2, <1>3, SetClientFresh
<1> QED BY <1>1, <1>3, <1>4 DEF q

\* What was returned is nobody's concern.
LEMMA RevisedFresh ==
  ASSUME NEW b, NEW p, IsImage(p), NEW v, NEW q, q = [p EXCEPT !.ret = v]
  PROVE  /\ Fresh(b, p) => Fresh(b, q)
         /\ FileOpen(b, p) => FileOpen(b, q)
         /\ CgiOpen(b, p) => CgiOpen(b, q)
         /\ q.c = p.c /\ q.ret = v
<1>1. /\ IsImage(q) /\ q.c = p.c /\ q.x = p.x /\ q.fd = p.fd /\ q.kid = p.kid /\ q.ret = v
      /\ q.inbox = p.inbox /\ q.ask = p.ask /\ q.answered = p.answered
      /\ q.buf = p.buf /\ q.del = p.del /\ q.map = p.map
  BY DEF IsImage, ImageFields
<1>2. Keeps(b, p) => Keeps(b, q)
  BY <1>1 DEF Keeps
<1> QED BY <1>1, <1>2 DEF Fresh, FileOpen, CgiOpen

LEMMA StaticFresh ==
  ASSUME NEW b, Alone(b), NEW p, Fresh(b, p), ~p.c.ready
  PROVE  \/ /\ Fresh(b, OpenStatic(p)) /\ ~OpenStatic(p).ret /\ OpenStatic(p).c = p.c
         \/ FileOpen(b, OpenStatic(p)) /\ OpenStatic(p).ret
<1> DEFINE q == OpenStatic(p)
<1>1. /\ IsImage(p) /\ p.c \in ClientRec /\ p.x = b.x /\ p.fd = b.fd /\ Keeps(b, p)
      /\ b.x \in Conn /\ b.fd \in [Fd -> Object]
  BY DEF Fresh, Keeps, Alone
<1>2. CASE NthFree(p.fd, 1) = {}
  <2>1. q = [p EXCEPT !.ret = FALSE]
    BY <1>2 DEF OpenStatic
  <2> HIDE DEF q
  <2>2. Fresh(b, q) /\ q.c = p.c /\ q.ret = FALSE
    BY <1>1, <2>1, RevisedFresh
  <2> QED BY <2>2 DEF q
<1>3. CASE NthFree(p.fd, 1) # {}
  <2> DEFINE f == CHOOSE g \in NthFree(p.fd, 1) : TRUE
             d == [p.c EXCEPT !.content = "file", !.in = f, !.out = 0, !.given = FALSE,
                              !.pos = 0]
             t == [p.fd EXCEPT ![f] = <<"file", p.x>>]
  <2>1. f \in NthFree(p.fd, 1)
    BY <1>3
  <2>2. f \in Fd /\ p.fd[f] = Free
    BY <2>1 DEF NthFree
  <2>3. q = [p EXCEPT !.fd = t, !.c = d, !.ret = TRUE]
    BY <1>3 DEF OpenStatic, Assign, WithContent
  <2> HIDE DEF f, q
  <2>4. d \in ClientRec /\ SameAsk(p.c, d) /\ d.content = "file" /\ d.in = f
        /\ ~d.begun /\ d.got = 0 /\ ~d.ready /\ ~d.given /\ d.pos = 0
    BY <2>2, ClientSets DEF Fresh, Keeps, ClientRec, SameAsk
  <2> HIDE DEF d, t
  <2>5. /\ IsImage(q) /\ q.c = d /\ q.fd = t /\ q.x = p.x /\ q.kid = p.kid /\ q.ret = TRUE
        /\ q.inbox = p.inbox /\ q.ask = p.ask /\ q.answered = p.answered
        /\ q.buf = p.buf /\ q.del = p.del /\ q.map = p.map
    BY <1>1, <2>3 DEF IsImage, ImageFields
  <2>6. Keeps(b, q)
    BY <1>1, <2>4, <2>5 DEF Keeps, SameAsk
  <2>7. t = [b.fd EXCEPT ![f] = <<"file", b.x>>]
    BY <1>1 DEF t
  <2>8. FileOpen(b, q)
    BY <1>1, <2>2, <2>4, <2>5, <2>6, <2>7 DEF FileOpen
  <2> QED BY <2>5, <2>8 DEF q
<1> QED BY <1>2, <1>3

LEMMA CgiFresh ==
  ASSUME NEW b, Alone(b), b.ask = "cgi", NEW p, Fresh(b, p), ~p.c.ready, NEW o
  PROVE  \/ /\ Fresh(b, OpenCgi(p, o)) /\ ~OpenCgi(p, o).ret /\ OpenCgi(p, o).c = p.c
         \/ CgiOpen(b, OpenCgi(p, o)) /\ OpenCgi(p, o).ret
<1> DEFINE q == OpenCgi(p, o)
           ends == NthFree(p.fd, 1) \X NthFree(p.fd, 4)
<1>1. /\ IsImage(p) /\ p.c \in ClientRec /\ p.x = b.x /\ p.fd = b.fd /\ Keeps(b, p)
      /\ b.x \in Conn /\ b.fd \in [Fd -> Object] /\ p.kid \in [Conn -> Kid]
  BY DEF Fresh, Keeps, Alone
<1>2. CASE ends = {} \/ ~o.forks
  <2>1. q = [p EXCEPT !.ret = FALSE]
    BY <1>2 DEF OpenCgi
  <2> HIDE DEF q
  <2>2. Fresh(b, q) /\ q.c = p.c /\ q.ret = FALSE
    BY <1>1, <2>1, RevisedFresh
  <2> QED BY <2>2 DEF q
<1>3. CASE ~(ends = {} \/ ~o.forks)
  <2> DEFINE e == CHOOSE e \in ends : TRUE
             f == e[1]
             g == e[2]
             d == [p.c EXCEPT !.content = "cgi", !.in = f, !.out = g, !.given = FALSE,
                              !.pos = 0]
             t == [p.fd EXCEPT ![f] = <<"cgiOut", p.x>>, ![g] = <<"cgiIn", p.x>>]
             k == ForkKids(p)
  <2>1. f \in NthFree(p.fd, 1) /\ g \in NthFree(p.fd, 4)
    <3>1. e \in ends
      BY <1>3
    <3> QED BY <3>1
  <2>2. f \in Fd /\ p.fd[f] = Free /\ g \in Fd /\ p.fd[g] = Free /\ f # g
    <3> HIDE DEF f, g
    <3> QED BY <2>1 DEF NthFree
  <2>3. q = [p EXCEPT !.fd = t, !.kid = k, !.c = d, !.ret = TRUE]
    BY <1>3 DEF OpenCgi, Assign, WithContent
  <2> HIDE DEF f, g, q
  <2>4. d \in ClientRec /\ SameAsk(p.c, d) /\ d.content = "cgi" /\ d.in = f /\ d.out = g
        /\ ~d.begun /\ d.got = 0 /\ ~d.ready /\ ~d.given
    BY <2>2, ClientSets DEF Fresh, Keeps, ClientRec, SameAsk
  <2> HIDE DEF d, t
  <2>5. k \in [Conn -> Kid] /\ k[b.x] = NewKid /\ \A y \in Conn : y # b.x => k[y] = p.kid[y]
    <3>1. ASSUME NEW y \in Conn, y # b.x
          PROVE  k[y] = p.kid[y] /\ k[y] \in Kid
      <4> DEFINE j == p.kid[y]
      <4>1. k[y] = [j EXCEPT !.shot = j.shot \/ j.run = "running"]
        BY <1>1, <3>1 DEF ForkKids
      <4>2. j \in Kid /\ j.run = "none" /\ j.shot = FALSE
        <5>1. j = b.kid[y] /\ j \in Kid
          BY <1>1, <3>1 DEF Keeps
        <5>2. j.shot \in BOOLEAN
          BY <5>1 DEF Kid
        <5> HIDE DEF j
        <5> QED BY <3>1, <5>1, <5>2 DEF Alone
      <4> HIDE DEF j, k
      <4>3. (j.shot \/ j.run = "running") = FALSE
        BY <4>2
      <4>4. k[y] = [j EXCEPT !.shot = FALSE]
        BY <4>1, <4>3
      <4>5. [j EXCEPT !.shot = FALSE] = j
        BY <4>2 DEF Kid
      <4> QED BY <4>2, <4>4, <4>5 DEF j
    <3>2. k[b.x] = NewKid
      BY <1>1 DEF ForkKids
    <3>3. k = [y \in Conn |-> k[y]]
      BY DEF ForkKids
    <3> HIDE DEF k
    <3> QED BY <3>1, <3>2, <3>3, KidTypes
  <2> HIDE DEF k
  <2>6. /\ IsImage(q) /\ q.c = d /\ q.fd = t /\ q.x = p.x /\ q.kid = k /\ q.ret = TRUE
        /\ q.inbox = p.inbox /\ q.ask = p.ask /\ q.answered = p.answered
        /\ q.buf = p.buf /\ q.del = p.del /\ q.map = p.map
    BY <1>1, <2>3 DEF IsImage, ImageFields
  <2>7. Healthy(NewKid, b.ask)
    BY DEF Healthy, NewKid, NoKid
  <2>8. Keeps(b, q)
    BY <1>1, <2>4, <2>5, <2>6, <2>7 DEF Keeps, SameAsk
  <2>9. t = [b.fd EXCEPT ![f] = <<"cgiOut", b.x>>, ![g] = <<"cgiIn", b.x>>]
    BY <1>1 DEF t
  <2>10. CgiOpen(b, q)
    BY <1>1, <2>2, <2>4, <2>6, <2>8, <2>9 DEF CgiOpen
  <2> QED BY <2>6, <2>10 DEF q
<1> QED BY <1>2, <1>3

\* A content is opened, or the status says that it was not.
LEMMA ContentFresh ==
  ASSUME NEW b, Alone(b), NEW p, Fresh(b, p), ~p.c.ready,
         NEW kind, kind = "cgi" => b.ask = "cgi", NEW o
  PROVE  \/ /\ Fresh(b, ProcessContent(p, kind, o)) /\ ~ProcessContent(p, kind, o).ret
            /\ ProcessContent(p, kind, o).c.status = 500
         \/ ProcessContent(p, kind, o).ret /\ FileOpen(b, ProcessContent(p, kind, o))
         \/ ProcessContent(p, kind, o).ret /\ CgiOpen(b, ProcessContent(p, kind, o))
            /\ kind = "cgi"
<1> DEFINE e == DeleteContent(p)
           q == IF kind = "cgi" THEN OpenCgi(e, o) ELSE OpenStatic(e)
           r == ProcessContent(p, kind, o)
<1>1. Fresh(b, e) /\ ~e.c.ready
  BY DeletedFresh
<1>2. r = IF q.ret THEN q ELSE WithStatus(q, 500)
  BY DEF ProcessContent
<1> HIDE DEF e
<1>3. \/ Fresh(b, q) /\ ~q.ret
      \/ FileOpen(b, q) /\ q.ret
      \/ CgiOpen(b, q) /\ q.ret /\ kind = "cgi"
  <2>1. CASE kind = "cgi"
    BY <1>1, <2>1, CgiFresh
  <2>2. CASE kind # "cgi"
    BY <1>1, <2>2, StaticFresh
  <2> QED BY <2>1, <2>2
<1> HIDE DEF q, r
<1>4. CASE Fresh(b, q) /\ ~q.ret
  <2>1. r = WithStatus(q, 500)
    BY <1>2, <1>4
  <2>2. Fresh(b, r) /\ r.c.status = 500
    BY <1>4, <2>1, StatusFresh
  <2>3. r.ret = q.ret
    <3> DEFINE d == [q.c EXCEPT !.status = 500]
    <3>1. r = [q EXCEPT !.c = d] /\ IsImage(q)
      BY <1>4, <2>1 DEF WithStatus, Fresh, Keeps
    <3> HIDE DEF d
    <3> QED BY <3>1 DEF IsImage, ImageFields
  <2> QED BY <1>4, <2>2, <2>3 DEF r
<1>5. CASE q.ret /\ (FileOpen(b, q) \/ (CgiOpen(b, q) /\ kind = "cgi"))
  <2>1. r = q
    BY <1>2, <1>5
  <2> QED BY <1>5, <2>1 DEF r
<1> QED BY <1>3, <1>4, <1>5

\* An error gets a page, or the file configured for it.
LEMMA ErrorFresh ==
  ASSUME NEW b, Alone(b), NEW p, Fresh(b, p), p.c.status # 200, NEW o
  PROVE  Page(b, ProcessResponseError(p, o)) \/ FileOpen(b, ProcessResponseError(p, o))
<1> DEFINE q == ResetResponse(p)
           r == ProcessContent(q, "file", o)
           s == ProcessResponseError(p, o)
<1>1. Fresh(b, q) /\ ~q.c.ready /\ q.c.status # 200
  BY ResetFresh
<1>2. s = IF q.c.status \notin ErrorPages THEN GetDefaultError(q)
          ELSE IF r.ret THEN r ELSE GetDefaultError(r)
  BY DEF ProcessResponseError
<1> HIDE DEF q
<1>3. \/ Fresh(b, r) /\ ~r.ret /\ r.c.status = 500
      \/ r.ret /\ FileOpen(b, r)
  BY <1>1, ContentFresh
<1> HIDE DEF r, s
<1>4. \A t : Fresh(b, t) /\ t.c.status # 200 => Page(b, GetDefaultError(t))
  BY DefaultErrorFresh DEF Page
<1>5. Page(b, s) \/ FileOpen(b, s)
  BY <1>1, <1>2, <1>3, <1>4
<1> QED BY <1>5 DEF s

\* What the routing of a request leads to.
LEMMA RequestFresh ==
  ASSUME NEW b, Alone(b), b.ask \in Asks, NEW p, Fresh(b, p), ~p.c.ready, NEW o
  PROVE  \/ Page(b, RouteRequest(p, o))
         \/ FileOpen(b, RouteRequest(p, o))
         \/ CgiOpen(b, RouteRequest(p, o))
<1> DEFINE ok == WithStatus(p, 200)
           q == ProcessContent(ok, p.ask, o)
           s == RouteRequest(p, o)
<1>1. Fresh(b, ok) /\ ~ok.c.ready /\ p.ask = b.ask
  BY StatusFresh DEF Fresh, Keeps
<1>2. CASE p.ask \in {"file", "cgi"}
  <2>1. s = IF q.ret THEN q ELSE ProcessResponseError(q, o)
    BY <1>2 DEF RouteRequest
  <2> HIDE DEF ok
  <2>2. \/ Fresh(b, q) /\ ~q.ret /\ q.c.status = 500
        \/ q.ret /\ FileOpen(b, q)
        \/ q.ret /\ CgiOpen(b, q)
    BY <1>1, ContentFresh
  <2> HIDE DEF q, s
  <2>3. CASE Fresh(b, q) /\ ~q.ret /\ q.c.status = 500
    <3>1. s = ProcessResponseError(q, o) /\ q.c.status # 200
      BY <2>1, <2>3
    <3>2. Page(b, s) \/ FileOpen(b, s)
      BY <2>3, <3>1, ErrorFresh
    <3> QED BY <3>2 DEF s
  <2>4. CASE q.ret /\ (FileOpen(b, q) \/ CgiOpen(b, q))
    <3>1. s = q
      BY <2>1, <2>4
    <3> QED BY <2>4, <3>1 DEF s
  <2> QED BY <2>2, <2>3, <2>4
<1>3. CASE p.ask = "page"
  <2>1. s = Finish(ok)
    BY <1>3 DEF RouteRequest
  <2> HIDE DEF ok, s
  <2>2. Fresh(b, Finish(ok)) /\ Finish(ok).c.ready
    BY <1>1, FinishFresh
  <2>3. Page(b, s)
    BY <1>1, <1>3, <2>1, <2>2 DEF Page
  <2> QED BY <2>3 DEF s
<1>4. CASE p.ask \notin {"file", "cgi", "page"}
  <2> DEFINE w == WithStatus(p, 404)
  <2>1. s = ProcessResponseError(w, o)
    BY <1>4 DEF RouteRequest, RouteError
  <2>2. Fresh(b, w) /\ w.c.status = 404
    BY StatusFresh
  <2> HIDE DEF w, s
  <2>3. Page(b, s) \/ FileOpen(b, s)
    BY <2>1, <2>2, ErrorFresh
  <2> QED BY <2>3 DEF s
<1> QED BY <1>2, <1>3, <1>4

LEMMA RefusedFresh ==
  ASSUME NEW b, Alone(b), NEW p, Fresh(b, p), NEW o
  PROVE  Page(b, RouteError(p, 400, o)) \/ FileOpen(b, RouteError(p, 400, o))
<1> DEFINE w == WithStatus(p, 400)
<1>1. RouteError(p, 400, o) = ProcessResponseError(w, o)
  BY DEF RouteError
<1>2. Fresh(b, w) /\ w.c.status = 400
  BY StatusFresh
<1> HIDE DEF w
<1> QED BY <1>1, <1>2, ErrorFresh

----------------------------------------------------------------------------
(* A request is read from a socket                                         *)

\* What is read is the request that is still awaited, or the rest of it.
LEMMA MailRead ==
  ASSUME NEW n \in NetRec, n.inbox # <<>>, NEW req \in {"none", "body"}, OneRequest(n, req)
  PROVE  /\ OneRequest([n EXCEPT !.inbox = Tail(n.inbox)], Advance(req, Head(n.inbox)))
         /\ Advance(req, Head(n.inbox)) \in {"body", "ready", "part", "bad"}
         /\ req = "body" => Calm
<1> DEFINE a == Len(n.inbox)
           b == Len(n.unsent)
           m == [n EXCEPT !.inbox = Tail(n.inbox)]
           front == Advance(req, Head(n.inbox))
<1>1. /\ m.inbox = Tail(n.inbox) /\ m.unsent = n.unsent
      /\ n.inbox \in Seq(Segments) /\ n.unsent \in Seq(Segments)
  BY DEF NetRec
<1>2. a \in Nat /\ a >= 1 /\ b \in Nat /\ Len(m.inbox) = a - 1 /\ Len(m.unsent) = b
  BY <1>1
<1>3. Head(n.inbox) \in Segments /\ Head(n.inbox) = n.inbox[1]
  BY <1>1
<1>4. Unread(n) = a + b /\ Unread(m) = (a - 1) + b
  BY <1>2 DEF Unread
<1> HIDE DEF a, b, m
<1>5. Unread(n) \in Nat /\ Unread(n) >= 1 /\ Unread(m) = Unread(n) - 1
  BY <1>2, <1>4
<1>6. front \in {"body", "ready", "part", "bad"}
  BY <1>3 DEF Advance, Segments
<1>0. front = Advance(req, Head(n.inbox))
  OBVIOUS
<1> HIDE DEF front
<1> SUFFICES OneRequest(m, front) /\ (req = "body" => Calm)
  BY <1>6 DEF m, front
<1>7. CASE Unread(n) = 1
  <2>1. Unread(m) = 0
    BY <1>5, <1>7
  <2>2. OneRequest(m, front)
    BY <2>1 DEF OneRequest
  <2>3. req = "body" => Calm
    BY <1>7 DEF OneRequest
  <2> QED BY <2>2, <2>3
<1>8. CASE Unread(n) # 1
  <2>1. Unread(n) = 2 /\ Unread(m) = 1 /\ req = "none" /\ Calm
    BY <1>5, <1>8 DEF OneRequest
  <2>2. Head(n.inbox) = "head"
    BY <1>3, <2>1 DEF OneRequest, NextSegment
  <2>3. front = "body"
    BY <1>0, <2>1, <2>2 DEF Advance
  <2>4. OneRequest(m, front)
    BY <2>1, <2>3 DEF OneRequest, Routed
  <2> QED BY <2>1, <2>4
<1> QED BY <1>7, <1>8

\* The content of s is handed over in p.
HandedOver(s, p) ==
    /\ p.c = [s.c EXCEPT !.given = TRUE] /\ p.fd = s.fd /\ p.kid = s.kid
    /\ p.inbox = s.inbox /\ p.answered = s.answered /\ p.del = s.del

\* What addSingleFd() does for a descriptor that leads to nobody.
Linked(q, r, f, events) ==
    /\ IsImage(r) /\ r.x = q.x /\ r.c = q.c /\ r.fd = q.fd /\ r.kid = q.kid
    /\ r.inbox = q.inbox /\ r.answered = q.answered /\ r.del = q.del
    /\ r.map = [q.map EXCEPT ![f] = q.x]
    /\ r.buf = Append(q.buf, [fd |-> f, events |-> events])

LEMMA AddSingleIs ==
  ASSUME NEW q, IsImage(q), NEW f, q.map[f] = Nobody, NEW events
  PROVE  Linked(q, AddSingleFd(q, f, events), f, events)
<1> DEFINE r == AddSingleFd(q, f, events)
           m == [q.map EXCEPT ![f] = q.x]
           l == Append(q.buf, [fd |-> f, events |-> events])
<1>1. r = [q EXCEPT !.buf = l, !.map = m]
  BY DEF AddSingleFd
<1> HIDE DEF r, m, l
<1>2. /\ IsImage(r) /\ r.x = q.x /\ r.c = q.c /\ r.fd = q.fd /\ r.kid = q.kid
      /\ r.inbox = q.inbox /\ r.answered = q.answered /\ r.del = q.del
      /\ r.map = m /\ r.buf = l
  BY <1>1 DEF IsImage, ImageFields
<1> QED BY <1>2 DEF r, m, l, Linked

\* A descriptor that is free leads to nobody.
LEMMA FreeLeadsNowhere ==
  ASSUME IInv, Tables, NEW f \in Fd, fdtab[f] = Free
  PROVE  ~Watched(f) /\ client_mapping[f] = Nobody
<1>1. Sound /\ Lists /\ Polled /\ Pending /\ Mapped
  BY DEF IInv, Tables
<1>2. ~Watched(f)
  <2> SUFFICES ASSUME Watched(f) PROVE FALSE
    OBVIOUS
  <2>1. fdtab[f] \in Roles \X Conn
    BY <1>1, WatchedOwned
  <2> QED BY <2>1 DEF Free, Roles
<1> QED BY <1>1, <1>2 DEF Mapped

LEMMA GivenIs ==
  ASSUME NEW r, IsImage(r), NEW p, p = [r EXCEPT !.c = [r.c EXCEPT !.given = TRUE]]
  PROVE  HandedOver(r, p) /\ p.buf = r.buf /\ p.map = r.map
<1> DEFINE d == [r.c EXCEPT !.given = TRUE]
<1>1. p = [r EXCEPT !.c = d]
  OBVIOUS
<1> HIDE DEF d
<1>2. /\ p.c = d /\ p.fd = r.fd /\ p.kid = r.kid /\ p.inbox = r.inbox
      /\ p.answered = r.answered /\ p.del = r.del /\ p.buf = r.buf /\ p.map = r.map
  BY <1>1 DEF IsImage, ImageFields
<1> QED BY <1>2 DEF HandedOver, d

\* An entry is added for a file.
LEMMA FileAdded ==
  ASSUME NEW x, NEW i, Handling(x, i), Kind(FdAt(i)) = "socket", socket_fds[i].events = "IN",
         client[x].content = "none",
         NEW b, b.x = x, b.fd = fdtab, b.buf = buffer_new_fd, b.map = client_mapping,
         ~b.c.doomed, NEW s, FileOpen(b, s), NEW p, p = AddClientContentFd(s)
  PROVE  HandedOver(s, p) /\ \E new \in Seq(Entry) : Adds(x, i, p, new)
<1> DEFINE f == s.c.in
           e == [fd |-> f, events |-> "IN"]
           r == AddSingleFd(s, f, "IN")
           obj == <<"file", x>>
<1>1. /\ x \in Conn /\ buffer_new_fd \in Seq(Entry) /\ IInv /\ Tables
      /\ client_mapping \in [Fd -> Conn \cup {Nobody}] /\ fdtab \in [Fd -> Object]
  BY HandlingFacts DEF Handling, IInv, Lists, Sound, Types
<1>2. /\ IsImage(s) /\ s.x = x /\ s.buf = buffer_new_fd /\ s.map = client_mapping
      /\ s.c.content = "file" /\ ~s.c.given /\ ~s.c.ready /\ ~s.c.doomed
      /\ f \in Fd /\ fdtab[f] = Free /\ s.fd = [fdtab EXCEPT ![f] = obj] /\ s.c \in ClientRec
  BY DEF FileOpen, Keeps, SameAsk
<1>3. p = [r EXCEPT !.c = [r.c EXCEPT !.given = TRUE]]
  BY <1>2 DEF AddClientContentFd
<1> HIDE DEF f
<1>4. client_mapping[f] = Nobody
  BY <1>1, <1>2, FreeLeadsNowhere
<1>5. /\ IsImage(r) /\ r.x = x /\ r.c = s.c /\ r.fd = s.fd /\ r.kid = s.kid
      /\ r.inbox = s.inbox /\ r.answered = s.answered /\ r.del = s.del
      /\ r.map = [client_mapping EXCEPT ![f] = x] /\ r.buf = Append(buffer_new_fd, e)
  BY <1>2, <1>4, AddSingleIs DEF Linked
<1> HIDE DEF r, e
<1>6. HandedOver(r, p) /\ p.buf = r.buf /\ p.map = r.map
  BY <1>3, <1>5, GivenIs
<1>7. HandedOver(s, p)
  BY <1>5, <1>6 DEF HandedOver
<1>8. e \in Entry /\ e.fd = f /\ e.events = "IN"
  BY <1>2 DEF e, Entry
<1>9. /\ <<e>> \in Seq(Entry) /\ Range(<<e>>) = {e} /\ Distinct(<<e>>)
      /\ Append(buffer_new_fd, e) = buffer_new_fd \o <<e>>
  <2>1. <<e>> \in Seq(Entry) /\ Append(buffer_new_fd, e) = buffer_new_fd \o <<e>>
    BY <1>1, <1>8
  <2>2. Range(<<e>>) = {e} /\ Distinct(<<e>>)
    BY DEF Range, Distinct
  <2> QED BY <2>1, <2>2
<1>10. p.map = [g \in Fd |-> IF \E d \in Range(<<e>>) : d.fd = g THEN x ELSE client_mapping[g]]
  <2>1. p.map = [client_mapping EXCEPT ![f] = x]
    BY <1>5, <1>6
  <2>2. \A g \in Fd : (\E d \in Range(<<e>>) : d.fd = g) <=> g = f
    BY <1>8, <1>9
  <2> QED BY <1>1, <1>2, <2>1, <2>2
<1>11. p.fd[f] = obj /\ obj \in ContentRoles \X {x} /\ Wired(obj, "IN")
  <2>1. p.fd[f] = obj
    BY <1>1, <1>2, <1>7 DEF HandedOver
  <2>2. obj \in ContentRoles \X {x} /\ obj \in Roles \X Conn /\ obj[1] = "file"
    BY <1>1 DEF ContentRoles, Roles
  <2> QED BY <2>1, <2>2 DEF Wired
<1>12. ~p.c.ready /\ ~p.c.doomed
  BY <1>2, <1>7 DEF HandedOver, ClientRec
<1>13. Adds(x, i, p, <<e>>)
  BY <1>2, <1>5, <1>6, <1>8, <1>9, <1>10, <1>11, <1>12 DEF Adds
<1> QED BY <1>7, <1>9, <1>13

\* Two entries are added for a script.
LEMMA CgiAdded ==
  ASSUME NEW x, NEW i, Handling(x, i), Kind(FdAt(i)) = "socket", socket_fds[i].events = "IN",
         client[x].content = "none",
         NEW b, b.x = x, b.fd = fdtab, b.buf = buffer_new_fd, b.map = client_mapping,
         ~b.c.doomed, NEW s, CgiOpen(b, s), NEW p, p = AddClientContentFd(s)
  PROVE  HandedOver(s, p) /\ \E new \in Seq(Entry) : Adds(x, i, p, new)
<1> DEFINE f == s.c.in
           g == s.c.out
           e == [fd |-> f, events |-> "IN"]
           h == [fd |-> g, events |-> "OUT"]
           q == AddSingleFd(s, f, "IN")
           r == AddSingleFd(q, g, "OUT")
           obj == <<"cgiOut", x>>
           sub == <<"cgiIn", x>>
<1>1. /\ x \in Conn /\ buffer_new_fd \in Seq(Entry) /\ IInv /\ Tables
      /\ client_mapping \in [Fd -> Conn \cup {Nobody}] /\ fdtab \in [Fd -> Object]
  BY HandlingFacts DEF Handling, IInv, Lists, Sound, Types
<1>2. /\ IsImage(s) /\ s.x = x /\ s.buf = buffer_new_fd /\ s.map = client_mapping
      /\ s.c.content = "cgi" /\ ~s.c.given /\ ~s.c.ready /\ ~s.c.doomed
      /\ f \in Fd /\ fdtab[f] = Free /\ g \in Fd /\ fdtab[g] = Free /\ f # g
      /\ s.fd = [fdtab EXCEPT ![f] = obj, ![g] = sub] /\ s.c \in ClientRec
  BY DEF CgiOpen, Keeps, SameAsk
<1>3. p = [r EXCEPT !.c = [r.c EXCEPT !.given = TRUE]]
  BY <1>2 DEF AddClientContentFd
<1> HIDE DEF f, g
<1>4. client_mapping[f] = Nobody /\ client_mapping[g] = Nobody
  BY <1>1, <1>2, FreeLeadsNowhere
<1>5. /\ IsImage(q) /\ q.x = x /\ q.c = s.c /\ q.fd = s.fd /\ q.kid = s.kid
      /\ q.inbox = s.inbox /\ q.answered = s.answered /\ q.del = s.del
      /\ q.map = [client_mapping EXCEPT ![f] = x] /\ q.buf = Append(buffer_new_fd, e)
  BY <1>2, <1>4, AddSingleIs DEF Linked
<1> HIDE DEF q, e
<1>6. q.map[g] = Nobody
  BY <1>1, <1>2, <1>4, <1>5
<1>7. /\ IsImage(r) /\ r.x = x /\ r.c = s.c /\ r.fd = s.fd /\ r.kid = s.kid
      /\ r.inbox = s.inbox /\ r.answered = s.answered /\ r.del = s.del
      /\ r.map = [q.map EXCEPT ![g] = x] /\ r.buf = Append(q.buf, h)
  <2>1. /\ IsImage(r) /\ r.x = q.x /\ r.c = q.c /\ r.fd = q.fd /\ r.kid = q.kid
        /\ r.inbox = q.inbox /\ r.answered = q.answered /\ r.del = q.del
        /\ r.map = [q.map EXCEPT ![g] = q.x] /\ r.buf = Append(q.buf, h)
    <3>1. Linked(q, r, g, "OUT")
      BY <1>5, <1>6, AddSingleIs
    <3> HIDE DEF r
    <3> QED BY <3>1 DEF Linked
  <2> HIDE DEF r, h
  <2> QED BY <1>5, <2>1
<1> HIDE DEF r, h
<1>8. HandedOver(r, p) /\ p.buf = r.buf /\ p.map = r.map
  BY <1>3, <1>7, GivenIs
<1>9. HandedOver(s, p)
  BY <1>7, <1>8 DEF HandedOver
<1>10. /\ e \in Entry /\ e.fd = f /\ e.events = "IN"
       /\ h \in Entry /\ h.fd = g /\ h.events = "OUT" /\ e # h
  BY <1>2 DEF e, h, Entry
<1>11. /\ <<e, h>> \in Seq(Entry) /\ Range(<<e, h>>) = {e, h} /\ Distinct(<<e, h>>)
       /\ Append(Append(buffer_new_fd, e), h) = buffer_new_fd \o <<e, h>>
  <2>1. <<e, h>> \in Seq(Entry)
    BY <1>10
  <2>2. Range(<<e, h>>) = {e, h}
    BY DEF Range
  <2>3. Distinct(<<e, h>>)
    BY <1>10 DEF Distinct
  <2>4. Append(Append(buffer_new_fd, e), h) = buffer_new_fd \o <<e, h>>
    BY <1>1, <1>10
  <2> QED BY <2>1, <2>2, <2>3, <2>4
<1>12. p.map = [a \in Fd |-> IF \E d \in Range(<<e, h>>) : d.fd = a THEN x
                             ELSE client_mapping[a]]
  <2>1. p.map = [[client_mapping EXCEPT ![f] = x] EXCEPT ![g] = x]
    BY <1>5, <1>7, <1>8
  <2>2. \A a \in Fd : (\E d \in Range(<<e, h>>) : d.fd = a) <=> a = f \/ a = g
    BY <1>10, <1>11
  <2> QED BY <1>1, <1>2, <2>1, <2>2
<1>13. /\ p.fd[f] = obj /\ obj \in ContentRoles \X {x} /\ Wired(obj, "IN")
       /\ p.fd[g] = sub /\ sub \in ContentRoles \X {x} /\ Wired(sub, "OUT")
  <2>1. p.fd[f] = obj /\ p.fd[g] = sub
    BY <1>1, <1>2, <1>9 DEF HandedOver
  <2>2. /\ obj \in ContentRoles \X {x} /\ obj \in Roles \X Conn /\ obj[1] = "cgiOut"
        /\ sub \in ContentRoles \X {x} /\ sub \in Roles \X Conn /\ sub[1] = "cgiIn"
    BY <1>1 DEF ContentRoles, Roles
  <2> QED BY <2>1, <2>2 DEF Wired
<1>14. ~p.c.ready /\ ~p.c.doomed
  BY <1>2, <1>9 DEF HandedOver, ClientRec
<1>15. p.buf = buffer_new_fd \o <<e, h>>
  BY <1>5, <1>7, <1>8, <1>11
<1>16. Adds(x, i, p, <<e, h>>)
  <2>1. \A d \in Range(<<e, h>>) : /\ fdtab[d.fd] = Free /\ p.fd[d.fd] \in ContentRoles \X {x}
                                   /\ Wired(p.fd[d.fd], d.events)
    BY <1>2, <1>10, <1>11, <1>13
  <2> QED BY <1>11, <1>12, <1>14, <1>15, <2>1 DEF Adds
<1> QED BY <1>9, <1>11, <1>16

\* After the routing of a request, and the entries for what it opened.
LEMMA SocketAnswered ==
  ASSUME NEW x, NEW i, Handling(x, i), Kind(FdAt(i)) = "socket", socket_fds[i].events = "IN",
         client[x].content = "none", ~client[x].begun,
         NEW b, b.x = x, b.fd = fdtab, b.buf = buffer_new_fd, b.map = client_mapping,
         b.del = fds_to_be_deleted, b.kid = kid, b.ask = net[x].ask,
         b.answered = net[x].answered, b.c.sock = client[x].sock, ~b.c.doomed, ~b.c.more,
         b.c.req \in Routed, b.c.body # "none" => Calm,
         OneRequest([net[x] EXCEPT !.inbox = b.inbox], b.c.req),
         NEW s, Page(b, s) \/ FileOpen(b, s) \/ CgiOpen(b, s),
         NEW p, p = AddClientContentFd(s)
  PROVE  Outcome(x, i, p) /\ Talk(x, p)
<1>1. /\ x \in Conn /\ fds_to_be_deleted \in Seq(Fd) /\ fdtab \in [Fd -> Object]
      /\ IInv /\ Tables /\ Owner(FdAt(i)) = x
  BY HandlingFacts DEF Handling, IInv, Lists, Sound, Types
<1>2. /\ Keeps(b, s) /\ IsImage(s) /\ s.c \in ClientRec /\ SameAsk(b.c, s.c)
      /\ ~s.c.begun /\ s.c.got = 0 /\ s.inbox = b.inbox /\ s.answered = b.answered
      /\ s.del = b.del /\ s.buf = b.buf /\ s.map = b.map
      /\ Healthy(s.kid[x], net[x].ask) /\ \A y \in Conn : y # x => s.kid[y] = kid[y]
  BY DEF Page, Fresh, FileOpen, CgiOpen, Keeps
<1>3. /\ p.fd = s.fd /\ p.kid = s.kid /\ p.inbox = s.inbox /\ p.answered = s.answered
      /\ p.del = s.del
      /\ \/ p.c = s.c /\ s.c.content = "none"
         \/ p.c = [s.c EXCEPT !.given = TRUE]
      /\ \E new \in Seq(Entry) : Adds(x, i, p, new)
  <2>1. CASE Page(b, s)
    <3>1. p = s /\ s.c.content = "none"
      BY <2>1 DEF Page, Fresh, AddClientContentFd
    <3>2. <<>> \in Seq(Entry) /\ Range(<<>>) = {} /\ buffer_new_fd \o <<>> = buffer_new_fd
          /\ Distinct(<<>>)
      BY DEF Range, Handling, IInv, Lists, Distinct
    <3>3. client_mapping = [f \in Fd |-> IF \E e \in Range(<<>>) : e.fd = f THEN x
                                         ELSE client_mapping[f]]
      BY <3>2 DEF Handling, IInv, Sound, Types
    <3>4. Adds(x, i, p, <<>>)
      BY <1>2, <3>1, <3>2, <3>3 DEF Adds
    <3> QED BY <3>1, <3>2, <3>4
  <2>2. CASE FileOpen(b, s)
    <3>1. HandedOver(s, p) /\ \E new \in Seq(Entry) : Adds(x, i, p, new)
      BY <2>2, FileAdded
    <3> QED BY <3>1 DEF HandedOver
  <2>3. CASE CgiOpen(b, s)
    <3>1. HandedOver(s, p) /\ \E new \in Seq(Entry) : Adds(x, i, p, new)
      BY <2>3, CgiAdded
    <3> QED BY <3>1 DEF HandedOver
  <2> QED BY <2>1, <2>2, <2>3
<1>4. /\ p.c.sock = client[x].sock /\ ~p.c.doomed /\ p.c.req = b.c.req /\ ~p.c.more
      /\ p.c.body = b.c.body /\ ~p.c.begun /\ p.c.got = 0
      /\ p.c.content = s.c.content /\ (p.c.content # "none" => p.c.given)
      /\ p.c.ready = s.c.ready /\ p.c.pos = s.c.pos /\ p.c.status = s.c.status
  BY <1>2, <1>3 DEF ClientRec, SameAsk
<1>5. \A f : Watched(f) => p.fd[f] = fdtab[f]
  <2> SUFFICES ASSUME NEW f, Watched(f) PROVE p.fd[f] = fdtab[f]
    OBVIOUS
  <2>1. f \in Fd
    BY <1>1, WatchedOwned DEF IInv, Tables
  <2>2. fdtab[f] # Free
    BY <1>1, <2>1, FreeLeadsNowhere
  <2>3. CASE Page(b, s)
    BY <1>3, <2>3 DEF Page, Fresh
  <2>4. CASE FileOpen(b, s)
    BY <1>1, <1>3, <2>1, <2>2, <2>4 DEF FileOpen
  <2>5. CASE CgiOpen(b, s)
    BY <1>1, <1>3, <2>1, <2>2, <2>5 DEF CgiOpen
  <2> QED BY <2>3, <2>4, <2>5
<1>6. Deletes(x, i, p, <<>>)
  <2>1. Range(<<>>) = {} /\ fds_to_be_deleted \o <<>> = fds_to_be_deleted
    BY <1>1 DEF Range
  <2> QED BY <1>2, <1>3, <1>4, <2>1 DEF Deletes
<1>7. Outcome(x, i, p)
  <2>1. <<>> \in Seq(Fd)
    OBVIOUS
  <2> QED BY <1>3, <1>4, <1>5, <1>6, <2>1 DEF Outcome
<1>8. Fit(p.c, net[x].ask)
  <2>1. CASE Page(b, s)
    BY <1>4, <2>1 DEF Fit, Page, Fresh
  <2>2. CASE FileOpen(b, s)
    BY <1>4, <2>2 DEF Fit, FileOpen
  <2>3. CASE CgiOpen(b, s)
    BY <1>4, <2>3 DEF Fit, CgiOpen
  <2> QED BY <2>1, <2>2, <2>3
<1>9. Talk(x, p)
  <2>1. OneRequest([net[x] EXCEPT !.inbox = p.inbox], p.c.req)
    BY <1>2, <1>3, <1>4
  <2>2. p.answered = net[x].answered
    BY <1>2, <1>3
  <2>3. Healthy(p.kid[x], net[x].ask) /\ \A y \in Conn : y # x => p.kid[y] = kid[y]
    BY <1>2, <1>3
  <2>4. net[x].answered \in Nat
    BY HandlingFacts DEF NetRec
  <2> QED BY <1>8, <2>1, <2>2, <2>3, <2>4 DEF Talk
<1> QED BY <1>7, <1>9

\* Only the connection that asks for a script has a child.
LEMMA OnlyChild ==
  ASSUME Orderly, NEW x, NEW i, Handling(x, i), net[x].ask = "cgi", NEW y \in Conn, y # x
  PROVE  kid[y].run = "none" /\ ~kid[y].shot
<1>1. Exchange(x) /\ x \in Conn /\ Exchange(y)
  BY HandlingFacts DEF Handling, Exchanges
<1>2. \E r \in Requests[x] : r[1] = "cgi"
  BY <1>1 DEF Exchange, Peer
<1>3. ~(\E r \in Requests[y] : r[1] = "cgi")
  BY <1>1, <1>2 DEF Orderly
<1>4. net[y].ask # "cgi"
  BY <1>1, <1>3 DEF Exchange, Peer
<1> QED BY <1>1, <1>4 DEF Exchange, Healthy

\* handleClient() at the entry of a socket that can be read.
LEMMA SocketReceives ==
  ASSUME Orderly, NEW x, NEW i, Handling(x, i), Kind(FdAt(i)) = "socket", NEW o \in Oracle,
         "IN" \in revents[i], NEW p, p = Handled(x, FdAt(i), revents[i], o)
  PROVE  Outcome(x, i, p) /\ Talk(x, p)
<1> DEFINE I == Image(x)
           c == client[x]
           n == net[x]
           fd == FdAt(i)
           rev == revents[i]
           q == ClientRecvHttp(I, o)
           s == Dispatch(I, fd, rev, o)
<1>1. fd = I.c.sock /\ socket_fds[i].events = "IN"
  <2>1. fd = client[x].sock /\ I.c = client[x]
    BY WhatIsHeld, ImageIs
  <2>2. i \in Later /\ Lists /\ InRound /\ pc.at = "client"
    BY HandlingFacts DEF Handling, Tables, IInv
  <2>3. "IN" \in {socket_fds[i].events}
    BY <2>2 DEF InRound, Reported
  <2> QED BY <2>1, <2>3
<1>2. p = AddClientContentFd(s)
  BY OrderlyOracle DEF Handled
<1>3. s = IF q.ret THEN q ELSE MarkClient(q)
  <2>1. s = HandleClientRecv(I, fd, o)
    BY DispatchIs
  <2> HIDE DEF I, s, fd
  <2> QED BY <1>1, <2>1 DEF HandleClientRecv
<1>4. /\ IsImage(I) /\ I.x = x /\ I.c = c /\ I.fd = fdtab /\ I.kid = kid
      /\ I.inbox = n.inbox /\ I.answered = n.answered /\ I.ask = n.ask
      /\ I.buf = buffer_new_fd /\ I.del = fds_to_be_deleted /\ I.map = client_mapping
      /\ Good(I, x, fdtab)
  BY HandlingFacts, ImageIs
<1>5. /\ x \in Conn /\ c \in ClientRec /\ n \in NetRec /\ kid \in [Conn -> Kid]
      /\ fdtab \in [Fd -> Object] /\ Fit(c, n.ask) /\ Healthy(kid[x], n.ask)
      /\ OneRequest(n, c.req) /\ ~c.doomed /\ Owns(x, c, fdtab)
  BY HandlingFacts DEF Exchange, Handling, IInv, Sound, Types
<1> HIDE DEF I, s, fd, rev
<1>6. CASE n.inbox = <<>>
  <2>1. q = [I EXCEPT !.ret = FALSE]
    BY <1>4, <1>6 DEF ClientRecvHttp
  <2> HIDE DEF q
  <2>2. /\ IsImage(q) /\ q.c = c /\ q.fd = fdtab /\ q.kid = kid
        /\ q.inbox = n.inbox /\ q.ret = FALSE /\ q.answered = n.answered
        /\ q.buf = buffer_new_fd /\ q.del = fds_to_be_deleted /\ q.map = client_mapping
    BY <1>4, <2>1 DEF IsImage, ImageFields
  <2>3. Good(q, x, fdtab)
    BY <1>4, <1>5, <2>1, SetRetGood
  <2>4. s = MarkClient(q)
    BY <1>3, <2>2
  <2>5. Outcome(x, i, s) /\ Talk(x, s) /\ AddClientContentFd(s) = s
    BY <1>1, <1>5, <2>2, <2>3, <2>4, ClientGoes
  <2> QED BY <1>2, <2>5
<1>7. CASE n.inbox # <<>>
  <2> DEFINE seg   == Head(n.inbox)
             front == Advance(c.req, seg)
             more  == c.req \in {"ready", "bad"} /\ seg = "full"
             body  == IF c.req = "body" /\ front = "ready" THEN "unsent" ELSE c.body
             d == [c EXCEPT !.req = front, !.body = body, !.more = c.more \/ more]
             b == [I EXCEPT !.inbox = Tail(n.inbox), !.c = d]
             r == CASE front \in {"part", "bad"} -> RouteError(b, 400, o)
                    [] front = "ready" -> RouteRequest(b, o)
                    [] OTHER -> b
  <2>1. c.req \in {"none", "body"}
    <3>1. Unread(n) # 0
      <4>1. n.inbox \in Seq(Segments) /\ n.unsent \in Seq(Segments)
        BY <1>5 DEF NetRec
      <4>2. Len(n.inbox) \in Nat /\ Len(n.inbox) # 0 /\ Len(n.unsent) \in Nat
        BY <1>7, <4>1
      <4> DEFINE k == Len(n.inbox)
                 l == Len(n.unsent)
      <4>3. Unread(n) = k + l
        BY DEF Unread
      <4>4. k \in Nat /\ k # 0 /\ l \in Nat
        BY <4>2
      <4> HIDE DEF k, l, n
      <4> QED BY <4>3, <4>4
    <3> QED BY <1>5, <3>1 DEF OneRequest, Routed, ClientRec, FrontRequest
  <2>2. /\ c.content = "none" /\ ~c.ready /\ ~c.begun /\ c.got = 0 /\ ~c.more
        /\ c.body # "none" => Calm
        /\ c.in = 0 /\ c.out = 0
    BY <1>5, <2>1 DEF Fit, Routed, Owns
  <2>3. /\ OneRequest([n EXCEPT !.inbox = Tail(n.inbox)], front)
        /\ front \in {"body", "ready", "part", "bad"} /\ (c.req = "body" => Calm)
    <3> HIDE DEF c
    <3> QED BY <1>5, <1>7, <2>1, MailRead
  <2>4. q = [r EXCEPT !.ret = TRUE]
    BY <1>4, <1>7 DEF ClientRecvHttp
  <2> HIDE DEF q, front
  <2>5. ~(c.more \/ more) /\ body \in BodyState /\ (body # "none" => Calm)
    BY <1>5, <2>1, <2>2, <2>3 DEF ClientRec, BodyState
  <2> HIDE DEF more, body
  <2>6. /\ d \in ClientRec /\ d.req = front /\ d.body = body /\ ~d.more
        /\ d.sock = c.sock /\ d.doomed = c.doomed /\ d.content = "none" /\ d.in = 0
        /\ d.out = 0 /\ ~d.ready /\ ~d.begun /\ d.got = 0
    <3>1. front \in FrontRequest /\ (c.more \/ more) \in BOOLEAN /\ (c.more \/ more) = FALSE
      BY <2>3, <2>5 DEF FrontRequest
    <3>2. d = [c EXCEPT !.req = front, !.body = body, !.more = FALSE]
      BY <3>1
    <3> HIDE DEF d
    <3> QED BY <1>5, <2>2, <2>5, <3>1, <3>2 DEF ClientRec
  <2> HIDE DEF d
  <2>7. /\ IsImage(b) /\ b.x = x /\ b.c = d /\ b.fd = fdtab /\ b.kid = kid
        /\ b.inbox = Tail(n.inbox) /\ b.answered = n.answered /\ b.ask = n.ask
        /\ b.buf = buffer_new_fd /\ b.del = fds_to_be_deleted /\ b.map = client_mapping
    BY <1>4 DEF IsImage, ImageFields
  <2> HIDE DEF b
  <2>8. Fresh(b, b)
    BY <1>5, <2>6, <2>7 DEF Fresh, Keeps, SameAsk
  <2>9. Alone(b) /\ b.ask \in Asks
    <3>1. n.ask \in Asks
      BY <1>5 DEF NetRec
    <3>2. b.ask = "cgi" => \A y \in Conn : y # x => kid[y].run = "none" /\ ~kid[y].shot
      BY <2>7, OnlyChild
    <3> QED BY <1>5, <2>7, <3>1, <3>2 DEF Alone
  <2>10. CASE front = "body"
    <3>1. r = b
      BY <2>10
    <3> HIDE DEF r
    <3>2. /\ IsImage(q) /\ q.c = d /\ q.fd = fdtab /\ q.kid = kid /\ q.ret = TRUE
          /\ q.inbox = Tail(n.inbox) /\ q.answered = n.answered
          /\ q.buf = buffer_new_fd /\ q.del = fds_to_be_deleted /\ q.map = client_mapping
      BY <2>4, <2>7, <3>1 DEF IsImage, ImageFields
    <3>3. s = q
      BY <1>3, <3>2
    <3>4. Fit(d, n.ask)
      BY <2>5, <2>6, <2>10 DEF Fit, Routed
    <3>5. Outcome(x, i, s) /\ Talk(x, s) /\ AddClientContentFd(s) = s
      BY <1>5, <2>2, <2>3, <2>6, <3>2, <3>3, <3>4, SocketQuiet
    <3> QED BY <1>2, <3>5
  <2>11. CASE front # "body"
    <3>1. front \in Routed
      BY <2>3, <2>11 DEF Routed
    <3>2. Page(b, r) \/ FileOpen(b, r) \/ CgiOpen(b, r)
      <4>1. CASE front \in {"part", "bad"}
        <5>1. r = RouteError(b, 400, o)
          BY <4>1
        <5> HIDE DEF r
        <5> QED BY <2>8, <2>9, <5>1, RefusedFresh
      <4>2. CASE front = "ready"
        <5>1. r = RouteRequest(b, o) /\ ~b.c.ready
          BY <2>6, <2>7, <4>2
        <5> HIDE DEF r
        <5> QED BY <2>8, <2>9, <5>1, RequestFresh
      <4> QED BY <3>1, <4>1, <4>2 DEF Routed
    <3> HIDE DEF r
    <3>3. IsImage(r)
      BY <3>2 DEF Page, Fresh, FileOpen, CgiOpen, Keeps
    <3>4. (Page(b, q) \/ FileOpen(b, q) \/ CgiOpen(b, q)) /\ q.ret = TRUE
      BY <2>4, <3>2, <3>3, RevisedFresh DEF Page
    <3>5. s = q
      BY <1>3, <3>4
    <3>6. p = AddClientContentFd(q)
      BY <1>2, <3>5
    <3>7. /\ b.c.sock = client[x].sock /\ ~b.c.doomed /\ ~b.c.more /\ b.c.req \in Routed
          /\ b.c.body # "none" => Calm
          /\ OneRequest([net[x] EXCEPT !.inbox = b.inbox], b.c.req)
      BY <1>5, <2>3, <2>5, <2>6, <2>7, <3>1
    <3> QED BY <1>1, <2>2, <2>7, <3>4, <3>6, <3>7, SocketAnswered
  <2> QED BY <2>10, <2>11
<1> QED BY <1>6, <1>7

----------------------------------------------------------------------------
(* handleClient()                                                          *)

LEMMA EntryHandled ==
  ASSUME Orderly, NEW x, NEW i, Handling(x, i), NEW o \in Oracle,
         NEW p, p = Handled(x, FdAt(i), revents[i], o), ~p.killed
  PROVE  Outcome(x, i, p) /\ Talk(x, p)
<1>1. CASE Kind(FdAt(i)) # "socket"
  BY <1>1, ContentEntry
<1>2. CASE Kind(FdAt(i)) = "socket" /\ "IN" \notin revents[i]
  BY <1>2, SocketSends
<1>3. CASE Kind(FdAt(i)) = "socket" /\ "IN" \in revents[i]
  BY <1>3, SocketReceives
<1> QED BY <1>1, <1>2, <1>3

\* The loop passes over the entry of a client that is to go.
Skips ==
    /\ client[Owner(FdAt(pc.i))].doomed
    /\ pc' = NextClient
    /\ UNCHANGED <<socket_fds, revents, buffer_new_fd, fds_to_be_deleted,
                   client_mapping, client, fdtab, kid, net, backlog>>

\* The client of x is handled, and p is its image afterwards.
Handles(x, p) ==
    /\ x \in Present /\ x = Owner(FdAt(pc.i)) /\ ~client[x].doomed
    /\ Good(p, x, fdtab) /\ Outcome(x, pc.i, p) /\ Talk(x, p) /\ Store(x, p)

\* The SIGPIPE that ends the process.
Killed == ProcessEnds("killed") /\ UNCHANGED <<net, backlog>>

LEMMA ClientHandled ==
  ASSUME Orderly, IInv, Exchanges, Tables, HandleClient
  PROVE  Skips \/ Killed \/ \E x, p : Handles(x, p)
<1> DEFINE fd == FdAt(pc.i)
           x == Owner(FdAt(pc.i))
<1>1. /\ pc.at = "client" /\ Sound /\ Lists
  BY DEF HandleClient, IInv
<1>2. /\ fd \in Fd /\ client_mapping[fd] = x /\ x \in Present /\ x \in Conn /\ x # Nobody
      /\ fd = socket_fds[pc.i].fd
  BY <1>1, AtEntry, NobodyAssumption DEF FdAt
<1> HIDE DEF fd, x
<1>3. \/ /\ x \in Doomed \cup {Nobody} /\ pc' = NextClient
         /\ UNCHANGED <<socket_fds, revents, buffer_new_fd, fds_to_be_deleted,
                        client_mapping, client, fdtab, kid, net, backlog>>
      \/ /\ x \in Conn \ Present
      \/ /\ x \in Present \ Doomed
         /\ \E o \in Oracle : \/ Store(x, Handled(x, fd, revents[pc.i], o))
                              \/ ProcessEnds("killed") /\ UNCHANGED <<net, backlog>>
  BY <1>2 DEF HandleClient
<1>4. CASE /\ x \in Doomed \cup {Nobody} /\ pc' = NextClient
           /\ UNCHANGED <<socket_fds, revents, buffer_new_fd, fds_to_be_deleted,
                          client_mapping, client, fdtab, kid, net, backlog>>
  <2>1. client[x].doomed
    BY <1>2, <1>4 DEF Doomed
  <2> QED BY <1>4, <2>1 DEF Skips, x
<1>5. CASE /\ x \in Present \ Doomed
           /\ \E o \in Oracle : \/ Store(x, Handled(x, fd, revents[pc.i], o))
                                \/ ProcessEnds("killed") /\ UNCHANGED <<net, backlog>>
  <2>1. ~client[x].doomed
    BY <1>5 DEF Doomed
  <2>2. PICK o \in Oracle : \/ Store(x, Handled(x, fd, revents[pc.i], o))
                            \/ ProcessEnds("killed") /\ UNCHANGED <<net, backlog>>
    BY <1>5
  <2>3. CASE Store(x, Handled(x, fd, revents[pc.i], o))
    <3> DEFINE p == Handled(x, fd, revents[pc.i], o)
    <3>1. Handling(x, pc.i)
      BY <1>1, <2>1 DEF Handling, x
    <3>2. Good(p, x, fdtab)
      <4>1. Good(Image(x), x, fdtab)
        BY <1>1, <1>2, ImageGood
      <4> QED BY <1>2, <4>1, HandledGood
    <3>3. ~p.killed
      BY <2>3 DEF Store
    <3>4. p = Handled(x, FdAt(pc.i), revents[pc.i], o)
      BY DEF fd
    <3> HIDE DEF p
    <3>5. Outcome(x, pc.i, p) /\ Talk(x, p)
      BY <3>1, <3>3, <3>4, EntryHandled
    <3>6. Store(x, p)
      BY <2>3 DEF p
    <3>7. x = Owner(FdAt(pc.i))
      BY DEF x
    <3>8. Handles(x, p)
      BY <1>2, <2>1, <3>2, <3>5, <3>6, <3>7 DEF Handles
    <3> QED BY <3>8
  <2>4. CASE ProcessEnds("killed") /\ UNCHANGED <<net, backlog>>
    BY <2>4 DEF Killed
  <2> QED BY <2>2, <2>3, <2>4
<1> QED BY <1>2, <1>3, <1>4, <1>5

----------------------------------------------------------------------------
(* The invariant                                                           *)

LEMMA EndSteady ==
  ASSUME IInv, Exchanges, NEW how \in {"killed", "stopped"}, ProcessEnds(how), UNCHANGED net
  PROVE  Steady'
<1>1. Exchanges'
  BY EndExchanges
<1>2. pc'.at = how
  BY DEF ProcessEnds, At
<1> QED BY <1>1, <1>2 DEF Steady, Running

LEMMA HandleClientSteady ==
  ASSUME Orderly, IInv, Steady, HandleClient
  PROVE  Steady'
<1>1. pc.at = "client" /\ Exchanges /\ Tables /\ Lists
  BY DEF HandleClient, Steady, Running, IInv
<1>2. NextClient.at \in {"client", "server"}
  BY DEF NextClient, At
<1>3. CASE Skips
  <2>1. Tables'
    BY <1>1, <1>3, SkipTables DEF Skips
  <2>2. Exchanges'
    BY <1>1, <1>3 DEF Skips, Exchanges, Exchange
  <2> QED BY <1>2, <1>3, <2>1, <2>2 DEF Steady, Skips
<1>4. CASE Killed
  BY <1>1, <1>4, EndSteady DEF Killed
<1>5. CASE \E x, p : Handles(x, p)
  <2>1. PICK x, p : Handles(x, p)
    BY <1>5
  <2>2. /\ x \in Present /\ x \in Conn /\ x = Owner(FdAt(pc.i)) /\ ~client[x].doomed
        /\ Good(p, x, fdtab) /\ Outcome(x, pc.i, p) /\ Talk(x, p) /\ Store(x, p)
    BY <2>1 DEF Handles, Present
  <2>3. Tables'
    BY <1>1, <2>2, StoreTables
  <2>4. Exchanges'
    BY <1>1, <2>2, StoreExchanges
  <2>5. pc' = NextClient
    BY <2>2 DEF Store
  <2> QED BY <1>2, <2>3, <2>4, <2>5 DEF Steady
<1> QED BY <1>1, <1>3, <1>4, <1>5, ClientHandled

\* Steady is inductive, relative to IInv.
LEMMA InitSteady == Init => Steady
<1> SUFFICES ASSUME Init PROVE Steady
  OBVIOUS
<1>1. pc.at = "poll"
  BY DEF Init, At
<1> QED BY <1>1, InitTables, InitExchanges DEF Steady

LEMMA NextSteady ==
  ASSUME Orderly, IInv, Steady, [Next]_vars
  PROVE  Steady'
<1>1. Exchanges /\ (Running => Tables) /\ pc.at # "undefined"
  BY DEF Steady
<1>2. CASE UNCHANGED vars
  <2>1. UNCHANGED <<proc, kid, net>>
    BY <1>2 DEF vars, proc
  <2>2. Exchanges'
    BY <1>1, <2>1 DEF proc, Exchanges, Exchange
  <2>3. Running' = Running /\ pc'.at # "undefined"
    BY <1>1, <2>1 DEF proc, Running
  <2>4. Running => Tables'
    BY <1>1, <2>1, QuietTables
  <2> QED BY <2>2, <2>3, <2>4 DEF Steady
<1>3. CASE Peers \/ Kids
  <2>1. UNCHANGED proc
    BY <1>3 DEF Peers, Kids, Connect, Send, HangUp, KidWrites, KidReads, KidExits, KidFails
  <2>2. Exchanges'
    BY <1>1, <1>3, PeerExchanges, KidExchanges DEF Peers, Kids
  <2>3. Running' = Running /\ pc'.at # "undefined"
    BY <1>1, <2>1 DEF proc, Running
  <2>4. Running => Tables'
    BY <1>1, <2>1, QuietTables
  <2> QED BY <2>2, <2>3, <2>4 DEF Steady
<1>4. CASE Poll
  <2>1. pc.at = "poll" /\ pc' = FirstClient
    BY <1>4 DEF Poll
  <2>2. pc'.at \in {"client", "server"}
    BY <2>1 DEF FirstClient, At
  <2>3. Tables
    BY <1>1, <2>1 DEF Running
  <2>4. \A y \in Conn : Healthy(kid[y], net[y].ask)
    BY <1>1 DEF Exchanges, Exchange
  <2>5. Tables' /\ Exchanges'
    BY <1>1, <1>4, <2>3, <2>4, PollTables, LoopExchanges
  <2> QED BY <2>2, <2>5 DEF Steady
<1>5. CASE HandleClient
  BY <1>5, HandleClientSteady
<1>6. CASE HandleServer
  <2>1. pc.at = "server" /\ pc' = NextServer
    BY <1>6 DEF HandleServer
  <2>2. pc'.at \in {"server", "reset"}
    BY <2>1 DEF NextServer, At
  <2>3. Tables
    BY <1>1, <2>1 DEF Running
  <2>4. Tables' /\ Exchanges'
    BY <1>1, <1>6, <2>3, HandleServerTables, LoopExchanges
  <2> QED BY <2>2, <2>4 DEF Steady
<1>7. CASE ResetFds
  <2>1. pc.at = "reset" /\ pc'.at = "poll"
    BY <1>7 DEF ResetFds, At
  <2>2. Tables
    BY <1>1, <2>1 DEF Running
  <2>3. Tables' /\ Exchanges'
    BY <1>1, <1>7, <2>2, ResetTables, LoopExchanges
  <2> QED BY <2>1, <2>3 DEF Steady
<1>8. CASE Interrupt
  BY <1>1, <1>8, EndSteady DEF Interrupt
<1> QED BY <1>2, <1>3, <1>4, <1>5, <1>6, <1>7, <1>8 DEF Next, Server

----------------------------------------------------------------------------
(* Between rounds                                                          *)

\* The entries of the poll set: a listening socket's, or one of a client's.
LEMMA EntriesExact ==
  ASSUME Sound, Lists, Polled, pc.at = "poll"
  PROVE  /\ DOMAIN socket_fds = Listening \cup Later
         /\ \A i \in Listening : FdAt(i) = i /\ fdtab[i] = Listener /\ i \in Fd
         /\ \A i \in Later : /\ FdAt(i) \in Fd \ Listening
                             /\ fdtab[FdAt(i)] \in Roles \X Conn
<1>1. /\ Len(socket_fds) \in Nat /\ DOMAIN socket_fds = 1 .. Len(socket_fds)
      /\ Len(socket_fds) >= NListen
  BY LaterEntries DEF Polled
<1>2. DOMAIN socket_fds = Listening \cup Later
  BY <1>1, FdAssumption DEF Listening, Later
<1>3. \A f \in Fd : fdtab[f] = Listener <=> f \in Listening
  BY DEF Sound, Ownership, Ended
<1>4. ASSUME NEW i \in Listening
      PROVE  FdAt(i) = i /\ fdtab[i] = Listener /\ i \in Fd
  <2>1. FdAt(i) = i
    <3>1. socket_fds[i] = [fd |-> i, events |-> "IN"]
      BY DEF Polled
    <3> QED BY <3>1 DEF FdAt
  <2>2. i \in Fd
    BY <2>1, <1>1, <1>2, LaterEntries
  <2> QED BY <1>3, <2>1, <2>2
<1>5. ASSUME NEW i \in Later
      PROVE  FdAt(i) \in Fd \ Listening /\ fdtab[FdAt(i)] \in Roles \X Conn
  <2>1. FdAt(i) \in Fd /\ fdtab[FdAt(i)] \in Roles \X Conn
    BY LaterEntries DEF Polled, Wired
  <2>2. fdtab[FdAt(i)] # Listener
    BY <2>1, NobodyAssumption DEF Listener
  <2> QED BY <1>3, <2>1, <2>2
<1> QED BY <1>2, <1>4, <1>5

LEMMA PollSetIsExact ==
  ASSUME IInv, Steady
  PROVE  PollSetExact
<1> SUFFICES ASSUME pc.at = "poll"
             PROVE  /\ IsInjective(socket_fds)
                    /\ \A i \in DOMAIN socket_fds :
                         LET obj == fdtab[socket_fds[i].fd] IN
                         \/ obj = Listener /\ i = socket_fds[i].fd
                         \/ obj[1] = "socket"
                         \/ obj[1] \in {"file", "cgiOut"} /\ socket_fds[i].events = "IN"
                         \/ obj[1] = "cgiIn" /\ socket_fds[i].events = "OUT"
                    /\ \A x \in Present, dir \in {"IN", "OUT"} :
                         [fd |-> client[x].sock, events |-> dir] \in Range(socket_fds)
  BY DEF PollSetExact
<1>1. Sound /\ Lists /\ Tables
  BY DEF IInv, Steady, Running
<1>2. /\ DOMAIN socket_fds = Listening \cup Later
      /\ \A i \in Listening : FdAt(i) = i /\ fdtab[i] = Listener
      /\ \A i \in Later : FdAt(i) \notin Listening /\ fdtab[FdAt(i)] \in Roles \X Conn
  BY <1>1, EntriesExact DEF Tables
<1>3. \A i \in DOMAIN socket_fds, j \in DOMAIN socket_fds :
         socket_fds[i] = socket_fds[j] => i = j
  <2> SUFFICES ASSUME NEW i \in DOMAIN socket_fds, NEW j \in DOMAIN socket_fds,
                      socket_fds[i] = socket_fds[j]
               PROVE  i = j
    OBVIOUS
  <2>1. FdAt(i) = FdAt(j)
    BY DEF FdAt
  <2>2. CASE i \in Later /\ j \in Later
    BY <1>1, <2>2 DEF Tables, Polled
  <2> QED BY <1>2, <2>1, <2>2
<1>4. ASSUME NEW i \in DOMAIN socket_fds
      PROVE  LET obj == fdtab[socket_fds[i].fd] IN
             \/ obj = Listener /\ i = socket_fds[i].fd
             \/ obj[1] = "socket"
             \/ obj[1] \in {"file", "cgiOut"} /\ socket_fds[i].events = "IN"
             \/ obj[1] = "cgiIn" /\ socket_fds[i].events = "OUT"
  <2>1. CASE i \in Listening
    BY <1>2, <2>1 DEF FdAt
  <2>2. CASE i \in Later
    <3>1. Wired(fdtab[socket_fds[i].fd], socket_fds[i].events)
      BY <1>1, <2>2 DEF Tables, Polled, FdAt
    <3> QED BY <3>1 DEF Wired, Roles
  <2> QED BY <1>2, <2>1, <2>2
<1>5. ASSUME NEW x \in Present, NEW dir \in {"IN", "OUT"}
      PROVE  [fd |-> client[x].sock, events |-> dir] \in Range(socket_fds)
  <2>1. Added = {}
    BY <1>1 DEF Tables, Erasures, Added, Range
  <2>2. PICK i \in Later : socket_fds[i] = [fd |-> client[x].sock, events |-> dir]
    BY <1>1, <2>1 DEF Tables, BothWays
  <2>3. i \in DOMAIN socket_fds
    BY <1>2
  <2> QED BY <2>2, <2>3 DEF Range
<1> QED BY <1>3, <1>4, <1>5 DEF IsInjective

LEMMA MappingIsExact ==
  ASSUME IInv, Steady
  PROVE  MappingExact
<1> SUFFICES ASSUME pc.at = "poll", NEW f \in Fd
             PROVE  client_mapping[f] = IF f \notin Listening
                                           /\ \E i \in DOMAIN socket_fds : socket_fds[i].fd = f
                                        THEN fdtab[f][2] ELSE Nobody
  BY DEF MappingExact
<1>1. Sound /\ Lists /\ Tables
  BY DEF IInv, Steady, Running
<1>2. /\ DOMAIN socket_fds = Listening \cup Later
      /\ \A i \in Listening : FdAt(i) = i
      /\ \A i \in Later : FdAt(i) \notin Listening
  BY <1>1, EntriesExact DEF Tables
<1>3. Added = {}
  BY <1>1 DEF Tables, Erasures, Added, Range
<1>4. Watched(f) <=> f \notin Listening /\ \E i \in DOMAIN socket_fds : socket_fds[i].fd = f
  BY <1>2, <1>3 DEF Watched, FdAt
<1>5. client_mapping[f] = IF Watched(f) THEN Owner(f) ELSE Nobody
  BY <1>1 DEF Tables, Mapped
<1> QED BY <1>4, <1>5 DEF Owner

----------------------------------------------------------------------------
(* One response                                                            *)

\* What a step may do to the response of x.
OneResponse(x) ==
    /\ client[x].begun /\ client'[x].here /\ ~client'[x].doomed => client'[x].begun
    /\ net'[x].answered > net[x].answered /\ net[x].ask = "file" /\ client'[x].status = 200
       => client'[x].got = FileLen

LEMMA OneResponseKept ==
  ASSUME IInv, NEW x \in Conn,
         client'[x].begun = client[x].begun \/ client'[x] = NoClient,
         net'[x].answered = net[x].answered
  PROVE  OneResponse(x)
<1>1. net[x].answered \in Nat
  BY DEF IInv, Sound, Types, NetRec
<1> QED BY <1>1 DEF OneResponse, NoClient

LEMMA OneResponseStored ==
  ASSUME IInv, NEW y, NEW p, Handles(y, p), NEW x \in Conn
  PROVE  OneResponse(x)
<1>1. /\ net \in [Conn -> NetRec] /\ client \in [Conn -> ClientRec]
  BY DEF IInv, Sound, Types
<1>2. /\ y \in Conn /\ Talk(y, p)
      /\ client' = [client EXCEPT ![y] = p.c]
      /\ net' = [net EXCEPT ![y].inbox = p.inbox, ![y].answered = p.answered]
  BY DEF Handles, Store, Present
<1>3. CASE x = y
  <2>1. client'[x] = p.c
    BY <1>1, <1>2, <1>3
  <2>2. net'[x].answered = p.answered
    BY <1>1, <1>2, <1>3 DEF NetRec
  <2> QED BY <1>2, <1>3, <2>1, <2>2 DEF Talk, OneResponse
<1>4. CASE x # y
  BY <1>1, <1>2, <1>4, OneResponseKept
<1> QED BY <1>3, <1>4

LEMMA OneResponseAccepted ==
  ASSUME IInv, HandleServer, NEW x \in Conn
  PROVE  OneResponse(x)
<1>1. /\ net \in [Conn -> NetRec] /\ client \in [Conn -> ClientRec]
      /\ backlog \in [Listening -> Seq(Conn)] /\ pc.i \in Listening
  BY DEF IInv, Sound, Types, HandleServer
<1>2. CASE UNCHANGED <<client, net>>
  BY <1>2, OneResponseKept
<1>3. CASE ~UNCHANGED <<client, net>>
  <2> DEFINE y == Head(backlog[pc.i])
  <2>1. PICK f \in NthFree(fdtab, 1) :
           /\ client' = [client EXCEPT ![y] = [NoClient EXCEPT !.here = TRUE, !.sock = f]]
           /\ net' = [net EXCEPT ![y].stage = "accepted"]
           /\ backlog[pc.i] # <<>>
    BY <1>3 DEF HandleServer
  <2>2. y \in Conn /\ 1 \in 1 .. Len(backlog[pc.i]) /\ backlog[pc.i][1] = y
    BY <1>1, <2>1
  <2> HIDE DEF y
  <2>3. y \notin Present
    <3>1. net[y].stage = "queued"
      BY <1>1, <2>2 DEF IInv, Sound, Queues
    <3> QED BY <3>1 DEF IInv, Sound, Queues
  <2>4. client[y] = NoClient
    BY <2>2, <2>3 DEF IInv, Sound, Ownership, Absent
  <2>5. net'[x].answered = net[x].answered
    BY <1>1, <2>1, <2>2 DEF NetRec
  <2>6. client'[x].begun = client[x].begun
    <3>1. CASE x = y
      <4>1. client'[x] = [NoClient EXCEPT !.here = TRUE, !.sock = f]
        BY <1>1, <2>1, <2>2, <3>1
      <4> QED BY <2>4, <3>1, <4>1 DEF NoClient
    <3>2. CASE x # y
      BY <1>1, <2>1, <2>2, <3>2
    <3> QED BY <3>1, <3>2
  <2> QED BY <2>5, <2>6, OneResponseKept
<1> QED BY <1>2, <1>3

LEMMA OneResponseStep ==
  ASSUME Orderly, IInv, Steady, [Next]_vars, NEW x \in Conn
  PROVE  OneResponse(x)
<1>1. /\ net \in [Conn -> NetRec] /\ client \in [Conn -> ClientRec]
  BY DEF IInv, Sound, Types
<1>2. CASE UNCHANGED <<client, net>>
  BY <1>2, OneResponseKept
<1>3. CASE Peers
  <2>1. UNCHANGED client
    BY <1>3 DEF Peers, Connect, Send, HangUp, proc
  <2>2. PICK y \in Conn : Connect(y) \/ Send(y) \/ HangUp(y)
    BY <1>3 DEF Peers
  <2>3. net'[x].answered = net[x].answered
    <3>1. CASE Connect(y)
      BY <1>1, <3>1 DEF Connect, NetRec
    <3>2. CASE Send(y)
      BY <1>1, <3>2 DEF Send, NetRec
    <3>3. CASE HangUp(y)
      BY <1>1, <3>3 DEF HangUp, NetRec
    <3> QED BY <2>2, <3>1, <3>2, <3>3
  <2> QED BY <2>1, <2>3, OneResponseKept
<1>4. CASE HandleClient
  <2>1. Exchanges /\ Tables
    BY <1>4 DEF Steady, Running, HandleClient
  <2>2. CASE Skips
    BY <1>2, <2>2 DEF Skips
  <2>3. CASE Killed
    <3>1. client'[x] = NoClient /\ net' = net
      BY <2>3 DEF Killed, ProcessEnds
    <3> QED BY <3>1, OneResponseKept
  <2>4. CASE \E y, p : Handles(y, p)
    BY <2>4, OneResponseStored
  <2> QED BY <1>4, <2>1, <2>2, <2>3, <2>4, ClientHandled
<1>5. CASE HandleServer
  BY <1>5, OneResponseAccepted
<1>6. CASE ResetFds
  <2>1. client'[x] = NoClient \/ client'[x] = client[x]
    BY <1>6 DEF ResetFds
  <2>2. net'[x] = [net[x] EXCEPT !.stage = "closed"] \/ net'[x] = net[x]
    BY <1>6 DEF ResetFds
  <2>3. net'[x].answered = net[x].answered
    BY <1>1, <2>2 DEF NetRec
  <2> QED BY <2>1, <2>3, OneResponseKept
<1>7. CASE Interrupt
  <2>1. client'[x] = NoClient /\ net' = net
    BY <1>7 DEF Interrupt, ProcessEnds
  <2> QED BY <2>1, OneResponseKept
<1>8. CASE Poll \/ Kids \/ UNCHANGED vars
  <2>1. UNCHANGED <<client, net>>
    BY <1>8 DEF Poll, Kids, KidWrites, KidReads, KidExits, KidFails, proc, vars
  <2> QED BY <1>2, <2>1
<1> QED BY <1>3, <1>4, <1>5, <1>6, <1>7, <1>8 DEF Next, Server

----------------------------------------------------------------------------
(* The theorems                                                            *)

\* Between rounds and within them, as long as traffic is Orderly, the entries of the poll
\* set, what is to be added and erased, client_mapping, the responses and the children
\* agree (Server::loop(), Server.cpp:75-137).
THEOREM SteadyInvariant ==
  ASSUME Orderly
  PROVE  Spec => []Steady
<1>1. Init => Steady
  BY InitSteady
<1>2. IInv /\ Steady /\ [Next]_vars => Steady'
  BY NextSteady
<1>3. Spec => []IInv
  BY Invariant
<1> QED BY <1>1, <1>2, <1>3, PTL DEF Spec

\* What poll() watches, and which client a ready descriptor leads to, is exact whenever
\* poll() is called: whatever was accepted, opened, handed over, marked and erased in
\* between, no entry is doubled, left behind or missing (Server::resetFds()).
THEOREM TablesStayExact ==
  ASSUME Orderly
  PROVE  Spec => []TablesExact
<1>1. IInv /\ Steady => TablesExact
  BY PollSetIsExact, MappingIsExact DEF TablesExact
<1>2. Spec => []IInv
  BY Invariant
<1>3. Spec => []Steady
  BY SteadyInvariant
<1> QED BY <1>1, <1>2, <1>3, PTL

\* client_mapping never leads handleClient() to a Client that was destroyed.
THEOREM NothingDangles ==
  ASSUME Orderly
  PROVE  Spec => []NeverUndefined
<1>1. Steady => NeverUndefined
  BY DEF Steady, NeverUndefined
<1>2. Spec => []Steady
  BY SteadyInvariant
<1> QED BY <1>1, <1>2, PTL

\* A response that was begun is finished, or its connection closed, and a file that is
\* sent as a success is sent whole (Client.cpp:447-460).
THEOREM ResponsesStayIntact ==
  ASSUME Orderly
  PROVE  Spec => ResponsesIntact
<1> DEFINE Unbroken == \A x \in Conn : client[x].begun /\ x \in (Present \ Doomed)' => client'[x].begun
           InFull == \A x \in Conn :
                       net'[x].answered > net[x].answered /\ net[x].ask = "file"
                       /\ client'[x].status = 200 => client'[x].got = FileLen
<1>1. IInv /\ Steady /\ [Next]_vars => [Unbroken]_vars /\ [InFull]_vars
  <2> SUFFICES ASSUME IInv, Steady, [Next]_vars PROVE Unbroken /\ InFull
    OBVIOUS
  <2>1. \A x \in Conn : OneResponse(x)
    BY OneResponseStep
  <2>2. Unbroken
    BY <2>1 DEF OneResponse, Present, Doomed
  <2>3. InFull
    BY <2>1 DEF OneResponse
  <2> QED BY <2>2, <2>3
<1>2. Spec => []IInv
  BY Invariant
<1>3. Spec => []Steady
  BY SteadyInvariant
<1>4. Spec => [][Unbroken]_vars /\ [][InFull]_vars
  <2> HIDE DEF Unbroken, InFull
  <2> QED BY <1>1, <1>2, <1>3, PTL DEF Spec
<1> QED BY <1>4 DEF ResponsesIntact, ResponseNotRestarted, WholeFile
=============================================================================
