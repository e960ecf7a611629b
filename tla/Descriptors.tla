---------------------------- MODULE Descriptors ----------------------------
(***************************************************************************)
(* The descriptor table the kernel keeps for the server process.  Nothing  *)
(* of it is in src/: it is what the calls socket, accept, open, pipe and   *)
(* close in Client.cpp, StaticFile.cpp and CgiPipe.cpp rely on.  A new     *)
(* descriptor is always the lowest free number, which is why a number that *)
(* was closed comes back at once as something else.                        *)
(***************************************************************************)
EXTENDS Integers, FiniteSets

CONSTANTS Conn,     \* the connections peers open during a run
          Fd,       \* the descriptor numbers the process may use
          NListen,  \* how many listening sockets it has: they are 1 .. NListen
          Nobody    \* stands for "no connection"

ASSUME FdAssumption == /\ Fd \subseteq Nat \ {0}
                       /\ NListen \in Nat \ {0}
                       /\ 1 .. NListen \subseteq Fd
ASSUME NobodyAssumption == Nobody \notin Conn

\* What a descriptor can refer to: nothing, a listening socket, or one of the
\* things the server opens for a connection (its socket, the file it sends,
\* the server's ends of the pipes from and to its CGI child).
Free     == <<"free", Nobody>>
Listener == <<"listen", Nobody>>
Roles    == {"socket", "file", "cgiOut", "cgiIn"}
Object   == {Free, Listener} \cup (Roles \X Conn)

\* The n-th lowest free descriptor, as a set: empty when fewer are free.
NthFree(t, n) ==
    {f \in Fd : /\ t[f] = Free
                /\ Cardinality({g \in Fd : g < f /\ t[g] = Free}) = n - 1}

Assign(t, f, obj) == [t EXCEPT ![f] = obj]

Release(t, S) == [f \in Fd |-> IF f \in S THEN Free ELSE t[f]]
=============================================================================
