------------------------------ MODULE Service ------------------------------
(***************************************************************************)
(* EventLoop as an implementation of Lifecycle.                            *)
(***************************************************************************)
EXTENDS EventLoop

\* How far the connection x has come.  The end of the process drops whoever was not
\* answered yet.  A second response, at whatever time, is a phase of which Lifecycle
\* knows nothing.
PhaseOf(x) ==
    CASE net[x].answered > 1     -> "answered again"
      [] net[x].stage = "new"    -> "absent"
      [] net[x].stage = "queued" -> "waiting"
      [] net[x].stage = "closed" -> "closed"
      [] OTHER -> IF net[x].answered = 1 THEN "replied"
                  ELSE IF client[x].doomed \/ Ended THEN "dropped"
                  ELSE IF client[x].req = "none" THEN "open" ELSE "asked"

Life == INSTANCE Lifecycle
          WITH phase <- [x \in Conn |-> PhaseOf(x)], Drops <- Faults # {}

\* Whatever peers, scripts and the clock do, a connection goes through its phases
\* in order: it is answered at most once, not before it asked and not after it was
\* dropped, although its response may be replaced and its descriptors' numbers
\* pass to other clients.
InOrder == Life!Spec

\* Where nothing goes wrong, nobody is dropped, and everybody who connects is
\* answered and let go.
Serves == Life!FairSpec
=============================================================================
