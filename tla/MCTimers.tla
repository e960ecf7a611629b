------------------------------ MODULE MCTimers ------------------------------
(* Timers with two servers.                                                *)
EXTENDS Timers, TLC

CONSTANTS a1, a2, a3

\* The first server on two addresses, and one number more than sockets, as an attempt
\* that fails uses it up.
Directive(server, addr, reuseport) == [server |-> server, addr |-> addr, reuseport |-> reuseport]
MCListens == <<Directive(1, a1, TRUE), Directive(1, a2, FALSE), Directive(2, a3, FALSE)>>
MCFd == 3 .. 6

\* A peer connects only where the set-up left no descriptor over and found every address
\* free, and not to the first address, which has the same server as the second: neither
\* makes a difference to a client.  Of the second server it asks for the location.
Undisturbed == taken = {} /\ \A f \in Fd : sockets[f].state \in {"closed", "listening"}
Followed == peer'.at # "new" => Undisturbed /\ peer'.to # a1 /\ (peer'.to = a3 => peer'.location = 1)
ServingSpec ==
    Init /\ [][Next /\ Followed]_vars /\ WF_setupVars(Setup) /\ WF_vars(Loop) /\ WF_vars(Tick)

\* Of each server its own limit, and that of its location: shorter or longer.
OwnAndLocation(own, location) == (0 :> own) @@ (1 :> location)
MCHeaderTimeout == <<1, 2>>
MCBodyTimeout   == <<OwnAndLocation(1, 0), OwnAndLocation(0, 1)>>
MCCgiTimeout    == <<OwnAndLocation(0, 1), OwnAndLocation(1, 0)>>

MCRequests == {<<"part", "head", "end">>, <<"head", "piece", "end">>, <<"head", "end", "part">>}

\* Nothing follows the request.
CompleteRequests == {<<"head", "end">>}
=============================================================================
