----------------------------- MODULE Lifecycle -----------------------------
(***************************************************************************)
(* What the server promises its peers.  A peer that connects waits, is     *)
(* accepted, asks, is answered once, and is let go; it may be dropped      *)
(* instead, if something goes wrong.  No answer comes before a question,   *)
(* none comes twice, and nothing comes after the end.                      *)
(***************************************************************************)
CONSTANTS Conn,      \* the connections
          Drops      \* whether anything may go wrong

VARIABLE phase       \* how far each connection has come

Phases == {"absent", "waiting", "open", "asked", "replied", "dropped", "closed"}

Init == phase = [x \in Conn |-> "absent"]

Step(x, from, to) == phase[x] = from /\ phase'[x] = to

Connect(x) == Step(x, "absent", "waiting")
Accept(x)  == Step(x, "waiting", "open")
Ask(x)     == Step(x, "open", "asked")
Reply(x)   == Step(x, "asked", "replied")
Drop(x)    == Drops /\ (Step(x, "open", "dropped") \/ Step(x, "asked", "dropped"))
Close(x)   == Step(x, "replied", "closed") \/ Step(x, "dropped", "closed")
Stay(x)    == phase'[x] = phase[x]

\* Several connections may move at once: they are let go together at the end of a
\* round.
Next == \A x \in Conn :
          \/ Connect(x)
          \/ Accept(x)
          \/ Ask(x)
          \/ Reply(x)
          \/ Drop(x)
          \/ Close(x)
          \/ Stay(x)

Spec == Init /\ [][Next]_phase

\* Whoever connects is let go in the end.
LetGo == \A x \in Conn : phase[x] = "waiting" ~> phase[x] = "closed"

FairSpec == Spec /\ LetGo
=============================================================================
