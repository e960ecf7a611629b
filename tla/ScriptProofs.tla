---------------------------- MODULE ScriptProofs ----------------------------
(***************************************************************************)
(* Proof that, for any number of clients and whatever call fails,          *)
(*   1. the process of a script never outlives the content it belongs to,  *)
(*      and no process is killed that was waited for;                      *)
(*   2. a script is left with the two ends of its pipes that are its own,  *)
(*      is told of the request it is for, and is not killed by the         *)
(*      beginning of an older one.                                         *)
(***************************************************************************)
EXTENDS Script, TLAPS, SequenceTheorems

Living == {"unwinding", "running"}

States == [content : [Clients -> ContentType], process : [Clients -> ProcessType], held : SUBSET Handles]

\* Why it holds: as long as a process lives its content is there and will kill it, and
\* nothing that was waited for will be.  This is what every action preserves.
Bound(c, phase) ==
    /\ phase \in Living => c.here /\ c.child = "some" /\ c.kill_child
    /\ c.kill_child => c.here /\ phase # "waited for"
Tended == \A x \in Clients : Bound(content[x], process[x].phase)

IInv == TypeOK /\ Tended

----------------------------------------------------------------------------
(* Lemmas about the operators                                              *)

LEMMA NoContentType == NoContent \in ContentType /\ ~NoContent.here /\ ~NoContent.kill_child
BY DEF NoContent, ContentType

LEMMA NoProcessType == NoProcess \in ProcessType /\ NoProcess.phase = "none"
BY NoContentType DEF NoProcess, ProcessType

LEMMA EndedType ==
  ASSUME NEW p \in ProcessType, NEW phase \in {"exited", "killed"}
  PROVE  Ended(p, phase) \in ProcessType /\ Ended(p, phase).phase = phase
BY NoProcessType DEF Ended, ProcessType, NoProcess

\* A living process dies, and nothing else happens.
LEMMA KillEnds ==
  ASSUME NEW p \in [Clients -> ProcessType], NEW x \in Clients
  PROVE  /\ Kill(p, x) \in [Clients -> ProcessType]
         /\ \A y \in Clients : Kill(p, x)[y].phase =
              IF y = x /\ p[x].phase \in Living THEN "killed" ELSE p[y].phase
<1>1. Ended(p[x], "killed") \in ProcessType /\ Ended(p[x], "killed").phase = "killed"
  BY EndedType
<1>2. CASE p[x].phase \in Living
  <2>1. Kill(p, x) = [p EXCEPT ![x] = Ended(p[x], "killed")]
    BY <1>2 DEF Kill, Living
  <2> QED BY <1>1, <1>2, <2>1
<1>3. CASE p[x].phase \notin Living
  <2>1. Kill(p, x) = p
    BY <1>3 DEF Kill, Living
  <2> QED BY <1>3, <2>1
<1> QED BY <1>2, <1>3

LEMMA DeleteEnds ==
  ASSUME NEW s \in States, NEW x \in Clients
  PROVE  /\ Delete(s, x) \in States
         /\ Delete(s, x).content = [s.content EXCEPT ![x] = NoContent]
         /\ \A y \in Clients : Delete(s, x).process[y].phase =
              IF y = x /\ s.process[x].phase \in Living /\ s.content[x].child = "some" /\ s.content[x].kill_child
              THEN "killed" ELSE s.process[y].phase
<1> DEFINE d == Delete(s, x)
<1>0. s.content \in [Clients -> ContentType] /\ s.process \in [Clients -> ProcessType] /\ s.held \subseteq Handles
  BY DEF States
<1>1. d.content = [s.content EXCEPT ![x] = NoContent] /\ d.content \in [Clients -> ContentType]
  BY <1>0, NoContentType DEF Delete
<1>2. d.process = IF s.content[x].child = "some" /\ s.content[x].kill_child THEN Kill(s.process, x) ELSE s.process
  BY DEF Delete
<1>3. d.process \in [Clients -> ProcessType]
  BY <1>0, <1>2, KillEnds
<1>4. d.held \subseteq Handles
  BY <1>0 DEF Delete
<1>5. d \in States
  BY <1>1, <1>3, <1>4 DEF States, Delete
<1>6. \A y \in Clients : d.process[y].phase =
        IF y = x /\ s.process[x].phase \in Living /\ s.content[x].child = "some" /\ s.content[x].kill_child
        THEN "killed" ELSE s.process[y].phase
  BY <1>0, <1>2, KillEnds
<1> QED BY <1>1, <1>5, <1>6

\* What the calls that set up a script leave alone: the other clients' contents and
\* processes, and that the content is there.
Others(s, t, x) ==
    /\ t \in States
    /\ \A y \in Clients \ {x} : t.content[y] = s.content[y] /\ t.process[y] = s.process[y]
    /\ t.content[x].here = s.content[x].here

LEMMA HandlesOf ==
  ASSUME NEW x \in Clients
  PROVE  Ends(x) \subseteq Handles /\ {<<x, 0>>, <<x, 1>>, <<x, 2>>, <<x, 3>>} \subseteq Ends(x) /\ Socket(x) \in Handles
BY DEF Handles, Ends

LEMMA SetupPipesKeeps ==
  ASSUME NEW s \in States, NEW x \in Clients, NEW fails
  PROVE  /\ Others(s, SetupPipes(s, x, fails), x)
         /\ SetupPipes(s, x, fails).process = s.process
         /\ SetupPipes(s, x, fails).content[x].kill_child = s.content[x].kill_child
         /\ SetupPipes(s, x, fails).content[x].child = s.content[x].child
<1>1. s.content \in [Clients -> ContentType] /\ s.process \in [Clients -> ProcessType] /\ s.held \subseteq Handles
  BY DEF States
<1>2. ASSUME NEW ends, ends \subseteq Handles, NEW h, h \subseteq Handles,
             SetupPipes(s, x, fails) = [s EXCEPT !.content[x].ends = ends, !.held = h]
      PROVE  /\ Others(s, SetupPipes(s, x, fails), x)
             /\ SetupPipes(s, x, fails).process = s.process
             /\ SetupPipes(s, x, fails).content[x].kill_child = s.content[x].kill_child
             /\ SetupPipes(s, x, fails).content[x].child = s.content[x].child
  <2> DEFINE c == [s.content[x] EXCEPT !.ends = ends]
             t == [s EXCEPT !.content = [s.content EXCEPT ![x] = c], !.held = h]
  <2>1. SetupPipes(s, x, fails) = t
    BY <1>1, <1>2 DEF States
  <2>2. c \in ContentType /\ c.here = s.content[x].here /\ c.kill_child = s.content[x].kill_child /\ c.child = s.content[x].child
    BY <1>1, <1>2 DEF ContentType
  <2>3. t \in States
    BY <1>1, <1>2, <2>2 DEF States
  <2>4. t.process = s.process /\ t.content[x] = c /\ \A y \in Clients \ {x} : t.content[y] = s.content[y]
    BY <1>1 DEF States
  <2> QED BY <2>1, <2>2, <2>3, <2>4 DEF Others
<1>3. CASE fails = "pipe"
  BY <1>3 DEF SetupPipes, Others
<1>4. CASE fails = "second pipe"
  <2> DEFINE h == (s.held \cup {<<x, 0>>, <<x, 1>>}) \ {<<x, 1>>}
  <2>1. SetupPipes(s, x, fails) = [s EXCEPT !.content[x].ends = {<<x, 0>>}, !.held = h]
    BY <1>4 DEF SetupPipes
  <2>2. {<<x, 0>>} \subseteq Handles /\ h \subseteq Handles
    BY <1>1, HandlesOf
  <2> HIDE DEF h
  <2> QED BY <1>2, <2>1, <2>2
<1>5. CASE fails \notin {"pipe", "second pipe"}
  <2> DEFINE h == s.held \cup Ends(x)
  <2>1. SetupPipes(s, x, fails) = [s EXCEPT !.content[x].ends = {<<x, 0>>, <<x, 3>>}, !.held = h]
    BY <1>5 DEF SetupPipes
  <2>2. {<<x, 0>>, <<x, 3>>} \subseteq Handles /\ h \subseteq Handles
    BY <1>1, HandlesOf
  <2> HIDE DEF h
  <2> QED BY <1>2, <2>1, <2>2
<1> QED BY <1>3, <1>4, <1>5

LEMMA ForkKeeps ==
  ASSUME NEW s \in States, NEW x \in Clients
  PROVE  /\ Others(s, Fork(s, x), x)
         /\ Fork(s, x).content[x].child = "some" /\ Fork(s, x).content[x].kill_child
         /\ Fork(s, x).process[x].phase = "unwinding"
<1>1. s.content \in [Clients -> ContentType] /\ s.process \in [Clients -> ProcessType] /\ s.held \subseteq Handles
  BY DEF States
<1> DEFINE c == [s.content[x] EXCEPT !.child = "some", !.kill_child = TRUE]
           q == [NoProcess EXCEPT !.phase = "unwinding", !.held = s.held, !.env = AddEnv(x),
                                  !.left = Clients, !.copies = [s.content EXCEPT ![x] = NoContent]]
           t == Fork(s, x)
<1>2. c \in ContentType /\ c.here = s.content[x].here /\ c.child = "some" /\ c.kill_child
  BY <1>1 DEF ContentType
<1>3. [s.content EXCEPT ![x] = NoContent] \in [Clients -> ContentType]
  BY <1>1, NoContentType
<1>4. q \in ProcessType /\ q.phase = "unwinding"
  BY <1>1, <1>3, NoProcessType DEF ProcessType
<1>5. t = [content |-> [s.content EXCEPT ![x] = c], process |-> [s.process EXCEPT ![x] = q], held |-> s.held]
  BY <1>1 DEF Fork
<1>6. t \in States
  BY <1>1, <1>2, <1>4, <1>5 DEF States
<1>7. t.content[x] = c /\ t.process[x] = q
  BY <1>1, <1>5
<1>8. \A y \in Clients \ {x} : t.content[y] = s.content[y] /\ t.process[y] = s.process[y]
  BY <1>1, <1>5
<1> QED BY <1>2, <1>4, <1>6, <1>7, <1>8 DEF Others

LEMMA OthersTransitive ==
  ASSUME NEW x \in Clients, NEW s, NEW t, NEW u, Others(s, t, x), Others(t, u, x)
  PROVE  Others(s, u, x)
BY DEF Others

Closes(s, closed) == [s EXCEPT !.held = @ \ closed]
ClosesEnds(s, x, ends, closed) == [s EXCEPT !.content[x].ends = ends, !.held = @ \ closed]

\* Closing some ends changes neither contents' marks nor processes.
LEMMA ClosingKeeps ==
  ASSUME NEW s \in States, NEW x \in Clients, NEW closed, NEW ends \in SUBSET Handles, NEW r,
         r \in {Closes(s, closed), ClosesEnds(s, x, ends, closed)}
  PROVE  /\ Others(s, r, x) /\ r.process = s.process
         /\ r.content[x].child = s.content[x].child
         /\ r.content[x].kill_child = s.content[x].kill_child
<1>1. s.content \in [Clients -> ContentType] /\ s.process \in [Clients -> ProcessType] /\ s.held \subseteq Handles
  BY DEF States
<1> DEFINE h == s.held \ closed
           c == [s.content[x] EXCEPT !.ends = ends]
           t == [s EXCEPT !.held = h]
           u == [s EXCEPT !.content = [s.content EXCEPT ![x] = c], !.held = h]
<1>2. Closes(s, closed) = t /\ ClosesEnds(s, x, ends, closed) = u
  BY <1>1 DEF States, Closes, ClosesEnds
<1>3. h \subseteq Handles
  BY <1>1
<1>4. c \in ContentType /\ c.here = s.content[x].here /\ c.kill_child = s.content[x].kill_child /\ c.child = s.content[x].child
  BY <1>1 DEF ContentType
<1>5. t \in States /\ t.content = s.content /\ t.process = s.process
  BY <1>1, <1>3 DEF States
<1>6. u \in States /\ u.process = s.process /\ u.content[x] = c /\ \A y \in Clients \ {x} : u.content[y] = s.content[y]
  BY <1>1, <1>3, <1>4 DEF States
<1> QED BY <1>2, <1>4, <1>5, <1>6 DEF Others

\* Whatever fails: the process of x is what it was, or begins and is bound to its content.
LEMMA ProcessFdsKeeps ==
  ASSUME NEW s \in States, NEW x \in Clients, NEW fails
  PROVE  LET t == ProcessFds(s, x, fails) IN
         /\ Others(s, t, x)
         /\ \/ t.process[x] = s.process[x] /\ t.content[x].kill_child = s.content[x].kill_child
            \/ t.process[x].phase = "unwinding" /\ t.content[x].child = "some" /\ t.content[x].kill_child
<1> DEFINE piped == SetupPipes(s, x, fails)
           forked == IF fails = "fork" THEN piped ELSE Fork(piped, x)
           generated == GenerateFds(s, x, fails)
           n == IF fails = "first fcntl" THEN 0 ELSE 3
           t == ProcessFds(s, x, fails)
           Begun(u) == \/ u.process[x] = s.process[x] /\ u.content[x].kill_child = s.content[x].kill_child
                       \/ u.process[x].phase = "unwinding" /\ u.content[x].child = "some" /\ u.content[x].kill_child
<1>1. Others(s, piped, x) /\ piped \in States /\ Begun(piped)
  BY SetupPipesKeeps DEF Others
<1>2. Others(s, forked, x) /\ forked \in States /\ Begun(forked)
  <2>1. CASE fails = "fork"
    BY <1>1, <2>1
  <2>2. CASE fails # "fork"
    <3> HIDE DEF piped
    <3>1. Others(piped, Fork(piped, x), x) /\ Begun(Fork(piped, x))
      BY <1>1, ForkKeeps
    <3>2. Others(s, Fork(piped, x), x)
      BY <1>1, <3>1, OthersTransitive
    <3> QED BY <2>2, <3>1, <3>2 DEF Others
  <2> QED BY <2>1, <2>2
<1>3. Others(s, generated, x) /\ generated \in States /\ Begun(generated)
  <2>1. CASE fails \in {"pipe", "second pipe"}
    BY <1>1, <2>1 DEF GenerateFds
  <2>2. CASE fails \notin {"pipe", "second pipe"}
    <3>1. generated = Closes(forked, {<<x, 1>>, <<x, 2>>})
      BY <2>2 DEF GenerateFds, Closes
    <3> HIDE DEF forked, generated
    <3>2. /\ Others(forked, generated, x) /\ generated.process = forked.process
          /\ generated.content[x].child = forked.content[x].child
          /\ generated.content[x].kill_child = forked.content[x].kill_child
      <4>1. {} \in SUBSET Handles
        OBVIOUS
      <4> QED BY <1>2, <3>1, <4>1, ClosingKeeps
    <3>3. Others(s, generated, x)
      BY <1>2, <3>2, OthersTransitive
    <3> QED BY <1>2, <3>2, <3>3 DEF Others
  <2> QED BY <2>1, <2>2
<1>4. CASE fails \notin {"first fcntl", "second fcntl"}
  BY <1>3, <1>4 DEF ProcessFds
<1>5. CASE fails \in {"first fcntl", "second fcntl"}
  <2> DEFINE closed == {<<x, n>>}
             ends == generated.content[x].ends \ closed
  <2>1. t = ClosesEnds(generated, x, ends, closed)
    BY <1>5 DEF ProcessFds, ClosesEnds
  <2>2. ends \in SUBSET Handles
    BY <1>3 DEF States, ContentType
  <2> HIDE DEF generated, closed, ends, t
  <2>3. /\ Others(generated, t, x) /\ t.process = generated.process
        /\ t.content[x].child = generated.content[x].child
        /\ t.content[x].kill_child = generated.content[x].kill_child
    <3>1. generated \in States
      BY <1>3
    <3> QED BY <2>1, <2>2, <3>1, ClosingKeeps
  <2>4. Others(s, t, x)
    BY <1>3, <2>3, OthersTransitive
  <2>5. Begun(t)
    BY <1>3, <2>3
  <2> QED BY <2>4, <2>5 DEF t
<1> QED BY <1>4, <1>5

----------------------------------------------------------------------------
(* The actions                                                             *)

LEMMA StateType ==
  ASSUME TypeOK
  PROVE  State \in States /\ State.content = content /\ State.process = process /\ State.held = held
BY DEF TypeOK, State, States

\* A state that is reached by an operator has its type, and x is all it concerns.
LEMMA BecomesInv ==
  ASSUME IInv, NEW s \in States, NEW x \in Clients, Becomes(s), UNCHANGED running,
         \A y \in Clients \ {x} : s.content[y] = content[y] /\ s.process[y].phase = process[y].phase,
         Bound(s.content[x], s.process[x].phase)
  PROVE  IInv'
<1>1. TypeOK'
  BY DEF IInv, TypeOK, Becomes, States
<1>2. Tended'
  BY DEF IInv, Tended, Becomes
<1> QED BY <1>1, <1>2 DEF IInv

\* What Unwind and CheckStatus make of the processes and the contents.
Shorten(p, x, L, H) == [p EXCEPT ![x].left = @ \ L, ![x].held = @ \ H]
WaitFor(p, x) == [p EXCEPT ![x].phase = "waited for"]
SetDone(k, x) == [k EXCEPT ![x].child_done = TRUE, ![x].kill_child = FALSE]

\* Two fields of one record of a function, and what the record is then.
LEMMA ShortenedProcess ==
  ASSUME NEW p \in [Clients -> ProcessType], NEW x \in Clients, NEW L, NEW H
  PROVE  LET q == Shorten(p, x, L, H) IN
         /\ q \in [Clients -> ProcessType] /\ q[x].phase = p[x].phase
         /\ \A z \in Clients \ {x} : q[z] = p[z]
<1> DEFINE f == [p EXCEPT ![x].left = @ \ L]
           r == [p[x] EXCEPT !.left = @ \ L]
           s == [r EXCEPT !.held = @ \ H]
           q == [p EXCEPT ![x].left = @ \ L, ![x].held = @ \ H]
<1>1. p[x] \in ProcessType
  OBVIOUS
<1>2. r \in ProcessType /\ r.phase = p[x].phase
  BY <1>1 DEF ProcessType
<1>3. f = [p EXCEPT ![x] = r]
  OBVIOUS
<1> HIDE DEF r
<1>4. f \in [Clients -> ProcessType] /\ f[x] = r /\ \A z \in Clients \ {x} : f[z] = p[z]
  BY <1>2, <1>3
<1>5. s \in ProcessType /\ s.phase = r.phase
  BY <1>2 DEF ProcessType
<1>6. q = [f EXCEPT ![x] = [f[x] EXCEPT !.held = @ \ H]]
  OBVIOUS
<1> HIDE DEF f
<1>7. q = [f EXCEPT ![x] = s]
  BY <1>4, <1>6
<1> HIDE DEF s, q
<1>8. q \in [Clients -> ProcessType] /\ q[x] = s /\ \A z \in Clients \ {x} : q[z] = f[z]
  BY <1>4, <1>5, <1>7
<1>9. q \in [Clients -> ProcessType] /\ q[x].phase = p[x].phase /\ \A z \in Clients \ {x} : q[z] = p[z]
  BY <1>2, <1>4, <1>5, <1>8
<1> QED BY <1>9 DEF q, Shorten

LEMMA WaitedProcess ==
  ASSUME NEW p \in [Clients -> ProcessType], NEW x \in Clients
  PROVE  LET q == WaitFor(p, x) IN
         /\ q \in [Clients -> ProcessType] /\ q[x].phase = "waited for"
         /\ \A z \in Clients \ {x} : q[z] = p[z]
<1> DEFINE r == [p[x] EXCEPT !.phase = "waited for"]
<1>1. p[x] \in ProcessType
  OBVIOUS
<1>2. r \in ProcessType /\ r.phase = "waited for"
  BY <1>1 DEF ProcessType
<1>3. WaitFor(p, x) = [p EXCEPT ![x] = r]
  BY DEF WaitFor
<1> HIDE DEF r
<1> QED BY <1>2, <1>3

LEMMA WaitedContent ==
  ASSUME NEW k \in [Clients -> ContentType], NEW x \in Clients
  PROVE  LET q == SetDone(k, x) IN
         /\ q \in [Clients -> ContentType] /\ ~q[x].kill_child
         /\ \A z \in Clients \ {x} : q[z] = k[z]
<1> DEFINE f == [k EXCEPT ![x].child_done = TRUE]
           r == [k[x] EXCEPT !.child_done = TRUE]
           s == [r EXCEPT !.kill_child = FALSE]
           q == [k EXCEPT ![x].child_done = TRUE, ![x].kill_child = FALSE]
<1>1. k[x] \in ContentType
  OBVIOUS
<1>2. r \in ContentType
  BY <1>1 DEF ContentType
<1>3. f = [k EXCEPT ![x] = r]
  OBVIOUS
<1> HIDE DEF r
<1>4. f \in [Clients -> ContentType] /\ f[x] = r /\ \A z \in Clients \ {x} : f[z] = k[z]
  BY <1>2, <1>3
<1>5. s \in ContentType /\ ~s.kill_child
  BY <1>2 DEF ContentType
<1>6. q = [f EXCEPT ![x] = [f[x] EXCEPT !.kill_child = FALSE]]
  OBVIOUS
<1> HIDE DEF f
<1>7. q = [f EXCEPT ![x] = s]
  BY <1>4, <1>6
<1> HIDE DEF s, q
<1>8. q \in [Clients -> ContentType] /\ q[x] = s /\ \A z \in Clients \ {x} : q[z] = f[z]
  BY <1>4, <1>5, <1>7
<1>9. q \in [Clients -> ContentType] /\ ~q[x].kill_child /\ \A z \in Clients \ {x} : q[z] = k[z]
  BY <1>4, <1>5, <1>8
<1> QED BY <1>9 DEF q, SetDone

LEMMA BeginInv ==
  ASSUME IInv, NEW x \in Clients, Begin(x)
  PROVE  IInv'
<1> USE DEF IInv
<1>1. PICK fails : LET s == ProcessFds([State EXCEPT !.content[x].here = TRUE], x, fails) IN
                   Becomes(IF fails = "none" THEN s ELSE Delete(s, x))
  BY DEF Begin
<1> DEFINE s0 == [State EXCEPT !.content[x].here = TRUE]
           s == ProcessFds(s0, x, fails)
           d == Delete(s, x)
<1>2. /\ s0 \in States /\ s0.process = process
      /\ \A y \in Clients \ {x} : s0.content[y] = content[y]
      /\ s0.content[x].here /\ s0.content[x].kill_child = content[x].kill_child
  <2> DEFINE c == [content[x] EXCEPT !.here = TRUE]
             t == [content |-> [content EXCEPT ![x] = c], process |-> process, held |-> held]
  <2>1. c \in ContentType /\ c.here /\ c.kill_child = content[x].kill_child
    BY DEF TypeOK, ContentType
  <2>2. s0 = t
    <3>1. State = [content |-> content, process |-> process, held |-> held]
      BY DEF State
    <3>2. s0 = [State EXCEPT !.content = [State.content EXCEPT ![x] = [State.content[x] EXCEPT !.here = TRUE]]]
      OBVIOUS
    <3>3. State.content[x] = content[x] /\ State.content = content
      BY <3>1
    <3>4. s0 = [State EXCEPT !.content = [content EXCEPT ![x] = c]]
      BY <3>2, <3>3
    <3> HIDE DEF c, s0
    <3> QED BY <3>1, <3>4
  <2>3. t \in States /\ t.process = process /\ t.content[x] = c
        /\ \A y \in Clients \ {x} : t.content[y] = content[y]
    BY <2>1 DEF TypeOK, States
  <2> QED BY <2>1, <2>2, <2>3
<1>3. ~content[x].kill_child /\ process[x].phase = "none"
  BY DEF Begin, Tended, Bound
<1> HIDE DEF s0
<1>4. /\ Others(s0, s, x)
      /\ \/ s.process[x] = s0.process[x] /\ s.content[x].kill_child = s0.content[x].kill_child
         \/ s.process[x].phase = "unwinding" /\ s.content[x].child = "some" /\ s.content[x].kill_child
  BY <1>2, ProcessFdsKeeps
<1> HIDE DEF s
<1>5. s \in States /\ s.content[x].here
      /\ \A y \in Clients \ {x} : s.content[y] = content[y] /\ s.process[y] = process[y]
  BY <1>2, <1>4 DEF Others
<1>6. s.content[x].kill_child \in BOOLEAN
  BY <1>5 DEF States, ContentType
<1>7. Bound(s.content[x], s.process[x].phase)
  BY <1>2, <1>3, <1>4, <1>5 DEF Bound, Living
<1>8. /\ d \in States /\ d.content = [s.content EXCEPT ![x] = NoContent]
      /\ \A y \in Clients : d.process[y].phase =
           IF y = x /\ s.process[x].phase \in Living /\ s.content[x].child = "some" /\ s.content[x].kill_child
           THEN "killed" ELSE s.process[y].phase
  BY <1>5, DeleteEnds
<1> HIDE DEF d
<1>9. d.content[x] = NoContent /\ \A y \in Clients \ {x} : d.content[y] = content[y]
  BY <1>5, <1>8 DEF States
<1>10. Bound(d.content[x], d.process[x].phase)
  BY <1>7, <1>8, <1>9, NoContentType DEF Bound, Living
<1>11. UNCHANGED running
  BY DEF Begin
<1>12. Becomes(IF fails = "none" THEN s ELSE d)
  BY <1>1 DEF s, d, s0
<1>13. CASE fails = "none"
  <2>1. Becomes(s)
    BY <1>12, <1>13
  <2> QED BY <1>5, <1>7, <1>11, <2>1, BecomesInv
<1>14. CASE fails # "none"
  <2>1. Becomes(d)
    BY <1>12, <1>14
  <2>2. \A y \in Clients \ {x} : d.content[y] = content[y] /\ d.process[y].phase = process[y].phase
    BY <1>5, <1>8, <1>9
  <2> QED BY <1>8, <1>10, <1>11, <2>1, <2>2, BecomesInv
<1> QED BY <1>13, <1>14

LEMMA CheckStatusInv ==
  ASSUME IInv, NEW x \in Clients, CheckStatus(x)
  PROVE  IInv'
<1> USE DEF IInv
<1>1. CASE process[x].phase \in Living
  <2>1. content' = [content EXCEPT ![x].kill_child = TRUE] /\ UNCHANGED <<process, held, running>>
    BY <1>1 DEF CheckStatus, Living
  <2>2. TypeOK'
    BY <2>1 DEF TypeOK, ContentType
  <2>3. Tended'
    BY <1>1, <2>1 DEF TypeOK, ContentType, Tended, Bound, Living
  <2> QED BY <2>2, <2>3
<1>2. CASE process[x].phase \notin Living
  <2>1. content' = SetDone(content, x) /\ process' = WaitFor(process, x) /\ UNCHANGED <<held, running>>
    BY <1>2 DEF CheckStatus, Living, SetDone, WaitFor
  <2>2. /\ content' \in [Clients -> ContentType] /\ ~content'[x].kill_child
        /\ \A y \in Clients \ {x} : content'[y] = content[y]
    BY <2>1, WaitedContent DEF TypeOK
  <2>3. /\ process' \in [Clients -> ProcessType] /\ process'[x].phase = "waited for"
        /\ \A y \in Clients \ {x} : process'[y] = process[y]
    BY <2>1, WaitedProcess DEF TypeOK
  <2>6. Tended'
    BY <2>2, <2>3 DEF Tended, Bound, Living
  <2> QED BY <2>1, <2>2, <2>3, <2>6 DEF TypeOK
<1> QED BY <1>1, <1>2

LEMMA DestroyInv ==
  ASSUME IInv, NEW x \in Clients, Destroy(x)
  PROVE  IInv'
<1> USE DEF IInv
<1> DEFINE d == Delete(State, x)
<1>1. State \in States /\ State.content = content /\ State.process = process
  BY StateType
<1>2. /\ d \in States /\ d.content = [content EXCEPT ![x] = NoContent]
      /\ \A y \in Clients : d.process[y].phase =
           IF y = x /\ process[x].phase \in Living /\ content[x].child = "some" /\ content[x].kill_child
           THEN "killed" ELSE process[y].phase
  BY <1>1, DeleteEnds
<1>3. Becomes(d) /\ UNCHANGED running
  BY DEF Destroy
<1> HIDE DEF d
<1>4. d.content[x] = NoContent /\ \A y \in Clients \ {x} : d.content[y] = content[y]
  BY <1>2 DEF TypeOK
<1>5. Bound(d.content[x], d.process[x].phase)
  BY <1>2, <1>4, NoContentType DEF Tended, Bound, Living
<1>6. \A y \in Clients \ {x} : d.content[y] = content[y] /\ d.process[y].phase = process[y].phase
  BY <1>2, <1>4
<1> QED BY <1>2, <1>3, <1>5, <1>6, BecomesInv

LEMMA StopInv ==
  ASSUME IInv, Stop
  PROVE  IInv'
<1> USE DEF IInv
<1>1. \A x \in Clients : Kill(process, x) \in [Clients -> ProcessType]
        /\ Kill(process, x)[x].phase = IF process[x].phase \in Living THEN "killed" ELSE process[x].phase
  BY KillEnds DEF TypeOK
<1>2. /\ content' = [x \in Clients |-> NoContent] /\ held' = {} /\ running' = FALSE
      /\ process' = [x \in Clients |->
           IF content[x].child = "some" /\ content[x].kill_child THEN Kill(process, x)[x] ELSE process[x]]
  BY DEF Stop
<1>3. content' \in [Clients -> ContentType]
  BY <1>2, NoContentType
<1>4. process' \in [Clients -> ProcessType]
  BY <1>1, <1>2 DEF TypeOK
<1>5. \A x \in Clients : content'[x] = NoContent /\ process'[x].phase \notin Living
  BY <1>1, <1>2 DEF Tended, Bound, Living
<1>6. Tended'
  BY <1>5, NoContentType DEF Tended, Bound
<1> QED BY <1>2, <1>3, <1>4, <1>6 DEF TypeOK

\* A process that is given up, or goes on as what it was.
LEMMA ProcessInv ==
  ASSUME IInv, NEW x \in Clients, NEW p \in [Clients -> ProcessType],
         process' = p, UNCHANGED <<content, held, running>>,
         \A y \in Clients : \/ p[y].phase \in {"killed", "exited"} /\ process[y].phase # "waited for"
                            \/ p[y].phase = process[y].phase
                            \/ p[y].phase \in Living /\ process[y].phase \in Living
  PROVE  IInv'
<1>1. TypeOK'
  BY DEF IInv, TypeOK
<1>2. Tended'
  BY DEF IInv, Tended, Bound, Living
<1> QED BY <1>1, <1>2 DEF IInv

LEMMA UnwindInv ==
  ASSUME IInv, NEW x \in Clients, NEW y \in Clients, Unwind(x, y)
  PROVE  IInv'
<1> USE DEF IInv
<1> DEFINE c == process[x].copies[y]
           p == IF c.child = "some" /\ c.kill_child THEN Kill(process, y) ELSE process
<1>1. /\ p \in [Clients -> ProcessType]
      /\ \A z \in Clients : p[z].phase = process[z].phase \/ (z = y /\ p[z].phase = "killed" /\ process[z].phase \in Living)
  BY KillEnds DEF TypeOK
<1>2. process' = Shorten(p, x, {y}, {Socket(y), Listening} \cup c.ends) /\ UNCHANGED <<content, held, running>>
  BY DEF Unwind, Shorten
<1> HIDE DEF p, c
<1>3. /\ process' \in [Clients -> ProcessType] /\ process'[x].phase = p[x].phase
      /\ \A z \in Clients \ {x} : process'[z] = p[z]
  BY <1>1, <1>2, ShortenedProcess
<1> DEFINE after == process'
<1>4. /\ after \in [Clients -> ProcessType] /\ process' = after
      /\ \A z \in Clients : after[z].phase = process[z].phase \/ (after[z].phase = "killed" /\ process[z].phase # "waited for")
  BY <1>1, <1>3 DEF Living
<1> HIDE DEF after
<1> QED BY <1>2, <1>4, ProcessInv

LEMMA ExecvChildInv ==
  ASSUME IInv, NEW x \in Clients, ExecvChild(x)
  PROVE  IInv'
<1> USE DEF IInv
<1> DEFINE q == [process[x] EXCEPT !.phase = "running", !.held = @ \ Ends(x), !.in = <<x, 2>>, !.out = <<x, 1>>,
                                   !.dir = ChangeDir(Scripts[x].path).dir, !.command = Command(x)]
<1>1. UNCHANGED <<content, held, running>> /\ process[x].phase = "unwinding"
  BY DEF ExecvChild
<1>2. CASE process' = [process EXCEPT ![x] = Ended(@, "exited")]
  <2>1. Ended(process[x], "exited") \in ProcessType /\ Ended(process[x], "exited").phase = "exited"
    BY EndedType DEF TypeOK
  <2>2. process' \in [Clients -> ProcessType] /\ process'[x].phase = "exited"
        /\ \A y \in Clients \ {x} : process'[y] = process[y]
    BY <1>2, <2>1 DEF TypeOK
  <2> QED BY <1>1, <2>2, ProcessInv
<1>3. CASE process' = [process EXCEPT ![x] = q]
  <2>1. q \in ProcessType /\ q.phase = "running"
    <3>1. <<x, 2>> \in Handles /\ <<x, 1>> \in Handles
      BY HandlesOf
    <3>2. process[x] \in ProcessType
      BY DEF TypeOK
    <3> QED BY <3>1, <3>2 DEF ProcessType
  <2> HIDE DEF q
  <2>2. process' \in [Clients -> ProcessType] /\ process'[x].phase = "running"
        /\ \A y \in Clients \ {x} : process'[y] = process[y]
    BY <1>3, <2>1 DEF TypeOK
  <2> QED BY <1>1, <2>2, ProcessInv DEF Living
<1>4. process' = [process EXCEPT ![x] = q] \/ process' = [process EXCEPT ![x] = Ended(@, "exited")]
  BY DEF ExecvChild, TypeOK
<1> QED BY <1>2, <1>3, <1>4

LEMMA ExitInv ==
  ASSUME IInv, NEW x \in Clients, Exit(x)
  PROVE  IInv'
<1> USE DEF IInv
<1>1. Ended(process[x], "exited") \in ProcessType /\ Ended(process[x], "exited").phase = "exited"
  BY EndedType DEF TypeOK
<1>2. /\ process' \in [Clients -> ProcessType] /\ process'[x].phase = "exited"
      /\ \A y \in Clients \ {x} : process'[y] = process[y]
      /\ process[x].phase = "running" /\ UNCHANGED <<content, held, running>>
  BY <1>1 DEF Exit, TypeOK
<1> QED BY <1>2, ProcessInv

LEMMA InitInv == Init => IInv
<1> SUFFICES ASSUME Init PROVE IInv
  OBVIOUS
<1>1. TypeOK
  <2>1. held \subseteq Handles
    BY DEF Init, Handles
  <2> QED BY <2>1, NoContentType, NoProcessType DEF Init, TypeOK
<1>2. Tended
  BY NoContentType, NoProcessType DEF Init, Tended, Bound, Living
<1> QED BY <1>1, <1>2 DEF IInv

LEMMA NextInv == IInv /\ [Next]_vars => IInv'
<1> SUFFICES ASSUME IInv, [Next]_vars PROVE IInv'
  OBVIOUS
<1>1. CASE Stop
  BY <1>1, StopInv
<1>2. ASSUME NEW x \in Clients,
             Begin(x) \/ CheckStatus(x) \/ Destroy(x) \/ ExecvChild(x) \/ Exit(x)
      PROVE  IInv'
  BY <1>2, BeginInv, CheckStatusInv, DestroyInv, ExecvChildInv, ExitInv
<1>3. ASSUME NEW x \in Clients, NEW y \in Clients, Unwind(x, y)
      PROVE  IInv'
  BY <1>3, UnwindInv
<1>4. CASE UNCHANGED vars
  BY <1>4 DEF IInv, TypeOK, Tended, vars
<1> QED BY <1>1, <1>2, <1>3, <1>4 DEF Next

LEMMA Invariant == Spec => []IInv
BY InitInv, NextInv, PTL DEF Spec

----------------------------------------------------------------------------
(* What follows                                                            *)

\* The state has its type.
THEOREM ScriptTypes == Spec => []TypeOK
<1>1. IInv => TypeOK
  BY DEF IInv
<1> QED BY <1>1, Invariant, PTL

\* No process outlives its content, of any number of scripts, whichever call fails, and
\* the server never means to kill what it has waited for (CgiPipe.cpp:31-34,228-246).
THEOREM ScriptsTended == Spec => []ChildrenTended
<1>1. IInv => NoOrphans
  BY DEF IInv, Tended, Bound, NoOrphans, Alive, Living
<1>2. IInv => NoStaleKill
  BY DEF IInv, Tended, Bound, NoStaleKill
<1> QED BY <1>1, <1>2, Invariant, PTL DEF ChildrenTended

----------------------------------------------------------------------------
(* What a script is left with                                              *)

\* The two ends of its script's pipes that the server keeps.
Kept(x) == {<<x, 0>>, <<x, 3>>}

\* A content that is there has its child and its ends, and one that is not has nothing.
Shaped(c, x) == IF c.here THEN c.child = "some" /\ c.ends = Kept(x) ELSE c.child = "none" /\ c.ends = {}

\* What a process has.  One that still unwinds has, besides the ends of its own pipes, only
\* what the clients it has yet to destroy will close.
Equipped(q, x) ==
    /\ q.phase \in Living => q.env = AddEnv(x)
    /\ q.phase = "running" =>
         /\ q.held = {} /\ q.in = <<x, 2>> /\ q.out = <<x, 1>>
         /\ q.dir = ChangeDir(Scripts[x].path).dir /\ q.command = Command(x)
    /\ q.phase = "unwinding" =>
         \A h \in q.held : h \in Ends(x) \/ \E y \in q.left : h \in {Listening, Socket(y)} \cup q.copies[y].ends
    /\ q.phase \notin Living => q.held = {}
    /\ \A y \in Clients \ {x} : <<y, 1>> \notin q.held /\ <<y, 2>> \notin q.held
    /\ \A y \in Clients : Shaped(q.copies[y], y)
    /\ q.phase = "none" => \A y \in Clients : ~q.copies[y].here

\* The server holds of the pipes just what its contents name.
HeldExact == running => \A x \in Clients : held \cap Ends(x) = content[x].ends

ServedInv ==
    /\ \A x \in Clients : Shaped(content[x], x) /\ Equipped(process[x], x)
    /\ HeldExact
    /\ NewestLives

JInv == IInv /\ ServedInv

----------------------------------------------------------------------------
(* Lemmas about the operators                                              *)

LEMMA EndsApart ==
  ASSUME NEW x \in Clients, NEW y \in Clients
  PROVE  /\ Ends(x) = {<<x, 0>>, <<x, 1>>, <<x, 2>>, <<x, 3>>}
         /\ Kept(x) \subseteq Ends(x) /\ <<x, 1>> \notin Kept(x) /\ <<x, 2>> \notin Kept(x)
         /\ x # y => Ends(x) \cap Ends(y) = {} /\ Kept(x) \cap Ends(y) = {}
         /\ Listening \notin Ends(x) /\ Socket(y) \notin Ends(x)
<1>1. Ends(x) = {<<x, 0>>, <<x, 1>>, <<x, 2>>, <<x, 3>>} /\ Ends(y) = {<<y, 0>>, <<y, 1>>, <<y, 2>>, <<y, 3>>}
  <2>1. 0 .. 3 = {0, 1, 2, 3}
    OBVIOUS
  <2> QED BY <2>1 DEF Ends
<1> QED BY <1>1 DEF Kept, Listening, Socket

LEMMA NoContentShaped ==
  ASSUME NEW x \in Clients
  PROVE  Shaped(NoContent, x) /\ NoContent.ends = {} /\ NoContent.child = "none" /\ ~NoContent.here
BY DEF Shaped, NoContent

LEMMA EndedEquipped ==
  ASSUME NEW q \in ProcessType, NEW x \in Clients, NEW phase \in {"exited", "killed"}, Equipped(q, x)
  PROVE  Equipped(Ended(q, phase), x) /\ Ended(q, phase).copies = q.copies
<1> DEFINE e == Ended(q, phase)
<1>1. e.phase = phase /\ e.held = {} /\ e.copies = q.copies
  BY DEF Ended, NoProcess
<1> HIDE DEF e
<1>2. Equipped(e, x)
  BY <1>1 DEF Equipped, Living
<1> QED BY <1>1, <1>2 DEF e

LEMMA KillEquipped ==
  ASSUME NEW p \in [Clients -> ProcessType], NEW x \in Clients, \A z \in Clients : Equipped(p[z], z)
  PROVE  \A z \in Clients : Equipped(Kill(p, x)[z], z) /\ Kill(p, x)[z].copies = p[z].copies
<1>1. Equipped(Ended(p[x], "killed"), x) /\ Ended(p[x], "killed").copies = p[x].copies
  BY EndedEquipped
<1>2. CASE p[x].phase \in Living
  <2>1. Kill(p, x) = [p EXCEPT ![x] = Ended(p[x], "killed")]
    BY <1>2 DEF Kill, Living
  <2> QED BY <1>1, <2>1
<1>3. CASE p[x].phase \notin Living
  BY <1>3 DEF Kill, Living
<1> QED BY <1>2, <1>3

LEMMA SetupPipesEnds ==
  ASSUME NEW s \in States, NEW x \in Clients, NEW fails
  PROVE  LET t == SetupPipes(s, x, fails) IN
         /\ fails = "pipe" => t = s
         /\ fails = "second pipe" => t.content[x].ends = {<<x, 0>>} /\ t.held = (s.held \cup {<<x, 0>>, <<x, 1>>}) \ {<<x, 1>>}
         /\ fails \notin {"pipe", "second pipe"} => t.content[x].ends = Kept(x) /\ t.held = s.held \cup Ends(x)
<1>1. s.content \in [Clients -> ContentType] /\ s.process \in [Clients -> ProcessType] /\ s.held \subseteq Handles
  BY DEF States
<1>2. ASSUME NEW ends, ends \subseteq Handles, NEW h, h \subseteq Handles,
             SetupPipes(s, x, fails) = [s EXCEPT !.content[x].ends = ends, !.held = h]
      PROVE  /\ SetupPipes(s, x, fails).content[x].ends = ends /\ SetupPipes(s, x, fails).held = h
  <2> DEFINE c == [s.content[x] EXCEPT !.ends = ends]
             t == [s EXCEPT !.content = [s.content EXCEPT ![x] = c], !.held = h]
  <2>1. SetupPipes(s, x, fails) = t
    BY <1>1, <1>2 DEF States
  <2>2. c.ends = ends
    BY <1>1 DEF ContentType
  <2>3. t.content[x] = c /\ t.held = h
    BY <1>1 DEF States
  <2> QED BY <2>1, <2>2, <2>3
<1>3. CASE fails = "pipe"
  BY <1>3 DEF SetupPipes
<1>4. CASE fails = "second pipe"
  <2> DEFINE h == (s.held \cup {<<x, 0>>, <<x, 1>>}) \ {<<x, 1>>}
  <2>1. SetupPipes(s, x, fails) = [s EXCEPT !.content[x].ends = {<<x, 0>>}, !.held = h]
    BY <1>4 DEF SetupPipes
  <2>2. {<<x, 0>>} \subseteq Handles /\ h \subseteq Handles
    BY <1>1, HandlesOf
  <2> HIDE DEF h
  <2>3. SetupPipes(s, x, fails).content[x].ends = {<<x, 0>>} /\ SetupPipes(s, x, fails).held = h
    BY <1>2, <2>1, <2>2
  <2> QED BY <1>4, <2>3 DEF h
<1>5. CASE fails \notin {"pipe", "second pipe"}
  <2> DEFINE h == s.held \cup Ends(x)
  <2>1. SetupPipes(s, x, fails) = [s EXCEPT !.content[x].ends = Kept(x), !.held = h]
    BY <1>5 DEF SetupPipes, Kept
  <2>2. Kept(x) \subseteq Handles /\ h \subseteq Handles
    BY <1>1, HandlesOf DEF Kept
  <2> HIDE DEF h
  <2>3. SetupPipes(s, x, fails).content[x].ends = Kept(x) /\ SetupPipes(s, x, fails).held = h
    BY <1>2, <2>1, <2>2
  <2> QED BY <1>5, <2>3 DEF h
<1> QED BY <1>3, <1>4, <1>5

\* What fork() gives the child: a copy of the server without the content it is for.
Forked(q, s, x) ==
    /\ q.phase = "unwinding" /\ q.held = s.held /\ q.env = AddEnv(x) /\ q.left = Clients
    /\ q.copies = [s.content EXCEPT ![x] = NoContent]

LEMMA ForkEnds ==
  ASSUME NEW s \in States, NEW x \in Clients
  PROVE  /\ Fork(s, x).content[x].ends = s.content[x].ends
         /\ Fork(s, x).held = s.held
         /\ Forked(Fork(s, x).process[x], s, x)
<1>1. s.content \in [Clients -> ContentType] /\ s.process \in [Clients -> ProcessType] /\ s.held \subseteq Handles
  BY DEF States
<1> DEFINE c == [s.content[x] EXCEPT !.child = "some", !.kill_child = TRUE]
           q == [NoProcess EXCEPT !.phase = "unwinding", !.held = s.held, !.env = AddEnv(x),
                                  !.left = Clients, !.copies = [s.content EXCEPT ![x] = NoContent]]
           t == Fork(s, x)
<1>2. c.ends = s.content[x].ends
  BY <1>1 DEF ContentType
<1>3. Forked(q, s, x)
  BY DEF NoProcess, Forked
<1>4. t = [content |-> [s.content EXCEPT ![x] = c], process |-> [s.process EXCEPT ![x] = q], held |-> s.held]
  BY <1>1 DEF Fork
<1> HIDE DEF c, q, t
<1>5. t.content[x] = c /\ t.process[x] = q /\ t.held = s.held
  BY <1>1, <1>4
<1> QED BY <1>2, <1>3, <1>5 DEF t

LEMMA ClosingEnds ==
  ASSUME NEW s \in States, NEW x \in Clients, NEW closed, NEW ends \in SUBSET Handles
  PROVE  /\ Closes(s, closed).held = s.held \ closed /\ Closes(s, closed).content = s.content
         /\ ClosesEnds(s, x, ends, closed).held = s.held \ closed
         /\ ClosesEnds(s, x, ends, closed).content[x].ends = ends
<1>1. s.content \in [Clients -> ContentType] /\ s.process \in [Clients -> ProcessType] /\ s.held \subseteq Handles
  BY DEF States
<1> DEFINE h == s.held \ closed
           c == [s.content[x] EXCEPT !.ends = ends]
           t == [s EXCEPT !.held = h]
           u == [s EXCEPT !.content = [s.content EXCEPT ![x] = c], !.held = h]
<1>2. Closes(s, closed) = t /\ ClosesEnds(s, x, ends, closed) = u
  BY <1>1 DEF States, Closes, ClosesEnds
<1>3. c.ends = ends
  BY <1>1 DEF ContentType
<1>4. t.held = h /\ t.content = s.content /\ u.held = h /\ u.content[x] = c
  BY <1>1 DEF States
<1> QED BY <1>2, <1>3, <1>4

LEMMA DeleteHeld ==
  ASSUME NEW s \in States, NEW x \in Clients
  PROVE  /\ Delete(s, x).held = s.held \ s.content[x].ends
         /\ Delete(s, x).process = IF s.content[x].child = "some" /\ s.content[x].kill_child
                                   THEN Kill(s.process, x) ELSE s.process
BY DEF Delete

Failing == {"none", "pipe", "second pipe", "fork", "first fcntl", "second fcntl"}

\* Whatever fails, what the server holds is what it held and the ends its content names.
LEMMA ProcessFdsEnds ==
  ASSUME NEW s \in States, NEW x \in Clients, NEW fails \in Failing,
         s.content[x].ends = {}, s.held \cap Ends(x) = {}
  PROVE  LET t == ProcessFds(s, x, fails) IN
         /\ t.held = s.held \cup t.content[x].ends
         /\ t.content[x].ends \subseteq Kept(x)
         /\ fails = "none" => t.content[x].ends = Kept(x) /\ t.content[x].child = "some"
         /\ \/ t.process[x] = s.process[x]
            \/ \E u \in States : Others(s, u, x) /\ u.held = s.held \cup Ends(x) /\ Forked(t.process[x], u, x)
<1> DEFINE piped == SetupPipes(s, x, fails)
           forked == IF fails = "fork" THEN piped ELSE Fork(piped, x)
           generated == GenerateFds(s, x, fails)
           n == IF fails = "first fcntl" THEN 0 ELSE 3
           t == ProcessFds(s, x, fails)
<1>0. /\ Ends(x) = {<<x, 0>>, <<x, 1>>, <<x, 2>>, <<x, 3>>} /\ Kept(x) = {<<x, 0>>, <<x, 3>>}
      /\ <<x, 1>> \notin Kept(x) /\ <<x, 2>> \notin Kept(x)
  BY EndsApart DEF Kept
<1>1. Others(s, piped, x) /\ piped \in States /\ piped.process = s.process
  BY SetupPipesKeeps DEF Others
<1>2. CASE fails \in {"pipe", "second pipe"}
  <2>1. t = piped
    BY <1>2 DEF ProcessFds, GenerateFds
  <2>2. /\ fails = "pipe" => piped = s
        /\ fails = "second pipe" =>
             piped.content[x].ends = {<<x, 0>>} /\ piped.held = (s.held \cup {<<x, 0>>, <<x, 1>>}) \ {<<x, 1>>}
    BY SetupPipesEnds
  <2> HIDE DEF t, piped
  <2>3. <<x, 1>> \notin s.held /\ <<x, 0>> # <<x, 1>>
    BY <1>0
  <2>4. t.held = s.held \cup t.content[x].ends
    <3>1. CASE fails = "pipe"
      BY <2>1, <2>2, <3>1
    <3>2. CASE fails = "second pipe"
      BY <2>1, <2>2, <2>3, <3>2
    <3> QED BY <1>2, <3>1, <3>2
  <2>5. t.content[x].ends \subseteq Kept(x)
    BY <1>0, <1>2, <2>1, <2>2
  <2>6. t.process[x] = s.process[x]
    BY <1>1, <2>1
  <2> QED BY <1>2, <2>4, <2>5, <2>6 DEF t
<1>3. CASE fails \notin {"pipe", "second pipe"}
  <2>1. piped.content[x].ends = Kept(x) /\ piped.held = s.held \cup Ends(x)
    BY <1>3, SetupPipesEnds
  <2>3. generated = Closes(forked, {<<x, 1>>, <<x, 2>>})
    BY <1>3 DEF GenerateFds, Closes
  <2> HIDE DEF piped
  <2>2. /\ forked \in States /\ forked.content[x].ends = Kept(x) /\ forked.held = s.held \cup Ends(x)
        /\ \/ fails = "fork" /\ forked.process[x] = s.process[x]
           \/ Forked(forked.process[x], piped, x) /\ forked.content[x].child = "some"
    <3>1. CASE fails = "fork"
      BY <1>1, <2>1, <3>1
    <3>2. CASE fails # "fork"
      BY <1>1, <2>1, <3>2, ForkEnds, ForkKeeps DEF Others
    <3> QED BY <3>1, <3>2
  <2> HIDE DEF forked, generated
  <2>4. {} \in SUBSET Handles
    OBVIOUS
  <2>10. Kept(x) \in SUBSET Handles
    BY HandlesOf DEF Kept
  <2>5. /\ generated \in States /\ generated.content[x].ends = Kept(x)
        /\ generated.content[x].child = forked.content[x].child
        /\ generated.held = (s.held \cup Ends(x)) \ {<<x, 1>>, <<x, 2>>}
        /\ generated.process = forked.process
    <3>1. Others(forked, generated, x) /\ generated.process = forked.process
          /\ generated.content[x].child = forked.content[x].child
      <4>1. forked \in States
        BY <2>2
      <4> QED BY <2>3, <2>4, <4>1, ClosingKeeps
    <3>2. generated.held = forked.held \ {<<x, 1>>, <<x, 2>>} /\ generated.content = forked.content
      BY <2>2, <2>3, <2>4, ClosingEnds
    <3> QED BY <2>2, <3>1, <3>2 DEF Others
  <2>6. generated.held = s.held \cup Kept(x)
    <3>1. <<x, 1>> \notin s.held /\ <<x, 2>> \notin s.held
      BY <1>0
    <3>2. Ends(x) \ {<<x, 1>>, <<x, 2>>} = Kept(x)
      BY <1>0
    <3> QED BY <2>5, <3>1, <3>2
  <2>7. \/ fails = "fork" /\ generated.process[x] = s.process[x]
        \/ /\ \E u \in States : Others(s, u, x) /\ u.held = s.held \cup Ends(x) /\ Forked(generated.process[x], u, x)
           /\ generated.content[x].child = "some"
    BY <1>1, <2>1, <2>2, <2>5
  <2>8. CASE fails \notin {"first fcntl", "second fcntl"}
    <3>1. t = generated
      BY <2>8 DEF ProcessFds, generated
    <3> HIDE DEF t
    <3>2. fails = "none" => generated.content[x].child = "some"
      BY <2>7
    <3> QED BY <2>5, <2>6, <2>7, <3>1, <3>2 DEF t
  <2>9. CASE fails \in {"first fcntl", "second fcntl"}
    <3> DEFINE closed == {<<x, n>>}
               ends == generated.content[x].ends \ closed
    <3>1. t = ClosesEnds(generated, x, ends, closed)
      BY <2>9 DEF ProcessFds, ClosesEnds, generated
    <3>2. ends \in SUBSET Handles /\ ends = Kept(x) \ closed
      BY <2>5, <2>10
    <3>3. closed \subseteq Ends(x)
      BY <1>0
    <3> HIDE DEF closed, ends, t
    <3>4. t.held = generated.held \ closed /\ t.content[x].ends = ends
      BY <2>5, <3>1, <3>2, ClosingEnds
    <3>5. t.process = generated.process
      BY <2>5, <3>1, <3>2, ClosingKeeps
    <3>6. t.held = s.held \cup ends
      BY <2>6, <3>2, <3>3, <3>4
    <3> QED BY <2>7, <2>9, <3>2, <3>4, <3>5, <3>6 DEF t
  <2> QED BY <2>8, <2>9
<1> QED BY <1>2, <1>3

\* The child that was forked is equipped for what it is to do.
LEMMA ForkedEquipped ==
  ASSUME NEW x \in Clients, NEW u \in States, NEW q, Forked(q, u, x),
         NEW h \in SUBSET Handles, u.held = h \cup Ends(x),
         \A y \in Clients \ {x} : Shaped(u.content[y], y) /\ h \cap Ends(y) = u.content[y].ends
  PROVE  Equipped(q, x)
<1> USE DEF Forked
<1>1. \A y \in Clients : q.copies[y] = IF y = x THEN NoContent ELSE u.content[y]
  BY DEF States
<1>2. \A y \in Clients : Shaped(q.copies[y], y)
  BY <1>1, NoContentShaped
<1>3. ASSUME NEW y \in Clients \ {x}
      PROVE  <<y, 1>> \notin q.held /\ <<y, 2>> \notin q.held
  <2>1. u.content[y].ends \subseteq Kept(y)
    BY DEF Shaped
  <2>2. <<y, 1>> \in Ends(y) /\ <<y, 2>> \in Ends(y) /\ <<y, 1>> \notin Kept(y) /\ <<y, 2>> \notin Kept(y)
        /\ Ends(x) \cap Ends(y) = {}
    BY EndsApart
  <2> QED BY <2>1, <2>2
<1>4. ASSUME NEW g \in q.held
      PROVE  g \in Ends(x) \/ \E y \in q.left : g \in {Listening, Socket(y)} \cup q.copies[y].ends
  <2>1. CASE g \in Ends(x)
    BY <2>1
  <2>2. CASE g = Listening
    BY <2>2
  <2>3. CASE \E y \in Clients : g = Socket(y)
    BY <2>3
  <2>4. ASSUME NEW y \in Clients, g \in Ends(y), y # x
        PROVE  \E z \in q.left : g \in {Listening, Socket(z)} \cup q.copies[z].ends
    <3>1. g \in h
      BY <2>4, EndsApart
    <3>2. g \in q.copies[y].ends
      BY <1>1, <2>4, <3>1
    <3> QED BY <3>2
  <2>5. g \in Handles
    BY HandlesOf
  <2> QED BY <2>1, <2>2, <2>3, <2>4, <2>5 DEF Handles
<1> QED BY <1>2, <1>3, <1>4 DEF Equipped, Living

----------------------------------------------------------------------------
(* The actions                                                             *)

\* A step that concerns one client, its content and its process.
LEMMA StepServed ==
  ASSUME JInv, IInv', NEW x \in Clients, UNCHANGED running,
         \A y \in Clients \ {x} : content'[y] = content[y] /\ process'[y] = process[y],
         Shaped(content'[x], x), Equipped(process'[x], x),
         running => held' = (held \ Ends(x)) \cup content'[x].ends,
         process'[x].phase = "killed" => ~content'[x].here \/ (process[x].phase = "killed" /\ content[x].here),
         \A y \in Clients : process[x].copies[y].here => process'[x].copies[y].here
  PROVE  ServedInv'
<1>1. \A y \in Clients : Shaped(content[y], y) /\ Equipped(process[y], y)
  BY DEF JInv, ServedInv
<1>2. \A y \in Clients : Shaped(content'[y], y) /\ Equipped(process'[y], y)
  BY <1>1
<1>3. HeldExact'
  <2> SUFFICES ASSUME running, NEW y \in Clients PROVE held' \cap Ends(y) = content'[y].ends
    BY DEF HeldExact
  <2>1. held' = (held \ Ends(x)) \cup content'[x].ends /\ content'[x].ends \subseteq Ends(x)
    <3>1. Kept(x) \subseteq Ends(x)
      BY EndsApart
    <3>2. content'[x].ends = Kept(x) \/ content'[x].ends = {}
      BY DEF Shaped
    <3> QED BY <3>1, <3>2
  <2>2. CASE y = x
    BY <2>1, <2>2
  <2>3. CASE y # x
    <3>1. held \cap Ends(y) = content[y].ends
      BY DEF JInv, ServedInv, HeldExact
    <3>2. Ends(x) \cap Ends(y) = {}
      BY <2>3, EndsApart
    <3> QED BY <2>1, <2>3, <3>1, <3>2
  <2> QED BY <2>2, <2>3
<1>4. NewestLives'
  <2> SUFFICES ASSUME NEW z \in Clients, process'[z].phase = "killed", content'[z].here
               PROVE  \E y \in Clients : process'[y].copies[z].here
    BY DEF NewestLives
  <2>1. process[z].phase = "killed" /\ content[z].here
    BY <1>1
  <2>2. PICK y \in Clients : process[y].copies[z].here
    BY <2>1 DEF JInv, ServedInv, NewestLives
  <2> QED BY <2>2
<1> QED BY <1>2, <1>3, <1>4 DEF ServedInv

\* What the server holds of one client's pipes is what the content names.
LEMMA HeldSplit ==
  ASSUME JInv, running, NEW x \in Clients
  PROVE  held = (held \ Ends(x)) \cup content[x].ends
BY DEF JInv, ServedInv, HeldExact

LEMMA BeginServed ==
  ASSUME JInv, IInv', NEW x \in Clients, Begin(x)
  PROVE  ServedInv'
<1>0. running /\ process[x].phase = "none" /\ ~content[x].here /\ UNCHANGED running
  BY DEF Begin
<1>1. PICK fails \in Failing : LET s == ProcessFds([State EXCEPT !.content[x].here = TRUE], x, fails) IN
                   Becomes(IF fails = "none" THEN s ELSE Delete(s, x))
  BY DEF Begin, Failing
<1> DEFINE s0 == [State EXCEPT !.content[x].here = TRUE]
           s == ProcessFds(s0, x, fails)
           d == Delete(s, x)
<1>2. /\ s0 \in States /\ s0.process = process /\ s0.held = held
      /\ \A y \in Clients \ {x} : s0.content[y] = content[y]
      /\ s0.content[x].here /\ s0.content[x].ends = content[x].ends
  <2> DEFINE c == [content[x] EXCEPT !.here = TRUE]
             t == [content |-> [content EXCEPT ![x] = c], process |-> process, held |-> held]
  <2>1. c \in ContentType /\ c.here /\ c.ends = content[x].ends
    BY DEF JInv, IInv, TypeOK, ContentType
  <2>2. s0 = t
    <3>1. State = [content |-> content, process |-> process, held |-> held]
      BY DEF State
    <3>2. s0 = [State EXCEPT !.content = [State.content EXCEPT ![x] = [State.content[x] EXCEPT !.here = TRUE]]]
      OBVIOUS
    <3>3. State.content[x] = content[x] /\ State.content = content
      BY <3>1
    <3>4. s0 = [State EXCEPT !.content = [content EXCEPT ![x] = c]]
      BY <3>2, <3>3
    <3> HIDE DEF c, s0
    <3> QED BY <3>1, <3>4
  <2>3. t \in States /\ t.process = process /\ t.held = held /\ t.content[x] = c
        /\ \A y \in Clients \ {x} : t.content[y] = content[y]
    BY <2>1 DEF JInv, IInv, TypeOK, States
  <2> QED BY <2>1, <2>2, <2>3
<1>3. content[x].ends = {} /\ held \cap Ends(x) = {} /\ held \in SUBSET Handles
      /\ \A y \in Clients : Shaped(content[y], y) /\ Equipped(process[y], y) /\ held \cap Ends(y) = content[y].ends
  BY <1>0 DEF JInv, ServedInv, HeldExact, Shaped, IInv, TypeOK
<1> HIDE DEF s0
<1>4. /\ Others(s0, s, x) /\ s.held = s0.held \cup s.content[x].ends
      /\ s.content[x].ends \subseteq Kept(x)
      /\ fails = "none" => s.content[x].ends = Kept(x) /\ s.content[x].child = "some"
      /\ \/ s.process[x] = s0.process[x]
         \/ \E u \in States : Others(s0, u, x) /\ u.held = s0.held \cup Ends(x) /\ Forked(s.process[x], u, x)
  <2>1. s0.content[x].ends = {} /\ s0.held \cap Ends(x) = {}
    BY <1>2, <1>3
  <2>2. Others(s0, s, x)
    BY <1>2, ProcessFdsKeeps
  <2> QED BY <1>2, <2>1, <2>2, ProcessFdsEnds
<1> HIDE DEF s
<1>5. /\ s \in States /\ s.content[x].here
      /\ \A y \in Clients \ {x} : s.content[y] = content[y] /\ s.process[y] = process[y]
  BY <1>2, <1>4 DEF Others
<1>6. Equipped(s.process[x], x) /\ s.process[x].phase # "killed"
  <2>1. CASE s.process[x] = process[x]
    BY <1>0, <1>3, <2>1
  <2>2. CASE \E u \in States : Others(s0, u, x) /\ u.held = s0.held \cup Ends(x) /\ Forked(s.process[x], u, x)
    <3>1. PICK u \in States : Others(s0, u, x) /\ u.held = held \cup Ends(x) /\ Forked(s.process[x], u, x)
      BY <1>2, <2>2
    <3>2. \A y \in Clients \ {x} : Shaped(u.content[y], y) /\ held \cap Ends(y) = u.content[y].ends
      BY <1>2, <1>3, <3>1 DEF Others
    <3>3. Equipped(s.process[x], x)
      BY <1>3, <3>1, <3>2, ForkedEquipped
    <3> QED BY <3>1, <3>3 DEF Forked
  <2> QED BY <1>2, <1>4, <2>1, <2>2
<1>7. \A y \in Clients : ~process[x].copies[y].here
  BY <1>0, <1>3 DEF Equipped
<1>8. CASE fails = "none"
  <2>1. content' = s.content /\ process' = s.process /\ held' = s.held
    BY <1>1, <1>8 DEF Becomes, s, s0
  <2>2. Shaped(content'[x], x)
    BY <1>4, <1>5, <1>8, <2>1 DEF Shaped
  <2>3. held' = (held \ Ends(x)) \cup content'[x].ends
    BY <1>2, <1>3, <1>4, <2>1
  <2> QED BY <1>0, <1>5, <1>6, <1>7, <2>1, <2>2, <2>3, StepServed
<1>9. CASE fails # "none"
  <2>1. content' = d.content /\ process' = d.process /\ held' = d.held
    BY <1>1, <1>9 DEF Becomes, s, s0
  <2>2. d.content = [s.content EXCEPT ![x] = NoContent]
    BY <1>5, DeleteEnds
  <2>3. content'[x] = NoContent /\ \A y \in Clients \ {x} : content'[y] = content[y]
    BY <1>5, <2>1, <2>2 DEF States
  <2>4. d.held = s.held \ s.content[x].ends /\ d.process \in {Kill(s.process, x), s.process}
    BY <1>5, DeleteHeld
  <2>5. s.process \in [Clients -> ProcessType] /\ \A y \in Clients : Equipped(s.process[y], y)
    BY <1>3, <1>5, <1>6 DEF States
  <2>6. Equipped(Kill(s.process, x)[x], x) /\ \A y \in Clients \ {x} : Kill(s.process, x)[y] = s.process[y]
    BY <2>5, KillEquipped DEF Kill
  <2>7. Equipped(process'[x], x) /\ \A y \in Clients \ {x} : process'[y] = process[y]
    BY <1>5, <2>1, <2>4, <2>5, <2>6
  <2>8. Shaped(content'[x], x) /\ ~content'[x].here /\ content'[x].ends = {}
    BY <2>3, NoContentShaped
  <2>9. held' = (held \ Ends(x)) \cup content'[x].ends
    BY <1>2, <1>3, <1>4, <2>1, <2>4, <2>8, EndsApart
  <2> QED BY <1>0, <1>7, <2>3, <2>7, <2>8, <2>9, StepServed
<1> QED BY <1>8, <1>9

LEMMA CheckStatusServed ==
  ASSUME JInv, IInv', NEW x \in Clients, CheckStatus(x)
  PROVE  ServedInv'
<1>0. /\ running /\ content[x].here /\ UNCHANGED <<running, held>>
      /\ content \in [Clients -> ContentType] /\ process \in [Clients -> ProcessType]
      /\ Shaped(content[x], x) /\ Equipped(process[x], x)
  BY DEF CheckStatus, JInv, ServedInv, IInv, TypeOK
<1>1. CASE process[x].phase \in Living
  <2>1. content' = [content EXCEPT ![x].kill_child = TRUE] /\ process' = process
    BY <1>1 DEF CheckStatus, Living
  <2>2. /\ \A y \in Clients \ {x} : content'[y] = content[y]
        /\ content'[x].here = content[x].here /\ content'[x].child = content[x].child
        /\ content'[x].ends = content[x].ends
    BY <1>0, <2>1 DEF ContentType
  <2>3. Shaped(content'[x], x)
    BY <1>0, <2>2 DEF Shaped
  <2>4. held' = (held \ Ends(x)) \cup content'[x].ends
    BY <1>0, <2>2, HeldSplit
  <2> QED BY <1>0, <1>1, <2>1, <2>2, <2>3, <2>4, StepServed DEF Living
<1>2. CASE process[x].phase \notin Living
  <2> DEFINE c == [[content[x] EXCEPT !.child_done = TRUE] EXCEPT !.kill_child = FALSE]
             q == [process[x] EXCEPT !.phase = "waited for"]
  <2>1. content' = SetDone(content, x) /\ process' = WaitFor(process, x)
    BY <1>2 DEF CheckStatus, Living, SetDone, WaitFor
  <2>2. \A y \in Clients \ {x} : content'[y] = content[y] /\ process'[y] = process[y]
    BY <1>0, <2>1, WaitedContent, WaitedProcess
  <2>3. content'[x] = c /\ process'[x] = q
    BY <1>0, <2>1 DEF SetDone, WaitFor
  <2>4. c.here = content[x].here /\ c.child = content[x].child /\ c.ends = content[x].ends
    BY <1>0 DEF ContentType
  <2>5. /\ q.phase = "waited for" /\ q.held = process[x].held /\ q.copies = process[x].copies
    <3>1. process[x] \in ProcessType
      BY <1>0
    <3> QED BY <3>1 DEF ProcessType
  <2> HIDE DEF c, q
  <2>6. Shaped(content'[x], x)
    BY <1>0, <2>3, <2>4 DEF Shaped
  <2>7. Equipped(process'[x], x)
    BY <1>0, <1>2, <2>3, <2>5 DEF Equipped, Living
  <2>8. held' = (held \ Ends(x)) \cup content'[x].ends
    BY <1>0, <2>3, <2>4, HeldSplit
  <2> QED BY <1>0, <2>2, <2>3, <2>5, <2>6, <2>7, <2>8, StepServed
<1> QED BY <1>1, <1>2

LEMMA DestroyServed ==
  ASSUME JInv, IInv', NEW x \in Clients, Destroy(x)
  PROVE  ServedInv'
<1> DEFINE d == Delete(State, x)
<1>0. /\ running /\ UNCHANGED running /\ content \in [Clients -> ContentType] /\ process \in [Clients -> ProcessType]
      /\ \A y \in Clients : Equipped(process[y], y)
      /\ State \in States /\ State.content = content /\ State.process = process /\ State.held = held
  BY StateType DEF Destroy, JInv, ServedInv, IInv, TypeOK
<1>1. content' = d.content /\ process' = d.process /\ held' = d.held
  BY DEF Destroy, Becomes
<1>2. d.content = [content EXCEPT ![x] = NoContent] /\ d.held = held \ content[x].ends
      /\ d.process \in {Kill(process, x), process}
  BY <1>0, DeleteEnds, DeleteHeld
<1> HIDE DEF d
<1>3. content'[x] = NoContent /\ \A y \in Clients \ {x} : content'[y] = content[y]
  BY <1>0, <1>1, <1>2
<1>4. Shaped(content'[x], x) /\ ~content'[x].here /\ content'[x].ends = {}
  BY <1>3, NoContentShaped
<1>5. /\ Equipped(Kill(process, x)[x], x) /\ Kill(process, x)[x].copies = process[x].copies
      /\ \A y \in Clients \ {x} : Kill(process, x)[y] = process[y]
  BY <1>0, KillEquipped DEF Kill
<1>6. /\ Equipped(process'[x], x) /\ process'[x].copies = process[x].copies
      /\ \A y \in Clients \ {x} : process'[y] = process[y]
  BY <1>0, <1>1, <1>2, <1>5
<1>7. held' = (held \ Ends(x)) \cup content'[x].ends
  <2>1. held \cap Ends(x) = content[x].ends
    BY <1>0 DEF JInv, ServedInv, HeldExact
  <2> QED BY <1>1, <1>2, <1>4, <2>1
<1> QED BY <1>0, <1>3, <1>4, <1>6, <1>7, StepServed

LEMMA StopServed ==
  ASSUME JInv, Stop
  PROVE  ServedInv'
<1>0. process \in [Clients -> ProcessType] /\ \A y \in Clients : Equipped(process[y], y)
  BY DEF JInv, ServedInv, IInv, TypeOK
<1>1. /\ content' = [x \in Clients |-> NoContent] /\ running' = FALSE
      /\ process' = [x \in Clients |->
           IF content[x].child = "some" /\ content[x].kill_child THEN Kill(process, x)[x] ELSE process[x]]
  BY DEF Stop
<1>2. \A x \in Clients : Equipped(Kill(process, x)[x], x)
  BY <1>0, KillEquipped
<1>3. \A x \in Clients : Equipped(process'[x], x)
  BY <1>0, <1>1, <1>2
<1>4. \A x \in Clients : Shaped(content'[x], x) /\ ~content'[x].here
  BY <1>1, NoContentShaped
<1> QED BY <1>1, <1>3, <1>4 DEF ServedInv, HeldExact, NewestLives

\* One client less to destroy: what it would have closed is closed.
LEMMA ShortenedEquipped ==
  ASSUME NEW p \in [Clients -> ProcessType], NEW x \in Clients, NEW y \in Clients, Equipped(p[x], x)
  PROVE  LET c == p[x].copies[y]
             q == Shorten(p, x, {y}, {Socket(y), Listening} \cup c.ends)
         IN  Equipped(q[x], x) /\ q[x].copies = p[x].copies
<1> DEFINE H == {Socket(y), Listening} \cup p[x].copies[y].ends
           q == [[p[x] EXCEPT !.left = @ \ {y}] EXCEPT !.held = @ \ H]
<1>1. Shorten(p, x, {y}, H)[x] = q
  BY DEF Shorten
<1> HIDE DEF H
<1>2. /\ q.phase = p[x].phase /\ q.held = p[x].held \ H /\ q.left = p[x].left \ {y} /\ q.copies = p[x].copies
      /\ q.env = p[x].env /\ q.in = p[x].in /\ q.out = p[x].out /\ q.dir = p[x].dir /\ q.command = p[x].command
  <2>1. p[x] \in ProcessType
    OBVIOUS
  <2> QED BY <2>1 DEF ProcessType
<1> HIDE DEF q
<1>3. ASSUME q.phase = "unwinding", NEW h \in q.held
      PROVE  h \in Ends(x) \/ \E z \in q.left : h \in {Listening, Socket(z)} \cup q.copies[z].ends
  <2>1. CASE h \in Ends(x)
    BY <2>1
  <2>2. CASE h \notin Ends(x)
    <3>1. PICK z \in p[x].left : h \in {Listening, Socket(z)} \cup p[x].copies[z].ends
      BY <1>2, <1>3, <2>2 DEF Equipped
    <3>2. h \notin H
      BY <1>2
    <3>3. z # y
      BY <3>1, <3>2 DEF H
    <3> QED BY <1>2, <3>1, <3>3
  <2> QED BY <2>1, <2>2
<1>4. Equipped(q, x)
  BY <1>2, <1>3 DEF Equipped
<1> QED BY <1>1, <1>2, <1>4 DEF H

LEMMA UnwindServed ==
  ASSUME JInv, NEW x \in Clients, NEW y \in Clients, Unwind(x, y)
  PROVE  ServedInv'
<1> DEFINE c == process[x].copies[y]
           p == IF c.child = "some" /\ c.kill_child THEN Kill(process, y) ELSE process
<1>0. process \in [Clients -> ProcessType] /\ \A z \in Clients : Equipped(process[z], z)
  BY DEF JInv, ServedInv, IInv, TypeOK
<1>1. UNCHANGED <<content, held, running>> /\ process' = Shorten(p, x, {y}, {Socket(y), Listening} \cup c.ends)
  BY DEF Unwind, Shorten
<1>2. /\ p \in [Clients -> ProcessType]
      /\ \A z \in Clients : Equipped(p[z], z) /\ p[z].copies = process[z].copies
      /\ \A z \in Clients : p[z].phase = process[z].phase \/ (z = y /\ c.child = "some")
  BY <1>0, KillEnds, KillEquipped
<1>3. c = p[x].copies[y]
  BY <1>2
<1>4. Shaped(c, y)
  BY <1>0 DEF Equipped
<1> HIDE DEF c, p
<1>5. /\ process'[x].phase = p[x].phase
      /\ \A z \in Clients \ {x} : process'[z] = p[z]
  BY <1>1, <1>2, ShortenedProcess
<1>6. Equipped(process'[x], x) /\ process'[x].copies = p[x].copies
  BY <1>1, <1>2, <1>3, ShortenedEquipped
<1>7. \A z \in Clients : /\ Equipped(process'[z], z) /\ process'[z].copies = process[z].copies
                         /\ process'[z].phase = process[z].phase \/ (z = y /\ c.child = "some")
  BY <1>2, <1>5, <1>6
<1>8. NewestLives'
  <2> SUFFICES ASSUME NEW z \in Clients, process'[z].phase = "killed", content'[z].here
               PROVE  \E w \in Clients : process'[w].copies[z].here
    BY DEF NewestLives
  <2>1. CASE process'[z].phase = process[z].phase
    <3>1. PICK w \in Clients : process[w].copies[z].here
      BY <1>1, <2>1 DEF JInv, ServedInv, NewestLives
    <3>2. process'[w].copies[z].here = process[w].copies[z].here
      BY <1>7
    <3> QED BY <3>1, <3>2
  <2>2. CASE z = y /\ c.child = "some"
    <3>1. process'[x].copies[z].here = process[x].copies[y].here
      BY <1>7, <2>2
    <3>2. process[x].copies[y].here
      BY <1>4, <2>2 DEF Shaped, c
    <3> QED BY <3>1, <3>2
  <2> QED BY <1>7, <2>1, <2>2
<1>9. \A z \in Clients : Shaped(content'[z], z)
  BY <1>1 DEF JInv, ServedInv
<1>10. HeldExact'
  BY <1>1 DEF JInv, ServedInv, HeldExact
<1> QED BY <1>7, <1>8, <1>9, <1>10 DEF ServedInv

LEMMA ExecvChildServed ==
  ASSUME JInv, IInv', NEW x \in Clients, ExecvChild(x)
  PROVE  ServedInv'
<1> DEFINE q == [process[x] EXCEPT !.phase = "running", !.held = @ \ Ends(x), !.in = <<x, 2>>, !.out = <<x, 1>>,
                                   !.dir = ChangeDir(Scripts[x].path).dir, !.command = Command(x)]
<1>0. /\ process[x] \in ProcessType /\ process \in [Clients -> ProcessType] /\ Equipped(process[x], x)
      /\ Shaped(content[x], x) /\ UNCHANGED <<content, held, running>>
      /\ process[x].phase = "unwinding" /\ process[x].left = {}
  BY DEF ExecvChild, JInv, ServedInv, IInv, TypeOK
<1>1. running => held' = (held \ Ends(x)) \cup content'[x].ends
  BY <1>0, HeldSplit
<1>2. CASE process' = [process EXCEPT ![x] = Ended(@, "exited")]
  <2>1. process'[x] = Ended(process[x], "exited") /\ \A y \in Clients \ {x} : process'[y] = process[y]
    BY <1>0, <1>2
  <2>2. Equipped(process'[x], x) /\ process'[x].copies = process[x].copies
    BY <1>0, <2>1, EndedEquipped
  <2>3. process'[x].phase = "exited"
    BY <1>0, <2>1, EndedType
  <2> QED BY <1>0, <1>1, <2>1, <2>2, <2>3, StepServed
<1>3. CASE process' = [process EXCEPT ![x] = q]
  <2>1. /\ q.phase = "running" /\ q.held = process[x].held \ Ends(x) /\ q.in = <<x, 2>> /\ q.out = <<x, 1>>
        /\ q.dir = ChangeDir(Scripts[x].path).dir /\ q.command = Command(x)
        /\ q.env = process[x].env /\ q.copies = process[x].copies
    BY <1>0 DEF ProcessType
  <2> HIDE DEF q
  <2>2. process'[x] = q /\ \A y \in Clients \ {x} : process'[y] = process[y]
    BY <1>0, <1>3
  <2>3. q.held = {}
    BY <1>0, <2>1 DEF Equipped
  <2>4. Equipped(q, x)
    BY <1>0, <2>1, <2>3 DEF Equipped, Living
  <2>5. process'[x].copies = process[x].copies /\ process'[x].phase # "killed"
    BY <2>1, <2>2
  <2> QED BY <1>0, <1>1, <2>2, <2>4, <2>5, StepServed
<1>4. process' = [process EXCEPT ![x] = q] \/ process' = [process EXCEPT ![x] = Ended(@, "exited")]
  BY DEF ExecvChild
<1> QED BY <1>2, <1>3, <1>4

LEMMA ExitServed ==
  ASSUME JInv, IInv', NEW x \in Clients, Exit(x)
  PROVE  ServedInv'
<1>0. /\ process[x] \in ProcessType /\ process \in [Clients -> ProcessType] /\ Equipped(process[x], x)
      /\ Shaped(content[x], x) /\ UNCHANGED <<content, held, running>>
      /\ process' = [process EXCEPT ![x] = Ended(@, "exited")]
  BY DEF Exit, JInv, ServedInv, IInv, TypeOK
<1>1. running => held' = (held \ Ends(x)) \cup content'[x].ends
  BY <1>0, HeldSplit
<1>2. process'[x] = Ended(process[x], "exited") /\ \A y \in Clients \ {x} : process'[y] = process[y]
  BY <1>0
<1>3. Equipped(process'[x], x) /\ process'[x].copies = process[x].copies
  BY <1>0, <1>2, EndedEquipped
<1>4. process'[x].phase = "exited"
  BY <1>0, <1>2, EndedType
<1> QED BY <1>0, <1>1, <1>2, <1>3, <1>4, StepServed

LEMMA InitServed == Init => ServedInv
<1> SUFFICES ASSUME Init PROVE ServedInv
  OBVIOUS
<1>1. ASSUME NEW x \in Clients PROVE Shaped(content[x], x) /\ Equipped(process[x], x)
  <2>1. content[x] = NoContent /\ process[x] = NoProcess
    BY DEF Init
  <2>2. NoProcess.phase = "none" /\ NoProcess.held = {} /\ \A y \in Clients : NoProcess.copies[y] = NoContent
    BY DEF NoProcess
  <2> QED BY <2>1, <2>2, NoContentShaped DEF Equipped, Living
<1>2. HeldExact
  <2> SUFFICES ASSUME NEW x \in Clients PROVE held \cap Ends(x) = content[x].ends
    BY DEF HeldExact
  <2>1. content[x].ends = {}
    BY NoContentShaped DEF Init
  <2>2. ASSUME NEW h \in held PROVE h \notin Ends(x)
    <3>1. h = Listening \/ \E y \in Clients : h = Socket(y)
      BY DEF Init
    <3>2. Listening \notin Ends(x) /\ \A y \in Clients : Socket(y) \notin Ends(x)
      BY EndsApart
    <3> QED BY <3>1, <3>2
  <2> QED BY <2>1, <2>2
<1>3. NewestLives
  BY NoContentShaped DEF Init, NewestLives
<1> QED BY <1>1, <1>2, <1>3 DEF ServedInv

LEMMA NextServed == JInv /\ [Next]_vars => JInv'
<1> SUFFICES ASSUME JInv, [Next]_vars PROVE JInv'
  OBVIOUS
<1>1. IInv'
  BY NextInv DEF JInv
<1>2. CASE Stop
  BY <1>1, <1>2, StopServed DEF JInv
<1>3. ASSUME NEW x \in Clients,
             Begin(x) \/ CheckStatus(x) \/ Destroy(x) \/ ExecvChild(x) \/ Exit(x)
      PROVE  ServedInv'
  BY <1>1, <1>3, BeginServed, CheckStatusServed, DestroyServed, ExecvChildServed, ExitServed
<1>4. ASSUME NEW x \in Clients, NEW y \in Clients, Unwind(x, y)
      PROVE  ServedInv'
  BY <1>4, UnwindServed
<1>5. CASE UNCHANGED vars
  <2>1. content' = content /\ process' = process /\ held' = held /\ running' = running
    BY <1>5 DEF vars
  <2>2. \A x \in Clients : Shaped(content'[x], x) /\ Equipped(process'[x], x)
    BY <2>1 DEF JInv, ServedInv
  <2>4. HeldExact'
    BY <2>1 DEF JInv, ServedInv, HeldExact
  <2>3. NewestLives'
    BY <2>1 DEF JInv, ServedInv, NewestLives
  <2> QED BY <1>1, <2>2, <2>3, <2>4 DEF ServedInv, JInv
<1> QED BY <1>1, <1>2, <1>3, <1>4, <1>5 DEF Next, JInv

LEMMA ServedInvariant == Spec => []JInv
BY InitInv, InitServed, NextServed, PTL DEF Spec, JInv

----------------------------------------------------------------------------
(* What the script is told                                                 *)

\* The variables of getClientInfo(), in their order.
Names == <<"HTTP_HOST", "HTTP_COOKIE", "REQUEST_METHOD", "CONTENT_LENGTH", "REMOTE_ADDR",
           "SERVER_NAME", "SCRIPT_NAME", "QUERY_STRING", "REQUEST_URI", "DOCUMENT_URI">>

LEMMA InfoNames ==
  ASSUME NEW x \in Clients, NEW req
  PROVE  LET g == GetClientInfo(x, req) IN
         /\ Len(g) = 10 /\ \E S : g \in Seq(S)
         /\ \A k \in 1 .. 10 : g[k][1] = Names[k]
         /\ g[3][2] = req.method /\ g[4][2] = req.length /\ g[5][2] = Peers[x]
         /\ g[7][2] = req.path /\ g[8][2] = req.query
<1> DEFINE a == GetClientInfoReq(req)
           b == <<<<"REQUEST_METHOD", req.method>>, <<"CONTENT_LENGTH", req.length>>, <<"REMOTE_ADDR", Peers[x]>>,
                  <<"SERVER_NAME", req.host>>, <<"SCRIPT_NAME", req.path>>, <<"QUERY_STRING", req.query>>,
                  <<"REQUEST_URI", req.uri>>, <<"DOCUMENT_URI", req.uri>>>>
           S == {a[i] : i \in 1 .. 2} \cup {b[i] : i \in 1 .. 8}
           g == GetClientInfo(x, req)
<1>1. /\ Len(a) = 2 /\ a \in Seq(S)
      /\ a[1] = <<"HTTP_HOST", req.host>> /\ a[2] = <<"HTTP_COOKIE", req.cookie>>
  BY DEF GetClientInfoReq
<1>2. /\ Len(b) = 8 /\ b \in Seq(S)
      /\ b[1] = <<"REQUEST_METHOD", req.method>> /\ b[2] = <<"CONTENT_LENGTH", req.length>>
      /\ b[3] = <<"REMOTE_ADDR", Peers[x]>> /\ b[4] = <<"SERVER_NAME", req.host>>
      /\ b[5] = <<"SCRIPT_NAME", req.path>> /\ b[6] = <<"QUERY_STRING", req.query>>
      /\ b[7] = <<"REQUEST_URI", req.uri>> /\ b[8] = <<"DOCUMENT_URI", req.uri>>
  OBVIOUS
<1>3. g = a \o b
  BY DEF GetClientInfo
<1> HIDE DEF a, b, S, g
<1>4. /\ g \in Seq(S) /\ Len(g) = 10
      /\ \A k \in 1 .. 10 : g[k] = IF k <= 2 THEN a[k] ELSE b[k - 2]
  <2>1. a \o b \in Seq(S) /\ Len(a \o b) = Len(a) + Len(b)
    BY <1>1, <1>2, ConcatProperties
  <2>2. \A k \in 1 .. Len(a) + Len(b) : (a \o b)[k] = IF k <= Len(a) THEN a[k] ELSE b[k - Len(a)]
    BY <1>1, <1>2, ConcatProperties
  <2>3. Len(a) = 2 /\ Len(a) + Len(b) = 10
    BY <1>1, <1>2
  <2>4. \A k \in 1 .. 10 : g[k] = IF k <= 2 THEN a[k] ELSE b[k - 2]
    BY <1>3, <2>2, <2>3
  <2> QED BY <1>3, <2>1, <2>3, <2>4
<1>5. /\ g[1] = a[1] /\ g[2] = a[2] /\ g[3] = b[1] /\ g[4] = b[2] /\ g[5] = b[3]
      /\ g[6] = b[4] /\ g[7] = b[5] /\ g[8] = b[6] /\ g[9] = b[7] /\ g[10] = b[8]
  BY <1>4
<1>6. ASSUME NEW k \in 1 .. 10 PROVE g[k][1] = Names[k]
  <2>1. \/ k = 1 \/ k = 2 \/ k = 3 \/ k = 4 \/ k = 5 \/ k = 6 \/ k = 7 \/ k = 8 \/ k = 9 \/ k = 10
    OBVIOUS
  <2> QED BY <1>1, <1>2, <1>5, <2>1 DEF Names
<1> QED BY <1>1, <1>2, <1>4, <1>5, <1>6 DEF g

\* getenv() finds the first variable of a name.
LEMMA GetenvBehind ==
  ASSUME NEW S, NEW e \in Seq(S), NEW T, NEW g \in Seq(T), NEW name, NEW k \in 1 .. Len(g),
         \A n \in DOMAIN e : e[n][1] # name,
         g[k][1] = name, \A j \in 1 .. k - 1 : g[j][1] # name
  PROVE  Getenv(e \o g, name) = g[k][2]
<1> DEFINE env == e \o g
           First(n) == n \in DOMAIN env /\ env[n][1] = name /\ \A j \in 1 .. n - 1 : env[j][1] # name
           m == Len(e) + k
<1>1. Len(e) \in Nat /\ Len(g) \in Nat /\ DOMAIN e = 1 .. Len(e)
  OBVIOUS
<1>2. /\ DOMAIN env = 1 .. Len(e) + Len(g)
      /\ \A n \in 1 .. Len(e) + Len(g) : env[n] = IF n <= Len(e) THEN e[n] ELSE g[n - Len(e)]
  <2>1. e \in Seq(S \cup T) /\ g \in Seq(S \cup T)
    OBVIOUS
  <2>2. env \in Seq(S \cup T) /\ Len(env) = Len(e) + Len(g)
        /\ \A n \in 1 .. Len(e) + Len(g) : env[n] = IF n <= Len(e) THEN e[n] ELSE g[n - Len(e)]
    BY <2>1, ConcatProperties
  <2> QED BY <2>2
<1> HIDE DEF env
<1>3. First(m)
  <2>1. m \in DOMAIN env /\ env[m] = g[k]
    BY <1>1, <1>2
  <2>2. ASSUME NEW j \in 1 .. m - 1 PROVE env[j][1] # name
    <3>1. CASE j <= Len(e)
      BY <1>1, <1>2, <3>1
    <3>2. CASE j > Len(e)
      <4>1. env[j] = g[j - Len(e)] /\ j - Len(e) \in 1 .. k - 1
        BY <1>1, <1>2, <3>2
      <4> QED BY <4>1
    <3> QED BY <1>1, <3>1, <3>2
  <2> QED BY <2>1, <2>2
<1>4. ASSUME NEW n, First(n) PROVE n = m
  <2>1. n \in Nat /\ m \in Nat /\ n \in 1 .. Len(e) + Len(g) /\ m \in 1 .. Len(e) + Len(g)
    BY <1>1, <1>2, <1>4
  <2>2. ~(n < m)
    <3>1. \A j \in 1 .. m - 1 : env[j][1] # name
      BY <1>3
    <3> QED BY <1>4, <2>1, <3>1
  <2>3. ~(m < n)
    <3>1. env[m][1] = name
      BY <1>3
    <3> QED BY <1>4, <2>1, <3>1
  <2> QED BY <2>1, <2>2, <2>3
<1>5. \E n \in DOMAIN env : env[n][1] = name
  BY <1>3
<1> DEFINE c == CHOOSE n \in DOMAIN env : env[n][1] = name /\ \A j \in 1 .. n - 1 : env[j][1] # name
<1>6. c = m
  <2>1. First(c)
    BY <1>3
  <2> HIDE DEF c, First
  <2> QED BY <1>4, <2>1
<1>7. Getenv(env, name) = env[c][2]
  BY <1>5 DEF Getenv
<1>8. env[m] = g[k]
  BY <1>1, <1>2
<1> QED BY <1>6, <1>7, <1>8 DEF env

LEMMA CommandEnds ==
  ASSUME NEW x \in Clients
  PROVE  Append(ChangeDir(Scripts[x].path).dir, Command(x)[Len(Command(x))]) = Scripts[x].path
<1> DEFINE path == Scripts[x].path
           id == path[Len(path)]
           dir == SubSeq(path, 1, Len(path) - 1)
<1>1. path \in Seq(STRING) /\ Len(path) \in Nat /\ Len(path) >= 1
  BY ScriptsAssumption, EmptySeq
<1>2. ChangeDir(path).dir = dir /\ ChangeDir(path).id = id
  BY DEF ChangeDir
<1>3. Command(x)[Len(Command(x))] = id
  BY <1>2 DEF Command
<1>4. /\ dir \in Seq(STRING) /\ Len(dir) = Len(path) - 1 /\ id \in STRING
      /\ \A i \in 1 .. Len(path) - 1 : dir[i] = path[i]
  BY <1>1
<1>5. Append(dir, id) = path
  BY <1>1, <1>4
<1> QED BY <1>2, <1>3, <1>5

LEMMA ToldEquipped ==
  ASSUME NEW x \in Clients, NEW env, env = AddEnv(x)
  PROVE  LET req == Head(Requests[x])
             own == {Environ[n][1] : n \in DOMAIN Environ} IN
         /\ "QUERY_STRING" \notin own => Getenv(env, "QUERY_STRING") = req.query
         /\ "REQUEST_METHOD" \notin own => Getenv(env, "REQUEST_METHOD") = req.method
         /\ "CONTENT_LENGTH" \notin own => Getenv(env, "CONTENT_LENGTH") = req.length
         /\ "SCRIPT_NAME" \notin own => Getenv(env, "SCRIPT_NAME") = req.path
         /\ "REMOTE_ADDR" \notin own => Getenv(env, "REMOTE_ADDR") = Peers[x]
<1> DEFINE req == Head(Requests[x])
           own == {Environ[n][1] : n \in DOMAIN Environ}
           g == GetClientInfo(x, req)
<1>1. env = Environ \o g /\ Environ \in Seq(STRING \X STRING)
  BY EnvironAssumption DEF AddEnv
<1>2. /\ Len(g) = 10 /\ \A k \in 1 .. 10 : g[k][1] = Names[k]
      /\ g[3][2] = req.method /\ g[4][2] = req.length /\ g[5][2] = Peers[x]
      /\ g[7][2] = req.path /\ g[8][2] = req.query
  <2> HIDE DEF req
  <2>1. Len(g) = 10 /\ \A k \in 1 .. 10 : g[k][1] = Names[k]
    BY InfoNames
  <2>2. /\ g[3][2] = req.method /\ g[4][2] = req.length /\ g[5][2] = Peers[x]
        /\ g[7][2] = req.path /\ g[8][2] = req.query
    BY InfoNames
  <2> QED BY <2>1, <2>2
<1>3. PICK S : g \in Seq(S)
  BY InfoNames
<1> HIDE DEF g, req
<1>4. ASSUME NEW k \in 1 .. 10, Names[k] \notin own
      PROVE  Getenv(env, Names[k]) = g[k][2]
  <2>1. \A n \in DOMAIN Environ : Environ[n][1] # Names[k]
    BY <1>4
  <2>2. \A j \in 1 .. k - 1 : j \in 1 .. 10 /\ Names[j] # Names[k]
    BY DEF Names
  <2>3. g[k][1] = Names[k] /\ \A j \in 1 .. k - 1 : g[j][1] # Names[k]
    BY <1>2, <2>2
  <2>4. k \in 1 .. Len(g)
    BY <1>2
  <2>5. Getenv(Environ \o g, Names[k]) = g[k][2]
    <3>1. Environ \in Seq(STRING \X STRING)
      BY <1>1
    <3> DEFINE name == Names[k]
    <3>2. /\ \A n \in DOMAIN Environ : Environ[n][1] # name
          /\ g[k][1] = name /\ \A j \in 1 .. k - 1 : g[j][1] # name
      BY <2>1, <2>3
    <3> HIDE DEF name
    <3>3. Getenv(Environ \o g, name) = g[k][2]
      BY <1>3, <2>4, <3>1, <3>2, GetenvBehind
    <3> QED BY <3>3 DEF name
  <2> QED BY <1>1, <2>5
<1>5. /\ 3 \in 1 .. 10 /\ Names[3] = "REQUEST_METHOD"
      /\ 4 \in 1 .. 10 /\ Names[4] = "CONTENT_LENGTH"
      /\ 5 \in 1 .. 10 /\ Names[5] = "REMOTE_ADDR"
      /\ 7 \in 1 .. 10 /\ Names[7] = "SCRIPT_NAME"
      /\ 8 \in 1 .. 10 /\ Names[8] = "QUERY_STRING"
  BY DEF Names
<1> HIDE DEF own
<1>6. /\ "QUERY_STRING" \notin own => Getenv(env, "QUERY_STRING") = req.query
      /\ "REQUEST_METHOD" \notin own => Getenv(env, "REQUEST_METHOD") = req.method
      /\ "CONTENT_LENGTH" \notin own => Getenv(env, "CONTENT_LENGTH") = req.length
      /\ "SCRIPT_NAME" \notin own => Getenv(env, "SCRIPT_NAME") = req.path
      /\ "REMOTE_ADDR" \notin own => Getenv(env, "REMOTE_ADDR") = Peers[x]
  <2>1. \A k \in {3, 4, 5, 7, 8} : Names[k] \notin own => Getenv(env, Names[k]) = g[k][2]
    BY <1>4, <1>5
  <2> QED BY <1>2, <1>5, <2>1
<1> QED BY <1>6 DEF own, req

----------------------------------------------------------------------------
(* What follows                                                            *)

LEMMA InvPlumbed == JInv => Plumbed
<1> SUFFICES ASSUME JInv, NEW x \in Clients
             PROVE  /\ process[x].phase = "running" =>
                         process[x].held = {} /\ process[x].in = <<x, 2>> /\ process[x].out = <<x, 1>>
                    /\ running => held \cap Ends(x) = IF content[x].here THEN {<<x, 0>>, <<x, 3>>} ELSE {}
                    /\ \A y \in Clients \ {x} : process[y].held \cap {<<x, 1>>, <<x, 2>>} = {}
  BY DEF Plumbed
<1>1. \A y \in Clients : Shaped(content[y], y) /\ Equipped(process[y], y)
  BY DEF JInv, ServedInv
<1>2. process[x].phase = "running" =>
        process[x].held = {} /\ process[x].in = <<x, 2>> /\ process[x].out = <<x, 1>>
  BY <1>1 DEF Equipped
<1>3. running => held \cap Ends(x) = IF content[x].here THEN {<<x, 0>>, <<x, 3>>} ELSE {}
  BY <1>1 DEF Shaped, Kept, JInv, ServedInv, HeldExact
<1>4. ASSUME NEW y \in Clients \ {x} PROVE process[y].held \cap {<<x, 1>>, <<x, 2>>} = {}
  <2>1. <<x, 1>> \notin process[y].held /\ <<x, 2>> \notin process[y].held
    BY <1>1 DEF Equipped
  <2> QED BY <2>1
<1> QED BY <1>2, <1>3, <1>4

LEMMA InvTold == JInv => Told
<1> SUFFICES ASSUME JInv, NEW x \in Clients, process[x].phase = "running"
             PROVE  LET req == Head(Requests[x])
                        own == {Environ[n][1] : n \in DOMAIN Environ} IN
                    /\ "QUERY_STRING" \notin own => Getenv(process[x].env, "QUERY_STRING") = req.query
                    /\ "REQUEST_METHOD" \notin own => Getenv(process[x].env, "REQUEST_METHOD") = req.method
                    /\ "CONTENT_LENGTH" \notin own => Getenv(process[x].env, "CONTENT_LENGTH") = req.length
                    /\ "SCRIPT_NAME" \notin own => Getenv(process[x].env, "SCRIPT_NAME") = req.path
                    /\ "REMOTE_ADDR" \notin own => Getenv(process[x].env, "REMOTE_ADDR") = Peers[x]
                    /\ Append(process[x].dir, process[x].command[Len(process[x].command)]) = Scripts[x].path
  BY DEF Told
<1>1. process[x].env = AddEnv(x) /\ process[x].dir = ChangeDir(Scripts[x].path).dir /\ process[x].command = Command(x)
  BY DEF JInv, ServedInv, Equipped, Living
<1>2. Append(process[x].dir, process[x].command[Len(process[x].command)]) = Scripts[x].path
  BY <1>1, CommandEnds
<1> QED BY <1>1, <1>2, ToldEquipped

\* Of any number of scripts, begun and ended in any order, whichever of pipe(), fork() and
\* fcntl() fails: each has the two ends that are its own and nothing else of the server,
\* nobody else can write what it reads or read what it writes, and it is told of the
\* request it is for and called by its name in its directory (CgiPipe.cpp:60-230).
THEOREM ScriptsServed == Spec => []Served
<1>1. JInv => Served
  BY InvPlumbed, InvTold DEF Served
<1> QED BY <1>1, ServedInvariant, PTL

\* The child that unwinds kills the scripts that were there before it and never the one
\* it is to become (CgiPipe.cpp:221).
THEOREM NewestIsSpared == Spec => []NewestLives
<1>1. JInv => NewestLives
  BY DEF JInv, ServedInv
<1> QED BY <1>1, ServedInvariant, PTL

=============================================================================
