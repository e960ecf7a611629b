------------------------------- MODULE Script -------------------------------
(***************************************************************************)
(* The processes of CGI scripts (CgiPipe, File, and the end of main): two  *)
(* pipes and a fork() for each, and the child that leaves the server by an *)
(* exception, which destroys its copy of everything the server has, before *)
(* it becomes the script.                                                  *)
(*                                                                         *)
(* One client x asks for one script.  The ends of its pipes are <<x, n>>,  *)
(* pipefd[n]: the server reads 0 and writes 3, the script reads 2 and      *)
(* writes 1.  A signal is delivered at once, and the number of a process   *)
(* is not used again.                                                      *)
(***************************************************************************)
EXTENDS Integers, Sequences, FiniteSets

CONSTANTS Clients,     \* one script each
          Requests,    \* of each client, its queue of requests
          Peers,       \* of each client, its address
          Configured,  \* of each client, the program configured, or ""
          Scripts,     \* of each client, the path of the script and what its first line names
          Environ      \* the server's own environment

ASSUME ScriptsAssumption == \A x \in Clients : Scripts[x].path \in Seq(STRING) /\ Scripts[x].path # <<>>
ASSUME EnvironAssumption == Environ \in Seq(STRING \X STRING)

VARIABLES content,   \* what the server has of each client's CgiPipe
          process,   \* the processes it has forked
          held,      \* the descriptors it has open
          running    \* the server

vars == <<content, process, held, running>>

NoContent == [here |-> FALSE, child |-> "none", kill_child |-> FALSE, child_done |-> FALSE, ends |-> {}]
NoProcess == [phase |-> "none", held |-> {}, copies |-> [x \in Clients |-> NoContent], left |-> {},
              in |-> <<>>, out |-> <<>>, env |-> <<>>, dir |-> <<>>, command |-> <<>>]
Ends(x) == {<<x, n>> : n \in 0 .. 3}
Socket(x) == <<x, 4>>
Listening == <<"listen", 5>>

\* A process that has ended has nothing open; what it was a copy of is kept.
Ended(p, phase) == [NoProcess EXCEPT !.phase = phase, !.copies = p.copies]

----------------------------------------------------------------------------
(* What the script is told                                                 *)

\* getClientInfoReq(): one for each field that is known, whether it was sent or not.
GetClientInfoReq(req) == <<<<"HTTP_HOST", req.host>>, <<"HTTP_COOKIE", req.cookie>>>>

\* getClientInfo()
GetClientInfo(x, req) ==
    GetClientInfoReq(req) \o
    <<<<"REQUEST_METHOD", req.method>>, <<"CONTENT_LENGTH", req.length>>, <<"REMOTE_ADDR", Peers[x]>>,
      <<"SERVER_NAME", req.host>>, <<"SCRIPT_NAME", req.path>>, <<"QUERY_STRING", req.query>>,
      <<"REQUEST_URI", req.uri>>, <<"DOCUMENT_URI", req.uri>>>>

\* Mutant: of the request that came last.
AddEnvLast(x) == Environ \o GetClientInfo(x, Requests[x][Len(Requests[x])])

\* addEnv(), of getCurrentHttpRequest()
AddEnv(x) == Environ \o GetClientInfo(x, Head(Requests[x]))

\* changeDir(): into the directory of the script, which keeps the last part of its name.
ChangeDir(path) == [dir |-> SubSeq(path, 1, Len(path) - 1), id |-> path[Len(path)]]

\* getBinary(): what the first line names, or the script itself; a script that cannot be
\* read or is empty is NoBinary.
NoBinary == "no binary"
GetBinary(id, first) == IF first = "" THEN id ELSE first

\* What execve() is given: the program, and the script unless it is the program.
Command(x) ==
    LET id  == ChangeDir(Scripts[x].path).id
        bin == IF Configured[x] # "" THEN Configured[x] ELSE GetBinary(id, Scripts[x].first)
    IN  IF bin = id THEN <<bin>> ELSE <<bin, id>>

----------------------------------------------------------------------------
(* CgiPipe in the server, on a state s of content, process and held         *)

\* kill(child_id, SIGKILL)
Kill(p, x) ==
    IF p[x].phase \in {"unwinding", "running"}
    THEN [p EXCEPT ![x] = Ended(@, "killed")] ELSE p

\* ~CgiPipe()
Delete(s, x) ==
    [content |-> [s.content EXCEPT ![x] = NoContent],
     process |-> IF s.content[x].child = "some" /\ s.content[x].kill_child THEN Kill(s.process, x) ELSE s.process,
     held    |-> s.held \ s.content[x].ends]

\* setupPipes().  If the second pipe() fails, the destructor closes what is left of the first.
SetupPipes(s, x, fails) ==
    IF fails = "pipe" THEN s
    ELSE IF fails = "second pipe"
    THEN [s EXCEPT !.content[x].ends = {<<x, 0>>}, !.held = (@ \cup {<<x, 0>>, <<x, 1>>}) \ {<<x, 1>>}]
    ELSE [s EXCEPT !.content[x].ends = {<<x, 0>>, <<x, 3>>}, !.held = @ \cup Ends(x)]

\* Mutant: the child that was not waited for yet is not one to be killed.
ForkUnmarked(s, x) ==
    [content |-> [s.content EXCEPT ![x].child = "some"],
     process |-> [s.process EXCEPT ![x] = [NoProcess EXCEPT
                    !.phase = "unwinding", !.held = s.held, !.env = AddEnv(x), !.left = Clients,
                    !.copies = [s.content EXCEPT ![x] = NoContent]]],
     held |-> s.held]

\* fork().  The child has a copy of all that the server has; the content that it is
\* about is not yet in its client.
Fork(s, x) ==
    [content |-> [s.content EXCEPT ![x].child = "some", ![x].kill_child = TRUE],
     process |-> [s.process EXCEPT ![x] = [NoProcess EXCEPT
                    !.phase = "unwinding", !.held = s.held, !.env = AddEnv(x), !.left = Clients,
                    !.copies = [s.content EXCEPT ![x] = NoContent]]],
     held |-> s.held]

\* Mutant: the script's ends are closed once the fork is known to have succeeded.
GenerateFdsLate(s, x, fails) ==
    LET piped == SetupPipes(s, x, fails)
    IN  IF fails \in {"pipe", "second pipe", "fork"} THEN piped
        ELSE [Fork(piped, x) EXCEPT !.held = @ \ {<<x, 1>>, <<x, 2>>}]

\* generateFds()
GenerateFds(s, x, fails) ==
    LET piped == SetupPipes(s, x, fails)
        forked == IF fails = "fork" THEN piped ELSE Fork(piped, x)
    IN  IF fails \in {"pipe", "second pipe"} THEN piped
        ELSE [forked EXCEPT !.held = @ \ {<<x, 1>>, <<x, 2>>}]

\* processFds(): a descriptor that cannot be set is closed.
ProcessFds(s, x, fails) ==
    LET s2 == GenerateFds(s, x, fails)
        n  == IF fails = "first fcntl" THEN 0 ELSE 3
    IN  IF fails \in {"first fcntl", "second fcntl"}
        THEN [s2 EXCEPT !.content[x].ends = @ \ {<<x, n>>}, !.held = @ \ {<<x, n>>}] ELSE s2

State == [content |-> content, process |-> process, held |-> held]
Becomes(s) == content' = s.content /\ process' = s.process /\ held' = s.held

\* processContent()
Begin(x) ==
    /\ running /\ process[x].phase = "none" /\ ~content[x].here
    /\ \E fails \in {"none", "pipe", "second pipe", "fork", "first fcntl", "second fcntl"} :
         LET s == ProcessFds([State EXCEPT !.content[x].here = TRUE], x, fails) IN
         Becomes(IF fails = "none" THEN s ELSE Delete(s, x))
    /\ UNCHANGED running

\* Mutant: what was waited for may still be killed.
CheckStatusKills(x) ==
    /\ running /\ content[x].here /\ ~content[x].child_done
    /\ IF process[x].phase \in {"unwinding", "running"}
       THEN content' = [content EXCEPT ![x].kill_child = TRUE] /\ UNCHANGED process
       ELSE /\ content' = [content EXCEPT ![x].child_done = TRUE]
            /\ process' = [process EXCEPT ![x].phase = "waited for"]
    /\ UNCHANGED <<held, running>>

\* checkStatus(), whenever the loop calls it
CheckStatus(x) ==
    /\ running /\ content[x].here /\ ~content[x].child_done
    /\ IF process[x].phase \in {"unwinding", "running"}
       THEN content' = [content EXCEPT ![x].kill_child = TRUE] /\ UNCHANGED process
       ELSE /\ content' = [content EXCEPT ![x].child_done = TRUE, ![x].kill_child = FALSE]
            /\ process' = [process EXCEPT ![x].phase = "waited for"]
    /\ UNCHANGED <<held, running>>

\* The response is complete, an error takes its place, or the client goes.
Destroy(x) ==
    /\ running /\ content[x].here
    /\ Becomes(Delete(State, x))
    /\ UNCHANGED running

\* SIGINT: everything is destroyed.
Stop ==
    /\ running
    /\ running' = FALSE /\ held' = {}
    /\ content' = [x \in Clients |-> NoContent]
    /\ process' = [x \in Clients |->
                     IF content[x].child = "some" /\ content[x].kill_child THEN Kill(process, x)[x] ELSE process[x]]

----------------------------------------------------------------------------
(* The child                                                               *)

\* Mutant: the child shares the memory of the server (vfork()).
UnwindShared(x, y) ==
    /\ process[x].phase = "unwinding" /\ y \in process[x].left
    /\ LET c == [content EXCEPT ![x] = NoContent][y]
           p == IF c.child = "some" /\ c.kill_child THEN Kill(process, y) ELSE process
       IN  process' = [p EXCEPT ![x].left = @ \ {y}, ![x].held = @ \ ({Socket(y), Listening} \cup c.ends)]
    /\ UNCHANGED <<content, held, running>>

\* The exception leaves start_server(): ~Server() and, of one client after another,
\* ~Client(), which deletes its content: the script of that client is killed.
Unwind(x, y) ==
    /\ process[x].phase = "unwinding" /\ y \in process[x].left
    /\ LET c == process[x].copies[y]
           p == IF c.child = "some" /\ c.kill_child THEN Kill(process, y) ELSE process
       IN  process' = [p EXCEPT ![x].left = @ \ {y}, ![x].held = @ \ ({Socket(y), Listening} \cup c.ends)]
    /\ UNCHANGED <<content, held, running>>

\* main() catches it: execvChild().  It returns, and the child exits, if there is no such
\* directory or program, a descriptor cannot be copied, or no binary is found.
ExecvChild(x) ==
    /\ process[x].phase = "unwinding" /\ process[x].left = {}
    /\ \/ /\ Configured[x] # "" \/ Scripts[x].first # NoBinary
          /\ process' = [process EXCEPT ![x].phase = "running", ![x].held = @ \ Ends(x),
                            ![x].in = <<x, 2>>, ![x].out = <<x, 1>>,
                            ![x].dir = ChangeDir(Scripts[x].path).dir, ![x].command = Command(x)]
       \/ process' = [process EXCEPT ![x] = Ended(@, "exited")]
    /\ UNCHANGED <<content, held, running>>

\* The script ends.
Exit(x) ==
    /\ process[x].phase = "running"
    /\ process' = [process EXCEPT ![x] = Ended(@, "exited")]
    /\ UNCHANGED <<content, held, running>>

----------------------------------------------------------------------------

Init ==
    /\ content = [x \in Clients |-> NoContent]
    /\ process = [x \in Clients |-> NoProcess]
    /\ held = {Listening} \cup {Socket(x) : x \in Clients}
    /\ running = TRUE

Next ==
    \/ Stop
    \/ \E x \in Clients :
         \/ Begin(x) \/ CheckStatus(x) \/ Destroy(x) \/ ExecvChild(x) \/ Exit(x)
         \/ \E y \in Clients : Unwind(x, y)

Spec == Init /\ [][Next]_vars

----------------------------------------------------------------------------
(* Properties                                                              *)

Handles == {Listening} \cup {Socket(x) : x \in Clients} \cup UNION {Ends(x) : x \in Clients}
ContentType ==
    [here : BOOLEAN, child : {"none", "some"}, kill_child : BOOLEAN, child_done : BOOLEAN, ends : SUBSET Handles]
ProcessType ==
    [phase : {"none", "unwinding", "running", "exited", "killed", "waited for"}, held : SUBSET Handles,
     copies : [Clients -> ContentType], left : SUBSET Clients,
     in : {<<>>} \cup Handles, out : {<<>>} \cup Handles, env : {<<>>} \cup {AddEnv(x) : x \in Clients},
     dir : {<<>>} \cup {ChangeDir(Scripts[x].path).dir : x \in Clients},
     command : {<<>>} \cup {Command(x) : x \in Clients}]

\* The type of the state.
TypeOK ==
    /\ content \in [Clients -> ContentType]
    /\ process \in [Clients -> ProcessType]
    /\ held \subseteq Handles
    /\ running \in BOOLEAN

Alive(x) == process[x].phase \in {"unwinding", "running"}

\* A script has the two ends that are its own and nothing else of the server, which
\* keeps just the other two of those it needs; what is written by one that has ended
\* can end, since nobody else can write there (CgiPipe.cpp:60-71,176-230, File.cpp:70-91).
Plumbed ==
    /\ \A x \in Clients :
         /\ process[x].phase = "running" =>
              process[x].held = {} /\ process[x].in = <<x, 2>> /\ process[x].out = <<x, 1>>
         /\ running => held \cap Ends(x) = IF content[x].here THEN {<<x, 0>>, <<x, 3>>} ELSE {}
         /\ \A y \in Clients \ {x} : process[y].held \cap {<<x, 1>>, <<x, 2>>} = {}

\* No process outlives its content, whichever call failed and whenever the client or the
\* server ends (CgiPipe.cpp:31-34,228).
NoOrphans == \A x \in Clients : Alive(x) => content[x].here

\* A process that was waited for is never one the server would kill: its number may be
\* that of another by then (CgiPipe.cpp:239-246).
NoStaleKill == \A x \in Clients : content[x].kill_child => process[x].phase # "waited for"

\* The script that was begun last is never killed by another's beginning: if it is
\* killed, its own content is gone.  (All the others are, CgiPipe.cpp:221.)
NewestLives ==
    \A x \in Clients : process[x].phase = "killed" /\ content[x].here =>
        \E y \in Clients : process[y].copies[x].here

\* A script is told of the request it is for, unless the server's own environment has a
\* variable of that name, and the script that is called, in the directory it is called in,
\* is the one that was asked for (CgiPipe.cpp:73-84,117-167,193-209).
Getenv(env, name) ==
    IF \E n \in DOMAIN env : env[n][1] = name
    THEN env[CHOOSE n \in DOMAIN env : env[n][1] = name /\ \A k \in 1 .. n - 1 : env[k][1] # name][2] ELSE "unset"
Told ==
    \A x \in Clients : process[x].phase = "running" =>
      LET req == Head(Requests[x])
          own == {Environ[n][1] : n \in DOMAIN Environ} IN
      /\ "QUERY_STRING" \notin own => Getenv(process[x].env, "QUERY_STRING") = req.query
      /\ "REQUEST_METHOD" \notin own => Getenv(process[x].env, "REQUEST_METHOD") = req.method
      /\ "CONTENT_LENGTH" \notin own => Getenv(process[x].env, "CONTENT_LENGTH") = req.length
      /\ "SCRIPT_NAME" \notin own => Getenv(process[x].env, "SCRIPT_NAME") = req.path
      /\ "REMOTE_ADDR" \notin own => Getenv(process[x].env, "REMOTE_ADDR") = Peers[x]
      /\ Append(process[x].dir, process[x].command[Len(process[x].command)]) = Scripts[x].path

\* A script is given what it needs and what it is asked, and nothing else.
Served == Plumbed /\ Told

\* Every process is killed or waited for, not both, and not by the wrong number.
ChildrenTended == NoOrphans /\ NoStaleKill
=============================================================================
