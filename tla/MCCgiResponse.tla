--------------------------- MODULE MCCgiResponse ---------------------------
(* Three scripts as Script begins and ends them, and the output of the first  *)
(* while it is the only one (CgiResponse): headers of up to three lines and   *)
(* bodies of up to three bytes, nothing at all, and output without a header.  *)
EXTENDS Script, TLC

VARIABLES output, written, alive, taken, response

\* A request that another one follows on the same connection.
First  == [method |-> "POST", path |-> "/a", query |-> "q", uri |-> "/a?q", host |-> "h", length |-> 2, cookie |-> ""]
Second == [method |-> "GET", path |-> "/b", query |-> "", uri |-> "/b", host |-> "h", length |-> 0, cookie |-> "k"]
MCRequests   == [x |-> <<First, Second>>, y |-> <<Second>>, z |-> <<Second, First>>]
MCConfigured == [x |-> "", y |-> "python", z |-> ""]
MCScripts    == [x |-> [path |-> <<"cgi-bin", "x">>, first |-> "sh"],
                 y |-> [path |-> <<"cgi-bin", "y">>, first |-> "no binary"],
                 z |-> [path |-> <<"z">>, first |-> ""]]
MCPeers      == [x |-> "peer of x", y |-> "peer of y", z |-> "peer of z"]
MCEnviron    == <<<<"PATH", "p">>, <<"REQUEST_URI", "outer">>>>

Among(s, kinds) == Cardinality({n \in DOMAIN s : s[n] \in kinds})
Bodies == {<<"b">>, <<"b", "b">>, <<"b", "b", "b">>}
Headers == {s \in UNION {[1 .. n -> {"line", "type", "length", "field", "bad"}] : n \in 0 .. 3} :
              Among(s, {"type"}) <= 1 /\ Among(s, {"length"}) <= 1}

MCOutputs == {<<>>} \cup Bodies \cup {h \o <<"blank">> \o b : h \in Headers, b \in Bodies}

Out == INSTANCE CgiResponse WITH Outputs <- MCOutputs, Declared <- 2, buffer_size <- 2

----------------------------------------------------------------------------

outputs == <<output, written, alive, taken, response>>

MCInit == Init /\ Out!Init

\* The first script alone, which is followed into its output.
OthersWait(p) == \A y \in Clients \ {"x"} : p[y].phase = "none"
Alone == process["x"].phase = "running" /\ OthersWait(process)

\* What the processes may do does not depend on what they would write: all of it
\* happens with a script that writes nothing, and nothing but the way to Alone with
\* one that does.
Towards == /\ content'["x"].here /\ OthersWait(process')
           /\ process'["x"].phase \in {"unwinding", "running"} /\ process' # process
Processes ==
    /\ alive /\ written = 0
    /\ Next /\ UNCHANGED outputs
    /\ output # <<>> => Towards
Output ==
    \/ /\ Alone /\ (Out!Server \/ \E n \in 1 .. Len(output) - written : Out!Write(n))
       /\ UNCHANGED vars
    \/ Alone /\ Out!Exit /\ Exit("x")
    \/ ~alive /\ Out!Server /\ UNCHANGED vars
MCNext == Processes \/ Output

MCSpec == MCInit /\ [][MCNext]_<<vars, outputs>>

\* The loop goes on.
MCFairSpec == MCSpec /\ WF_<<vars, outputs>>(Out!Server /\ UNCHANGED vars)

\* As CgiResponse states them: what the script wrote arrives whole and as one response, and
\* that is built (HttpResponse.cpp:206-252, Client.cpp:235-310).
AsWritten == Out!AsWritten /\ Out!WellFormed
Built     == Out!Built
=============================================================================
