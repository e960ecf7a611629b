---------------------------- MODULE CgiResponse ----------------------------
(***************************************************************************)
(* How the output of a script becomes a response: Client::clientRecvCgi    *)
(* collects what read() returns, looks for the empty line that ends the    *)
(* script's header, and builds the response when the announced length is   *)
(* there or when the script has closed its output.                         *)
(*                                                                         *)
(* Output is a sequence of lines and bytes: "line" (HTTP/1.1 and a valid   *)
(* status), "type" (Content-Type), "length" (Content-Length, whose value   *)
(* is Declared), "field" (any other field), "bad" (not a field), "blank"   *)
(* (the empty line) and "b" (of the body).  In the response, "status",     *)
(* "server", "octet" and "counted" are what the server adds: a status      *)
(* line, Server and Date, a type, and a length (content_length).           *)
(*                                                                         *)
(* poll() tells the end of a pipe by POLLHUP alone, so that read() does    *)
(* not return 0 here.                                                      *)
(***************************************************************************)
EXTENDS Integers, Sequences, FiniteSets

CONSTANTS Outputs,      \* what a script may write: sequences of Lines
          Declared,     \* the value of its Content-Length, not 0
          buffer_size   \* how much a read() returns at most, not 0

Fields == {"type", "length", "field"}
Lines  == Fields \cup {"line", "bad", "blank", "b"}
Added  == {"status", "server", "octet", "counted"}

VARIABLES output,    \* what the script writes in all
          written,   \* how much of it is written
          alive,     \* it has not exited
          taken,     \* how much the server has read
          response   \* the members of HttpResponse

vars == <<output, written, alive, taken, response>>

Response == [header : Seq(Lines \cup Added), combine : Seq(Lines \cup Added),
             header_ready : BOOLEAN, content_length : Nat, content_type : BOOLEAN,
             ready : BOOLEAN]

Empty == [header |-> <<>>, combine |-> <<>>, header_ready |-> FALSE, content_length |-> 0,
          content_type |-> FALSE, ready |-> FALSE]

----------------------------------------------------------------------------
(* HttpResponse                                                            *)

Blanks(s) == {n \in DOMAIN s : s[n] = "blank"}
FirstBlank(s) == CHOOSE n \in Blanks(s) : \A m \in Blanks(s) : n <= m

IsField(line) == line \in Fields

\* validateHttpStart(): the script gave its own status line.
OwnStatus(lines) == lines # <<>> /\ Head(lines) = "line"

\* generateHeaderHelper() for each of the lines: those that are not fields are
\* left out.
AddFields(r, lines) ==
    [r EXCEPT !.header = @ \o SelectSeq(lines, IsField),
              !.content_length = IF \E n \in DOMAIN lines : lines[n] = "length" THEN Declared ELSE @,
              !.content_type = @ \/ \E n \in DOMAIN lines : lines[n] = "type"]

\* generateHeader(): the script's own status line, or 200.
GenerateHeader(r, lines) ==
    LET first  == IF lines = <<>> THEN <<>> ELSE <<Head(lines)>>
        others == IF lines = <<>> THEN <<>> ELSE Tail(lines)
        q == IF OwnStatus(lines) THEN [r EXCEPT !.header = Append(@, "line")]
                    ELSE AddFields([r EXCEPT !.header = Append(@, "status")], first)
        s == AddFields([q EXCEPT !.header = Append(@, "server")], others)
    IN  [s EXCEPT !.header = Append(@, "blank")]

\* setHeader(200)
SetHeader(r) == [r EXCEPT !.header = @ \o <<"status", "server", "blank">>]

\* setContent(): fields put before the empty line.
Insert(r, field) ==
    LET n == Len(r.header) IN
    [r EXCEPT !.header = SubSeq(@, 1, n - 1) \o <<field>> \o SubSeq(@, n, n)]
SetType(r) == [Insert(r, "octet") EXCEPT !.content_type = TRUE]
SetLength(r, n) == IF n = 0 THEN r ELSE [Insert(r, "counted") EXCEPT !.content_length = n]

\* Mutant: the empty line is left in front of the body.
ProcessCgiDataHeaderKeeps(r) ==
    IF Blanks(r.combine) = {} THEN r
    ELSE LET n == FirstBlank(r.combine) IN
         GenerateHeader([r EXCEPT !.combine = SubSeq(@, n, Len(@)), !.header_ready = TRUE],
                        SubSeq(r.combine, 1, n - 1))

\* processCgiDataHeader(): done after every read(), whether header_ready or not.
ProcessCgiDataHeader(r) ==
    IF Blanks(r.combine) = {} THEN r
    ELSE LET n == FirstBlank(r.combine) IN
         GenerateHeader([r EXCEPT !.combine = SubSeq(@, n + 1, Len(@)), !.header_ready = TRUE],
                        SubSeq(r.combine, 1, n - 1))

\* Mutant: the length is not counted when the script gave none.
ProcessCgiDataUncounted(r) ==
    LET a == IF r.header_ready THEN r ELSE SetLength(SetType(SetHeader(r)), Len(r.combine))
        c == IF a.content_type THEN a ELSE SetType(a)
    IN  [c EXCEPT !.combine = c.header \o (IF Len(@) > c.content_length
                                           THEN SubSeq(@, 1, c.content_length) ELSE @),
                  !.ready = TRUE]

\* processCgiData(): what is collected becomes the body.  No empty line is
\* left in it when the header is not there: every read() looked for one.
ProcessCgiData(r) ==
    LET a == IF r.header_ready THEN r ELSE SetLength(SetType(SetHeader(r)), Len(r.combine))
        b == IF a.content_length = 0 THEN SetLength(a, Len(a.combine)) ELSE a
        c == IF b.content_type THEN b ELSE SetType(b)
    IN  [c EXCEPT !.combine = c.header \o (IF Len(@) > c.content_length
                                           THEN SubSeq(@, 1, c.content_length) ELSE @),
                  !.ready = TRUE]

----------------------------------------------------------------------------
(* The script, and Client                                                  *)

Init ==
    /\ output \in Outputs
    /\ written = 0 /\ taken = 0
    /\ alive = TRUE
    /\ response = Empty

\* The script writes the next n, or ends.
Write(n) ==
    /\ alive
    /\ written' = written + n
    /\ UNCHANGED <<output, alive, taken, response>>

Exit ==
    /\ alive /\ written = Len(output)
    /\ alive' = FALSE
    /\ UNCHANGED <<output, written, taken, response>>

\* How much of the pipe a read() returns.
Chunk == IF written - taken > buffer_size THEN buffer_size ELSE written - taken

\* Mutant: the response is built when the announced length is exceeded only.
RecvCgiExceeds ==
    /\ ~response.ready /\ taken < written
    /\ taken' = taken + Chunk
    /\ LET r == ProcessCgiDataHeader([response EXCEPT
                  !.combine = @ \o SubSeq(output, taken + 1, taken + Chunk)])
       IN  response' = IF /\ r.header_ready /\ r.content_length > 0
                          /\ Len(r.combine) > r.content_length
                       THEN ProcessCgiData(r) ELSE r
    /\ UNCHANGED <<output, written, alive>>

\* clientRecvCgi()
RecvCgi ==
    /\ ~response.ready /\ taken < written
    /\ taken' = taken + Chunk
    /\ LET r == ProcessCgiDataHeader([response EXCEPT
                  !.combine = @ \o SubSeq(output, taken + 1, taken + Chunk)])
       IN  response' = IF /\ r.header_ready /\ r.content_length > 0
                          /\ Len(r.combine) >= r.content_length
                       THEN ProcessCgiData(r) ELSE r
    /\ UNCHANGED <<output, written, alive>>

\* checkContentStatus(), of a script that exited well: POLLHUP with nothing left
\* to read.  finishHttp() puts the header, which it did not clear, before the
\* (empty) body.
CheckContentStatus ==
    /\ ~response.ready /\ ~alive /\ taken = written
    /\ response' =
         IF response.combine = <<>>
         THEN LET r == Insert(SetHeader(response), "counted")
              IN  [r EXCEPT !.combine = r.header, !.ready = TRUE]
         ELSE ProcessCgiData(response)
    /\ UNCHANGED <<output, written, alive, taken>>

Server == RecvCgi \/ CheckContentStatus
Script == Exit \/ \E n \in 1 .. Len(output) - written : Write(n)
Next == Server \/ Script

Spec == Init /\ [][Next]_vars

\* The loop goes on.  A script may never end.
FairSpec == Spec /\ WF_vars(Server)

----------------------------------------------------------------------------
(* Properties                                                              *)

Head1(s) == SubSeq(s, 1, FirstBlank(s) - 1)
Body1(s) == SubSeq(s, FirstBlank(s) + 1, Len(s))
Count(s, kinds) == Cardinality({n \in DOMAIN s : s[n] \in kinds})

\* What the script wrote before and after its first empty line.
OwnHeader == IF Blanks(output) = {} THEN <<>> ELSE Head1(output)
OwnBody   == IF Blanks(output) = {} THEN output ELSE Body1(output)
Announced == Count(OwnHeader, {"length"}) > 0

\* However the output is cut into writes and reads, and whether the response is
\* built at the announced length or at the end: it has the script's fields, in
\* their order, its status if it gave one, and its body up to that length.
AsWritten ==
    response.ready =>
      LET h == Head1(response.combine) IN
      /\ SelectSeq(h, IsField) = SelectSeq(OwnHeader, IsField)
      /\ (h[1] = "line") = OwnStatus(OwnHeader)
      /\ Body1(response.combine) = IF Announced /\ Len(OwnBody) > Declared
                                   THEN SubSeq(OwnBody, 1, Declared) ELSE OwnBody

\* The response is one HTTP response: one status line, in front, one type and
\* one length, which is that of the body if the server counted it.
WellFormed ==
    response.ready =>
      LET h == Head1(response.combine) IN
      /\ h[1] \in {"status", "line"} /\ Count(h, {"status", "line"}) = 1
      /\ Count(h, {"server"}) = 1
      /\ Count(h, {"type", "octet"}) <= 1
      /\ Count(h, {"length", "counted"}) = 1
      /\ Count(h, {"counted"}) = 1 => response.content_length = Len(Body1(response.combine))

\* A response is built once the script has exited, or has written as much as it
\* announced, even if it goes on running.
Built ==
    (~alive \/ (Announced /\ written - Len(OwnHeader) - 1 >= Declared)) ~> response.ready
=============================================================================
