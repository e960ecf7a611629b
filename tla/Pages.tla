------------------------------- MODULE Pages -------------------------------
(***************************************************************************)
(* What is sent for the decision that Routing takes: the header that       *)
(* HttpResponse puts together, the listing of a directory (AutoIndex), and *)
(* the built-in page of an error (DefaultErrorPage).                       *)
(*                                                                         *)
(* A text is a sequence of <<"char", c>> and <<"line", entry>>; a header   *)
(* is a sequence of <<name, value>>, of which "" is the empty line.        *)
(***************************************************************************)
EXTENDS Integers, FiniteSets, SequencesExt, TLC

CONSTANTS Rank,      \* the place of each character among the characters
          Column     \* how much of a name a listing shows: 50 in the code

----------------------------------------------------------------------------
(* Tables                                                                  *)

\* pairing[]: the codes that have a message
Messages == (100 .. 103) \cup (200 .. 208) \cup {226} \cup (300 .. 308) \cup (400 .. 418) \cup (421 .. 426)
              \cup {428, 429, 431, 451} \cup (500 .. 508) \cup {510, 511}

\* mime_types[]
Types == [aac |-> "audio/aac", abw |-> "application/x-abiword", apng |-> "image/apng", avi |-> "video/x-msvideo",
          bmp |-> "image/bmp", css |-> "text/css", csv |-> "text/csv", doc |-> "application/msword",
          gif |-> "image/gif", html |-> "text/html", htm |-> "text/html", ico |-> "image/vnd.microsoft.icon",
          jpeg |-> "image/jpeg", jpg |-> "image/jpeg", js |-> "text/javascript", json |-> "application/json",
          mp3 |-> "audio/mpeg", mp4 |-> "video/mp4", pdf |-> "application/pdf", png |-> "image/png",
          svg |-> "image/svg+xml", txt |-> "text/plain", xml |-> "application/xml"]
GetMimeType(ext) == IF ext \in DOMAIN Types THEN Types[ext] ELSE "application/octet-stream"

\* AutoIndex::getExtension()
GetExtension(format) == IF format \in {"html", "xml"} THEN format ELSE "json"

----------------------------------------------------------------------------
(* The listing of a directory                                              *)

\* iterDir(), of one entry [name, type, size, time] of the directory, and the loop of
\* generateResource(): the time is only set for what is no directory, and stays as it
\* was otherwise.  Of an entry that cannot be looked at (a link to nothing) nothing
\* is set at all; such an entry is not modelled.
IterDir(g, e) ==
    LET fname == IF e.type = "directory" THEN Append(e.name, "/") ELSE e.name
        time  == IF e.type = "directory" THEN g.time ELSE e.time
        entry == [check |-> IF e.type = "directory" THEN 2 ELSE 1, fname |-> fname, time |-> time, size |-> e.size]
    IN  IF e.name = <<".">> \/ e.type = "unknown" THEN g
        ELSE IF fname # <<".", ".", "/">> /\ Head(fname) = "." THEN [g EXCEPT !.time = time]
        ELSE [time |-> time, entries |-> Append(g.entries, entry)]

\* fname < fname
Precedes(a, b) ==
    \E n \in 1 .. Len(b) :
      /\ \A k \in 1 .. n - 1 : k \in DOMAIN a /\ a[k] = b[k]
      /\ n = Len(a) + 1 \/ (n \in DOMAIN a /\ Rank[a[n]] < Rank[b[n]])

\* Mutant: names only.
ComparatorByName(a, b) == Precedes(a.fname, b.fname)

\* EntryComparator: directories first.
Comparator(a, b) == IF a.check = b.check THEN Precedes(a.fname, b.fname) ELSE a.check > b.check

\* The entries, in whatever order readdir() returns them.
Entries(read) == SortSeq(FoldLeft(IterDir, [time |-> "", entries |-> <<>>], read).entries, Comparator)

Chars(text) == [n \in DOMAIN text |-> <<"char", text[n]>>]
Find(text, mark, from) ==
    CHOOSE n \in from .. Len(text) : text[n] = <<"char", mark>> /\ \A k \in from .. n - 1 : text[k] # text[n]
Replace(text, n, by) == SubSeq(text, 1, n - 1) \o by \o SubSeq(text, n + 1, Len(text))

\* makeHtmlList().  Of a name that is too long the end is shown, not the beginning:
\* append(name, 47) goes on from there.
MakeHtmlList(e) ==
    <<"line", [href |-> e.fname,
               shown |-> IF Len(e.fname) > Column THEN SubSeq(e.fname, Column - 2, Len(e.fname)) \o <<".", ".", ">">>
                         ELSE e.fname,
               time |-> e.time,
               size |-> IF e.check = 2 THEN <<>> ELSE <<e.size>>]>>

\* generateHtml(): each mark is looked for in what the ones before it have become.
TemplateHtml == Chars(<<"title", "@", "h1", "@", "pre", "*", "end">>)
GenerateHtml(uri, entries) ==
    LET pos    == Find(TemplateHtml, "@", 1)
        titled == Replace(TemplateHtml, pos, Chars(uri))
        headed == Replace(titled, Find(titled, "@", pos + 1), Chars(uri))
    IN  Replace(headed, Find(headed, "*", 1), [n \in DOMAIN entries |-> MakeHtmlList(entries[n])])

\* generateXml(): the buffer of an entry still holds those before it, and no entry has
\* the check that a directory would be told by.
GenerateXml(entries) ==
    FlattenSeq([n \in DOMAIN entries |-> [k \in 1 .. n |-> <<"line", [kind |-> "file"] @@ entries[k]>>]])

\* generateJson()
GenerateJson(entries) ==
    [n \in DOMAIN entries |->
        <<"line", [kind |-> IF entries[n].check = 1 THEN "file" ELSE "directory"] @@ entries[n]>>]

GenerateResource(format, uri, read) ==
    CASE format = "html" -> GenerateHtml(uri, Entries(read))
      [] format = "xml"  -> GenerateXml(Entries(read))
      [] OTHER           -> GenerateJson(Entries(read))

----------------------------------------------------------------------------
(* The page of an error                                                    *)

\* fetchMsg(), or what stands for a code without a message
FetchMsg(status) == IF status \in Messages THEN "message" ELSE "Unknown Error"
Message(status) == Chars(<<status, FetchMsg(status)>>)
ErrorTemplate == Chars(<<"title", "*", "h1", "*", "center", "#", "end">>)
GenerateError(status, server_name) ==
    LET pos    == Find(ErrorTemplate, "*", 1)
        titled == Replace(ErrorTemplate, pos, Message(status))
        headed == Replace(titled, Find(titled, "*", pos), Message(status))
    IN  Replace(headed, Find(headed, "#", pos), Chars(<<server_name>>))

----------------------------------------------------------------------------
(* The header                                                              *)

\* makeReponseHeader(): FALSE of a code without a message
MakeReponseHeader(status) == status \in Messages

\* addHeaderStart(), which then adds no status line, and addField()
AddHeaderStart(header, status) == IF MakeReponseHeader(status) THEN Append(header, <<"status", status>>) ELSE header
AddField(header, name, val) == Append(header, <<name, val>>)

\* addHeader(), setHeader()
AddHeader(status) == AddField(AddField(AddHeaderStart(<<>>, status), "Server", ""), "Date", "")
SetHeader(status, str) ==
    LET header == AddHeader(status)
    IN  Append(IF status > 299 /\ status < 400 THEN AddField(header, "Location", str) ELSE header, <<"", "">>)

\* Mutant: the fields are put behind the empty line.
InsertBehind(header, fields) == header \o fields

\* Where setContent() inserts: before the empty line.
Insert(header, fields) == Front(header) \o fields \o <<Last(header)>>

\* setContent(len, type), setContent()
SetContent(header, len, type) ==
    LET typed == IF type # "" THEN AddField(<<>>, "Content-Type", type) ELSE <<>>
    IN  Insert(header, IF len > 0 THEN AddField(typed, "Content-Length", len) ELSE typed)
SetContentEmpty(header) == Insert(header, AddField(<<>>, "Content-Length", 0))

\* processResponseRedirect(), processResponseSuccess() of a directory, getDefaultError(),
\* and processContentCgiHelper() of a file
HeaderOf(answer, length, ext) ==
    CASE answer.kind = "redirect" -> SetContentEmpty(SetHeader(answer.status, answer.path))
      [] answer.kind = "builtin"  -> SetContent(SetHeader(answer.status, <<>>), length, GetMimeType("html"))
      [] OTHER                    -> SetContent(SetHeader(answer.status, <<>>), length, GetMimeType(ext))

----------------------------------------------------------------------------
(* Properties                                                              *)

Count(header, name) == Cardinality({n \in DOMAIN header : header[n][1] = name})
Length(header) == header[CHOOSE n \in DOMAIN header : header[n][1] = "Content-Length"][2]

\* A response begins with its status line, ends its header once, says how long it is
\* and, if it has a body, of which type, and where to go just if it redirects.  (A code
\* without a message has no status line, and an empty listing or file no length.)
Headed(answer, length, ext) ==
    LET h == HeaderOf(answer, length, ext) IN
    /\ answer.status \in Messages <=> h[1] = <<"status", answer.status>>
    /\ Count(h, "") = 1 /\ Last(h) = <<"", "">>
    /\ Count(h, "Location") = IF answer.kind = "redirect" THEN 1 ELSE 0
    /\ answer.kind = "redirect" \/ length > 0 =>
         Count(h, "Content-Length") = 1 /\ Length(h) = IF answer.kind = "redirect" THEN 0 ELSE length
    /\ answer.kind # "redirect" => Count(h, "Content-Type") = 1

\* A listing as html or json has what is in the directory, but for what is hidden and
\* the directory itself, once, directories first, whatever the order readdir() returns
\* it in, and each file with its own time and size (AutoIndex.cpp:190-236).
Lines(text) == SelectSeq(text, LAMBDA t : t[1] = "line")
Visible(e) == e.name = <<".", ".">> \/ Head(e.name) # "."
Name(e) == IF e.type = "directory" THEN Append(e.name, "/") ELSE e.name
ListedOnce(first, Directory, uri) ==
    \A rest \in SetToSeqs(Directory) :
      LET read == first \o rest
          html == Lines(GenerateResource("html", uri, read))
          json == Lines(GenerateResource("json", uri, read))
          here == {e \in ToSet(read) : Visible(e)}
      IN  /\ Len(html) = Cardinality(here) /\ Len(json) = Len(html)
          /\ \A e \in here : \E n \in DOMAIN html :
               /\ html[n][2].href = Name(e) /\ json[n][2].fname = Name(e)
               /\ e.type # "directory" =>
                    /\ html[n][2].time = e.time /\ html[n][2].size = <<e.size>>
                    /\ json[n][2].time = e.time /\ json[n][2].size = e.size /\ json[n][2].kind = "file"
          /\ \A n \in 1 .. Len(html) - 1 :
               json[n][2].kind = "file" => json[n + 1][2].kind = "file"
          /\ GenerateHtml(uri, Entries(read))[2] = <<"char", Head(uri)>>
=============================================================================
