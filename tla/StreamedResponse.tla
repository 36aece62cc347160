--------------------------- MODULE StreamedResponse ---------------------------
(***************************************************************************)
(* An answer that comes line by line: StreamedResponse of the server       *)
(* (web-server/src/api/response_streaming.rs), fetchApi and                *)
(* StreamedJsonResponse of the page (web/api.ts), and HostList.forceFetch, *)
(* which reads the hosts with it (web/component/host/list.ts).             *)
(*                                                                         *)
(* The server sends a line whenever it has one; on its way the text is cut *)
(* into chunks anywhere.  Of a line the model keeps its two halves and the *)
(* character that ends it, and of each which line it belongs to.  The page *)
(* adds a chunk to its buffer, takes the text before the first end of line *)
(* for a line, and keeps the text up to the second one; this end and what  *)
(* is behind it are thrown away.                                           *)
(***************************************************************************)
EXTENDS Sequences, FiniteSetsExt

CONSTANT Lines  \* bound: the lines of the answer; the first one is the list of hosts

VARIABLES
    written,       \* how many lines the server has written
    onItsWay,      \* the text the page has not read yet
    bufferedText,  \* bufferedText
    returned,      \* the lines that next has returned
    state,         \* "reading", "done", or how it has thrown: "mangled" or "aborted"
    separate,      \* no chunk has ended two lines
    thrownAway,    \* the lines of which text was thrown away
    updated        \* the hosts whose state on the page is no longer the cached one

vars == <<written, onItsWay, bufferedText, returned, state, separate, thrownAway, updated>>

NewLine(i) == <<i, "newLine">>
Line(i) == << <<i, "begin">>, <<i, "end">> >>
Text == (1..Lines) \X {"begin", "end", "newLine"}

TypeOK ==
    /\ written \in 0..Lines
    /\ onItsWay \in Seq(Text) /\ bufferedText \in Seq(Text)
    /\ returned \in Seq(1..Lines)
    /\ state \in {"reading", "done", "mangled", "aborted"}
    /\ separate \in BOOLEAN /\ thrownAway \subseteq 1..Lines /\ updated \subseteq 2..Lines

Init ==
    /\ written = 0 /\ onItsWay = <<>>
    /\ bufferedText = <<>> /\ returned = <<>> /\ state = "reading"
    /\ separate = TRUE /\ thrownAway = {} /\ updated = {}

\* poll_next of the server: a line is ready.
Write ==
    /\ written < Lines
    /\ written' = written + 1
    /\ onItsWay' = onItsWay \o Append(Line(written + 1), NewLine(written + 1))
    /\ UNCHANGED <<bufferedText, returned, state, separate, thrownAway, updated>>

Ends(text) == {i \in DOMAIN text : text[i][2] = "newLine"}

\* Where the text that is kept ends: before the second end of line, or with the text
KeptTo(text) ==
    LET behind == Ends(text) \ {Min(Ends(text))}
    IN  IF behind = {} THEN Len(text) ELSE Min(behind) - 1

\* text.split("\n", 2)[1]
Rest(text) == SubSeq(text, Min(Ends(text)) + 1, KeptTo(text))

\* The lines that lose text by that
Loses(text) == {text[i][1] : i \in (KeptTo(text) + 1)..Len(text)}

\* A line is returned: the first one makes the list, the others update the hosts in it.
Return(i) ==
    /\ returned' = Append(returned, i)
    /\ updated' = updated \cup ({i} \ {1})

\* JSON.parse takes a whole line and nothing else.
Parse(line) ==
    IF \E i \in 1..Lines : line = Line(i)
    THEN Return(line[1][1]) /\ UNCHANGED state
    ELSE state' = "mangled" /\ UNCHANGED <<returned, updated>>

\* reader.read() has a chunk; next returns with a line, and is called again at once.
Read ==
    /\ state = "reading"
    /\ \E n \in DOMAIN onItsWay :
          LET chunk == SubSeq(onItsWay, 1, n)
              text == bufferedText \o chunk
          IN /\ onItsWay' = SubSeq(onItsWay, n + 1, Len(onItsWay))
             /\ separate' = (separate /\ \A i, j \in Ends(chunk) : i = j)
             /\ IF Ends(text) = {}
                THEN bufferedText' = text /\ UNCHANGED <<returned, state, thrownAway, updated>>
                ELSE /\ bufferedText' = Rest(text)
                     /\ thrownAway' = thrownAway \cup Loses(text)
                     /\ Parse(SubSeq(text, 1, Min(Ends(text)) - 1))
    /\ UNCHANGED written

\* The server has said everything, and it has been read.
Done ==
    /\ state = "reading"
    /\ written = Lines /\ onItsWay = <<>>
    /\ state' = "done"
    /\ UNCHANGED <<written, onItsWay, bufferedText, returned, separate, thrownAway, updated>>

\* AbortSignal.timeout(API_TIMEOUT) is also over for the text that is still to come, whatever
\* noTimeout says; or the connection is lost.
Abort ==
    /\ state = "reading"
    /\ state' = "aborted"
    /\ UNCHANGED <<written, onItsWay, bufferedText, returned, separate, thrownAway, updated>>

Next == Write \/ Read \/ Done \/ Abort

Spec == Init /\ [][Next]_vars

-----------------------------------------------------------------------------
(* Properties *)

\* However the text is cut, what is returned are lines of the server, in its order and none
\* twice, and at the end every line of which no text was thrown away.  That happens when a
\* chunk ends two lines and never otherwise; until then whatever is parsed is a line.
WholeLines ==
    /\ \A i, j \in DOMAIN returned : i < j => returned[i] < returned[j]
    /\ updated = Range(returned) \ {1}
    /\ state = "mangled" => thrownAway # {}
    /\ state = "done" => (1..Lines) \ thrownAway \subseteq Range(returned)
    /\ separate => thrownAway = {}
=============================================================================
