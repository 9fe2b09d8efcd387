----------------------------- MODULE LogReader ------------------------------
(***************************************************************************)
(* The explorer reads the log of a session (explorer.go: parseSessionFile, *)
(* groupAndParseTurns) while the proxy is writing it.  Exchanges run       *)
(* concurrently; each takes the time of a line before it has the logger's  *)
(* mutex, so that the lines of different exchanges need not be in the      *)
(* order of their times, and any line may not have been written at all.    *)
(* The reader takes the file as it is at one moment, walks through its     *)
(* lines, puts each response to its request and sorts the turns.           *)
(*                                                                         *)
(* An exchange is its request ID.  Its sequence number is its own in logs  *)
(* with IDs (SessionTracking, SeqConsecutive).  Logs without IDs are of    *)
(* older code, and there parallel requests may have got the same number    *)
(* (explorer.go:426, "may have issues with parallel requests").            *)
(***************************************************************************)
EXTENDS Integers, Sequences, Functions

CONSTANTS
    Exchanges,   \* the session's exchanges
    Streamed,    \* those whose response is a stream, logged as chunks
    Message,     \* the answer a stream carries (ResponseParser)
    MaxTime      \* bound of the model: ticks of the clock

VARIABLES
    withIDs,     \* FALSE for a log of the time before lines had request_id
    number,      \* the sequence number of each exchange
    now, at,     \* the clock, and how far each exchange is
    asked, answered, \* the times the two lines of each exchange bear
    file,        \* the lines of the session's file
    reader,      \* what the explorer does
    seen, pos,   \* the lines it has got, and how many it has walked through
    byID, bySeq, \* the keys of its two maps of turns
    turns,       \* its slice of turns
    blk, part, blocks, builder, usage, lost     \* of ResponseParser

P == INSTANCE ResponseParser

ASSUME ReaderAssumption ==
    /\ Exchanges \subseteq Nat \ {0} /\ Streamed \subseteq Exchanges /\ MaxTime \in Nat
    /\ Message \in P!Messages

writer == <<withIDs, number, now, at, asked, answered, file>>
maps == <<byID, bySeq>>
parser == <<blk, part, blocks, builder, usage, lost>>
vars == <<writer, reader, seen, pos, maps, turns, parser>>

Times == 0..MaxTime
NoID == 0
Started == [type |-> "session_start", seq |-> 0, id |-> NoID, ts |-> 0, of |-> 0]
NoLine == [Started EXCEPT !.type = "none"]

\* of is the exchange the line is of; only the chunks of a line, and the
\* properties, depend on it.
Lines == [type : {"session_start"}, seq : {0}, id : {NoID}, ts : Times, of : {0}]
         \cup [type : {"request", "response"}, seq : Exchanges, id : Exchanges \cup {NoID},
               ts : Times, of : Exchanges]
NoContent == [blocks |-> <<>>, lost |-> {}]

Init ==
    /\ withIDs \in BOOLEAN
    /\ number \in IF withIDs THEN {[e \in Exchanges |-> e]} ELSE [Exchanges -> Exchanges]
    /\ now = 0
    /\ at = [e \in Exchanges |-> "new"]
    /\ asked = [e \in Exchanges |-> 0] /\ answered = [e \in Exchanges |-> 0]
    /\ file \in {<<>>, <<Started>>}
    /\ reader = "closed"
    /\ seen = <<>> /\ pos = 0
    /\ byID = {} /\ bySeq = {}
    /\ turns = <<>>
    /\ P!Init

-----------------------------------------------------------------------------
(* The proxy                                                               *)

Line(kind, e, time) ==
    [type |-> kind, seq |-> number[e], id |-> IF withIDs THEN e ELSE NoID, ts |-> time, of |-> e]

Goes(e, from, to) == at[e] = from /\ at' = [at EXCEPT ![e] = to]
ByProxy == UNCHANGED <<withIDs, number, reader, seen, pos, maps, turns, parser>>

\* LogRequest and LogResponse first note the time,
NoteRequest(e) ==
    /\ Goes(e, "new", "request") /\ asked' = [asked EXCEPT ![e] = now]
    /\ UNCHANGED <<now, answered, file>> /\ ByProxy

NoteResponse(e) ==
    /\ Goes(e, "open", "response") /\ answered' = [answered EXCEPT ![e] = now]
    /\ UNCHANGED <<now, asked, file>> /\ ByProxy

\* then write the line, or fail.
Writes(line) == file' \in {file, Append(file, line)} /\ UNCHANGED <<now, asked, answered>>

WriteRequest(e) ==
    /\ Goes(e, "request", "open") /\ Writes(Line("request", e, asked[e])) /\ ByProxy

WriteResponse(e) ==
    /\ Goes(e, "response", "done") /\ Writes(Line("response", e, answered[e])) /\ ByProxy

Tick ==
    /\ now < MaxTime /\ now' = now + 1
    /\ UNCHANGED <<at, asked, answered, file>> /\ ByProxy

-----------------------------------------------------------------------------
(* The explorer                                                            *)

Open ==
    /\ reader = "closed" /\ reader' = "walking"
    /\ seen' = file
    /\ UNCHANGED <<writer, pos, maps, turns, parser>>

Walks(to) ==
    /\ reader = "walking" /\ pos < Len(seen)
    /\ reader' = to
    /\ UNCHANGED <<writer, seen>>

line == seen[pos + 1]

\* Mutant of ReadRequest: the map by ID takes every line.
ReadRequestAnyID ==
    /\ Walks("walking") /\ pos' = pos + 1
    /\ line.type = "request"
    /\ turns' = Append(turns, [request |-> line, response |-> NoLine, content |-> NoContent])
    /\ byID' = byID \cup {line.id} /\ bySeq' = bySeq \cup {line.seq}
    /\ UNCHANGED parser

ReadRequest ==
    /\ Walks("walking") /\ pos' = pos + 1
    /\ line.type = "request"
    /\ turns' = Append(turns, [request |-> line, response |-> NoLine, content |-> NoContent])
    /\ byID' = byID \cup ({line.id} \ {NoID})
    /\ bySeq' = bySeq \cup (IF line.id = NoID THEN {line.seq} ELSE {})
    /\ UNCHANGED parser

\* By request_id if the line has one, else, or if that is unknown, by seq
\* among the requests that have none.
Matched == line.id \in byID \/ line.seq \in bySeq

\* The element of the slice that is updated: the first that fits.
Fits(turn) ==
    \/ turn.request.id # NoID /\ turn.request.id = line.id
    \/ turn.request.id = NoID /\ turn.request.seq = line.seq

\* Mutant of Place: the last request without a response.
PlaceLast(content) ==
    turns' = [j \in DOMAIN turns |->
                IF /\ turns[j].response = NoLine
                   /\ \A k \in DOMAIN turns : k > j => turns[k].response # NoLine
                THEN [turns[j] EXCEPT !.response = line, !.content = content]
                ELSE turns[j]]

Place(content) ==
    turns' = [j \in DOMAIN turns |->
                IF Fits(turns[j]) /\ \A k \in 1..(j - 1) : ~Fits(turns[k])
                THEN [turns[j] EXCEPT !.response = line, !.content = content]
                ELSE turns[j]]

\* The body of a buffered response is parsed as it is.
ReadBuffered ==
    /\ Walks("walking") /\ pos' = pos + 1
    /\ line.type = "response" /\ Matched /\ line.of \notin Streamed
    /\ Place(NoContent)
    /\ UNCHANGED <<maps, parser>>

\* The chunks of a streamed one go through ParseStreamingResponse.
ReadStreamed ==
    /\ Walks("parsing")
    /\ line.type = "response" /\ Matched /\ line.of \in Streamed
    /\ P!Reset
    /\ UNCHANGED <<pos, maps, turns>>

Parse ==
    /\ reader = "parsing" /\ P!Next
    /\ UNCHANGED <<writer, reader, seen, pos, maps, turns>>

Parsed ==
    /\ reader = "parsing" /\ P!Done
    /\ reader' = "walking" /\ pos' = pos + 1
    /\ Place([blocks |-> blocks, lost |-> lost])
    /\ P!Reset
    /\ UNCHANGED <<writer, seen, maps>>

PassOver ==
    /\ Walks("walking") /\ pos' = pos + 1
    /\ line.type = "session_start" \/ (line.type = "response" /\ ~Matched)
    /\ UNCHANGED <<maps, turns, parser>>

\* Mutant of Key: a turn without a response counts as the first.
KeyOfResponse(turn) == turn.response.ts

(* The turns are sorted by the time of the response, of the request if     *)
(* there is none; sort.Slice leaves the order of equals open.              *)
Key(turn) == IF turn.response # NoLine THEN turn.response.ts ELSE turn.request.ts

Show ==
    /\ reader = "walking" /\ pos = Len(seen)
    /\ reader' = "shown"
    /\ \E p \in Bijection(DOMAIN turns, DOMAIN turns) :
        /\ \A i, j \in DOMAIN turns : i < j => Key(turns[p[i]]) <= Key(turns[p[j]])
        /\ turns' = [i \in DOMAIN turns |-> turns[p[i]]]
    /\ UNCHANGED <<writer, seen, pos, maps, parser>>

Next ==
    \/ \E e \in Exchanges : NoteRequest(e) \/ WriteRequest(e) \/ NoteResponse(e) \/ WriteResponse(e)
    \/ Tick
    \/ Open \/ ReadRequest \/ ReadBuffered \/ ReadStreamed \/ Parse \/ Parsed \/ PassOver \/ Show

Spec == Init /\ [][Next]_vars

-----------------------------------------------------------------------------
(* Properties                                                              *)

Contents == [blocks : Seq(P!Blocks), lost : SUBSET P!Indices]

(* Type invariant.                                                         *)
TypeOK ==
    /\ withIDs \in BOOLEAN /\ number \in [Exchanges -> Exchanges] /\ now \in Times
    /\ at \in [Exchanges -> {"new", "request", "open", "response", "done"}]
    /\ asked \in [Exchanges -> Times] /\ answered \in [Exchanges -> Times]
    /\ file \in Seq(Lines) /\ seen \in Seq(Lines)
    /\ reader \in {"closed", "walking", "parsing", "shown"}
    /\ pos \in 0..Len(seen)
    /\ byID \subseteq Exchanges /\ bySeq \subseteq Exchanges
    /\ turns \in Seq([request : Lines, response : Lines \cup {NoLine}, content : Contents])
    /\ P!TypeOK

Read(kind) == {seen[i].of : i \in {j \in DOMAIN seen : seen[j].type = kind}}

\* The lines of e can be told from those of other exchanges.
Told(e) == withIDs \/ \A f \in Exchanges \ {e} : number[f] # number[e]

(* The view has one turn for each request in the file, whichever lines are *)
(* missing and however the exchanges overlapped.  An exchange that can be  *)
(* told from the others has its response there if the file had it, and no  *)
(* other.  Where old logs repeat a number the response is one of the same  *)
(* number, and which is left open: the code "may have issues" there        *)
(* (explorer.go:426).  Of a stream that was logged without a gap all       *)
(* blocks are shown.                                                       *)
TurnsPaired ==
    reader = "shown" =>
        /\ {turns[i].request.of : i \in DOMAIN turns} = Read("request")
        /\ \A i, j \in DOMAIN turns : i # j => turns[i].request.of # turns[j].request.of
        /\ \A i \in DOMAIN turns :
            LET t == turns[i]
                e == t.request.of
            IN /\ Told(e) => (t.response # NoLine <=> e \in Read("response"))
               /\ t.response # NoLine =>
                    /\ t.response.type = "response" /\ t.response.seq = t.request.seq
                    /\ Told(e) => t.response.of = e
                    /\ t.response.of \in Streamed /\ t.content.lost = {} =>
                        t.content.blocks =
                            [b \in P!Indices |-> [type |-> P!Kind(b),
                                                  body |-> P!Whole(b, P!Parts(b))]]

(* "This ensures the display timeline always progresses forward": where    *)
(* one exchange had ended before another began it is shown before it, if   *)
(* both can be told from the others.                                       *)
TimelineForward ==
    reader = "shown" =>
        \A i, j \in DOMAIN turns :
            LET e == turns[i].request.of
                f == turns[j].request.of
            IN (Told(e) /\ Told(f) /\ at[e] = "done" /\ answered[e] < asked[f]) => i < j

BlocksExact == P!BlocksExact
=============================================================================
