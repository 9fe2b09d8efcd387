-------------------------- MODULE SessionTracking ---------------------------
(***************************************************************************)
(* Sessions and their pattern state (session.go, db.go) under concurrent   *)
(* requests (the session half of ServeHTTP in proxy.go).                   *)
(*                                                                         *)
(* Each request is a goroutine.  It finds or creates its session, loads    *)
(* the pattern state, works on its own copy while the upstream answers,    *)
(* and writes the whole copy back.  Each of the three database calls holds *)
(* the mutex of the SessionManager; nothing is held between them.          *)
(*                                                                         *)
(* A request is named by an element of Requests and so is the session it   *)
(* creates: generated session IDs are taken to be distinct.                *)
(***************************************************************************)
EXTENDS ToolPatterns

CONSTANTS
    Requests,      \* requests to conversation endpoints, each made once
    Clients,       \* session IDs clients provide
    NoClient,      \* a request without one
    NoSession,     \* no row in the sessions table
    Tools,         \* names of tools
    Responses,     \* sequences of tools a response can call
    DBErrors       \* TRUE if database calls can fail

CallRecords == [id : Requests \X Nat, tool : Tools]
ResultRecords == [id : Requests \X Nat, error : BOOLEAN]

PatternStates ==
    [TurnCount : Nat, LastToolName : Tools \cup {NoTool}, ToolStreak : Nat,
     RetryCount : Nat, SessionToolCount : Nat, LastWasError : BOOLEAN,
     PendingToolIDs : SUBSET CallRecords]

\* The columns of the sessions table the program reads back.
Rows == [client : Clients \cup {NoClient}, last_seq : Nat, state : PatternStates]

ASSUME SessionAssumption ==
    /\ NoClient \notin Clients
    /\ NoSession \notin Rows
    /\ NoTool \notin Tools
    /\ Responses \subseteq Seq(Tools)
    /\ DBErrors \in BOOLEAN

VARIABLES
    db,         \* the sessions table: a row or NoSession for each session ID
    pc,         \* where each request is
    client,     \* client session ID of the request
    results,    \* tool results in its body
    sid, seq, isNew,    \* what GetOrCreateSession returned to it
    state,      \* its copy of the pattern state
    calls,      \* tool calls of its response
    answers,    \* external: results each client holds of the calls it received
    turns,      \* history: the turns of each session whose state was written
    disturbed   \* history: sessions with two requests at once or a failed load

vars == <<db, pc, client, results, sid, seq, isNew, state, calls, answers, turns, disturbed>>

identity == <<client, sid, seq, isNew>>
request == <<client, results, sid, seq, isNew>>

Active(r) == pc[r] \in {"located", "loaded", "responded", "streamed"}

Init ==
    /\ db = [s \in Requests |-> NoSession]
    /\ pc = [r \in Requests |-> "idle"]
    /\ client = [r \in Requests |-> NoClient]
    /\ results = [r \in Requests |-> {}]
    /\ sid = [r \in Requests |-> r]
    /\ seq = [r \in Requests |-> 0]
    /\ isNew = [r \in Requests |-> FALSE]
    /\ state = [r \in Requests |-> FreshState]
    /\ calls = [r \in Requests |-> <<>>]
    /\ answers = [c \in Clients \cup {NoClient} |-> {}]
    /\ turns = [s \in Requests |-> <<>>]
    /\ disturbed = {}

\* Mutant of SessionsOf: any session will do.
SessionsOfAny(c) == {s \in Requests : db[s] # NoSession /\ c # NoClient}

(* FindByClientSessionID: the sessions that carry the ID.                  *)
SessionsOf(c) == {s \in Requests : db[s] # NoSession /\ c # NoClient /\ db[s].client = c}

(* A request arrives.  Its body carries the client's whole history, as the *)
(* messages API has it, or none (another conversation in the session).     *)
Arrive(r, c) ==
    /\ pc[r] = "idle"
    /\ client' = [client EXCEPT ![r] = c]
    /\ \E b \in {{}, answers[c]} : results' = [results EXCEPT ![r] = b]

Located(r, s, n, new) ==
    /\ pc' = [pc EXCEPT ![r] = "located"]
    /\ sid' = [sid EXCEPT ![r] = s]
    /\ seq' = [seq EXCEPT ![r] = n]
    /\ isNew' = [isNew EXCEPT ![r] = new]
    /\ disturbed' = IF \E q \in Requests \ {r} : Active(q) /\ sid[q] = s
                     THEN disturbed \cup {s} ELSE disturbed
    /\ UNCHANGED <<state, calls, answers, turns>>

\* Mutants of Continue: the number is not stored; it is not incremented.
ContinueUnsaved(r, c) ==
    \E s \in SessionsOf(c) : UNCHANGED db /\ Located(r, s, db[s].last_seq + 1, FALSE)

ContinueUnnumbered(r, c) ==
    \E s \in SessionsOf(c) :
        /\ db' = [db EXCEPT ![s].last_seq = @ + 1]
        /\ Located(r, s, db[s].last_seq, FALSE)

(* getOrCreateByClientSessionID, an existing session: its next number.     *)
Continue(r, c) ==
    \E s \in SessionsOf(c) :
        /\ db' = [db EXCEPT ![s].last_seq = @ + 1]
        /\ Located(r, s, db[s].last_seq + 1, FALSE)

(* createNewSession and createNewSessionWithClientID.                      *)
Create(r, c) ==
    /\ SessionsOf(c) = {}
    /\ db' = [db EXCEPT ![r] = [client |-> c, last_seq |-> 1, state |-> FreshState]]
    /\ Located(r, r, 1, TRUE)

GetOrCreateSession(r, c) == Arrive(r, c) /\ (Continue(r, c) \/ Create(r, c))

\* Mutant of SessionFallback: the request goes on without a session ID.
SessionFallbackNoID(r, c) ==
    /\ DBErrors
    /\ Arrive(r, c)
    /\ UNCHANGED db
    /\ Located(r, NoSession, 1, TRUE)

(* It fails: ServeHTTP goes on with a session the database does not know.  *)
SessionFallback(r, c) ==
    /\ DBErrors
    /\ Arrive(r, c)
    /\ UNCHANGED db
    /\ Located(r, r, 1, TRUE)

(* The handlers are gone, and with them the body, state and calls they had. *)
Forget(gone) ==
    /\ results' = [r \in Requests |-> IF r \in gone THEN {} ELSE results[r]]
    /\ state' = [r \in Requests |-> IF r \in gone THEN FreshState ELSE state[r]]
    /\ calls' = [r \in Requests |-> IF r \in gone THEN <<>> ELSE calls[r]]

Stored(s) == IF db[s] = NoSession THEN FreshState ELSE db[s].state

Begin(r, loaded) ==
    /\ pc[r] = "located"
    /\ pc' = [pc EXCEPT ![r] = "loaded"]
    /\ state' = [state EXCEPT ![r] = AfterRequest(loaded, results[r])]
    /\ UNCHANGED <<db, request, calls, answers, turns>>

(* LoadPatternState; the tool results are matched and the turn counted.    *)
LoadPatternState(r) == Begin(r, Stored(sid[r])) /\ UNCHANGED disturbed

(* A failed load is taken for a new session.                               *)
LoadFails(r) ==
    /\ DBErrors
    /\ Begin(r, FreshState)
    /\ disturbed' = disturbed \cup {sid[r]}

(* The calls of a response, with an ID each, and the results the client    *)
(* will hold once it has run the tools.                                    *)
CallsOf(r, tools) == [i \in DOMAIN tools |-> [id |-> <<r, i>>, tool |-> tools[i]]]

Receives(r, tools) ==
    \E err \in SUBSET DOMAIN tools :
        answers' = [answers EXCEPT ![client[r]] =
                        @ \cup {[id |-> <<r, i>>, error |-> i \in err] : i \in DOMAIN tools}]

(* The response is complete: its calls are counted, the patterns computed, *)
(* and turn_end emitted (emitResponseEvents up to the write).              *)
EmitResponse(r, tools) ==
    /\ pc[r] = "loaded"
    /\ calls' = [calls EXCEPT ![r] = CallsOf(r, tools)]
    /\ state' = [state EXCEPT ![r] = AfterResponse(@, CallsOf(r, tools))]
    /\ UNCHANGED <<db, request, turns, disturbed>>

(* A buffered response reaches the client when the handler returns, a      *)
(* stream has reached it by now.                                           *)
RespondBuffered(r, tools) ==
    /\ EmitResponse(r, tools)
    /\ pc' = [pc EXCEPT ![r] = "responded"]
    /\ UNCHANGED answers

RespondStreaming(r, tools) ==
    /\ EmitResponse(r, tools)
    /\ pc' = [pc EXCEPT ![r] = "streamed"]
    /\ Receives(r, tools)

(* The upstream cannot be reached or fails before its answer is complete:  *)
(* ServeHTTP and streamResponse return, and the copy is forgotten.         *)
UpstreamFails(r) ==
    /\ pc[r] = "loaded"
    /\ pc' = [pc EXCEPT ![r] = "failed"]
    /\ Forget({r})
    /\ UNCHANGED <<db, identity, answers, turns, disturbed>>

(* The handler returns, and the client has the response.                   *)
Finish(r) ==
    /\ pc[r] \in {"responded", "streamed"}
    /\ pc' = [pc EXCEPT ![r] = "done"]
    /\ IF pc[r] = "responded"
       THEN Receives(r, [i \in DOMAIN calls[r] |-> calls[r][i].tool])
       ELSE UNCHANGED answers
    /\ Forget({r})
    /\ UNCHANGED <<identity, disturbed>>

(* UpdatePatternState overwrites the whole state of the row, if there is   *)
(* one.                                                                    *)
UpdatePatternState(r) ==
    /\ Finish(r)
    /\ IF db[sid[r]] = NoSession
       THEN UNCHANGED <<db, turns>>
       ELSE /\ db' = [db EXCEPT ![sid[r]].state = state[r]]
            /\ turns' = [turns EXCEPT ![sid[r]] =
                            Append(@, [results |-> results[r], calls |-> calls[r]])]

(* Its error is ignored.                                                   *)
UpdateFails(r) ==
    /\ DBErrors
    /\ Finish(r)
    /\ UNCHANGED <<db, turns>>

(* The process dies and is started again: the database survives, the       *)
(* requests under way do not.                                              *)
Restart ==
    /\ \E r \in Requests : Active(r)
    /\ pc' = [r \in Requests |-> IF Active(r) THEN "failed" ELSE pc[r]]
    /\ Forget({r \in Requests : Active(r)})
    /\ UNCHANGED <<db, identity, answers, turns, disturbed>>

Handle(r) ==
    \/ \E c \in Clients \cup {NoClient} : GetOrCreateSession(r, c) \/ SessionFallback(r, c)
    \/ LoadPatternState(r) \/ LoadFails(r)
    \/ \E tools \in Responses : RespondBuffered(r, tools) \/ RespondStreaming(r, tools)
    \/ UpstreamFails(r)
    \/ UpdatePatternState(r) \/ UpdateFails(r)

Next == Restart \/ \E r \in Requests : Handle(r)

Spec == Init /\ [][Next]_vars

-----------------------------------------------------------------------------
(* Properties                                                              *)

(* Type invariant: rows, local copies and control states in their ranges.  *)
TypeOK ==
    /\ db \in [Requests -> Rows \cup {NoSession}]
    /\ pc \in [Requests -> {"idle", "located", "loaded", "responded", "streamed",
                            "done", "failed"}]
    /\ client \in [Requests -> Clients \cup {NoClient}]
    /\ results \in [Requests -> SUBSET ResultRecords]
    /\ sid \in [Requests -> Requests]
    /\ seq \in [Requests -> Nat]
    /\ isNew \in [Requests -> BOOLEAN]
    /\ state \in [Requests -> PatternStates]
    /\ calls \in [Requests -> Seq(CallRecords)]
    /\ answers \in [Clients \cup {NoClient} -> SUBSET ResultRecords]
    /\ turns \in [Requests -> Seq([results : SUBSET ResultRecords, calls : Seq(CallRecords)])]
    /\ disturbed \subseteq Requests

Members(s) == {r \in Requests : pc[r] # "idle" /\ sid[r] = s}

(* The requests of a session are numbered 1, 2, ... without gap or repeat, *)
(* whatever the interleaving, and the first of them alone opens it: the    *)
(* log orders a conversation by these numbers.                             *)
SeqConsecutive ==
    \A s \in Requests : db[s] # NoSession =>
        /\ {seq[r] : r \in Members(s)} = 1..db[s].last_seq
        /\ \A q, r \in Members(s) : q # r => seq[q] # seq[r]
        /\ \A r \in Members(s) : isNew[r] <=> seq[r] = 1

(* A client's requests share one session and never another client's; a     *)
(* request without a client ID has a session of its own.                   *)
OneSessionPerClient ==
    \A q, r \in {r \in Requests : pc[r] # "idle" /\ db[sid[r]] # NoSession} :
        q # r => (sid[q] = sid[r] <=> (client[q] = client[r] /\ client[q] # NoClient))

(* As long as no two requests of a session overlap and its state can be    *)
(* read, what is stored is what its history says in the words of           *)
(* PatternState's comments (db.go): turns, tool calls, streak, tool of the *)
(* last turn and unanswered calls, across failed requests, failed writes   *)
(* and restarts.  So are retries and the error of the last turn where the  *)
(* bodies bring the results of the previous turn only; where they bring    *)
(* older ones again (ResultsOfPreviousTurn) none is missed.                *)
SerialExact ==
    \A s \in Requests : (db[s] # NoSession /\ s \notin disturbed) =>
        MatchesHistory(db[s].state, turns[s])

(* Whatever overlaps or fails, the database never counts more turns in a   *)
(* session than were completed: overlaps and errors only lose counts.      *)
NeverOvercounts ==
    \A s \in Requests : db[s] # NoSession => db[s].state.TurnCount <= Len(turns[s])

(* "TurnCount: Number of request-response cycles in this session" (db.go): *)
(* once all requests of a session have ended, no completed cycle is        *)
(* missing from the count.                                                 *)
TurnCountIsCycles ==
    \A s \in Requests :
        (db[s] # NoSession /\ \A r \in Members(s) : ~Active(r)) =>
            db[s].state.TurnCount = Len(turns[s])

(* "These are results from the PREVIOUS turn's tool calls" (proxy.go): a   *)
(* request is not charged with a result that an earlier turn brought.      *)
ResultsOfPreviousTurn ==
    \A r \in Requests :
        (pc[r] = "loaded" /\ sid[r] \notin disturbed) =>
            \A i \in DOMAIN turns[sid[r]] : turns[sid[r]][i].results \cap results[r] = {}

-----------------------------------------------------------------------------
(* What makes the numbering and the identity of sessions inductive: a row  *)
(* belongs to the request that created it, a request is in a session of    *)
(* its own client, and no two rows carry the same client ID.               *)
SessionInv ==
    /\ \A s \in Requests : db[s] # NoSession =>
         /\ pc[s] # "idle" /\ sid[s] = s
         /\ \A t \in Requests : (db[t] # NoSession /\ db[t].client = db[s].client) =>
                (s = t \/ db[s].client = NoClient)
    /\ \A r \in Requests :
         /\ sid[r] # r => db[sid[r]] # NoSession /\ client[r] # NoClient /\ pc[r] # "idle"
         /\ (pc[r] # "idle" /\ db[sid[r]] # NoSession) => db[sid[r]].client = client[r]

(* A copy counts at most one turn more than its session has completed.     *)
CopyInv ==
    \A r \in Requests :
        pc[r] \in {"loaded", "responded", "streamed"} =>
            state[r].TurnCount <= Len(turns[sid[r]]) + 1

(* What makes SerialExact inductive.  The IDs of calls in a history are    *)
(* those of requests that are done, so that the next turn's are new.       *)
Responded(r) == pc[r] \in {"responded", "streamed"}

IDsSpent(s) == \A c \in Calls(turns[s]) : pc[c.id[1]] = "done"
OwnIDs(r) == Responded(r) => \A k \in DOMAIN calls[r] : calls[r][k].id = <<r, k>>

(* As long as a session is undisturbed, the one request under way has a    *)
(* copy of what is stored, brought to where it is.                         *)
InStep(r) ==
    sid[r] \notin disturbed =>
        /\ \A q \in Requests \ {r} : ~(Active(q) /\ Active(r) /\ sid[q] = sid[r])
        /\ pc[r] = "loaded" => state[r] = AfterRequest(Stored(sid[r]), results[r])
        /\ Responded(r) =>
             state[r] = AfterResponse(AfterRequest(Stored(sid[r]), results[r]), calls[r])

SerialInv ==
    \A r \in Requests :
        /\ IDsSpent(r) /\ OwnIDs(r) /\ InStep(r)
        /\ r \notin disturbed => Tracks(Stored(r), turns[r])

(* A session is opened by the request it is named after.  As long as it is *)
(* undisturbed, the request under way is its newest.                       *)
NewestInv ==
    \A r \in Requests :
        /\ pc[r] # "idle" => (isNew[r] <=> sid[r] = r)
        /\ (Active(r) /\ sid[r] \notin disturbed) =>
              \A q \in Members(sid[r]) \ {r} : seq[q] < seq[r]

(* Every turn of a history was written by a request that is done.          *)
Done(s) == {r \in Requests : pc[r] = "done" /\ sid[r] = s}

WritersInv ==
    \A s \in Requests : IsFiniteSet(Done(s)) /\ Len(turns[s]) <= Cardinality(Done(s))
=============================================================================
