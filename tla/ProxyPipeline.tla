---------------------------- MODULE ProxyPipeline ---------------------------
(***************************************************************************)
(* ServeHTTP (proxy.go, streaming.go) for conversation endpoints: the      *)
(* handlers of concurrent requests drive the session tracking and, through *)
(* the MultiWriter (multi_writer.go), the file logger and the Loki         *)
(* exporter, while the upstream answers, fails or breaks off its stream.   *)
(*                                                                         *)
(* The components are instances: every step of a handler is a step of      *)
(* SessionTracking or of FileLogger, in the order of the handler.  Of the  *)
(* exporter only the entries it is offered are kept; what becomes of them  *)
(* is in LokiExporter.                                                     *)
(***************************************************************************)
EXTENDS Integers, Sequences, FiniteSets, SequencesExt

CONSTANTS
    Requests, Clients, NoClient, NoSession, Tools, Responses, DBErrors,
    Nobody, NoFile, MaxDay, MaxLives, DiskErrors

VARIABLES
    db, pc, client, results, sid, seq, isNew, state, calls, answers, turns, disturbed,
    closed, upstreams, files, mu, at, line, handle, result, disk, today, life,
    stage,      \* what the handler of each request does next
    reply,      \* what its client has received
    offered     \* the entries MultiWriter has pushed to the exporter

S == INSTANCE SessionTracking

\* Handlers log; a session has the ID of the request that created it.
L == INSTANCE FileLogger WITH Callers <- Requests, Sessions <- Requests, MaxCalls <- 3

\* What the components assume.
ASSUME PipelineAssumption ==
    /\ Requests # {}
    /\ NoClient \notin Clients /\ NoSession \notin S!Rows /\ S!NoTool \notin Tools
    /\ Responses \subseteq Seq(Tools)
    /\ DBErrors \in BOOLEAN /\ DiskErrors \in BOOLEAN
    /\ MaxDay \in Nat \ {0} /\ MaxLives \in Nat \ {0}
    /\ Nobody \notin Requests /\ NoFile \notin L!Files

sessionVars == <<db, pc, client, results, sid, seq, isNew, state, calls, answers,
                 turns, disturbed>>
loggerVars == <<closed, upstreams, files, mu, at, line, handle, result, disk, today, life>>
own == <<stage, reply, offered>>
vars == <<sessionVars, loggerVars, own>>

Init ==
    /\ S!Init /\ L!Init
    /\ stage = [r \in Requests |-> "new"]
    /\ reply = [r \in Requests |-> "none"]
    /\ offered = {}

Goes(r, from, to) == stage[r] = from /\ stage' = [stage EXCEPT ![r] = to]

(* The request arrives; its session is found, created, or made up.         *)
Arrive(r) ==
    /\ Goes(r, "new", "load")
    /\ \E c \in Clients \cup {NoClient} : S!GetOrCreateSession(r, c) \/ S!SessionFallback(r, c)
    /\ UNCHANGED <<loggerVars, reply, offered>>

\* Mutant of Load: session_start is never logged.
LoadSkipsStart(r) ==
    /\ Goes(r, "load", "request")
    /\ S!LoadPatternState(r) \/ S!LoadFails(r)
    /\ offered' = offered \cup {<<"turn_start", r>>}
    /\ UNCHANGED <<loggerVars, reply>>

(* The pattern state is loaded and turn_start emitted.  A new session logs *)
(* its session_start first.                                                *)
Load(r) ==
    /\ Goes(r, "load", IF isNew[r] THEN "session_start" ELSE "request")
    /\ S!LoadPatternState(r) \/ S!LoadFails(r)
    /\ offered' = offered \cup {<<"turn_start", r>>}
    /\ UNCHANGED <<loggerVars, reply>>

(* A call of the file logger begins, goes on,                              *)
LogCall(r) ==
    /\ stage[r] \in L!Kinds
    /\ L!Call(r, stage[r], sid[r])
    /\ UNCHANGED <<sessionVars, own>>

LogStep(r) == L!Step(r) /\ UNCHANGED <<sessionVars, own>>

(* and returns to MultiWriter, which pushes the entry to the exporter even *)
(* if the file logger failed, and to the handler, which ignores its error. *)
AfterLog(kind) ==
    CASE kind = "session_start" -> "request"
      [] kind = "request"       -> "forward"
      [] kind = "response"      -> "emit"

PushToLoki(r, kind) == offered' = offered \cup {<<kind, r>>}

\* Mutant of LogReturn: MultiWriter returns when the file logger fails.
LogReturnEarly(r) ==
    /\ L!Return(r)
    /\ stage' = [stage EXCEPT ![r] = AfterLog(@)]
    /\ IF result[r] = "ok" THEN PushToLoki(r, stage[r]) ELSE UNCHANGED offered
    /\ UNCHANGED <<sessionVars, reply>>

LogReturn(r) ==
    /\ L!Return(r)
    /\ stage' = [stage EXCEPT ![r] = AfterLog(@)]
    /\ PushToLoki(r, stage[r])
    /\ UNCHANGED <<sessionVars, reply>>

(* The upstream answers in full.  A buffered answer is kept until the      *)
(* handler returns, a stream has gone to the client by now.                *)
UpstreamAnswers(r) ==
    /\ Goes(r, "forward", "response")
    /\ \E got \in {"none", "full"} : reply' = [reply EXCEPT ![r] = got]
    /\ UNCHANGED <<sessionVars, loggerVars, offered>>

\* Mutant of UpstreamFails: a broken stream goes on to the events.
UpstreamFailsOn(r) ==
    /\ Goes(r, "forward", "emit")
    /\ reply' = [reply EXCEPT ![r] = "partial"]
    /\ UNCHANGED <<sessionVars, loggerVars, offered>>

(* It cannot be reached or a buffered answer breaks off: 502.  A stream    *)
(* breaks off, at either end, after part of it reached the client: the     *)
(* handler returns at once.                                                *)
UpstreamFails(r) ==
    /\ Goes(r, "forward", "end")
    /\ S!UpstreamFails(r)
    /\ \E got \in {"error", "partial"} : reply' = [reply EXCEPT ![r] = got]
    /\ UNCHANGED <<loggerVars, offered>>

(* Events of the response: tool calls, patterns, turn_end.                 *)
EmitEvents(r) ==
    /\ Goes(r, "emit", "update")
    /\ \E tools \in Responses :
        IF reply[r] = "full" THEN S!RespondStreaming(r, tools) ELSE S!RespondBuffered(r, tools)
    /\ offered' = offered \cup {<<"turn_end", r>>}
    /\ UNCHANGED <<loggerVars, reply>>

(* The pattern state is written and the handler returns.                   *)
Update(r) ==
    /\ Goes(r, "update", "end")
    /\ S!UpdatePatternState(r) \/ S!UpdateFails(r)
    /\ reply' = [reply EXCEPT ![r] = "full"]
    /\ UNCHANGED <<loggerVars, offered>>

(* The process dies, on its own or by the data race of the logger, and is  *)
(* started again.  Requests under way are lost, memory is empty, database  *)
(* and files are as they were.                                             *)
Restart ==
    /\ L!Restart \/ L!FatalRace
    /\ S!Restart \/ ((\A r \in Requests : ~S!Active(r)) /\ UNCHANGED sessionVars)
    /\ stage' = [r \in Requests |-> IF S!Active(r) THEN "crashed" ELSE stage[r]]
    /\ UNCHANGED <<reply, offered>>

Midnight == L!Midnight /\ UNCHANGED <<sessionVars, own>>

\* What the handler does by itself, and what it waits for.
Handle(r) == Load(r) \/ LogCall(r) \/ LogStep(r) \/ LogReturn(r) \/ EmitEvents(r) \/ Update(r)
Upstream(r) == UpstreamAnswers(r) \/ UpstreamFails(r)

Next ==
    \/ \E r \in Requests : Arrive(r) \/ Handle(r) \/ Upstream(r)
    \/ Restart \/ Midnight

(* Handlers are scheduled and take the mutex in turn.  Nothing is assumed  *)
(* of the upstream: the HTTP client has no timeout.                        *)
Spec == Init /\ [][Next]_vars
FairSpec == Spec /\ \A r \in Requests : WF_vars(Handle(r))

-----------------------------------------------------------------------------
(* Properties                                                              *)

(* Type invariant: the components' own, and the pipeline's stages.         *)
TypeOK ==
    /\ S!TypeOK /\ L!TypeOK
    /\ stage \in [Requests -> {"new", "load", "session_start", "request", "forward",
                               "response", "emit", "update", "end", "crashed"}]
    /\ reply \in [Requests -> {"none", "error", "partial", "full"}]
    /\ offered \subseteq {"turn_start", "session_start", "request", "response", "turn_end"}
                             \X Requests

\* The log of a session: its files by date.
Log(s) == FlattenSeq([d \in 1..MaxDay |-> disk[<<s, d>>]])
Logged(kind, r) == \E i \in DOMAIN Log(sid[r]) :
                        Log(sid[r])[i].kind = kind /\ Log(sid[r])[i].call[1] = r

Rank(kind) == CASE kind = "session_start" -> 1 [] kind = "request" -> 2 [] kind = "response" -> 3

Precedes(x, y) ==
    \/ seq[x.call[1]] < seq[y.call[1]]
    \/ seq[x.call[1]] = seq[y.call[1]] /\ Rank(x.kind) < Rank(y.kind)

(* The log of a session whose requests did not overlap reads as the        *)
(* conversation went: session_start, then request and response by sequence *)
(* number, whatever failed, across midnight and restarts.                  *)
QuietLogInOrder ==
    \A s \in Requests \ disturbed :
        /\ \A i, j \in DOMAIN Log(s) : i < j => Precedes(Log(s)[i], Log(s)[j])
        /\ ~DiskErrors => \A i \in DOMAIN Log(s) : i = 1 => Log(s)[i].kind = "session_start"

\* The request was served: the process did not die under it.
Served(r) == stage[r] = "end"

\* The request is in the log, and the response if the client has all of it.
ExchangeLogged(r) == Logged("request", r) /\ (reply[r] = "full" => Logged("response", r))

(* A session whose requests do not overlap has every exchange in its log   *)
(* that was served by the process that opened the session, so that the     *)
(* losses LogsEveryExchange names are the only ones.  (line[r].life is the *)
(* life in which r last logged.)                                           *)
QuietExchangesLogged ==
    ~DiskErrors =>
        \A r \in Requests :
            (Served(r) /\ sid[r] \notin disturbed /\ line[sid[r]].life = line[r].life) =>
                ExchangeLogged(r)

(* A session's entries are in one file for ever, across restarts and       *)
(* midnights: the explorer shows the first file that bears the session's   *)
(* name (findSessionFile) and takes it for the whole conversation.         *)
OneFileForReader ==
    \A s \in Requests : \A d, e \in 1..MaxDay :
        (disk[<<s, d>>] # <<>> /\ disk[<<s, e>>] # <<>>) => d = e

(* "Logs every request and response" (README.md).  The code does not when  *)
(* the process was restarted since the session began, nor when a request   *)
(* logs before the first one's session_start has registered the session.   *)
LogsEveryExchange == \A r \in Requests : Served(r) => ExchangeLogged(r)

(* Loki is offered the exchange whether or not the file has it: the        *)
(* request of every reply, the response of every complete one, and the     *)
(* session_start of every session; and no response without its request.    *)
LokiOffered ==
    \A r \in Requests :
        /\ reply[r] # "none" => <<"request", r>> \in offered
        /\ Served(r) /\ reply[r] = "full" =>
              {<<"response", r>>, <<"turn_start", r>>, <<"turn_end", r>>} \subseteq offered
        /\ <<"response", r>> \in offered => <<"request", r>> \in offered
        /\ <<"request", r>> \in offered /\ isNew[r] => <<"session_start", r>> \in offered

(* Database and log agree on a session whose requests never overlapped:    *)
(* the database counts no turn whose response the log does not have.       *)
CountsAreLogged ==
    (life = 1 /\ ~DiskErrors) =>
        \A s \in Requests \ disturbed :
            db[s] # NoSession =>
                db[s].state.TurnCount <=
                    Cardinality({i \in DOMAIN Log(s) : Log(s)[i].kind = "response"})

(* Logging never holds up a request: once a handler has its request it     *)
(* forwards it, and once the upstream has answered the client has its      *)
(* reply, in spite of the shared mutex and of everything that can fail.    *)
(* Requests being finitely many, time and again no handler is in between.  *)
NeverHeldUp ==
    []<>(\A r \in Requests : stage[r] \in {"new", "forward", "end", "crashed"})
=============================================================================
