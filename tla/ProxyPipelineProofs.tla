------------------------- MODULE ProxyPipelineProofs -------------------------
(***************************************************************************)
(* Proofs about the handlers of ServeHTTP: that they compose the session   *)
(* tracking and the file logger, what follows of their own theorems, and   *)
(* what needs both.  For any set of requests, clients and responses, any   *)
(* number of days and of lives of the process, with or without errors.     *)
(***************************************************************************)
EXTENDS ProxyPipeline, SequenceTheorems, FiniteSetTheorems, WellFoundedInduction, TLAPS

\* The theorems about the components.
SP == INSTANCE SessionTrackingProofs
LP == INSTANCE FileLoggerProofs WITH Callers <- Requests, Sessions <- Requests, MaxCalls <- 3

-----------------------------------------------------------------------------
(* The components are instances of their specifications, their theorems of *)
(* the modules that extend these: the definitions are the same.            *)

LEMMA SameSession ==
    (S!Init <=> SP!Init) /\ ([S!Next]_(S!vars) <=> [SP!Next]_(SP!vars))
BY DEF S!FreshState, SP!FreshState, S!NoTool, SP!NoTool, S!Init, SP!Init,
       S!vars, SP!vars, S!identity, SP!identity, S!request, SP!request,
       S!Active, SP!Active, S!SessionsOf, SP!SessionsOf, S!Arrive, SP!Arrive,
       S!Located, SP!Located, S!Continue, SP!Continue, S!Create, SP!Create,
       S!GetOrCreateSession, SP!GetOrCreateSession, S!SessionFallback,
       SP!SessionFallback, S!Forget, SP!Forget, S!Stored, SP!Stored, S!Begin,
       SP!Begin, S!AfterRequest, SP!AfterRequest, S!LoadPatternState,
       SP!LoadPatternState, S!LoadFails, SP!LoadFails, S!CallsOf, SP!CallsOf,
       S!Receives, SP!Receives, S!IsRetry, SP!IsRetry, S!ComputePatterns,
       SP!ComputePatterns, S!FirstTool, SP!FirstTool, S!AddPending,
       SP!AddPending, S!AfterResponse, SP!AfterResponse, S!EmitResponse,
       SP!EmitResponse, S!RespondBuffered, SP!RespondBuffered,
       S!RespondStreaming, SP!RespondStreaming, S!UpstreamFails,
       SP!UpstreamFails, S!Finish, SP!Finish, S!UpdatePatternState,
       SP!UpdatePatternState, S!UpdateFails, SP!UpdateFails, S!Restart,
       SP!Restart, S!Handle, SP!Handle, S!Next, SP!Next

LEMMA SameSessionTypes == S!TypeOK <=> SP!TypeOK
BY DEF S!TypeOK, SP!TypeOK, S!Rows, SP!Rows, S!PatternStates,
       SP!PatternStates, S!CallRecords, SP!CallRecords, S!ResultRecords,
       SP!ResultRecords, S!NoTool, SP!NoTool

LEMMA SameLogger ==
    (L!Init <=> LP!Init) /\ ([L!Next]_(L!vars) <=> [LP!Next]_(LP!vars))
BY DEF L!maps, LP!maps, L!world, LP!world, L!call, LP!call, L!vars, LP!vars,
       L!Init, LP!Init, L!Call, LP!Call, L!Moves, LP!Moves, L!LockUpstreams,
       LP!LockUpstreams, L!RegisterUpstream, LP!RegisterUpstream,
       L!BeginLookup, LP!BeginLookup, L!Racing, LP!Racing, L!Lookup,
       LP!Lookup, L!Returns, LP!Returns, L!UseFile, LP!UseFile, L!OpenFile,
       LP!OpenFile, L!NoFileFor, LP!NoFileFor, L!GetFile, LP!GetFile,
       L!WriteLine, LP!WriteLine, L!WriteFails, LP!WriteFails, L!WriteEntry,
       LP!WriteEntry, L!Return, LP!Return, L!Close, LP!Close, L!Restart,
       LP!Restart, L!FatalRace, LP!FatalRace, L!Midnight, LP!Midnight, L!Step,
       LP!Step, L!Next, LP!Next, L!Kinds, LP!Kinds, L!Files, LP!Files, L!Days,
       LP!Days, L!Lines, LP!Lines

LEMMA SameLoggerTypes == L!TypeOK <=> LP!TypeOK
BY DEF L!TypeOK, LP!TypeOK, L!Kinds, LP!Kinds, L!Files, LP!Files, L!Days,
       LP!Days, L!Lines, LP!Lines

LEMMA SessionTypes == S!Spec => []S!TypeOK
<1>1. S!Rows = SP!Rows /\ S!NoTool = SP!NoTool
  BY DEF S!Rows, SP!Rows, S!PatternStates, SP!PatternStates, S!CallRecords, SP!CallRecords,
         S!NoTool, SP!NoTool
<1>2. SP!Spec => []SP!TypeOK
  BY <1>1, SP!TypeCorrect, PipelineAssumption
<1> QED
  BY <1>2, SameSession, SameSessionTypes, PTL DEF S!Spec, SP!Spec

LEMMA LoggerTypes == L!Spec => []L!TypeOK
<1>1. LP!Spec => []LP!TypeOK
  BY LP!TypeCorrect, PipelineAssumption DEF L!Files, LP!Files, L!Days, LP!Days
<1> QED
  BY <1>1, SameLogger, SameLoggerTypes, PTL DEF L!Spec, LP!Spec

-----------------------------------------------------------------------------
(* The handlers of ServeHTTP compose the components.                       *)

LEMMA SessionStep == [Next]_vars => [S!Next]_(S!vars)
<1> SUFFICES ASSUME [Next]_vars PROVE [S!Next]_(S!vars)
  OBVIOUS
<1>1. ASSUME NEW r \in Requests, Arrive(r) PROVE S!Next
  BY <1>1 DEF Arrive, S!Next, S!Handle
<1>2. ASSUME NEW r \in Requests, Load(r) PROVE S!Next
  BY <1>2 DEF Load, S!Next, S!Handle
<1>3. ASSUME NEW r \in Requests, UpstreamFails(r) PROVE S!Next
  BY <1>3 DEF UpstreamFails, S!Next, S!Handle
<1>4. ASSUME NEW r \in Requests, EmitEvents(r) PROVE S!Next
  <2>1. PICK tools \in Responses : S!RespondStreaming(r, tools) \/ S!RespondBuffered(r, tools)
    BY <1>4 DEF EmitEvents
  <2> QED
    BY <2>1 DEF S!Next, S!Handle
<1>5. ASSUME NEW r \in Requests, Update(r) PROVE S!Next
  BY <1>5 DEF Update, S!Next, S!Handle
<1>6. ASSUME NEW r \in Requests, LogCall(r) \/ LogStep(r) \/ LogReturn(r) \/ UpstreamAnswers(r)
      PROVE  UNCHANGED S!vars
  BY <1>6 DEF LogCall, LogStep, LogReturn, UpstreamAnswers, sessionVars, S!vars
<1>7. CASE Restart
  BY <1>7 DEF Restart, S!Next, sessionVars, S!vars
<1>8. CASE Midnight \/ UNCHANGED vars
  BY <1>8 DEF Midnight, vars, sessionVars, S!vars
<1> QED
  BY <1>1, <1>2, <1>3, <1>4, <1>5, <1>6, <1>7, <1>8 DEF Next, Handle, Upstream

LEMMA LoggerStep == S!TypeOK /\ [Next]_vars => [L!Next]_(L!vars)
<1> SUFFICES ASSUME S!TypeOK, [Next]_vars PROVE [L!Next]_(L!vars)
  OBVIOUS
<1> USE DEF loggerVars, L!vars, L!maps, L!call, L!world
<1>1. ASSUME NEW r \in Requests,
             \/ Arrive(r) \/ Load(r) \/ EmitEvents(r) \/ Update(r)
             \/ UpstreamAnswers(r) \/ UpstreamFails(r)
      PROVE  UNCHANGED L!vars
  BY <1>1 DEF Arrive, Load, EmitEvents, Update, UpstreamAnswers, UpstreamFails
<1>2. ASSUME NEW r \in Requests, LogCall(r) PROVE L!Next
  <2>1. stage[r] \in L!Kinds /\ sid[r] \in Requests /\ L!Call(r, stage[r], sid[r])
    BY <1>2 DEF LogCall, S!TypeOK
  <2> QED
    BY <2>1 DEF L!Next
<1>3. ASSUME NEW r \in Requests, LogStep(r) \/ LogReturn(r) PROVE L!Next
  BY <1>3 DEF LogStep, LogReturn, L!Next
<1>4. CASE Restart
  BY <1>4 DEF Restart, L!Next
<1>5. CASE Midnight
  BY <1>5 DEF Midnight, L!Next
<1>6. CASE UNCHANGED vars
  BY <1>6 DEF vars
<1> QED
  BY <1>1, <1>2, <1>3, <1>4, <1>5, <1>6 DEF Next, Handle, Upstream

(* What happens to the database and to the handlers' copies under          *)
(* ServeHTTP is a behaviour of SessionTracking, and what happens to maps   *)
(* and files is one of FileLogger: what is checked and proved of either is *)
(* true of the two together.                                               *)
THEOREM ComponentsImplemented == Spec => S!Spec /\ L!Spec
<1>1. Spec => S!Spec
  <2>1. Init => S!Init
    BY DEF Init
  <2> QED
    BY <2>1, SessionStep, PTL DEF Spec, S!Spec
<1>2. Spec => []S!TypeOK
  BY <1>1, SessionTypes, PTL
<1>3. Spec => L!Spec
  <2>1. Init => L!Init
    BY DEF Init
  <2> QED
    BY <1>2, <2>1, LoggerStep, PTL DEF Spec, L!Spec
<1> QED
  BY <1>1, <1>3, PTL

(* Under concurrent handlers of ServeHTTP the requests of a session are    *)
(* numbered without gap, clients keep their sessions and the stored state  *)
(* of an undisturbed session is what its history says (session.go); the    *)
(* files hold each handler's lines in order and no result of the logger is *)
(* false (logger.go).                                                      *)
THEOREM ComponentsSafe ==
    Spec => []( /\ S!SeqConsecutive /\ S!OneSessionPerClient /\ S!SerialExact
                /\ L!CallsInOrder /\ L!ResultsAreTrue)
<1>1. S!Spec => [](S!SeqConsecutive /\ S!OneSessionPerClient /\ S!SerialExact)
  <2>1. S!Rows = SP!Rows /\ S!NoTool = SP!NoTool
    BY DEF S!Rows, SP!Rows, S!PatternStates, SP!PatternStates, S!CallRecords, SP!CallRecords,
           S!NoTool, SP!NoTool
  <2>2. SP!Spec => [](SP!SeqConsecutive)
    BY <2>1, SP!SeqConsecutiveHolds, PipelineAssumption
  <2>3. SP!Spec => [](SP!OneSessionPerClient)
    BY <2>1, SP!OneSessionPerClientHolds, PipelineAssumption
  <2>4. /\ S!SeqConsecutive <=> SP!SeqConsecutive
        /\ S!OneSessionPerClient <=> SP!OneSessionPerClient
    BY DEF S!SeqConsecutive, SP!SeqConsecutive, S!OneSessionPerClient, SP!OneSessionPerClient,
           S!Members, SP!Members
  <2>5. SP!Spec => [](SP!SerialExact)
    BY <2>1, SP!SerialExactHolds, PipelineAssumption
  <2>6. S!SerialExact <=> SP!SerialExact
    <3>1. \A T : S!Cardinality(T) = SP!Cardinality(T)
      BY DEF S!Cardinality, SP!Cardinality
    <3>2. /\ S!NoTool = SP!NoTool /\ \A h, i : S!First(h, i) = SP!First(h, i)
          /\ \A n : S!Longest(n) = SP!Longest(n)
      BY DEF S!NoTool, SP!NoTool, S!First, SP!First, S!FirstTool, SP!FirstTool,
             S!Longest, SP!Longest
    <3>3. \A h : /\ \A i : S!SameTool(h, i) <=> SP!SameTool(h, i)
                 /\ \A i : S!PreviousFailed(h, i) <=> SP!PreviousFailed(h, i)
                 /\ \A i : S!Retried(h, i) <=> SP!Retried(h, i)
                 /\ \A i : S!OwnResults(h, i) <=> SP!OwnResults(h, i)
      BY <3>2 DEF S!SameTool, SP!SameTool, S!PreviousFailed, SP!PreviousFailed, S!Retried,
                  SP!Retried, S!OwnResults, SP!OwnResults
    <3>4. \A h : /\ S!Streak(h) = SP!Streak(h) /\ S!Retries(h) = SP!Retries(h)
                 /\ S!Calls(h) = SP!Calls(h) /\ S!Unanswered(h) = SP!Unanswered(h)
      BY <3>2, <3>3 DEF S!Streak, SP!Streak, S!Retries, SP!Retries, S!Calls, SP!Calls,
                        S!Unanswered, SP!Unanswered
    <3>5. \A st, h : S!MatchesHistory(st, h) <=> SP!MatchesHistory(st, h)
      BY <3>1, <3>2, <3>3, <3>4 DEF S!MatchesHistory, SP!MatchesHistory
    <3> QED
      BY <3>5 DEF S!SerialExact, SP!SerialExact
  <2> QED
    BY <2>2, <2>3, <2>4, <2>5, <2>6, SameSession, PTL DEF S!Spec, SP!Spec
<1>2. L!Spec => [](L!CallsInOrder /\ L!ResultsAreTrue)
  <2>1. LP!Spec => [](LP!CallsInOrder)
    BY LP!CallsInOrderHolds, PipelineAssumption DEF L!Files, LP!Files, L!Days, LP!Days
  <2>2. LP!Spec => [](LP!ResultsAreTrue)
    BY LP!ResultsAreTrueHolds, PipelineAssumption DEF L!Files, LP!Files, L!Days, LP!Days
  <2>3. (L!CallsInOrder <=> LP!CallsInOrder) /\ (L!ResultsAreTrue <=> LP!ResultsAreTrue)
    BY DEF L!CallsInOrder, LP!CallsInOrder, L!ResultsAreTrue, LP!ResultsAreTrue,
           L!OnDisk, LP!OnDisk, L!Files, LP!Files, L!Days, LP!Days
  <2> QED
    BY <2>1, <2>2, <2>3, SameLogger, PTL DEF L!Spec, LP!Spec
<1> QED
  BY <1>1, <1>2, ComponentsImplemented, PTL

LEMMA PipelineTypes == Spec => [](S!TypeOK /\ L!TypeOK)
BY ComponentsImplemented, SessionTypes, LoggerTypes, PTL

-----------------------------------------------------------------------------
(* What Loki is offered.                                                   *)

Stages == {"new", "load", "session_start", "request", "forward", "response", "emit",
           "update", "end", "crashed"}
Entries == {"turn_start", "session_start", "request", "response", "turn_end"}

OwnTypeOK ==
    /\ stage \in [Requests -> Stages]
    /\ reply \in [Requests -> {"none", "error", "partial", "full"}]
    /\ offered \subseteq Entries \X Requests

Offered(k, r) == <<k, r>> \in offered

(* What a handler has offered by the time it is at a stage.                *)
OfferedBy(r) ==
    /\ at[r] # "idle" => stage[r] \in L!Kinds
    /\ stage[r] \in {"new", "load", "session_start", "request"} =>
          ~Offered("request", r) /\ ~Offered("response", r)
    /\ stage[r] \in {"new", "load", "session_start", "request", "forward"} => reply[r] = "none"
    /\ stage[r] \in Stages \ {"new", "load", "end", "crashed"} => Offered("turn_start", r)
    /\ stage[r] = "request" /\ isNew[r] => Offered("session_start", r)
    /\ stage[r] \in {"forward", "response", "emit", "update"} => Offered("request", r)
    /\ stage[r] \in {"emit", "update"} => Offered("response", r)
    /\ stage[r] = "update" => Offered("turn_end", r)
    /\ reply[r] # "none" => Offered("request", r)
    /\ Served(r) /\ reply[r] = "full" =>
          Offered("response", r) /\ Offered("turn_start", r) /\ Offered("turn_end", r)
    /\ Offered("response", r) => Offered("request", r)
    /\ Offered("request", r) /\ isNew[r] => Offered("session_start", r)

OfferInv == OwnTypeOK /\ \A r \in Requests : OfferedBy(r)

\* A step of another handler.
Untouched(q) ==
    /\ stage'[q] = stage[q] /\ reply'[q] = reply[q] /\ isNew'[q] = isNew[q] /\ at'[q] = at[q]
    /\ \A k \in Entries : Offered(k, q)' <=> Offered(k, q)

LEMMA UntouchedKept ==
    ASSUME NEW q \in Requests, OfferedBy(q), Untouched(q)
    PROVE  OfferedBy(q)'
BY DEF OfferedBy, Untouched, Served, Entries

\* Offering an entry of r.
LEMMA Offering ==
    ASSUME OwnTypeOK, NEW k \in Entries, NEW r \in Requests, offered' = offered \cup {<<k, r>>}
    PROVE  /\ offered' \subseteq Entries \X Requests
           /\ Offered(k, r)'
           /\ \A j \in Entries \ {k} : Offered(j, r)' <=> Offered(j, r)
           /\ \A q \in Requests \ {r}, j \in Entries : Offered(j, q)' <=> Offered(j, q)
BY DEF OwnTypeOK, Offered

\* Only the arrival of a request determines whether it opens its session.
LEMMA ArriveIsNew ==
    ASSUME S!TypeOK, NEW r \in Requests, Arrive(r)
    PROVE  \A q \in Requests \ {r} : isNew'[q] = isNew[q]
<1>1. PICK c \in Clients \cup {NoClient} :
          S!GetOrCreateSession(r, c) \/ S!SessionFallback(r, c)
  BY DEF Arrive
<1>2. \E s, n, new : S!Located(r, s, n, new)
  BY <1>1 DEF S!GetOrCreateSession, S!SessionFallback, S!Continue, S!Create
<1> QED
  BY <1>2 DEF S!Located, S!TypeOK

LEMMA StaysNew ==
    ASSUME NEW r \in Requests,
           \/ S!LoadPatternState(r) \/ S!LoadFails(r) \/ S!UpstreamFails(r)
           \/ S!UpdatePatternState(r) \/ S!UpdateFails(r) \/ S!Restart
           \/ \E tools \in Responses : S!RespondStreaming(r, tools) \/ S!RespondBuffered(r, tools)
    PROVE  isNew' = isNew /\ sid' = sid /\ seq' = seq /\ disturbed \subseteq disturbed'
BY DEF S!LoadPatternState, S!LoadFails, S!Begin, S!UpstreamFails, S!UpdatePatternState,
       S!UpdateFails, S!Finish, S!RespondStreaming, S!RespondBuffered, S!EmitResponse,
       S!Restart, S!request, S!identity

LEMMA OfferStep ==
    ASSUME S!TypeOK, L!TypeOK, OfferInv, [Next]_vars
    PROVE  OfferInv'
<1> USE DEF OfferInv
<1>1. ASSUME NEW r \in Requests, Arrive(r) PROVE OfferInv'
  <2>1. /\ stage[r] = "new" /\ stage' = [stage EXCEPT ![r] = "load"]
        /\ UNCHANGED <<reply, offered, at>>
    BY <1>1 DEF Arrive, Goes, loggerVars
  <2>2. \A q \in Requests \ {r} : isNew'[q] = isNew[q]
    BY <1>1, ArriveIsNew
  <2>3. OfferedBy(r)'
    BY <2>1 DEF OfferedBy, OwnTypeOK, Offered, Served, L!Kinds, Stages
  <2>4. \A q \in Requests \ {r} : OfferedBy(q)'
    BY <2>1, <2>2, UntouchedKept DEF Untouched, OwnTypeOK, Offered
  <2> QED
    BY <2>1, <2>3, <2>4 DEF OwnTypeOK, Stages
<1>2. ASSUME NEW r \in Requests, Load(r) PROVE OfferInv'
  <2>1. /\ stage[r] = "load"
        /\ stage' = [stage EXCEPT ![r] = IF isNew[r] THEN "session_start" ELSE "request"]
        /\ offered' = offered \cup {<<"turn_start", r>>}
        /\ UNCHANGED <<reply, at>>
    BY <1>2 DEF Load, Goes, loggerVars
  <2>2. isNew' = isNew
    BY <1>2, StaysNew DEF Load
  <2>3. "turn_start" \in Entries
    BY DEF Entries
  <2>4. /\ offered' \subseteq Entries \X Requests
        /\ Offered("turn_start", r)'
        /\ \A j \in Entries \ {"turn_start"} : Offered(j, r)' <=> Offered(j, r)
        /\ \A q \in Requests \ {r}, j \in Entries : Offered(j, q)' <=> Offered(j, q)
    BY <2>1, <2>3, Offering
  <2>5. OfferedBy(r)'
    BY <2>1, <2>2, <2>4 DEF OfferedBy, OwnTypeOK, Served, L!Kinds, Stages, Entries
  <2>6. \A q \in Requests \ {r} : OfferedBy(q)'
    BY <2>1, <2>2, <2>4, UntouchedKept DEF Untouched, OwnTypeOK
  <2> QED
    BY <2>1, <2>4, <2>5, <2>6 DEF OwnTypeOK, Stages
<1>3. ASSUME NEW r \in Requests, LogCall(r) \/ LogStep(r) PROVE OfferInv'
  <2>1. /\ stage[r] \in L!Kinds /\ \A q \in Requests \ {r} : at'[q] = at[q]
        /\ UNCHANGED <<stage, reply, offered, isNew>>
    <3>1. CASE LogCall(r)
      BY <3>1 DEF LogCall, L!Call, L!TypeOK, own, sessionVars
    <3>2. CASE LogStep(r)
      <4>1. \E from, to : from # "idle" /\ L!Moves(r, from, to)
        BY <3>2 DEF LogStep, L!Step, L!LockUpstreams, L!RegisterUpstream, L!BeginLookup,
             L!Lookup, L!GetFile, L!UseFile, L!OpenFile, L!NoFileFor, L!WriteEntry,
             L!WriteLine, L!WriteFails
      <4> QED
        BY <3>2, <4>1 DEF LogStep, L!Moves, L!TypeOK, own, sessionVars, OfferedBy
    <3> QED
      BY <1>3, <3>1, <3>2
  <2>2. OfferedBy(r)'
    BY <2>1 DEF OfferedBy, Offered, Served
  <2>3. \A q \in Requests \ {r} : OfferedBy(q)'
    BY <2>1, UntouchedKept DEF Untouched, Offered
  <2> QED
    BY <2>1, <2>2, <2>3 DEF OwnTypeOK
<1>4. ASSUME NEW r \in Requests, LogReturn(r) PROVE OfferInv'
  <2>1. /\ stage' = [stage EXCEPT ![r] = AfterLog(@)]
        /\ offered' = offered \cup {<<stage[r], r>>}
        /\ at[r] = "returned" /\ at' = [at EXCEPT ![r] = "idle"]
        /\ UNCHANGED <<reply, isNew>>
    BY <1>4 DEF LogReturn, PushToLoki, L!Return, L!Moves, sessionVars
  <2>2. PICK k \in L!Kinds : k = stage[r]
    BY <2>1 DEF OfferedBy
  <2>3. /\ at'[r] = "idle" /\ \A q \in Requests \ {r} : at'[q] = at[q]
        /\ stage'[r] = AfterLog(k) /\ \A q \in Requests \ {r} : stage'[q] = stage[q]
    BY <2>1, <2>2 DEF L!TypeOK, OwnTypeOK
  <2>4. k \in Entries
    BY DEF L!Kinds, Entries
  <2>5. /\ offered' \subseteq Entries \X Requests
        /\ Offered(k, r)'
        /\ \A j \in Entries \ {k} : Offered(j, r)' <=> Offered(j, r)
        /\ \A q \in Requests \ {r}, j \in Entries : Offered(j, q)' <=> Offered(j, q)
    BY <2>1, <2>2, <2>4, Offering
  <2>6. OfferedBy(r)'
    <3>1. /\ AfterLog("session_start") = "request" /\ AfterLog("request") = "forward"
          /\ AfterLog("response") = "emit"
      BY DEF AfterLog
    <3>2. k \in {"session_start", "request", "response"}
      BY DEF L!Kinds
    <3>3. CASE k = "session_start"
      BY <2>1, <2>2, <2>3, <2>5, <3>1, <3>3 DEF OfferedBy, Served, L!Kinds, Stages, Entries
    <3>4. CASE k = "request"
      BY <2>1, <2>2, <2>3, <2>5, <3>1, <3>4 DEF OfferedBy, Served, L!Kinds, Stages, Entries
    <3>5. CASE k = "response"
      BY <2>1, <2>2, <2>3, <2>5, <3>1, <3>5 DEF OfferedBy, Served, L!Kinds, Stages, Entries
    <3> QED
      BY <3>2, <3>3, <3>4, <3>5
  <2>7. \A q \in Requests \ {r} : OfferedBy(q)'
    BY <2>1, <2>3, <2>5, UntouchedKept DEF Untouched
  <2>8. AfterLog(k) \in Stages
    BY DEF AfterLog, L!Kinds, Stages
  <2> QED
    BY <2>1, <2>2, <2>5, <2>6, <2>7, <2>8 DEF OwnTypeOK
<1>5. ASSUME NEW r \in Requests, UpstreamAnswers(r) \/ UpstreamFails(r) PROVE OfferInv'
  <2>1. /\ stage[r] = "forward"
        /\ \/ stage' = [stage EXCEPT ![r] = "response"]
              /\ \E got \in {"none", "full"} : reply' = [reply EXCEPT ![r] = got]
           \/ stage' = [stage EXCEPT ![r] = "end"]
              /\ \E got \in {"error", "partial"} : reply' = [reply EXCEPT ![r] = got]
        /\ UNCHANGED <<offered, at>>
    BY <1>5 DEF UpstreamAnswers, UpstreamFails, Goes, loggerVars
  <2>2. isNew' = isNew
    BY <1>5, StaysNew DEF UpstreamAnswers, UpstreamFails, sessionVars
  <2>3. OfferedBy(r)'
    BY <2>1, <2>2 DEF OfferedBy, OwnTypeOK, Offered, Served, L!Kinds, Stages
  <2>4. \A q \in Requests \ {r} : OfferedBy(q)'
    BY <2>1, <2>2, UntouchedKept DEF Untouched, OwnTypeOK, Offered
  <2> QED
    BY <2>1, <2>3, <2>4 DEF OwnTypeOK, Stages
<1>6. ASSUME NEW r \in Requests, EmitEvents(r) PROVE OfferInv'
  <2>1. /\ stage[r] = "emit" /\ stage' = [stage EXCEPT ![r] = "update"]
        /\ offered' = offered \cup {<<"turn_end", r>>}
        /\ UNCHANGED <<reply, at>>
    BY <1>6 DEF EmitEvents, Goes, loggerVars
  <2>2. isNew' = isNew
    BY <1>6, StaysNew DEF EmitEvents
  <2>3. "turn_end" \in Entries
    BY DEF Entries
  <2>4. /\ offered' \subseteq Entries \X Requests
        /\ Offered("turn_end", r)'
        /\ \A j \in Entries \ {"turn_end"} : Offered(j, r)' <=> Offered(j, r)
        /\ \A q \in Requests \ {r}, j \in Entries : Offered(j, q)' <=> Offered(j, q)
    BY <2>1, <2>3, Offering
  <2>5. OfferedBy(r)'
    BY <2>1, <2>2, <2>4 DEF OfferedBy, OwnTypeOK, Served, L!Kinds, Stages, Entries
  <2>6. \A q \in Requests \ {r} : OfferedBy(q)'
    BY <2>1, <2>2, <2>4, UntouchedKept DEF Untouched, OwnTypeOK
  <2> QED
    BY <2>1, <2>4, <2>5, <2>6 DEF OwnTypeOK, Stages
<1>7. ASSUME NEW r \in Requests, Update(r) PROVE OfferInv'
  <2>1. /\ stage[r] = "update" /\ stage' = [stage EXCEPT ![r] = "end"]
        /\ reply' = [reply EXCEPT ![r] = "full"]
        /\ UNCHANGED <<offered, at>>
    BY <1>7 DEF Update, Goes, loggerVars
  <2>2. isNew' = isNew
    BY <1>7, StaysNew DEF Update
  <2>3. OfferedBy(r)'
    BY <2>1, <2>2 DEF OfferedBy, OwnTypeOK, Offered, Served, L!Kinds, Stages
  <2>4. \A q \in Requests \ {r} : OfferedBy(q)'
    BY <2>1, <2>2, UntouchedKept DEF Untouched, OwnTypeOK, Offered
  <2> QED
    BY <2>1, <2>3, <2>4 DEF OwnTypeOK, Stages
<1>8. CASE Restart
  <2>1. /\ stage' = [r \in Requests |-> IF S!Active(r) THEN "crashed" ELSE stage[r]]
        /\ UNCHANGED <<reply, offered>>
        /\ at' = [r \in Requests |-> "idle"]
    BY <1>8 DEF Restart, L!Restart, L!FatalRace
  <2>2. isNew' = isNew
    BY <1>8 DEF Restart, S!Restart, S!identity, sessionVars
  <2>3. ASSUME NEW r \in Requests PROVE OfferedBy(r)'
    <3>1. CASE stage'[r] = "crashed"
      BY <2>1, <2>2, <3>1 DEF OfferedBy, Offered, Served, L!Kinds, Stages
    <3>2. CASE stage'[r] = stage[r]
      BY <2>1, <2>2, <3>2 DEF OfferedBy, Offered, Served
    <3> QED
      BY <2>1, <3>1, <3>2
  <2> QED
    BY <2>1, <2>3 DEF OwnTypeOK, Stages
<1>9. CASE Midnight \/ UNCHANGED vars
  <2>1. UNCHANGED <<stage, reply, offered, isNew, at>>
    BY <1>9 DEF Midnight, L!Midnight, own, sessionVars, loggerVars, vars
  <2> QED
    BY <2>1 DEF OwnTypeOK, OfferedBy, Offered, Served
<1> QED
  BY <1>1, <1>2, <1>3, <1>4, <1>5, <1>6, <1>7, <1>8, <1>9 DEF Next, Handle, Upstream

LEMMA OfferInvHolds == Spec => []OfferInv
<1>1. Init => OfferInv
  BY DEF Init, L!Init, OfferInv, OwnTypeOK, OfferedBy, Offered, Served, Stages
<1> QED
  BY <1>1, OfferStep, PipelineTypes, PTL DEF Spec

(* The components' types, and the pipeline's stages and entries.           *)
THEOREM TypeCorrect == Spec => []TypeOK
<1>1. S!TypeOK /\ L!TypeOK /\ OfferInv => TypeOK
  BY DEF OfferInv, OwnTypeOK, TypeOK, Stages, Entries
<1> QED
  BY <1>1, PipelineTypes, OfferInvHolds, PTL

(* MultiWriter offers Loki every exchange, whether or not the file logger  *)
(* succeeded (multi_writer.go), and no response without its request.       *)
THEOREM LokiOfferedHolds == Spec => []LokiOffered
<1>1. OfferInv => LokiOffered
  BY DEF OfferInv, OfferedBy, Offered, LokiOffered
<1> QED
  BY <1>1, OfferInvHolds, PTL

-----------------------------------------------------------------------------
(* One file for ever.  A session is registered with the file logger by one *)
(* call, the session_start of the request that created it; that request    *)
(* is handled in one life of the process, so the session's lines are of    *)
(* one life, and OneFilePerLife does the rest.                             *)

LEMMA FilesOfLife == L!Spec => []L!FileInv
<1>1. LP!Spec => []LP!FileInv
  BY LP!FileInvHolds, PipelineAssumption DEF L!Files, LP!Files, L!Days, LP!Days
<1>2. L!FileInv <=> LP!FileInv
  BY DEF L!FileInv, LP!FileInv, L!OneFilePerLife, LP!OneFilePerLife, L!OnDisk, LP!OnDisk,
         L!Files, LP!Files, L!Days, LP!Days
<1> QED
  BY <1>1, <1>2, SameLogger, PTL DEF L!Spec, LP!Spec

Registering == {"register", "registering"}

ControlInv ==
    \A r \in Requests :
        /\ stage[r] = "load" => pc[r] = "located" /\ (isNew[r] => sid[r] = r)
        /\ stage[r] = "session_start" => pc[r] = "loaded" /\ isNew[r] /\ sid[r] = r
        /\ at[r] \in Registering => stage[r] = "session_start" /\ line[r].session = r

\* A request that can still register its session.
Early(s) ==
    \/ stage[s] \in {"new", "load"}
    \/ stage[s] = "session_start" /\ at[s] \in {"idle"} \cup Registering

Registered(s) == s \in upstreams \/ files[s] # NoFile

LifeInv ==
    /\ \A s \in Requests : Registered(s) => ~Early(s)
    /\ \A f \in L!Files : \A x \in L!OnDisk(f) :
         ~Early(f[1]) /\ (Registered(f[1]) => x.life = life)
    /\ \A f, g \in L!Files : f[1] = g[1] =>
         \A x \in L!OnDisk(f), y \in L!OnDisk(g) : x.life = y.life

LEMMA ArriveLocated ==
    ASSUME S!TypeOK, NEW r \in Requests, Arrive(r)
    PROVE  /\ pc'[r] = "located" /\ (isNew'[r] => sid'[r] = r)
           /\ \A q \in Requests \ {r} :
                pc'[q] = pc[q] /\ isNew'[q] = isNew[q] /\ sid'[q] = sid[q] /\ seq'[q] = seq[q]
           /\ disturbed \subseteq disturbed'
<1>1. PICK c \in Clients \cup {NoClient} :
          S!GetOrCreateSession(r, c) \/ S!SessionFallback(r, c)
  BY DEF Arrive
<1>2. \E s, n, new : S!Located(r, s, n, new) /\ (new = FALSE \/ s = r)
  BY <1>1 DEF S!GetOrCreateSession, S!SessionFallback, S!Continue, S!Create
<1> QED
  BY <1>2 DEF S!Located, S!TypeOK

LEMMA HandlerPC ==
    ASSUME S!TypeOK, NEW r \in Requests,
           \/ S!LoadPatternState(r) \/ S!LoadFails(r) \/ S!UpstreamFails(r)
           \/ S!UpdatePatternState(r) \/ S!UpdateFails(r)
           \/ \E tools \in Responses : S!RespondStreaming(r, tools) \/ S!RespondBuffered(r, tools)
    PROVE  /\ \A q \in Requests \ {r} : pc'[q] = pc[q]
           /\ S!LoadPatternState(r) \/ S!LoadFails(r) => pc'[r] = "loaded"
BY DEF S!LoadPatternState, S!LoadFails, S!Begin, S!UpstreamFails, S!UpdatePatternState,
       S!UpdateFails, S!Finish, S!RespondStreaming, S!RespondBuffered, S!TypeOK

\* A step of the file logger is one of its caller, who is in a call.
LEMMA CallerOnly ==
    ASSUME L!TypeOK, NEW r \in Requests, L!Step(r)
    PROVE  /\ at[r] # "idle" /\ at'[r] # "idle"
           /\ at'[r] \in Registering => at[r] \in Registering
           /\ line'[r].session = line[r].session
           /\ \A q \in Requests \ {r} : at'[q] = at[q] /\ line'[q] = line[q]
<1>1. CASE L!Lookup(r)
  <2>1. PICK found \in BOOLEAN : line' = [line EXCEPT ![r].host = found]
    BY <1>1 DEF L!Lookup
  <2>2. /\ line'[r].session = line[r].session
        /\ \A q \in Requests \ {r} : line'[q] = line[q]
    BY <2>1 DEF L!TypeOK, L!Lines
  <2> QED
    BY <1>1, <2>2 DEF L!Lookup, L!Moves, L!TypeOK, Registering
<1>2. CASE ~L!Lookup(r)
  <2>1. line' = line
    BY <1>2 DEF L!Step, L!LockUpstreams, L!RegisterUpstream, L!BeginLookup, L!GetFile, L!UseFile,
         L!OpenFile, L!NoFileFor, L!WriteEntry, L!WriteLine, L!WriteFails, L!Returns, L!call
  <2>2. \E from, to : /\ L!Moves(r, from, to) /\ from # "idle" /\ to # "idle"
                      /\ to \in Registering => from \in Registering
    BY <1>2 DEF L!Step, L!LockUpstreams, L!RegisterUpstream, L!BeginLookup, L!GetFile, L!UseFile,
         L!OpenFile, L!NoFileFor, L!WriteEntry, L!WriteLine, L!WriteFails, Registering
  <2> QED
    BY <2>1, <2>2 DEF L!Moves, L!TypeOK
<1> QED
  BY <1>1, <1>2

LEMMA ControlStep ==
    ASSUME S!TypeOK, L!TypeOK, OfferInv, ControlInv, [Next]_vars
    PROVE  ControlInv'
<1> USE DEF ControlInv
<1>1. ASSUME NEW r \in Requests, Arrive(r) PROVE ControlInv'
  <2>1. /\ stage[r] = "new" /\ stage' = [stage EXCEPT ![r] = "load"]
        /\ UNCHANGED <<at, line>>
    BY <1>1 DEF Arrive, Goes, loggerVars
  <2>2. at[r] \notin Registering
    BY <2>1
  <2> QED
    BY <1>1, <2>1, <2>2, ArriveLocated DEF OfferInv, OwnTypeOK
<1>2. ASSUME NEW r \in Requests, Load(r) PROVE ControlInv'
  <2>1. /\ stage[r] = "load"
        /\ stage' = [stage EXCEPT ![r] = IF isNew[r] THEN "session_start" ELSE "request"]
        /\ UNCHANGED <<at, line>>
    BY <1>2 DEF Load, Goes, loggerVars
  <2>2. S!LoadPatternState(r) \/ S!LoadFails(r)
    BY <1>2 DEF Load
  <2>3. isNew' = isNew /\ sid' = sid
    BY <2>2, StaysNew
  <2>4. pc'[r] = "loaded" /\ \A q \in Requests \ {r} : pc'[q] = pc[q]
    BY <2>2, HandlerPC
  <2>5. at[r] \notin Registering
    BY <2>1
  <2> QED
    BY <2>1, <2>3, <2>4, <2>5 DEF OfferInv, OwnTypeOK
<1>3. ASSUME NEW r \in Requests, LogCall(r) PROVE ControlInv'
  <2>1. /\ at' = [at EXCEPT ![r] = IF stage[r] = "session_start" THEN "register" ELSE "lookup"]
        /\ UNCHANGED <<stage, pc, isNew, sid>>
    BY <1>3 DEF LogCall, L!Call, own, sessionVars
  <2>2. line'[r].session = sid[r] /\ \A q \in Requests \ {r} : line'[q] = line[q]
    BY <1>3 DEF LogCall, L!Call, L!TypeOK
  <2>3. /\ at'[r] \in Registering => stage[r] = "session_start"
        /\ \A q \in Requests \ {r} : at'[q] = at[q]
    BY <2>1 DEF L!TypeOK, Registering
  <2> QED
    BY <2>1, <2>2, <2>3
<1>4. ASSUME NEW r \in Requests, LogStep(r) PROVE ControlInv'
  <2>1. UNCHANGED <<stage, pc, isNew, sid>>
    BY <1>4 DEF LogStep, own, sessionVars
  <2> QED
    BY <1>4, <2>1, CallerOnly DEF LogStep
<1>5. ASSUME NEW r \in Requests, LogReturn(r) PROVE ControlInv'
  <2>1. /\ at[r] = "returned" /\ at' = [at EXCEPT ![r] = "idle"]
        /\ stage' = [stage EXCEPT ![r] = AfterLog(@)]
        /\ UNCHANGED <<line, pc, isNew, sid>>
    BY <1>5 DEF LogReturn, L!Return, L!Moves, sessionVars
  <2>2. stage[r] \in L!Kinds
    BY <2>1 DEF OfferInv, OfferedBy
  <2>3. AfterLog(stage[r]) \notin {"load", "session_start"}
    BY <2>2 DEF AfterLog, L!Kinds
  <2>4. at'[r] \notin Registering /\ \A q \in Requests \ {r} : at'[q] = at[q]
    BY <2>1 DEF L!TypeOK, Registering
  <2> QED
    BY <2>1, <2>3, <2>4 DEF OfferInv, OwnTypeOK
<1>6. ASSUME NEW r \in Requests, UpstreamAnswers(r) PROVE ControlInv'
  <2>1. /\ stage[r] = "forward" /\ stage' = [stage EXCEPT ![r] = "response"]
        /\ UNCHANGED <<at, line, pc, isNew, sid>>
    BY <1>6 DEF UpstreamAnswers, Goes, loggerVars, sessionVars
  <2> QED
    BY <2>1 DEF OfferInv, OwnTypeOK
<1>7. ASSUME NEW r \in Requests, UpstreamFails(r) \/ EmitEvents(r) \/ Update(r)
      PROVE  ControlInv'
  <2>1. /\ stage[r] \in {"forward", "emit", "update"}
        /\ stage' = [stage EXCEPT ![r] = "end"] \/ stage' = [stage EXCEPT ![r] = "update"]
        /\ UNCHANGED <<at, line>>
    BY <1>7 DEF UpstreamFails, EmitEvents, Update, Goes, loggerVars
  <2>2. \/ S!UpstreamFails(r) \/ S!UpdatePatternState(r) \/ S!UpdateFails(r)
        \/ \E tools \in Responses : S!RespondStreaming(r, tools) \/ S!RespondBuffered(r, tools)
    BY <1>7 DEF UpstreamFails, EmitEvents, Update
  <2>3. isNew' = isNew /\ sid' = sid /\ \A q \in Requests \ {r} : pc'[q] = pc[q]
    BY <2>2, StaysNew, HandlerPC
  <2> QED
    BY <2>1, <2>3 DEF OfferInv, OwnTypeOK
<1>8. CASE Restart
  <2>1. /\ stage' = [r \in Requests |-> IF S!Active(r) THEN "crashed" ELSE stage[r]]
        /\ at' = [r \in Requests |-> "idle"]
    BY <1>8 DEF Restart, L!Restart, L!FatalRace
  <2>2. \A r \in Requests : stage'[r] \notin {"load", "session_start"}
    BY <2>1 DEF S!Active
  <2>3. \A r \in Requests : at'[r] \notin Registering
    BY <2>1 DEF Registering
  <2> QED
    BY <2>2, <2>3
<1>9. CASE Midnight \/ UNCHANGED vars
  BY <1>9 DEF Midnight, L!Midnight, L!call, own, sessionVars, loggerVars, vars
<1> QED
  BY <1>1, <1>2, <1>3, <1>4, <1>5, <1>6, <1>7, <1>8, <1>9 DEF Next, Handle, Upstream

LEMMA ControlInvHolds == Spec => []ControlInv
<1>1. Init => ControlInv
  BY DEF Init, L!Init, ControlInv, Registering
<1> QED
  BY <1>1, ControlStep, PipelineTypes, OfferInvHolds, PTL DEF Spec

\* A request never goes back to where it can register its session.
LEMMA NeverEarlyAgain ==
    ASSUME S!TypeOK, L!TypeOK, OfferInv, ControlInv, [Next]_vars
    PROVE  \A s \in Requests : Early(s)' => Early(s)
<1> USE DEF Early
<1>1. ASSUME NEW r \in Requests, Arrive(r) \/ Load(r)
      PROVE  \A s \in Requests : Early(s)' => Early(s)
  <2>1. /\ stage[r] \in {"new", "load"} /\ UNCHANGED at
        /\ \A s \in Requests \ {r} : stage'[s] = stage[s]
    BY <1>1 DEF Arrive, Load, Goes, loggerVars, OfferInv, OwnTypeOK
  <2> QED
    BY <2>1
<1>2. ASSUME NEW r \in Requests, LogCall(r)
      PROVE  \A s \in Requests : Early(s)' => Early(s)
  <2>1. /\ at[r] = "idle" /\ UNCHANGED stage
        /\ \A s \in Requests \ {r} : at'[s] = at[s]
    BY <1>2 DEF LogCall, L!Call, L!TypeOK, own
  <2> QED
    BY <2>1
<1>3. ASSUME NEW r \in Requests, LogStep(r)
      PROVE  \A s \in Requests : Early(s)' => Early(s)
  <2>1. UNCHANGED stage
    BY <1>3 DEF LogStep, own
  <2> QED
    BY <1>3, <2>1, CallerOnly DEF LogStep
<1>4. ASSUME NEW r \in Requests, LogReturn(r)
      PROVE  \A s \in Requests : Early(s)' => Early(s)
  <2>1. /\ at[r] = "returned" /\ at' = [at EXCEPT ![r] = "idle"]
        /\ stage' = [stage EXCEPT ![r] = AfterLog(@)]
    BY <1>4 DEF LogReturn, L!Return, L!Moves
  <2>2. stage[r] \in L!Kinds
    BY <2>1 DEF OfferInv, OfferedBy
  <2>3. AfterLog(stage[r]) \notin {"new", "load", "session_start"}
    BY <2>2 DEF AfterLog, L!Kinds
  <2> QED
    BY <2>1, <2>3 DEF OfferInv, OwnTypeOK, L!TypeOK
<1>5. ASSUME NEW r \in Requests, UpstreamAnswers(r) \/ UpstreamFails(r) \/ EmitEvents(r) \/ Update(r)
      PROVE  \A s \in Requests : Early(s)' => Early(s)
  <2>1. /\ \E next \in {"response", "end", "update"} : stage' = [stage EXCEPT ![r] = next]
        /\ UNCHANGED at
    BY <1>5 DEF UpstreamAnswers, UpstreamFails, EmitEvents, Update, Goes, loggerVars
  <2> QED
    BY <2>1 DEF OfferInv, OwnTypeOK
<1>6. CASE Restart
  <2>1. stage' = [r \in Requests |-> IF S!Active(r) THEN "crashed" ELSE stage[r]]
    BY <1>6 DEF Restart
  <2>2. \A r \in Requests : Early(r)' => stage'[r] = "new" /\ stage[r] = "new"
    BY <2>1 DEF ControlInv, S!Active
  <2> QED
    BY <2>2
<1>7. CASE Midnight \/ UNCHANGED vars
  BY <1>7 DEF Midnight, L!Midnight, own, loggerVars, vars
<1> QED
  BY <1>1, <1>2, <1>3, <1>4, <1>5, <1>6, <1>7 DEF Next, Handle, Upstream

\* A step that neither writes, registers nor ends a life.
LEMMA CalmKept ==
    ASSUME LifeInv, UNCHANGED <<disk, life>>,
           \A s \in Requests : Early(s)' => Early(s),
           \A s \in Requests : Registered(s)' => Registered(s)
    PROVE  LifeInv'
<1>1. \A f \in L!Files : L!OnDisk(f)' = L!OnDisk(f)
  BY DEF L!OnDisk
<1>2. \A f \in L!Files : f[1] \in Requests
  BY DEF L!Files
<1>3. ASSUME NEW f \in L!Files, NEW x \in L!OnDisk(f)
      PROVE  ~Early(f[1])' /\ (Registered(f[1])' => x.life = life)
  BY <1>2, <1>3 DEF LifeInv
<1>4. \A s \in Requests : Registered(s)' => ~Early(s)'
  BY DEF LifeInv
<1>5. \A f, g \in L!Files : f[1] = g[1] =>
        \A x \in L!OnDisk(f), y \in L!OnDisk(g) : x.life = y.life
  BY DEF LifeInv
<1> QED
  BY <1>1, <1>3, <1>4, <1>5 DEF LifeInv

\* Appending a line adds that line.
LEMMA Appended ==
    ASSUME NEW q \in Seq(L!Lines), NEW x \in L!Lines
    PROVE  {Append(q, x)[i] : i \in DOMAIN Append(q, x)} = {q[i] : i \in DOMAIN q} \cup {x}
<1>1. L!Lines = LP!Lines
  BY DEF L!Lines, LP!Lines, L!Kinds, LP!Kinds
<1>2. q \in Seq(LP!Lines) /\ x \in LP!Lines
  BY <1>1
<1>3. LP!LoggerAssumption
  BY PipelineAssumption DEF L!Files, LP!Files, L!Days, LP!Days
<1> QED
  BY <1>2, <1>3, LP!LinesAfterAppend

LEMMA LifeStep ==
    ASSUME S!TypeOK, L!TypeOK, L!FileInv, OfferInv, ControlInv, LifeInv, [Next]_vars
    PROVE  LifeInv'
<1>1. \A s \in Requests : Early(s)' => Early(s)
  BY NeverEarlyAgain
<1>2. CASE UNCHANGED <<disk, life, upstreams, files>>
  BY <1>1, <1>2, CalmKept DEF Registered
<1>3. ASSUME NEW r \in Requests, LogStep(r), L!RegisterUpstream(r)
      PROVE  LifeInv'
  <2>1. /\ at[r] = "registering" /\ at'[r] = "open"
        /\ upstreams' \subseteq upstreams \cup {line[r].session}
        /\ UNCHANGED <<disk, life, files, stage>>
    BY <1>3 DEF LogStep, L!RegisterUpstream, L!Moves, L!TypeOK, L!world, own
  <2>2. line[r].session = r /\ stage[r] = "session_start" /\ Early(r)
    BY <2>1 DEF ControlInv, Registering, Early
  <2>3. ~Early(r)'
    BY <2>1, <2>2 DEF Early, Registering
  <2>4. \A s \in Requests \ {r} : Registered(s)' => Registered(s)
    BY <2>1, <2>2 DEF Registered
  <2>5. \A f \in L!Files : L!OnDisk(f)' = L!OnDisk(f)
    BY <2>1 DEF L!OnDisk
  <2>6. ASSUME NEW f \in L!Files, NEW x \in L!OnDisk(f)
        PROVE  ~Early(f[1])' /\ (Registered(f[1])' => x.life = life)
    <3>1. f[1] \in Requests /\ ~Early(f[1])
      BY <2>6 DEF L!Files, LifeInv
    <3>2. f[1] # r
      BY <2>2, <3>1
    <3> QED
      BY <1>1, <2>4, <2>6, <3>1, <3>2 DEF LifeInv
  <2>7. \A s \in Requests : Registered(s)' => ~Early(s)'
    BY <1>1, <2>3, <2>4 DEF LifeInv
  <2>8. \A f, g \in L!Files : f[1] = g[1] =>
          \A x \in L!OnDisk(f), y \in L!OnDisk(g) : x.life = y.life
    BY DEF LifeInv
  <2> QED
    BY <2>1, <2>5, <2>6, <2>7, <2>8 DEF LifeInv
<1>4. ASSUME NEW r \in Requests, LogStep(r), L!OpenFile(r)
      PROVE  LifeInv'
  <2>1. /\ line[r].session \in upstreams
        /\ files' = [files EXCEPT ![line[r].session] = <<line[r].session, today>>]
        /\ UNCHANGED <<disk, life, upstreams>>
    BY <1>4 DEF L!OpenFile, L!world
  <2>2. \A s \in Requests : Registered(s)' => Registered(s)
    BY <2>1 DEF Registered, L!TypeOK
  <2> QED
    BY <1>1, <2>1, <2>2, CalmKept
<1>5. ASSUME NEW r \in Requests, LogStep(r), L!WriteLine(r)
      PROVE  LifeInv'
  <2>1. PICK h \in L!Files, x \in L!Lines :
           /\ h = handle[r] /\ x = line[r] /\ h # NoFile
           /\ h[1] = x.session /\ x.life = life /\ files[h[1]] = h
    BY <1>5 DEF L!WriteLine, L!Moves, L!FileInv, L!TypeOK
  <2>2. /\ disk' = [disk EXCEPT ![h] = Append(@, x)]
        /\ UNCHANGED <<life, upstreams, files>>
    BY <1>5, <2>1 DEF L!WriteLine, L!maps
  <2>3. \A g \in L!Files \ {h} : L!OnDisk(g)' = L!OnDisk(g)
    BY <2>2 DEF L!OnDisk, L!TypeOK
  <2>4. L!OnDisk(h)' = L!OnDisk(h) \cup {x}
    <3>1. disk[h] \in Seq(L!Lines) /\ disk'[h] = Append(disk[h], x)
      BY <2>1, <2>2 DEF L!TypeOK
    <3>2. {Append(disk[h], x)[i] : i \in DOMAIN Append(disk[h], x)}
            = {disk[h][i] : i \in DOMAIN disk[h]} \cup {x}
      BY <2>1, <3>1, Appended
    <3> QED
      BY <3>1, <3>2 DEF L!OnDisk
  <2>5. h[1] \in Requests /\ Registered(h[1]) /\ ~Early(h[1])
    BY <2>1 DEF Registered, LifeInv, L!Files
  <2>6. \A g \in L!Files : \A y \in L!OnDisk(g)' : y \in L!OnDisk(g) \/ (g = h /\ y = x)
    BY <2>3, <2>4
  <2>7. \A g \in L!Files : g[1] = h[1] => \A y \in L!OnDisk(g) : y.life = life
    BY <2>5 DEF LifeInv
  <2>8. \A f, g \in L!Files : f[1] = g[1] =>
          \A y \in L!OnDisk(f)', z \in L!OnDisk(g)' : y.life = z.life
    BY <2>1, <2>6, <2>7 DEF LifeInv
  <2>9. ASSUME NEW f \in L!Files, NEW y \in L!OnDisk(f)'
        PROVE  ~Early(f[1])' /\ (Registered(f[1])' => y.life = life)
    <3>1. f[1] \in Requests /\ (Registered(f[1])' => Registered(f[1]))
      BY <2>2 DEF L!Files, Registered
    <3>2. ~Early(f[1]) /\ (Registered(f[1]) => y.life = life)
      BY <2>1, <2>5, <2>6, <2>9 DEF LifeInv
    <3> QED
      BY <1>1, <3>1, <3>2
  <2>10. \A s \in Requests : Registered(s)' => ~Early(s)'
    BY <1>1, <2>2 DEF LifeInv, Registered
  <2> QED
    BY <2>2, <2>8, <2>9, <2>10 DEF LifeInv
<1>6. CASE Restart
  <2>1. /\ upstreams' = {} /\ files' = [s \in Requests |-> NoFile] /\ UNCHANGED disk
    BY <1>6 DEF Restart, L!Restart, L!FatalRace
  <2>2. \A s \in Requests : ~Registered(s)'
    BY <2>1 DEF Registered
  <2>3. \A f \in L!Files : L!OnDisk(f)' = L!OnDisk(f) /\ f[1] \in Requests
    BY <2>1 DEF L!OnDisk, L!Files
  <2>4. \A f \in L!Files : \A x \in L!OnDisk(f) : ~Early(f[1])'
    BY <1>1, <2>3 DEF LifeInv
  <2>5. \A f, g \in L!Files : f[1] = g[1] =>
          \A x \in L!OnDisk(f), y \in L!OnDisk(g) : x.life = y.life
    BY DEF LifeInv
  <2> QED
    BY <2>2, <2>3, <2>4, <2>5 DEF LifeInv
<1>7. ASSUME NEW r \in Requests, LogStep(r)
      PROVE  LifeInv'
  <2>1. CASE L!RegisterUpstream(r) \/ L!OpenFile(r) \/ L!WriteLine(r)
    BY <1>3, <1>4, <1>5, <1>7, <2>1
  <2>2. CASE ~(L!RegisterUpstream(r) \/ L!OpenFile(r) \/ L!WriteLine(r))
    <3>1. UNCHANGED <<disk, life, upstreams, files>>
      BY <1>7, <2>2 DEF LogStep, L!Step, L!LockUpstreams, L!BeginLookup, L!Lookup, L!GetFile,
           L!UseFile, L!NoFileFor, L!WriteEntry, L!WriteFails, L!maps, L!world
    <3> QED
      BY <1>2, <3>1
  <2> QED
    BY <2>1, <2>2
<1>8. ASSUME NEW r \in Requests,
             \/ Arrive(r) \/ Load(r) \/ LogCall(r) \/ LogReturn(r)
             \/ EmitEvents(r) \/ Update(r) \/ Upstream(r)
      PROVE  UNCHANGED <<disk, life, upstreams, files>>
  BY <1>8 DEF Arrive, Load, LogCall, L!Call, LogReturn, L!Return, EmitEvents, Update, Upstream,
       UpstreamAnswers, UpstreamFails, loggerVars, L!maps, L!world
<1>9. CASE Midnight \/ UNCHANGED vars
  <2>1. UNCHANGED <<disk, life, upstreams, files>>
    BY <1>9 DEF Midnight, L!Midnight, L!maps, loggerVars, vars
  <2> QED
    BY <1>2, <2>1
<1> QED
  BY <1>2, <1>6, <1>7, <1>8, <1>9 DEF Next, Handle

LEMMA LifeInvHolds == Spec => []LifeInv
<1>1. Init => LifeInv
  <2> SUFFICES ASSUME Init PROVE LifeInv
    OBVIOUS
  <2>1. \A f \in L!Files : DOMAIN disk[f] = {}
    BY EmptySeq DEF Init, L!Init
  <2>2. \A f \in L!Files : L!OnDisk(f) = {}
    BY <2>1 DEF L!OnDisk
  <2>3. \A s \in Requests : ~Registered(s)
    BY DEF Init, L!Init, Registered
  <2> QED
    BY <2>2, <2>3 DEF LifeInv
<1>2. Spec => []L!FileInv
  BY ComponentsImplemented, FilesOfLife, PTL
<1> QED
  BY <1>1, <1>2, LifeStep, PipelineTypes, OfferInvHolds, ControlInvHolds, PTL DEF Spec

(* All the entries a session will ever have are in one file, whatever the  *)
(* days and the lives of the process: a continued session is not           *)
(* registered again, so a restarted process writes nothing for it          *)
(* (proxy.go, ServeHTTP; logger.go, getFile).                              *)
THEOREM OneFileForReaderHolds == Spec => []OneFileForReader
<1>1. Spec => []L!FileInv
  BY ComponentsImplemented, FilesOfLife, PTL
<1>2. L!TypeOK /\ L!FileInv /\ LifeInv => OneFileForReader
  <2> SUFFICES ASSUME L!TypeOK, L!FileInv, LifeInv,
                      NEW s \in Requests, NEW d \in 1..MaxDay, NEW e \in 1..MaxDay,
                      disk[<<s, d>>] # <<>>, disk[<<s, e>>] # <<>>
               PROVE  d = e
    BY DEF OneFileForReader
  <2> DEFINE f == <<s, d>>
             g == <<s, e>>
  <2>1. f \in L!Files /\ g \in L!Files /\ f[1] = s /\ g[1] = s /\ f[2] = d /\ g[2] = e
    BY DEF L!Files, L!Days
  <2>2. \A h \in L!Files : disk[h] # <<>> => \E x : x \in L!OnDisk(h)
    <3>1. ASSUME NEW h \in L!Files, disk[h] # <<>> PROVE disk[h][1] \in L!OnDisk(h)
      <4>1. disk[h] \in Seq(L!Lines)
        BY DEF L!TypeOK
      <4>2. 1 \in DOMAIN disk[h]
        BY <3>1, <4>1, EmptySeq, LenProperties
      <4> QED
        BY <4>2 DEF L!OnDisk
    <3> QED
      BY <3>1
  <2>3. PICK x, y : x \in L!OnDisk(f) /\ y \in L!OnDisk(g)
    BY <2>1, <2>2
  <2>4. x.life = y.life
    BY <2>1, <2>3 DEF LifeInv
  <2>5. x.session = s /\ y.session = s
    BY <2>1, <2>3 DEF L!FileInv, L!OneFilePerLife
  <2>6. f = g
    BY <2>1, <2>3, <2>4, <2>5 DEF L!FileInv, L!OneFilePerLife
  <2> QED
    BY <2>1, <2>6
<1> QED
  BY <1>1, <1>2, LifeInvHolds, PipelineTypes, PTL
-----------------------------------------------------------------------------
(* The log of an undisturbed session.  The stages of a request, its lines  *)
(* and the session tracking go together: a session is opened by a request  *)
(* that has ended when another one logs, and what a request has passed is  *)
(* what it has on file.                                                    *)

LEMMA SessionFacts ==
    Spec => [](S!SessionInv /\ S!SeqConsecutive /\ S!NewestInv /\ S!NeverOvercounts /\ S!WritersInv)
<1>1. S!Rows = SP!Rows /\ S!NoTool = SP!NoTool
  BY DEF S!Rows, SP!Rows, S!PatternStates, SP!PatternStates, S!CallRecords, SP!CallRecords,
         S!NoTool, SP!NoTool
<1>2. (SP!Spec => []SP!SessionInv) /\ (SP!Spec => []SP!SeqConsecutive)
  BY <1>1, SP!SessionInvHolds, SP!SeqConsecutiveHolds, PipelineAssumption
<1>3. (SP!Spec => []SP!NewestInv) /\ (SP!Spec => []SP!NeverOvercounts)
  BY <1>1, SP!NewestInvHolds, SP!NeverOvercountsHolds, PipelineAssumption
<1>4. SP!Spec => []SP!WritersInv
  BY <1>1, SP!WritersInvHolds, PipelineAssumption
<1>5. /\ S!SessionInv <=> SP!SessionInv
      /\ S!SeqConsecutive <=> SP!SeqConsecutive
      /\ S!NewestInv <=> SP!NewestInv
      /\ S!NeverOvercounts <=> SP!NeverOvercounts
      /\ S!WritersInv <=> SP!WritersInv
  <2>1. \A T : S!Cardinality(T) = SP!Cardinality(T) /\ (S!IsFiniteSet(T) <=> SP!IsFiniteSet(T))
    BY DEF S!Cardinality, SP!Cardinality, S!IsFiniteSet, SP!IsFiniteSet
  <2> QED
    BY <2>1 DEF S!SessionInv, SP!SessionInv, S!SeqConsecutive, SP!SeqConsecutive, S!Members,
       SP!Members, S!NewestInv, SP!NewestInv, S!Active, SP!Active, S!NeverOvercounts,
       SP!NeverOvercounts, S!WritersInv, SP!WritersInv, S!Done, SP!Done
<1>6. SP!Spec <=> S!Spec
  BY SameSession, PTL DEF S!Spec, SP!Spec
<1> QED
  BY <1>2, <1>3, <1>4, <1>5, <1>6, ComponentsImplemented, PTL

\* Where the session tracking is when the handler of r is at a stage.
Track(r) ==
    /\ stage[r] = "new" <=> pc[r] = "idle"
    /\ stage[r] = "load" => pc[r] = "located"
    /\ stage[r] \in {"session_start", "request", "forward", "response", "emit"} =>
          pc[r] = "loaded"
    /\ stage[r] = "update" => pc[r] \in {"responded", "streamed"}
    /\ stage[r] \in {"end", "crashed"} => pc[r] \in {"done", "failed"}
    /\ pc[r] = "done" => stage[r] = "end" /\ reply[r] = "full"

TrackInv == \A r \in Requests : Track(r)

\* What a step of the handler of r leaves alone.
OnlyHandles(r) ==
    /\ \A q \in Requests \ {r} :
         /\ stage'[q] = stage[q] /\ at'[q] = at[q] /\ line'[q] = line[q] /\ reply'[q] = reply[q]
         /\ pc'[q] = pc[q] /\ sid'[q] = sid[q] /\ seq'[q] = seq[q] /\ isNew'[q] = isNew[q]
    /\ stage[r] # "new" =>
         /\ stage'[r] # "new" /\ sid'[r] = sid[r] /\ seq'[r] = seq[r] /\ isNew'[r] = isNew[r]
    /\ disturbed \subseteq disturbed'
    /\ UNCHANGED <<closed, life>>

LEMMA HandlerFrame ==
    ASSUME S!TypeOK, L!TypeOK, OfferInv, NEW r \in Requests,
           Arrive(r) \/ Handle(r) \/ Upstream(r)
    PROVE  OnlyHandles(r)
<1> USE DEF OnlyHandles
<1>1. CASE Arrive(r)
  <2>1. /\ stage[r] = "new" /\ stage' = [stage EXCEPT ![r] = "load"]
        /\ UNCHANGED <<at, line, reply, closed, life>>
    BY <1>1 DEF Arrive, Goes, loggerVars
  <2> QED
    BY <1>1, <2>1, ArriveLocated DEF OfferInv, OwnTypeOK
<1>2. CASE Load(r) \/ UpstreamFails(r) \/ EmitEvents(r) \/ Update(r)
  <2>1. \/ S!LoadPatternState(r) \/ S!LoadFails(r) \/ S!UpstreamFails(r)
        \/ S!UpdatePatternState(r) \/ S!UpdateFails(r)
        \/ \E tools \in Responses : S!RespondStreaming(r, tools) \/ S!RespondBuffered(r, tools)
    BY <1>2 DEF Load, UpstreamFails, EmitEvents, Update
  <2>2. /\ \E to \in Stages \ {"new"} : stage' = [stage EXCEPT ![r] = to]
        /\ reply' = reply \/ \E got : reply' = [reply EXCEPT ![r] = got]
        /\ UNCHANGED <<at, line, closed, life>>
    BY <1>2 DEF Load, UpstreamFails, EmitEvents, Update, Goes, loggerVars, Stages
  <2> QED
    BY <2>1, <2>2, StaysNew, HandlerPC DEF OfferInv, OwnTypeOK
<1>3. CASE UpstreamAnswers(r)
  <2>1. /\ stage' = [stage EXCEPT ![r] = "response"]
        /\ \E got : reply' = [reply EXCEPT ![r] = got]
        /\ UNCHANGED <<at, line, closed, life, pc, sid, seq, isNew, disturbed>>
    BY <1>3 DEF UpstreamAnswers, Goes, loggerVars, sessionVars
  <2> QED
    BY <2>1 DEF OfferInv, OwnTypeOK
<1>4. CASE LogCall(r)
  <2>1. UNCHANGED <<stage, reply, closed, life, pc, sid, seq, isNew, disturbed>>
    BY <1>4 DEF LogCall, L!Call, L!maps, L!world, own, sessionVars
  <2>2. \A q \in Requests \ {r} : at'[q] = at[q] /\ line'[q] = line[q]
    BY <1>4 DEF LogCall, L!Call, L!TypeOK
  <2> QED
    BY <2>1, <2>2
<1>5. CASE LogStep(r)
  <2>1. UNCHANGED <<stage, reply, pc, sid, seq, isNew, disturbed>>
    BY <1>5 DEF LogStep, own, sessionVars
  <2>2. UNCHANGED <<closed, life>>
    BY <1>5 DEF LogStep, L!Step, L!LockUpstreams, L!RegisterUpstream, L!BeginLookup, L!Lookup,
         L!GetFile, L!UseFile, L!OpenFile, L!NoFileFor, L!WriteEntry, L!WriteLine, L!WriteFails,
         L!maps, L!world
  <2> QED
    BY <1>5, <2>1, <2>2, CallerOnly DEF LogStep
<1>6. CASE LogReturn(r)
  <2>1. /\ at[r] = "returned" /\ at' = [at EXCEPT ![r] = "idle"]
        /\ stage' = [stage EXCEPT ![r] = AfterLog(@)]
        /\ UNCHANGED <<reply, line, closed, life, pc, sid, seq, isNew, disturbed>>
    BY <1>6 DEF LogReturn, L!Return, L!Moves, L!maps, L!world, sessionVars
  <2>2. stage[r] \in L!Kinds
    BY <2>1 DEF OfferInv, OfferedBy
  <2>3. AfterLog(stage[r]) # "new"
    BY <2>2 DEF AfterLog, L!Kinds
  <2> QED
    BY <2>1, <2>3 DEF OfferInv, OwnTypeOK, L!TypeOK
<1> QED
  BY <1>1, <1>2, <1>3, <1>4, <1>5, <1>6 DEF Handle, Upstream

\* The process dies.
LEMMA Dies ==
    ASSUME S!TypeOK, Restart
    PROVE  /\ \A r \in Requests :
                /\ stage'[r] = IF S!Active(r) THEN "crashed" ELSE stage[r]
                /\ pc'[r] = IF S!Active(r) THEN "failed" ELSE pc[r]
                /\ at'[r] = "idle"
           /\ upstreams' = {} /\ files' = [s \in Requests |-> NoFile]
           /\ life' = life + 1 /\ closed' = FALSE
           /\ UNCHANGED <<reply, line, disk, sid, seq, isNew, disturbed>>
BY DEF Restart, L!Restart, L!FatalRace, S!Restart, S!identity, S!TypeOK, sessionVars

LEMMA TrackStep ==
    ASSUME S!TypeOK, L!TypeOK, OfferInv, TrackInv, [Next]_vars
    PROVE  TrackInv'
<1>1. ASSUME NEW r \in Requests, OnlyHandles(r), Track(r)' PROVE TrackInv'
  BY <1>1 DEF TrackInv, Track, OnlyHandles
<1>2. ASSUME NEW r \in Requests, Arrive(r) PROVE Track(r)'
  <2>1. stage'[r] = "load" /\ pc'[r] = "located"
    BY <1>2, ArriveLocated DEF Arrive, Goes, OfferInv, OwnTypeOK
  <2> QED
    BY <2>1 DEF Track
<1>3. ASSUME NEW r \in Requests, Load(r) PROVE Track(r)'
  <2>1. stage'[r] \in {"session_start", "request"} /\ pc'[r] = "loaded"
    BY <1>3, HandlerPC DEF Load, Goes, OfferInv, OwnTypeOK
  <2> QED
    BY <2>1 DEF Track
<1>4. ASSUME NEW r \in Requests, LogCall(r) \/ LogStep(r) PROVE Track(r)'
  <2>1. UNCHANGED <<stage, pc, reply>>
    BY <1>4 DEF LogCall, LogStep, own, sessionVars
  <2> QED
    BY <2>1 DEF TrackInv, Track
<1>5. ASSUME NEW r \in Requests, LogReturn(r) PROVE Track(r)'
  <2>1. /\ at[r] = "returned" /\ stage' = [stage EXCEPT ![r] = AfterLog(@)] /\ UNCHANGED pc
    BY <1>5 DEF LogReturn, L!Return, L!Moves, sessionVars
  <2>2. stage[r] \in L!Kinds
    BY <2>1 DEF OfferInv, OfferedBy
  <2>3. stage'[r] \in {"request", "forward", "emit"}
    BY <2>1, <2>2 DEF AfterLog, L!Kinds, OfferInv, OwnTypeOK
  <2> QED
    BY <2>1, <2>2, <2>3 DEF TrackInv, Track, L!Kinds
<1>6. ASSUME NEW r \in Requests, UpstreamAnswers(r) PROVE Track(r)'
  <2>1. stage[r] = "forward" /\ stage'[r] = "response" /\ UNCHANGED pc
    BY <1>6 DEF UpstreamAnswers, Goes, OfferInv, OwnTypeOK, sessionVars
  <2> QED
    BY <2>1 DEF TrackInv, Track
<1>7. ASSUME NEW r \in Requests, UpstreamFails(r) PROVE Track(r)'
  <2>1. stage'[r] = "end" /\ pc'[r] = "failed"
    BY <1>7 DEF UpstreamFails, Goes, OfferInv, OwnTypeOK, S!UpstreamFails, S!TypeOK
  <2> QED
    BY <2>1 DEF Track
<1>8. ASSUME NEW r \in Requests, EmitEvents(r) PROVE Track(r)'
  <2>1. stage'[r] = "update" /\ pc'[r] \in {"responded", "streamed"}
    BY <1>8 DEF EmitEvents, Goes, OfferInv, OwnTypeOK, S!RespondStreaming, S!RespondBuffered,
         S!EmitResponse, S!TypeOK
  <2> QED
    BY <2>1 DEF Track
<1>9. ASSUME NEW r \in Requests, Update(r) PROVE Track(r)'
  <2>1. stage'[r] = "end" /\ pc'[r] = "done" /\ reply'[r] = "full"
    BY <1>9 DEF Update, Goes, OfferInv, OwnTypeOK, S!UpdatePatternState, S!UpdateFails,
         S!Finish, S!TypeOK
  <2> QED
    BY <2>1 DEF Track
<1>10. CASE Restart
  BY <1>10, Dies DEF TrackInv, Track, S!Active
<1>11. CASE Midnight \/ UNCHANGED vars
  <2>1. UNCHANGED <<stage, pc, reply>>
    BY <1>11 DEF Midnight, own, sessionVars, vars
  <2> QED
    BY <2>1 DEF TrackInv, Track
<1> QED
  BY <1>1, <1>2, <1>3, <1>4, <1>5, <1>6, <1>7, <1>8, <1>9, <1>10, <1>11, HandlerFrame
     DEF Next, Handle, Upstream

LEMMA TrackInvHolds == Spec => []TrackInv
<1>1. Init => TrackInv
  BY DEF Init, S!Init, TrackInv, Track
<1> QED
  BY <1>1, TrackStep, PipelineTypes, OfferInvHolds, PTL DEF Spec

SessionInvs == S!TypeOK /\ S!SessionInv /\ S!SeqConsecutive /\ S!NewestInv /\ TrackInv

\* When a request is in a session it did not open, and that is undisturbed,
\* the one that opened it has ended.
LEMMA OpenerEnded ==
    ASSUME SessionInvs, OwnTypeOK, NEW r \in Requests, NEW s \in Requests,
           s = sid[r], s # r, s \notin disturbed
    PROVE  stage[s] \in {"end", "crashed"} /\ isNew[s] /\ sid[s] = s
<1> USE DEF SessionInvs
<1>1. db[s] # NoSession /\ pc[r] # "idle"
  BY DEF S!SessionInv
<1>2. pc[s] # "idle" /\ sid[s] = s
  BY <1>1 DEF S!SessionInv
<1>3. isNew[s]
  BY <1>2 DEF S!NewestInv
<1>4. r \in S!Members(s) /\ s \in S!Members(s)
  BY <1>1, <1>2 DEF S!Members
<1>5. seq[s] = 1 /\ seq[r] \in 1..db[s].last_seq
  BY <1>1, <1>3, <1>4 DEF S!SeqConsecutive
<1>6. ~S!Active(s)
  <2>1. S!Active(s) => seq[r] < seq[s]
    BY <1>2, <1>4 DEF S!NewestInv
  <2> QED
    BY <1>5, <2>1
<1>7. Track(s) /\ stage[s] \in Stages
  BY DEF TrackInv, OwnTypeOK
<1> QED
  BY <1>2, <1>3, <1>6, <1>7 DEF Track, S!Active, Stages

\* The session that r opens is registered in this life of the process.
Opened(r) ==
    /\ isNew[r] /\ line[r].life = life
    /\ \/ stage[r] \in {"request", "forward", "response", "emit", "update", "end"}
       \/ stage[r] = "session_start" /\ at[r] \in {"open", "write", "returned"}

\* The line r is logging is the one of its stage, logged in this life.
LineOf(r) ==
    /\ at[r] # "idle" =>
          line[r].kind = stage[r] /\ line[r].session = sid[r] /\ line[r].call[1] = r
    /\ at[r] \in {"lookup", "reading"} => stage[r] # "session_start"
    /\ line[r].life \in 1..life
    /\ stage[r] = "crashed" => line[r].life < life /\ ~Registered(r)
    /\ stage[r] \in {"forward", "response", "emit", "update"} => line[r].life = life
    /\ stage[r] = "request" /\ isNew[r] => line[r].life = life
    /\ Opened(r) => r \in upstreams

LineInv == ~closed /\ \A r \in Requests : LineOf(r)

\* A call and its steps change nothing of a line that is told here but make it.
LEMMA CallLine ==
    ASSUME L!TypeOK, NEW r \in Requests, LogCall(r)
    PROVE  /\ line'[r].kind = stage[r] /\ line'[r].session = sid[r] /\ line'[r].call[1] = r
           /\ line'[r].life = life
           /\ at[r] = "idle" /\ at'[r] = IF stage[r] = "session_start" THEN "register" ELSE "lookup"
           /\ UNCHANGED <<disk, life, upstreams, files, stage, sid, isNew>>
<1>1. /\ line' = [line EXCEPT ![r] = [call |-> <<r, @.call[2] + 1>>, kind |-> stage[r],
                     session |-> sid[r], host |-> stage[r] = "session_start", life |-> life]]
      /\ at[r] = "idle" /\ at' = [at EXCEPT ![r] = IF stage[r] = "session_start"
                                                   THEN "register" ELSE "lookup"]
      /\ UNCHANGED <<disk, life, upstreams, files, stage, sid, isNew>>
  BY DEF LogCall, L!Call, L!maps, L!world, own, sessionVars
<1> QED
  BY <1>1 DEF L!TypeOK

LEMMA StepLine ==
    ASSUME L!TypeOK, NEW r \in Requests, LogStep(r)
    PROVE  /\ line'[r].kind = line[r].kind /\ line'[r].session = line[r].session
           /\ line'[r].call = line[r].call /\ line'[r].life = line[r].life
           /\ UNCHANGED <<life, stage, sid, isNew>>
<1>1. UNCHANGED <<life, stage, sid, isNew>>
  BY DEF LogStep, L!Step, L!LockUpstreams, L!RegisterUpstream, L!BeginLookup, L!Lookup,
     L!GetFile, L!UseFile, L!OpenFile, L!NoFileFor, L!WriteEntry, L!WriteLine, L!WriteFails,
     L!world, own, sessionVars
<1>2. line' = line \/ \E found \in BOOLEAN : line' = [line EXCEPT ![r].host = found]
  BY DEF LogStep, L!Step, L!LockUpstreams, L!RegisterUpstream, L!BeginLookup, L!Lookup,
     L!GetFile, L!UseFile, L!OpenFile, L!NoFileFor, L!WriteEntry, L!WriteLine, L!WriteFails,
     L!Returns, L!call
<1> QED
  BY <1>1, <1>2 DEF L!TypeOK, L!Lines

\* Registrations stay, and are made by session_start alone.
LEMMA MapsGrow ==
    ASSUME L!TypeOK, OfferInv, ControlInv, LineInv, NEW r \in Requests,
           Arrive(r) \/ Handle(r) \/ Upstream(r)
    PROVE  /\ upstreams \subseteq upstreams'
           /\ \A s \in Requests : Registered(s)' => Registered(s) \/ (s = r /\ at[r] = "registering")
<1>1. CASE UNCHANGED <<upstreams, files>>
  BY <1>1 DEF Registered
<1>2. CASE LogStep(r) /\ L!RegisterUpstream(r)
  <2>1. /\ at[r] = "registering" /\ UNCHANGED files
        /\ upstreams' = upstreams \cup {line[r].session}
    BY <1>2 DEF L!RegisterUpstream, L!Moves, LineInv
  <2>2. line[r].session = r
    BY <2>1 DEF ControlInv, Registering
  <2> QED
    BY <2>1, <2>2 DEF Registered
<1>3. CASE LogStep(r) /\ L!OpenFile(r)
  <2>1. /\ line[r].session \in upstreams /\ UNCHANGED upstreams
        /\ files' = [files EXCEPT ![line[r].session] = <<line[r].session, today>>]
    BY <1>3 DEF L!OpenFile
  <2> QED
    BY <2>1 DEF Registered, L!TypeOK
<1>4. CASE LogStep(r) /\ ~L!RegisterUpstream(r) /\ ~L!OpenFile(r)
  BY <1>1, <1>4 DEF LogStep, L!Step, L!LockUpstreams, L!BeginLookup, L!Lookup, L!GetFile,
     L!UseFile, L!NoFileFor, L!WriteEntry, L!WriteLine, L!WriteFails, L!maps
<1>5. CASE \/ Arrive(r) \/ Load(r) \/ LogCall(r) \/ LogReturn(r) \/ EmitEvents(r) \/ Update(r)
           \/ Upstream(r)
  BY <1>1, <1>5 DEF Arrive, Load, LogCall, L!Call, LogReturn, L!Return, EmitEvents, Update,
     Upstream, UpstreamAnswers, UpstreamFails, loggerVars, L!maps
<1> QED
  BY <1>2, <1>3, <1>4, <1>5 DEF Handle

LEMMA LineStep ==
    ASSUME S!TypeOK, L!TypeOK, L!FileInv, OfferInv, ControlInv, TrackInv, LineInv, [Next]_vars
    PROVE  LineInv'
<1>0. /\ \A r \in Requests : LineOf(r) /\ (at[r] # "idle" => line[r].life = life)
      /\ ~closed /\ life \in Nat /\ life >= 1
  BY PipelineAssumption DEF LineInv, L!FileInv, L!TypeOK
<1>1. ASSUME NEW r \in Requests, Arrive(r) \/ Handle(r) \/ Upstream(r), LineOf(r)'
      PROVE  LineInv'
  <2>1. /\ OnlyHandles(r) /\ upstreams \subseteq upstreams'
        /\ \A s \in Requests : Registered(s)' => Registered(s) \/ s = r
    BY <1>1, HandlerFrame, MapsGrow
  <2>2. ASSUME NEW q \in Requests \ {r} PROVE LineOf(q)'
    <3>1. /\ stage'[q] = stage[q] /\ at'[q] = at[q] /\ line'[q] = line[q] /\ life' = life
          /\ sid'[q] = sid[q] /\ isNew'[q] = isNew[q]
      BY <2>1 DEF OnlyHandles
    <3>2. LineOf(q) /\ upstreams \subseteq upstreams' /\ (Registered(q)' => Registered(q))
      BY <1>0, <2>1
    <3> QED
      BY <3>1, <3>2 DEF LineOf, Opened
  <2> QED
    BY <1>0, <1>1, <2>1, <2>2 DEF LineInv, OnlyHandles
<1>2. ASSUME NEW r \in Requests, Arrive(r) PROVE LineOf(r)'
  <2>1. /\ stage[r] = "new" /\ stage'[r] = "load" /\ UNCHANGED <<at, line, life>>
    BY <1>2 DEF Arrive, Goes, loggerVars, OfferInv, OwnTypeOK
  <2>2. at[r] = "idle"
    BY <2>1 DEF OfferInv, OfferedBy, L!Kinds
  <2> QED
    BY <1>0, <2>1, <2>2 DEF LineOf, Opened
<1>3. ASSUME NEW r \in Requests, Load(r) PROVE LineOf(r)'
  <2>1. /\ stage[r] = "load" /\ UNCHANGED <<at, line, life>>
        /\ stage'[r] = IF isNew[r] THEN "session_start" ELSE "request"
    BY <1>3 DEF Load, Goes, loggerVars, OfferInv, OwnTypeOK
  <2>2. at[r] = "idle"
    BY <2>1 DEF OfferInv, OfferedBy, L!Kinds
  <2>3. isNew' = isNew
    BY <1>3, StaysNew DEF Load
  <2> QED
    BY <1>0, <2>1, <2>2, <2>3 DEF LineOf, Opened
<1>4. ASSUME NEW r \in Requests, LogCall(r) PROVE LineOf(r)'
  <2>1. stage[r] \in L!Kinds
    BY <1>4 DEF LogCall
  <2>2. Opened(r)' => Opened(r)
    BY <1>0, <1>4, <2>1, CallLine DEF Opened, LineOf, L!Kinds
  <2>3. line'[r].life \in 1..life'
    BY <1>0, <1>4, CallLine
  <2> QED
    BY <1>0, <1>4, <2>1, <2>2, <2>3, CallLine DEF LineOf, L!Kinds
<1>5. ASSUME NEW r \in Requests, LogStep(r) PROVE LineOf(r)'
  <2>1. /\ at[r] # "idle" /\ at'[r] # "idle"
        /\ upstreams \subseteq upstreams'
    BY <1>5, CallerOnly, MapsGrow DEF LogStep, Handle
  <2>2. stage[r] \in L!Kinds
    BY <2>1 DEF OfferInv, OfferedBy
  <2>3. at'[r] \in {"lookup", "reading"} => at[r] \in {"lookup", "reading"}
    BY <1>5 DEF LogStep, L!Step, L!LockUpstreams, L!RegisterUpstream, L!BeginLookup, L!Lookup,
       L!GetFile, L!UseFile, L!OpenFile, L!NoFileFor, L!WriteEntry, L!WriteLine, L!WriteFails,
       L!Moves, L!TypeOK
  <2>4. ASSUME at'[r] \in {"open", "write", "returned"}, stage[r] = "session_start"
        PROVE  r \in upstreams'
    <3>1. CASE L!RegisterUpstream(r)
      <4>1. line[r].session = r /\ upstreams' = upstreams \cup {line[r].session}
        BY <1>0, <3>1 DEF L!RegisterUpstream, L!Moves, ControlInv, Registering
      <4> QED
        BY <4>1
    <3>2. CASE ~L!RegisterUpstream(r)
      <4>1. at[r] \in {"open", "write", "returned", "lookup", "reading"}
        BY <1>5, <2>4, <3>2 DEF LogStep, L!Step, L!LockUpstreams, L!BeginLookup, L!Lookup,
           L!GetFile, L!UseFile, L!OpenFile, L!NoFileFor, L!WriteEntry, L!WriteLine,
           L!WriteFails, L!Moves, L!TypeOK
      <4>2. at[r] \notin {"lookup", "reading"}
        BY <1>0, <2>4 DEF LineOf
      <4>3. isNew[r] /\ line[r].life = life
        BY <1>0, <2>1, <2>4 DEF ControlInv
      <4>4. Opened(r)
        BY <2>4, <4>1, <4>2, <4>3 DEF Opened
      <4> QED
        BY <1>0, <2>1, <4>4 DEF LineOf
    <3> QED
      BY <3>1, <3>2
  <2>5. Opened(r)' => r \in upstreams'
    BY <1>0, <1>5, <2>1, <2>4, StepLine DEF Opened, LineOf
  <2>6. line'[r].life \in 1..life' /\ stage'[r] \in L!Kinds
    BY <1>0, <1>5, <2>2, StepLine DEF LineOf
  <2> QED
    BY <1>0, <1>5, <2>1, <2>2, <2>3, <2>5, <2>6, StepLine DEF LineOf, L!Kinds
<1>6. ASSUME NEW r \in Requests, LogReturn(r) PROVE LineOf(r)'
  <2>1. /\ at[r] = "returned" /\ at' = [at EXCEPT ![r] = "idle"]
        /\ stage' = [stage EXCEPT ![r] = AfterLog(@)]
        /\ UNCHANGED <<line, life, upstreams, isNew, sid>>
    BY <1>6 DEF LogReturn, L!Return, L!Moves, L!maps, L!world, sessionVars
  <2>2. stage[r] \in L!Kinds
    BY <2>1 DEF OfferInv, OfferedBy
  <2>3. at'[r] = "idle" /\ stage'[r] \in {"request", "forward", "emit"}
    BY <2>1, <2>2 DEF AfterLog, L!Kinds, OfferInv, OwnTypeOK, L!TypeOK
  <2>4. line[r].life = life
    BY <1>0, <2>1
  <2>5. Opened(r)' => Opened(r)
    BY <2>1, <2>2, <2>3 DEF Opened, L!Kinds
  <2> QED
    BY <1>0, <2>1, <2>3, <2>4, <2>5 DEF LineOf
<1>7. ASSUME NEW r \in Requests, Upstream(r) \/ EmitEvents(r) \/ Update(r) PROVE LineOf(r)'
  <2>1. /\ stage[r] \in {"forward", "emit", "update"}
        /\ stage'[r] \in {"response", "update", "end"}
        /\ UNCHANGED <<at, line, life, upstreams>>
    BY <1>7 DEF Upstream, UpstreamAnswers, UpstreamFails, EmitEvents, Update, Goes, loggerVars,
       OfferInv, OwnTypeOK
  <2>2. isNew'[r] = isNew[r]
    BY <1>7, <2>1, HandlerFrame DEF OnlyHandles, Handle
  <2>3. at[r] = "idle"
    BY <2>1 DEF OfferInv, OfferedBy, L!Kinds
  <2> QED
    BY <1>0, <2>1, <2>2, <2>3 DEF LineOf, Opened
<1>8. CASE Restart
  <2>1. ASSUME NEW r \in Requests PROVE LineOf(r)'
    <3>1. /\ stage'[r] \in {"new", "end", "crashed"} /\ at'[r] = "idle" /\ line'[r] = line[r]
          /\ life' = life + 1 /\ ~Registered(r)' /\ stage[r] \in Stages
      BY <1>8, Dies DEF TrackInv, Track, S!Active, Registered, OfferInv, OwnTypeOK, Stages
    <3>2. line[r].life \in 1..life
      BY <1>0 DEF LineOf
    <3> QED
      BY <1>0, <3>1, <3>2 DEF LineOf, Opened
  <2> QED
    BY <1>8, <2>1, Dies DEF LineInv
<1>9. CASE Midnight \/ UNCHANGED vars
  <2>1. UNCHANGED <<stage, at, line, life, sid, isNew, upstreams, files, closed>>
    BY <1>9 DEF Midnight, L!Midnight, L!maps, L!call, loggerVars, own, sessionVars, vars
  <2> QED
    BY <1>0, <2>1 DEF LineInv, LineOf, Opened, Registered
<1> QED
  BY <1>1, <1>2, <1>3, <1>4, <1>5, <1>6, <1>7, <1>8, <1>9 DEF Next, Handle

LEMMA LineInvHolds == Spec => []LineInv
<1>1. Init => LineInv
  BY DEF Init, L!Init, LineInv, LineOf, Opened
<1>2. Spec => []L!FileInv
  BY ComponentsImplemented, FilesOfLife, PTL
<1> QED
  BY <1>1, <1>2, LineStep, PipelineTypes, OfferInvHolds, ControlInvHolds, TrackInvHolds, PTL
     DEF Spec

Invs ==
    /\ SessionInvs /\ L!TypeOK /\ L!FileInv
    /\ OfferInv /\ ControlInv /\ LifeInv /\ LineInv

LEMMA InvsHold == Spec => []Invs
<1>1. Spec => []L!FileInv
  BY ComponentsImplemented, FilesOfLife, PTL
<1>2. /\ S!TypeOK /\ L!TypeOK /\ L!FileInv
      /\ S!SessionInv /\ S!SeqConsecutive /\ S!NewestInv /\ S!NeverOvercounts /\ S!WritersInv
      /\ OfferInv /\ ControlInv /\ LifeInv /\ TrackInv /\ LineInv
      => Invs
  BY DEF Invs, SessionInvs
<1> QED
  BY <1>1, <1>2, PipelineTypes, SessionFacts, OfferInvHolds, ControlInvHolds, LifeInvHolds,
     TrackInvHolds, LineInvHolds, PTL

\* The call of kind k is behind r: whether its line is on file is decided.
After(kind) ==
    CASE kind = "session_start" ->
            {"request", "forward", "response", "emit", "update", "end", "crashed"}
      [] kind = "request" -> {"forward", "response", "emit", "update", "end", "crashed"}
      [] kind = "response" -> {"emit", "update", "end", "crashed"}

Behind(k, r) == stage[r] \in After(k) \/ (stage[r] = k /\ at[r] = "returned")

LEMMA Kinds3 ==
    /\ After("session_start") =
         {"request", "forward", "response", "emit", "update", "end", "crashed"}
    /\ After("request") = {"forward", "response", "emit", "update", "end", "crashed"}
    /\ After("response") = {"emit", "update", "end", "crashed"}
    /\ AfterLog("session_start") = "request" /\ AfterLog("request") = "forward"
    /\ AfterLog("response") = "emit"
    /\ \A k \in L!Kinds : k = "session_start" \/ k = "request" \/ k = "response"
BY DEF After, AfterLog, L!Kinds

\* Where the handler of r is when it steps; a call ends with a line or an error.
LEMMA HandlerStages ==
    ASSUME Invs, NEW r \in Requests, Arrive(r) \/ Handle(r) \/ Upstream(r)
    PROVE  \/ LogCall(r) /\ stage[r] \in L!Kinds /\ stage'[r] = stage[r] /\ at'[r] # "returned"
           \/ LogStep(r) /\ stage[r] \in L!Kinds /\ stage'[r] = stage[r] /\ at[r] # "returned"
           \/ /\ UNCHANGED line /\ at'[r] = "idle"
              /\ \/ stage[r] = "new" /\ stage'[r] = "load"
                 \/ stage[r] = "load" /\ stage'[r] = IF isNew[r] THEN "session_start" ELSE "request"
                 \/ stage[r] \in L!Kinds /\ at[r] = "returned" /\ stage'[r] = AfterLog(stage[r])
                 \/ stage[r] = "forward" /\ stage'[r] = "response"
                 \/ stage[r] = "forward" /\ stage'[r] = "end" /\ reply'[r] # "full"
                 \/ stage[r] = "emit" /\ stage'[r] = "update"
                 \/ stage[r] = "update" /\ stage'[r] = "end"
<1> USE DEF Invs, OfferInv, OwnTypeOK
<1>0. ASSUME UNCHANGED at, stage[r] \notin L!Kinds PROVE at'[r] = "idle"
  BY <1>0 DEF OfferedBy
<1>1. CASE Arrive(r) \/ Load(r)
  BY <1>0, <1>1 DEF Arrive, Load, Goes, loggerVars, L!Kinds
<1>2. CASE UpstreamAnswers(r) \/ EmitEvents(r) \/ Update(r)
  BY <1>0, <1>2 DEF UpstreamAnswers, EmitEvents, Update, Goes, loggerVars, L!Kinds
<1>3. CASE UpstreamFails(r)
  BY <1>0, <1>3 DEF UpstreamFails, Goes, loggerVars, L!Kinds
<1>4. CASE LogCall(r)
  <2>1. stage[r] \in L!Kinds /\ stage' = stage /\ at'[r] \in {"register", "lookup"}
    BY <1>4, CallLine DEF LogCall
  <2> QED
    BY <1>4, <2>1
<1>5. CASE LogStep(r)
  <2>1. at[r] # "idle" /\ stage' = stage
    BY <1>5, CallerOnly, StepLine DEF LogStep
  <2>2. at[r] # "returned"
    BY <1>5 DEF LogStep, L!Step, L!LockUpstreams, L!RegisterUpstream, L!BeginLookup, L!Lookup,
       L!GetFile, L!UseFile, L!OpenFile, L!NoFileFor, L!WriteEntry, L!WriteLine, L!WriteFails,
       L!Moves
  <2>3. stage[r] \in L!Kinds
    BY <2>1 DEF OfferedBy
  <2> QED
    BY <1>5, <2>1, <2>2, <2>3
<1>6. CASE LogReturn(r)
  <2>1. /\ at[r] = "returned" /\ at' = [at EXCEPT ![r] = "idle"]
        /\ stage' = [stage EXCEPT ![r] = AfterLog(@)] /\ UNCHANGED line
    BY <1>6 DEF LogReturn, L!Return, L!Moves
  <2>2. stage[r] \in L!Kinds /\ at'[r] = "idle"
    BY <2>1 DEF OfferedBy, L!TypeOK
  <2> QED
    BY <2>1, <2>2
<1> QED
  BY <1>1, <1>2, <1>3, <1>4, <1>5, <1>6 DEF Handle, Upstream

\* What is behind a request stays so, and who it is.
LEMMA BehindStays ==
    ASSUME Invs, [Next]_vars
    PROVE  /\ \A q \in Requests, k \in L!Kinds : Behind(k, q) => Behind(k, q)'
           /\ \A q \in Requests : stage[q] # "new" =>
                stage'[q] # "new" /\ sid'[q] = sid[q] /\ seq'[q] = seq[q] /\ isNew'[q] = isNew[q]
           /\ disturbed \subseteq disturbed'
<1>1. ASSUME NEW r \in Requests, Arrive(r) \/ Handle(r) \/ Upstream(r)
      PROVE  /\ OnlyHandles(r)
             /\ \A k \in L!Kinds : Behind(k, r) => Behind(k, r)'
  <2>1. OnlyHandles(r)
    BY <1>1, HandlerFrame DEF Invs, SessionInvs
  <2>2. ASSUME NEW k \in L!Kinds, Behind(k, r)
        PROVE  Behind(k, r)'
    <3>1. CASE LogCall(r)
      <4>1. at[r] = "idle" /\ stage' = stage
        BY <3>1, CallLine DEF Invs
      <4> QED
        BY <2>2, <4>1 DEF Behind
    <3>2. CASE ~LogCall(r)
      BY <1>1, <2>2, <3>2, HandlerStages, Kinds3 DEF Behind
    <3> QED
      BY <3>1, <3>2
  <2> QED
    BY <2>1, <2>2
<1>2. CASE \E r \in Requests : Arrive(r) \/ Handle(r) \/ Upstream(r)
  BY <1>1, <1>2 DEF OnlyHandles, Behind
<1>3. CASE Restart
  <2>1. \A q \in Requests, k \in L!Kinds : Behind(k, q) => Behind(k, q)'
    BY <1>3, Dies, Kinds3 DEF Invs, SessionInvs, TrackInv, Track, S!Active, Behind
  <2> QED
    BY <1>3, <2>1, Dies DEF Invs, SessionInvs
<1>4. CASE Midnight \/ UNCHANGED vars
  <2>1. UNCHANGED <<stage, at, sid, seq, isNew, disturbed>>
    BY <1>4 DEF Midnight, L!Midnight, loggerVars, own, sessionVars, vars
  <2> QED
    BY <2>1 DEF Behind
<1> QED
  BY <1>2, <1>3, <1>4 DEF Next

\* The handler of r writes its line to file h.
Writes(r, h) ==
    /\ h \in L!Files /\ h[1] = sid[r] /\ files[h[1]] = h
    /\ line[r] \in L!Lines /\ line[r].kind = stage[r] /\ line[r].call[1] = r /\ line[r].life = life
    /\ stage[r] \in L!Kinds /\ at[r] = "write"
    /\ stage'[r] = stage[r] /\ at'[r] = "returned"
    /\ disk' = [disk EXCEPT ![h] = Append(@, line[r])]

LEMMA WriteIs ==
    ASSUME Invs, NEW r \in Requests, LogStep(r), L!WriteLine(r)
    PROVE  \E h \in L!Files : Writes(r, h)
<1>1. /\ at[r] = "write" /\ at' = [at EXCEPT ![r] = "returned"] /\ stage' = stage
      /\ disk' = [disk EXCEPT ![handle[r]] = Append(@, line[r])]
  BY DEF LogStep, L!WriteLine, L!Moves, own
<1>2. /\ handle[r] # NoFile /\ handle[r][1] = line[r].session /\ line[r].life = life
      /\ files[line[r].session] = handle[r]
  BY <1>1 DEF Invs, L!FileInv, LineInv
<1>3. handle[r] \in L!Files /\ line[r] \in L!Lines
  BY <1>2 DEF Invs, L!TypeOK
<1>4. line[r].kind = stage[r] /\ line[r].session = sid[r] /\ line[r].call[1] = r
  BY <1>1 DEF Invs, LineInv, LineOf
<1>5. stage[r] \in L!Kinds /\ at'[r] = "returned"
  BY <1>1 DEF Invs, OfferInv, OfferedBy, L!TypeOK
<1> QED
  BY <1>1, <1>2, <1>3, <1>4, <1>5 DEF Writes

LEMMA DiskChanges ==
    ASSUME Invs, [Next]_vars
    PROVE  UNCHANGED disk \/ \E r \in Requests, h \in L!Files : Writes(r, h)
<1>1. ASSUME NEW r \in Requests, LogStep(r) PROVE UNCHANGED disk \/ L!WriteLine(r)
  BY <1>1 DEF LogStep, L!Step, L!LockUpstreams, L!RegisterUpstream, L!BeginLookup, L!Lookup,
     L!GetFile, L!UseFile, L!OpenFile, L!NoFileFor, L!WriteEntry, L!WriteFails, L!world
<1>2. ASSUME NEW r \in Requests,
             \/ Arrive(r) \/ Load(r) \/ LogCall(r) \/ LogReturn(r)
             \/ EmitEvents(r) \/ Update(r) \/ Upstream(r)
      PROVE  UNCHANGED disk
  BY <1>2 DEF Arrive, Load, LogCall, L!Call, LogReturn, L!Return, EmitEvents, Update, Upstream,
       UpstreamAnswers, UpstreamFails, loggerVars, L!world
<1>3. CASE Restart \/ Midnight \/ UNCHANGED vars
  BY <1>3 DEF Restart, L!Restart, L!FatalRace, Midnight, L!Midnight, loggerVars, vars
<1> QED
  BY <1>1, <1>2, <1>3, WriteIs DEF Next, Handle

\* The files after a write.
LEMMA Written ==
    ASSUME Invs, NEW r \in Requests, NEW h \in L!Files, Writes(r, h)
    PROVE  /\ disk[h] \in Seq(L!Lines) /\ Len(disk[h]) \in Nat
           /\ DOMAIN disk[h] = 1..Len(disk[h])
           /\ DOMAIN disk'[h] = 1..(Len(disk[h]) + 1)
           /\ \A i \in 1..Len(disk[h]) : disk'[h][i] = disk[h][i]
           /\ disk'[h][Len(disk[h]) + 1] = line[r]
           /\ \A g \in L!Files \ {h} : disk'[g] = disk[g] /\ L!OnDisk(g)' = L!OnDisk(g)
           /\ L!OnDisk(h)' = L!OnDisk(h) \cup {line[r]}
<1>1. disk[h] \in Seq(L!Lines) /\ line[r] \in L!Lines
  BY DEF Invs, L!TypeOK, Writes
<1>2. disk'[h] = Append(disk[h], line[r]) /\ \A g \in L!Files \ {h} : disk'[g] = disk[g]
  BY DEF Invs, L!TypeOK, Writes
<1>3. /\ Len(disk[h]) \in Nat /\ DOMAIN disk[h] = 1..Len(disk[h])
      /\ DOMAIN disk'[h] = 1..(Len(disk[h]) + 1)
      /\ \A i \in 1..Len(disk[h]) : disk'[h][i] = disk[h][i]
      /\ disk'[h][Len(disk[h]) + 1] = line[r]
  BY <1>1, <1>2, LenProperties, AppendProperties
<1>4. L!OnDisk(h)' = L!OnDisk(h) \cup {line[r]}
  BY <1>1, <1>2, Appended DEF L!OnDisk
<1> QED
  BY <1>1, <1>2, <1>3, <1>4 DEF L!OnDisk

\* A request has on file only what is behind it, in the file of its session.
FiledInv ==
    \A f \in L!Files : \A x \in L!OnDisk(f) :
        sid[x.call[1]] = f[1] /\ Behind(x.kind, x.call[1])

LEMMA LineTypes ==
    ASSUME L!TypeOK, NEW f \in L!Files
    PROVE  /\ f[1] \in Requests
           /\ \A x \in L!OnDisk(f) : x.kind \in L!Kinds /\ x.call[1] \in Requests
<1>1. \A x \in L!OnDisk(f) : x \in L!Lines
  <2>1. disk[f] \in Seq(L!Lines)
    BY DEF L!TypeOK
  <2> QED
    BY <2>1, ElementOfSeq, LenProperties DEF L!OnDisk
<1> QED
  BY <1>1 DEF L!Files, L!Lines

LEMMA FiledStep ==
    ASSUME Invs, FiledInv, [Next]_vars
    PROVE  FiledInv'
<1>1. \A k \in L!Kinds, q \in Requests : Behind(k, q) =>
         stage[q] # "new" /\ Behind(k, q)' /\ sid'[q] = sid[q]
  BY BehindStays, Kinds3 DEF Behind
<1>2. \A f \in L!Files : \A x \in L!OnDisk(f) :
         sid'[x.call[1]] = f[1] /\ Behind(x.kind, x.call[1])'
  BY <1>1, LineTypes DEF FiledInv, Invs
<1>3. CASE UNCHANGED disk
  BY <1>2, <1>3 DEF FiledInv, L!OnDisk
<1>4. ASSUME NEW r \in Requests, NEW h \in L!Files, Writes(r, h)
      PROVE  FiledInv'
  <2>1. PICK x \in L!Lines : x = line[r]
    BY <1>4 DEF Writes
  <2>2. x.call[1] = r /\ x.kind = stage[r] /\ x.kind \in L!Kinds
    BY <1>4, <2>1 DEF Writes
  <2>3. sid'[r] = h[1] /\ Behind(x.kind, r)'
    <3>1. stage[r] # "new" /\ stage'[r] = x.kind /\ at'[r] = "returned" /\ sid[r] = h[1]
      BY <1>4, <2>2, Kinds3 DEF Writes
    <3> QED
      BY <3>1, BehindStays DEF Behind
  <2>4. \A f \in L!Files : \A y \in L!OnDisk(f)' : y \in L!OnDisk(f) \/ (f = h /\ y = x)
    BY <1>4, <2>1, Written
  <2>5. ASSUME NEW f \in L!Files, NEW y \in L!OnDisk(f)'
        PROVE  sid'[y.call[1]] = f[1] /\ Behind(y.kind, y.call[1])'
    BY <1>2, <2>2, <2>3, <2>4, <2>5
  <2> QED
    BY <2>5 DEF FiledInv
<1> QED
  BY <1>3, <1>4, DiskChanges

LEMMA FiledInvHolds == Spec => []FiledInv
<1>1. Init => FiledInv
  <2> SUFFICES ASSUME Init PROVE FiledInv
    OBVIOUS
  <2>1. \A f \in L!Files : DOMAIN disk[f] = {}
    BY EmptySeq DEF Init, L!Init
  <2> QED
    BY <2>1 DEF FiledInv, L!OnDisk
<1> QED
  BY <1>1, FiledStep, InvsHold, PTL DEF Spec

(* The lines of an undisturbed session are in the order of its requests.   *)
OrderInv ==
    \A f \in L!Files : f[1] \notin disturbed =>
        \A i, j \in DOMAIN disk[f] : i < j => Precedes(disk[f][i], disk[f][j])

\* A line the newest request writes is the last.
LEMMA WriteIsLast ==
    ASSUME Invs, FiledInv, NEW r \in Requests, NEW h \in L!Files, Writes(r, h),
           h[1] \notin disturbed, NEW y \in L!OnDisk(h)
    PROVE  Precedes(y, line[r])
<1>1. y.kind \in L!Kinds /\ y.call[1] \in Requests
  BY LineTypes DEF Invs
<1>2. sid[y.call[1]] = sid[r] /\ Behind(y.kind, y.call[1])
  BY DEF FiledInv, Writes
<1>3. line[r].call[1] = r /\ line[r].kind = stage[r] /\ at[r] = "write" /\ stage[r] \in L!Kinds
  BY DEF Writes
<1>4. CASE y.call[1] = r
  <2>1. stage[r] \in After(y.kind)
    BY <1>2, <1>3, <1>4 DEF Behind
  <2>2. Rank("session_start") = 1 /\ Rank("request") = 2 /\ Rank("response") = 3
    BY DEF Rank
  <2>3. Rank(y.kind) < Rank(stage[r])
    BY <1>1, <1>3, <2>1, <2>2, Kinds3
  <2> QED
    BY <1>3, <1>4, <2>3 DEF Precedes
<1>5. CASE y.call[1] # r
  <2>1. S!Active(r)
    BY <1>3, Kinds3 DEF Invs, SessionInvs, TrackInv, Track, S!Active
  <2>2. stage[y.call[1]] # "new"
    BY <1>1, <1>2, Kinds3 DEF Behind
  <2>3. y.call[1] \in S!Members(sid[r]) \ {r}
    BY <1>1, <1>2, <1>5, <2>2 DEF Invs, SessionInvs, TrackInv, Track, S!Members
  <2>4. seq[y.call[1]] < seq[r]
    BY <2>1, <2>3 DEF Invs, SessionInvs, S!NewestInv, Writes
  <2> QED
    BY <1>3, <2>4 DEF Precedes
<1> QED
  BY <1>4, <1>5

LEMMA OrderStep ==
    ASSUME Invs, FiledInv, OrderInv, [Next]_vars
    PROVE  OrderInv'
<1>1. \A f \in L!Files : f[1] \notin disturbed' => f[1] \notin disturbed
  BY BehindStays
<1>2. ASSUME NEW f \in L!Files, NEW x \in L!OnDisk(f), NEW y, Precedes(x, y),
             y.call[1] \in Requests, stage[y.call[1]] # "new"
      PROVE  Precedes(x, y)'
  <2>1. x.kind \in L!Kinds /\ x.call[1] \in Requests /\ Behind(x.kind, x.call[1])
    BY LineTypes DEF Invs, FiledInv
  <2>2. stage[x.call[1]] # "new"
    BY <2>1, Kinds3 DEF Behind
  <2>3. seq'[x.call[1]] = seq[x.call[1]] /\ seq'[y.call[1]] = seq[y.call[1]]
    BY <1>2, <2>1, <2>2, BehindStays
  <2> QED
    BY <1>2, <2>3 DEF Precedes
<1>3. ASSUME NEW f \in L!Files, NEW y \in L!OnDisk(f)
      PROVE  y.call[1] \in Requests /\ stage[y.call[1]] # "new"
  BY LineTypes, Kinds3 DEF Invs, FiledInv, Behind
<1>4. ASSUME NEW f \in L!Files, f[1] \notin disturbed',
             NEW i \in DOMAIN disk[f], NEW j \in DOMAIN disk[f], i < j
      PROVE  Precedes(disk[f][i], disk[f][j]) /\ disk[f][i] \in L!OnDisk(f)
             /\ disk[f][j] \in L!OnDisk(f)
  BY <1>1, <1>4 DEF OrderInv, L!OnDisk
<1>5. ASSUME NEW f \in L!Files, f[1] \notin disturbed', disk'[f] = disk[f],
             NEW i \in DOMAIN disk'[f], NEW j \in DOMAIN disk'[f], i < j
      PROVE  Precedes(disk[f][i], disk[f][j])'
  <2>1. PICK x, y : x = disk[f][i] /\ y = disk[f][j]
    OBVIOUS
  <2>2. Precedes(x, y) /\ x \in L!OnDisk(f) /\ y \in L!OnDisk(f)
    BY <1>4, <1>5, <2>1
  <2>3. Precedes(x, y)'
    BY <1>2, <1>3, <2>2
  <2>4. disk'[f][i] = x /\ disk'[f][j] = y
    BY <1>5, <2>1
  <2> QED
    BY <2>3, <2>4
<1>6. CASE UNCHANGED disk
  BY <1>5, <1>6 DEF OrderInv
<1>7. ASSUME NEW r \in Requests, NEW h \in L!Files, Writes(r, h)
      PROVE  OrderInv'
  <2>1. ASSUME h[1] \notin disturbed',
               NEW i \in DOMAIN disk'[h], NEW j \in DOMAIN disk'[h], i < j
        PROVE  Precedes(disk[h][i], disk[h][j])'
    <3>1. PICK x, y : x = disk'[h][i] /\ y = disk'[h][j]
      OBVIOUS
    <3>2. i \in DOMAIN disk[h] /\ x = disk[h][i]
      BY <1>7, <2>1, <3>1, Written
    <3>3. CASE j \in DOMAIN disk[h]
      <4>1. y = disk[h][j]
        BY <1>7, <3>1, <3>3, Written
      <4>2. Precedes(x, y)'
        BY <1>2, <1>3, <1>4, <2>1, <3>2, <3>3, <4>1
      <4> QED
        BY <3>1, <4>2
    <3>4. CASE j \notin DOMAIN disk[h]
      <4>1. y = line[r]
        BY <1>7, <2>1, <3>1, <3>4, Written
      <4>2. x \in L!OnDisk(h) /\ h[1] \notin disturbed
        BY <1>1, <2>1, <3>2 DEF L!OnDisk
      <4>3. Precedes(x, y)
        BY <1>7, <4>1, <4>2, WriteIsLast
      <4>4. y.call[1] = r /\ stage[r] # "new"
        BY <1>7, <4>1, Kinds3 DEF Writes
      <4>5. Precedes(x, y)'
        BY <1>2, <4>2, <4>3, <4>4
      <4> QED
        BY <3>1, <4>5
    <3> QED
      BY <3>3, <3>4
  <2>2. \A f \in L!Files \ {h} : disk'[f] = disk[f]
    BY <1>7, Written
  <2>3. ASSUME NEW f \in L!Files, f[1] \notin disturbed',
               NEW i \in DOMAIN disk'[f], NEW j \in DOMAIN disk'[f], i < j
        PROVE  Precedes(disk[f][i], disk[f][j])'
    BY <1>5, <2>1, <2>2, <2>3
  <2> QED
    BY <2>3 DEF OrderInv
<1> QED
  BY <1>6, <1>7, DiskChanges

LEMMA OrderInvHolds == Spec => []OrderInv
<1>1. Init => OrderInv
  <2> SUFFICES ASSUME Init PROVE OrderInv
    OBVIOUS
  <2>1. \A f \in L!Files : DOMAIN disk[f] = {}
    BY EmptySeq DEF Init, L!Init
  <2> QED
    BY <2>1 DEF OrderInv
<1> QED
  BY <1>1, OrderStep, FiledInvHolds, InvsHold, PTL DEF Spec

\* A line of kind k of r is in a file of its session.
OnFile(k, r) ==
    \E f \in L!Files : f[1] = sid[r] /\ \E x \in L!OnDisk(f) : x.kind = k /\ x.call[1] = r

\* It has to be there: the call is behind r, which was served so far.
Due(k, r) ==
    /\ Behind(k, r) /\ stage[r] # "crashed"
    /\ k = "session_start" => isNew[r]
    /\ k = "response" /\ stage[r] = "end" => reply[r] = "full"
    /\ sid[r] \notin disturbed /\ line[sid[r]].life = line[r].life

DueInv == ~DiskErrors => \A r \in Requests, k \in L!Kinds : Due(k, r) => OnFile(k, r)

LEMMA OnFileStays ==
    ASSUME Invs, [Next]_vars, NEW k \in L!Kinds, NEW r \in Requests, stage[r] # "new", OnFile(k, r)
    PROVE  OnFile(k, r)'
<1>1. PICK f \in L!Files : f[1] = sid[r] /\ \E x \in L!OnDisk(f) : x.kind = k /\ x.call[1] = r
  BY DEF OnFile
<1>2. \A x \in L!OnDisk(f) : x \in L!OnDisk(f)'
  BY DiskChanges, Written DEF L!OnDisk
<1>3. sid'[r] = sid[r]
  BY BehindStays
<1> QED
  BY <1>1, <1>2, <1>3 DEF OnFile

\* The session of a request in a call is registered, unless its life is over.
LEMMA SessionOpen ==
    ASSUME Invs, NEW r \in Requests, stage[r] \in L!Kinds, at[r] = "open",
           isNew[r] \/ stage[r] # "session_start",
           sid[r] \notin disturbed, line[sid[r]].life = line[r].life
    PROVE  line[r].session \in upstreams
<1> USE DEF Invs, SessionInvs
<1>1. line[r].session = sid[r] /\ line[r].life = life /\ sid[r] \in Requests
  BY DEF LineInv, LineOf, L!FileInv, S!TypeOK
<1>2. CASE sid[r] = r
  <2>1. isNew[r]
    BY <1>2, Kinds3 DEF TrackInv, Track, S!NewestInv
  <2>2. Opened(r)
    BY <1>1, <2>1, Kinds3 DEF Opened
  <2> QED
    BY <1>1, <1>2, <2>2 DEF LineInv, LineOf
<1>3. CASE sid[r] # r
  <2>1. PICK s \in Requests : s = sid[r]
    BY <1>1
  <2>2. stage[s] \in {"end", "crashed"} /\ isNew[s] /\ line[s].life = life
    BY <1>1, <1>3, <2>1, OpenerEnded DEF OfferInv
  <2>3. life \in Nat
    BY PipelineAssumption DEF L!TypeOK
  <2>4. Opened(s)
    BY <2>2, <2>3 DEF LineInv, LineOf, Opened
  <2> QED
    BY <1>1, <2>1, <2>4 DEF LineInv, LineOf
<1> QED
  BY <1>2, <1>3

\* A call that is over now has written its line, if that is due.
LEMMA CallPaysDue ==
    ASSUME Invs, NEW r \in Requests, LogStep(r), at[r] # "returned", at'[r] = "returned",
           ~DiskErrors, stage[r] \in L!Kinds, isNew[r] \/ stage[r] # "session_start",
           sid[r] \notin disturbed, line[sid[r]].life = line[r].life
    PROVE  OnFile(stage[r], r)'
<1>1. \/ L!WriteLine(r) \/ L!WriteFails(r) \/ L!NoFileFor(r)
  BY DEF LogStep, L!Step, L!LockUpstreams, L!RegisterUpstream, L!BeginLookup, L!Lookup, L!GetFile,
     L!UseFile, L!OpenFile, L!WriteEntry, L!Moves, Invs, L!TypeOK
<1>2. ~L!WriteFails(r)
  BY DEF L!WriteFails, Invs, LineInv
<1>3. ~L!NoFileFor(r)
  BY SessionOpen DEF L!NoFileFor, L!Moves, Invs, LineInv
<1>4. PICK h \in L!Files : Writes(r, h)
  BY <1>1, <1>2, <1>3, WriteIs
<1>5. PICK x : x = line[r]
  OBVIOUS
<1>6. x \in L!OnDisk(h)' /\ x.kind = stage[r] /\ x.call[1] = r /\ h[1] = sid[r]
  BY <1>4, <1>5, Written DEF Writes
<1>7. stage' = stage /\ sid' = sid
  BY StepLine DEF Invs
<1> QED
  BY <1>6, <1>7 DEF OnFile

\* What comes to be due by a step is written by it.
LEMMA DueStep ==
    ASSUME Invs, DueInv, [Next]_vars
    PROVE  DueInv'
<1> SUFFICES ASSUME ~DiskErrors, NEW r \in Requests, NEW k \in L!Kinds, Due(k, r)'
             PROVE  OnFile(k, r)'
  BY DEF DueInv
<1>1. CASE Due(k, r)
  <2>1. stage[r] # "new" /\ OnFile(k, r)
    BY <1>1, Kinds3 DEF Due, Behind, DueInv
  <2> QED
    BY <2>1, OnFileStays
<1>2. stage[r] # "new" => /\ sid'[r] = sid[r] /\ isNew'[r] = isNew[r]
                          /\ sid[r] \notin disturbed /\ sid[r] \in Requests
  BY BehindStays DEF Due, Invs, SessionInvs, S!TypeOK
<1>3. ASSUME stage[r] # "new", Behind(k, r), stage[r] # "crashed", sid[r] # r =>
               line'[sid[r]].life = line[sid[r]].life /\ line'[r].life = line[r].life,
             stage[r] # "end" \/ (stage'[r] = "end" /\ reply'[r] = reply[r])
      PROVE  OnFile(k, r)'
  BY <1>1, <1>2, <1>3 DEF Due
<1>4. ASSUME NEW p \in Requests \ {r}, Arrive(p) \/ Handle(p) \/ Upstream(p)
      PROVE  OnFile(k, r)'
  <2>1. OnlyHandles(p)
    BY <1>4, HandlerFrame DEF Invs, SessionInvs
  <2>2. /\ Behind(k, r) /\ stage'[r] = stage[r] /\ stage[r] # "crashed" /\ stage[r] # "new"
        /\ reply'[r] = reply[r] /\ line'[r] = line[r]
    BY <2>1, Kinds3 DEF OnlyHandles, Due, Behind
  <2>3. sid[r] # r => sid[r] # p
    <3>1. stage[p] \notin {"end", "crashed"}
      BY <1>4, HandlerStages, Kinds3
    <3> QED
      BY <1>2, <2>2, <3>1, OpenerEnded DEF Invs, OfferInv
  <2>4. sid[r] # r => line'[sid[r]] = line[sid[r]]
    BY <1>2, <2>1, <2>2, <2>3 DEF OnlyHandles
  <2> QED
    BY <1>3, <2>2, <2>4
<1>5. ASSUME Arrive(r) \/ Handle(r) \/ Upstream(r)
      PROVE  OnFile(k, r)'
  <2>1. OnlyHandles(r)
    BY <1>5, HandlerFrame DEF Invs, SessionInvs
  <2>2. stage[r] # "new" /\ sid[r] # r => line'[sid[r]] = line[sid[r]]
    BY <1>2, <2>1 DEF OnlyHandles
  <2>3. CASE LogCall(r) /\ stage[r] \in L!Kinds /\ stage'[r] = stage[r] /\ at'[r] # "returned"
    <3>1. stage[r] \in After(k) /\ Behind(k, r)
      BY <2>3 DEF Due, Behind
    <3>2. stage[r] \notin {"new", "end", "crashed"}
      BY <2>3, Kinds3
    <3>3. line'[r].life = life
      BY <2>3, CallLine DEF Invs
    <3>4. CASE stage[r] = "request"
      <4>1. isNew[r]
        BY <1>2, <3>1, <3>4, Kinds3 DEF Due
      <4>2. sid[r] = r
        BY <3>4, <4>1 DEF Invs, SessionInvs, TrackInv, Track, S!NewestInv
      <4> QED
        BY <1>3, <3>1, <3>2, <4>2
    <3>5. CASE stage[r] = "response"
      <4>1. line[r].life = life
        BY <3>5 DEF Invs, LineInv, LineOf
      <4> QED
        BY <1>3, <2>2, <3>1, <3>2, <3>3, <4>1
    <3> QED
      BY <2>3, <3>1, <3>4, <3>5, Kinds3
  <2>4. CASE LogStep(r) /\ stage[r] \in L!Kinds /\ stage'[r] = stage[r] /\ at[r] # "returned"
    <3>1. /\ stage[r] \notin {"new", "end", "crashed"} /\ line'[r].life = line[r].life
          /\ line'[sid[r]].life = line[sid[r]].life
      BY <2>2, <2>4, StepLine, Kinds3 DEF Invs
    <3>2. CASE Behind(k, r)
      BY <1>3, <3>1, <3>2
    <3>3. CASE ~Behind(k, r)
      <4>1. stage[r] = k /\ at'[r] = "returned"
        BY <2>4, <3>3 DEF Due, Behind
      <4>2. isNew[r] \/ stage[r] # "session_start"
        BY <1>2, <3>1, <4>1 DEF Due
      <4>3. sid[r] \notin disturbed /\ line[sid[r]].life = line[r].life
        BY <1>2, <3>1 DEF Due
      <4>4. OnFile(stage[r], r)'
        BY <2>4, <4>1, <4>2, <4>3, CallPaysDue
      <4> QED
        BY <2>4, <4>1, <4>4 DEF OnFile
    <3> QED
      BY <3>2, <3>3
  <2>5. CASE /\ UNCHANGED line /\ at'[r] = "idle"
             /\ \/ stage[r] = "new" /\ stage'[r] = "load"
                \/ stage[r] = "load" /\ stage'[r] = IF isNew[r] THEN "session_start" ELSE "request"
                \/ stage[r] \in L!Kinds /\ at[r] = "returned" /\ stage'[r] = AfterLog(stage[r])
                \/ stage[r] = "forward" /\ stage'[r] = "response"
                \/ stage[r] = "forward" /\ stage'[r] = "end" /\ reply'[r] # "full"
                \/ stage[r] = "emit" /\ stage'[r] = "update"
                \/ stage[r] = "update" /\ stage'[r] = "end"
    <3>1. stage[r] \notin {"new", "load", "end", "crashed"} /\ Behind(k, r)
      BY <1>2, <2>5, Kinds3 DEF Due, Behind
    <3> QED
      BY <1>3, <2>5, <3>1
  <2> QED
    BY <1>5, <2>3, <2>4, <2>5, HandlerStages
<1>6. CASE Restart
  <2>1. /\ stage'[r] = stage[r] /\ at'[r] = "idle" /\ stage[r] # "crashed"
        /\ UNCHANGED <<line, reply>>
    BY <1>6, Dies DEF Due, Invs, SessionInvs
  <2>2. stage[r] # "new" /\ Behind(k, r)
    BY <2>1, Kinds3 DEF Due, Behind
  <2> QED
    BY <1>3, <2>1, <2>2
<1>7. CASE Midnight \/ UNCHANGED vars
  <2>1. UNCHANGED <<stage, at, line, reply>>
    BY <1>7 DEF Midnight, L!Midnight, L!call, loggerVars, own, vars
  <2>2. stage[r] # "new" /\ stage[r] # "crashed" /\ Behind(k, r)
    BY <2>1, Kinds3 DEF Due, Behind
  <2> QED
    BY <1>3, <2>1, <2>2
<1> QED
  BY <1>4, <1>5, <1>6, <1>7 DEF Next

LEMMA DueInvHolds == Spec => []DueInv
<1>1. Init => DueInv
  BY Kinds3 DEF Init, DueInv, Due, Behind
<1> QED
  BY <1>1, DueStep, InvsHold, PTL DEF Spec

(* The file of an undisturbed session begins with its session_start.       *)
FirstInv ==
    ~DiskErrors =>
        \A f \in L!Files :
            (f[1] \notin disturbed /\ disk[f] # <<>>) => disk[f][1].kind = "session_start"

\* The first line written to a file is that of the request that opened it.
LEMMA FirstWrite ==
    ASSUME Invs, DueInv, ~DiskErrors, NEW r \in Requests, NEW h \in L!Files, Writes(r, h),
           h[1] \notin disturbed, L!OnDisk(h) = {}
    PROVE  line[r].kind = "session_start"
<1> SUFFICES ASSUME stage[r] # "session_start" PROVE FALSE
  BY DEF Writes
<1> USE DEF Invs, SessionInvs
<1>1. PICK s \in Requests : s = sid[r]
  BY DEF S!TypeOK
<1>2. stage[r] \in {"request", "response"} /\ h[1] = s /\ files[s] = h /\ h # NoFile
  BY <1>1, Kinds3, PipelineAssumption DEF Writes
<1>3. isNew[s] /\ sid[s] = s /\ stage[s] \in After("session_start") \ {"crashed"}
  <2>1. CASE s = r
    BY <1>1, <1>2, <2>1, Kinds3 DEF TrackInv, Track, S!NewestInv
  <2>2. CASE s # r
    <3>1. stage[s] \in {"end", "crashed"} /\ isNew[s] /\ sid[s] = s
      BY <1>1, <1>2, <2>2, OpenerEnded DEF OfferInv
    <3>2. stage[s] # "crashed"
      BY <1>2 DEF LineInv, LineOf, Registered
    <3> QED
      BY <3>1, <3>2, Kinds3
  <2> QED
    BY <2>1, <2>2
<1>4. "session_start" \in L!Kinds /\ Due("session_start", s)
  BY <1>2, <1>3 DEF Due, Behind, L!Kinds
<1>5. PICK f \in L!Files : f[1] = s /\ \E x : x \in L!OnDisk(f)
  BY <1>3, <1>4 DEF DueInv, OnFile
<1>6. PICK x : x \in L!OnDisk(f)
  BY <1>5
<1>7. x.life = life
  BY <1>2, <1>5, <1>6 DEF LifeInv, Registered
<1>8. files[f[1]] = f
  BY <1>5, <1>6, <1>7 DEF L!FileInv, LineInv
<1> QED
  BY <1>2, <1>5, <1>6, <1>8

LEMMA FirstStep ==
    ASSUME Invs, DueInv, FirstInv, [Next]_vars
    PROVE  FirstInv'
<1>1. disturbed \subseteq disturbed'
  BY BehindStays
<1>2. CASE UNCHANGED disk
  BY <1>1, <1>2 DEF FirstInv
<1>3. ASSUME NEW r \in Requests, NEW h \in L!Files, Writes(r, h)
      PROVE  FirstInv'
  <2>1. \A f \in L!Files \ {h} : disk'[f] = disk[f]
    BY <1>3, Written
  <2>2. ASSUME ~DiskErrors, h[1] \notin disturbed'
        PROVE  disk'[h][1].kind = "session_start"
    <3>1. h[1] \notin disturbed /\ disk[h] \in Seq(L!Lines)
      BY <1>1, <1>3, <2>2, Written
    <3>2. CASE disk[h] = <<>>
      <4>1. Len(disk[h]) = 0 /\ L!OnDisk(h) = {}
        BY <3>2, EmptySeq DEF L!OnDisk
      <4>2. disk'[h][1] = line[r]
        BY <1>3, <4>1, Written
      <4> QED
        BY <1>3, <2>2, <3>1, <4>1, <4>2, FirstWrite
    <3>3. CASE disk[h] # <<>>
      <4>1. Len(disk[h]) \in Nat /\ Len(disk[h]) # 0
        BY <3>1, <3>3, EmptySeq, LenProperties
      <4>2. disk'[h][1] = disk[h][1]
        BY <1>3, <4>1, Written
      <4> QED
        BY <2>2, <3>1, <3>3, <4>2 DEF FirstInv
    <3> QED
      BY <3>2, <3>3
  <2> QED
    BY <1>1, <2>1, <2>2 DEF FirstInv
<1> QED
  BY <1>2, <1>3, DiskChanges

LEMMA FirstInvHolds == Spec => []FirstInv
<1>1. Init => FirstInv
  BY DEF Init, L!Init, FirstInv
<1> QED
  BY <1>1, FirstStep, DueInvHolds, InvsHold, PTL DEF Spec
-----------------------------------------------------------------------------
(* What the explorer reads.  Log(s) concatenates the files of s; all its   *)
(* lines are in one of them, so it is that file.                           *)

\* f holds the concatenations of the first sequences of q.
Flattens(q, f) == f = [i \in 1..Len(q) |-> IF i = 1 THEN q[i] ELSE f[i - 1] \o q[i]]

\* The recursion of FlattenSeq has one solution.
LEMMA FlattenIs ==
    ASSUME NEW q, Len(q) \in Nat \ {0}, NEW g, Flattens(q, g)
    PROVE  FlattenSeq(q) = g[Len(q)]
<1>1. PICK h : h = CHOOSE f : Flattens(q, f)
  OBVIOUS
<1>2. FlattenSeq(q) = h[Len(q)]
  BY <1>1, Zenon DEF FlattenSeq, Flattens
<1>3. Flattens(q, h)
  BY <1>1, Zenon
<1> DEFINE T == {i \in 1..Len(q) : h[i] # g[i]}
<1>4. ASSUME T # {} PROVE FALSE
  <2>1. T \subseteq Nat
    OBVIOUS
  <2>2. PICK m \in T : \A k \in T : ~(<<k, m>> \in OpToRel(<, Nat))
    BY <1>4, <2>1, NatLessThanWellFounded, WFMin
  <2>3. m \in 1..Len(q) /\ h[m] # g[m] /\ \A k \in T : ~(k < m)
    BY <2>1, <2>2 DEF OpToRel
  <2>4. m # 1
    BY <1>3, <2>3 DEF Flattens
  <2>5. m - 1 \in 1..Len(q) /\ h[m - 1] = g[m - 1]
    BY <2>3, <2>4
  <2>6. h[m] = h[m - 1] \o q[m]
    BY <1>3, <2>3, <2>4, Zenon DEF Flattens
  <2>7. g[m] = g[m - 1] \o q[m]
    BY <2>3, <2>4, Zenon DEF Flattens
  <2> QED
    BY <2>3, <2>5, <2>6, <2>7
<1> QED
  BY <1>2, <1>4
\* Of sequences that are empty but for the one at d, that one is left.
LEMMA FlattenOne ==
    ASSUME NEW A, NEW n \in Nat \ {0}, NEW q \in [1..n -> Seq(A)], NEW d \in 1..n,
           \A e \in 1..n : q[e] # <<>> => e = d
    PROVE  FlattenSeq(q) = q[d]
<1>1. PICK g : g = [i \in 1..n |-> IF d <= i THEN q[d] ELSE <<>>]
  OBVIOUS
<1>2. Len(q) = n
  OBVIOUS
<1>3. ASSUME NEW i \in 1..n PROVE g[i] = IF i = 1 THEN q[i] ELSE g[i - 1] \o q[i]
  <2>1. CASE i = 1
    BY <1>1, <2>1
  <2>2. CASE i # 1
    <3>1. i - 1 \in 1..n /\ q[d] \in Seq(A) /\ <<>> \in Seq(A)
      BY <2>2, EmptySeq
    <3>2. q[d] \o <<>> = q[d] /\ <<>> \o q[d] = q[d] /\ <<>> \o <<>> = <<>>
      BY <3>1, ConcatEmptySeq
    <3>3. g[i - 1] = (IF d <= i - 1 THEN q[d] ELSE <<>>) /\ g[i] = IF d <= i THEN q[d] ELSE <<>>
      BY <1>1, <3>1
    <3>4. i # d => q[i] = <<>>
      OBVIOUS
    <3> QED
      BY <2>2, <3>2, <3>3, <3>4
  <2> QED
    BY <2>1, <2>2
<1>4. Flattens(q, g)
  <2>1. g = [i \in 1..n |-> g[i]]
    BY <1>1
  <2>2. g = [i \in 1..n |-> IF i = 1 THEN q[i] ELSE g[i - 1] \o q[i]]
    BY <1>3, <2>1
  <2> QED
    BY <1>2, <2>2 DEF Flattens
<1> QED
  BY <1>1, <1>2, <1>4, FlattenIs

LEMMA LogIsAFile ==
    ASSUME Invs, OneFileForReader, NEW s \in Requests
    PROVE  \E f \in L!Files :
               /\ f[1] = s /\ Log(s) = disk[f]
               /\ \A g \in L!Files : g[1] = s /\ L!OnDisk(g) # {} => g = f
<1> DEFINE q == [d \in 1..MaxDay |-> disk[<<s, d>>]]
<1>1. \A d \in 1..MaxDay : <<s, d>> \in L!Files
  BY DEF L!Files, L!Days
<1>2. \A g \in L!Files : g[1] = s => g = <<s, g[2]>> /\ g[2] \in 1..MaxDay
  BY DEF L!Files, L!Days
<1>3. MaxDay \in Nat \ {0} /\ q \in [1..MaxDay -> Seq(L!Lines)]
  BY <1>1, PipelineAssumption DEF Invs, L!TypeOK
<1>4. PICK d \in 1..MaxDay : \A e \in 1..MaxDay : q[e] # <<>> => e = d
  <2>1. CASE \E d \in 1..MaxDay : q[d] # <<>>
    BY <2>1 DEF OneFileForReader
  <2>2. CASE \A d \in 1..MaxDay : q[d] = <<>>
    BY <1>3, <2>2
  <2> QED
    BY <2>1, <2>2
<1>5. FlattenSeq(q) = q[d]
  <2> HIDE DEF q
  <2> QED
    BY <1>3, <1>4, FlattenOne
<1>6. Log(s) = disk[<<s, d>>]
  BY <1>5 DEF Log
<1>7. ASSUME NEW g \in L!Files, g[1] = s, L!OnDisk(g) # {} PROVE g = <<s, d>>
  <2>1. g = <<s, g[2]>> /\ g[2] \in 1..MaxDay
    BY <1>2, <1>7
  <2>2. disk[g] # <<>>
    BY <1>7, EmptySeq DEF L!OnDisk
  <2> QED
    BY <1>4, <2>1, <2>2
<1>8. <<s, d>>[1] = s
  OBVIOUS
<1> QED
  BY <1>1, <1>6, <1>7, <1>8

\* What is on file is in the log.
LEMMA OnFileIsLogged ==
    ASSUME Invs, OneFileForReader, NEW k \in L!Kinds, NEW r \in Requests, stage[r] # "new",
           OnFile(k, r)
    PROVE  Logged(k, r)
<1>1. sid[r] \in Requests
  BY DEF Invs, SessionInvs, S!TypeOK, S!SessionInv, TrackInv, Track
<1>2. PICK f \in L!Files : /\ f[1] = sid[r] /\ Log(sid[r]) = disk[f]
                           /\ \A g \in L!Files : g[1] = sid[r] /\ L!OnDisk(g) # {} => g = f
  BY <1>1, LogIsAFile
<1>3. PICK g \in L!Files : g[1] = sid[r] /\ \E x \in L!OnDisk(g) : x.kind = k /\ x.call[1] = r
  BY DEF OnFile
<1>4. g = f
  BY <1>2, <1>3
<1> QED
  BY <1>2, <1>3, <1>4 DEF Logged, L!OnDisk

(* The log of a session whose requests did not overlap reads as the        *)
(* conversation went, for any number of requests, days and lives: a line   *)
(* that the newest request writes is the last (proxy.go, ServeHTTP;        *)
(* logger.go, writeEntry).                                                 *)
THEOREM QuietLogInOrderHolds == Spec => []QuietLogInOrder
<1>1. Invs /\ OneFileForReader /\ OrderInv /\ FirstInv => QuietLogInOrder
  <2> SUFFICES ASSUME Invs, OneFileForReader, OrderInv, FirstInv, NEW s \in Requests \ disturbed
               PROVE  /\ \A i, j \in DOMAIN Log(s) : i < j => Precedes(Log(s)[i], Log(s)[j])
                      /\ ~DiskErrors => \A i \in DOMAIN Log(s) :
                                            i = 1 => Log(s)[i].kind = "session_start"
    BY DEF QuietLogInOrder
  <2>1. PICK f \in L!Files : f[1] = s /\ Log(s) = disk[f]
    BY LogIsAFile
  <2>2. \A i \in DOMAIN disk[f] : disk[f] # <<>>
    BY EmptySeq
  <2> QED
    BY <2>1, <2>2 DEF OrderInv, FirstInv
<1> QED
  BY <1>1, InvsHold, OneFileForReaderHolds, OrderInvHolds, FirstInvHolds, PTL

(* Every exchange of such a session that the process which opened it has   *)
(* served is in its log: at every stage what is behind the request is on   *)
(* file, so at the end its request is, and the response if it is complete  *)
(* (proxy.go, ServeHTTP; multi_writer.go; logger.go).                      *)
THEOREM QuietExchangesLoggedHolds == Spec => []QuietExchangesLogged
<1>1. Invs /\ OneFileForReader /\ DueInv => QuietExchangesLogged
  <2> SUFFICES ASSUME Invs, OneFileForReader, DueInv, ~DiskErrors, NEW r \in Requests, Served(r),
                      sid[r] \notin disturbed, line[sid[r]].life = line[r].life
               PROVE  ExchangeLogged(r)
    BY DEF QuietExchangesLogged
  <2>1. stage[r] = "end" /\ "request" \in L!Kinds /\ "response" \in L!Kinds
    BY DEF Served, L!Kinds
  <2>2. Due("request", r) /\ (reply[r] = "full" => Due("response", r))
    BY <2>1, Kinds3 DEF Due, Behind
  <2>3. OnFile("request", r) /\ (reply[r] = "full" => OnFile("response", r))
    BY <2>1, <2>2 DEF DueInv
  <2> QED
    BY <2>1, <2>3, OnFileIsLogged DEF ExchangeLogged
<1> QED
  BY <1>1, InvsHold, OneFileForReaderHolds, DueInvHolds, PTL

(* A session whose requests did not overlap counts no turn the log has not *)
(* the response of: each counted turn was written by a request that is     *)
(* done, whose client has its reply, so that its response is on file; and  *)
(* two of them have two lines (proxy.go, updatePatternState; logger.go).   *)
THEOREM CountsAreLoggedHolds == Spec => []CountsAreLogged
<1>1. ASSUME Invs, OneFileForReader, DueInv, S!NeverOvercounts, S!WritersInv
      PROVE  CountsAreLogged
  <2> SUFFICES ASSUME life = 1, ~DiskErrors, NEW s \in Requests \ disturbed, db[s] # NoSession
               PROVE  db[s].state.TurnCount <=
                        Cardinality({i \in DOMAIN Log(s) : Log(s)[i].kind = "response"})
    BY <1>1 DEF CountsAreLogged
  <2> DEFINE D == S!Done(s)
             R == {i \in DOMAIN Log(s) : Log(s)[i].kind = "response"}
  <2>1. IsFiniteSet(D) /\ Len(turns[s]) <= Cardinality(D)
    <3>1. \A T : S!Cardinality(T) = Cardinality(T) /\ (S!IsFiniteSet(T) <=> IsFiniteSet(T))
      BY DEF S!Cardinality, Cardinality, S!IsFiniteSet, IsFiniteSet
    <3> QED
      BY <1>1, <3>1 DEF S!WritersInv
  <2>2. IsFiniteSet(R)
    <3>1. PICK f \in L!Files : Log(s) = disk[f]
      BY <1>1, LogIsAFile
    <3>2. Len(Log(s)) \in Nat /\ DOMAIN Log(s) = 1..Len(Log(s))
      BY <1>1, <3>1, LenProperties DEF Invs, L!TypeOK
    <3>3. IsFiniteSet(1..Len(Log(s))) /\ R \subseteq 1..Len(Log(s))
      BY <3>2, FS_Interval
    <3> QED
      BY <3>3, FS_Subset
  <2>3. ASSUME NEW q \in D
        PROVE  \E i \in R : Log(s)[i].call[1] = q
    <3>1. q \in Requests /\ pc[q] = "done" /\ sid[q] = s
      BY DEF S!Done
    <3>2. stage[q] = "end" /\ reply[q] = "full" /\ "response" \in L!Kinds
      BY <1>1, <3>1 DEF Invs, SessionInvs, TrackInv, Track, L!Kinds
    <3>3. line[q].life = 1 /\ line[s].life = 1
      BY <1>1, <3>1 DEF Invs, LineInv, LineOf
    <3>4. Due("response", q)
      BY <3>1, <3>2, <3>3, Kinds3 DEF Due, Behind
    <3>5. OnFile("response", q)
      BY <1>1, <3>1, <3>2, <3>4 DEF DueInv
    <3>6. Logged("response", q)
      BY <1>1, <3>1, <3>2, <3>5, OnFileIsLogged
    <3> QED
      BY <3>1, <3>6 DEF Logged
  <2>4. Cardinality(D) <= Cardinality(R)
    <3> DEFINE f == [q \in D |-> CHOOSE i \in R : Log(s)[i].call[1] = q]
    <3>1. \A q \in D : f[q] \in R /\ Log(s)[f[q]].call[1] = q
      BY <2>3
    <3> HIDE DEF f, D, R
    <3>2. f \in [D -> R]
      BY <3>1 DEF f
    <3>3. f \in Injection(D, R)
      BY <3>1, <3>2 DEF Injection, IsInjective
    <3> QED
      BY <2>2, <3>3, FS_Injection
  <2>5. db[s].state.TurnCount <= Len(turns[s])
    BY <1>1 DEF S!NeverOvercounts
  <2>6. db[s].state.TurnCount \in Nat /\ Len(turns[s]) \in Nat
    <3>1. db[s] \in S!Rows /\ \E T : turns[s] \in Seq(T)
      BY <1>1 DEF Invs, SessionInvs, S!TypeOK
    <3> QED
      BY <3>1, LenProperties DEF S!Rows, S!PatternStates
  <2>7. Cardinality(D) \in Nat /\ Cardinality(R) \in Nat
    BY <2>1, <2>2, FS_CardinalityType
  <2> HIDE DEF D, R
  <2>8. db[s].state.TurnCount <= Cardinality(R)
    BY <2>1, <2>4, <2>5, <2>6, <2>7
  <2> QED
    BY <2>8 DEF R
<1> QED
  BY <1>1, InvsHold, SessionFacts, OneFileForReaderHolds, DueInvHolds, PTL
=============================================================================
