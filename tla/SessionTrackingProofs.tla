----------------------- MODULE SessionTrackingProofs ------------------------
(***************************************************************************)
(* Theorems about SessionTracking, for every set of requests and clients   *)
(* and with or without database errors.                                    *)
(***************************************************************************)
EXTENDS SessionTracking, SequenceTheorems, FiniteSetTheorems, WellFoundedInduction, TLAPS

-----------------------------------------------------------------------------
(* The functions of ToolPatterns keep pattern states well typed.           *)
LEMMA FreshStateType == FreshState \in PatternStates
  BY DEF FreshState, PatternStates

LEMMA AfterRequestType ==
    ASSUME NEW st \in PatternStates, NEW rs \in SUBSET ResultRecords
    PROVE  /\ AfterRequest(st, rs) \in PatternStates
           /\ AfterRequest(st, rs).TurnCount = st.TurnCount + 1
<1> DEFINE open == {p \in st.PendingToolIDs : \A r \in rs : r.id # p.id}
           err  == \E r \in rs : r.error
<1>1. open \in SUBSET CallRecords
  BY DEF PatternStates
<1>2. err \in BOOLEAN
  OBVIOUS
<1>3. st.TurnCount + 1 \in Nat
  BY DEF PatternStates
<1>4. AfterRequest(st, rs) = [st EXCEPT !.PendingToolIDs = open, !.LastWasError = err,
                                        !.TurnCount = st.TurnCount + 1]
  BY DEF AfterRequest
<1> HIDE DEF open, err
<1> QED
  BY <1>1, <1>2, <1>3, <1>4 DEF PatternStates

LEMMA CallsType ==
    ASSUME NEW r \in Requests, NEW tools \in Seq(Tools)
    PROVE  CallsOf(r, tools) \in Seq(CallRecords)
<1>1. Len(tools) \in Nat /\ DOMAIN tools = 1..Len(tools)
      /\ \A i \in 1..Len(tools) : tools[i] \in Tools
  BY LenProperties, ElementOfSeq
<1>2. CallsOf(r, tools) \in [1..Len(tools) -> CallRecords]
  BY <1>1 DEF CallsOf, CallRecords
<1> QED
  BY <1>1, <1>2, SeqDef

LEMMA AfterResponseType ==
    ASSUME NEW st \in PatternStates, NEW cs \in Seq(CallRecords)
    PROVE  /\ AfterResponse(st, cs) \in PatternStates
           /\ AfterResponse(st, cs).TurnCount = st.TurnCount
<1>1. Len(cs) \in Nat /\ DOMAIN cs = 1..Len(cs)
      /\ \A i \in 1..Len(cs) : cs[i] \in CallRecords
  BY LenProperties, ElementOfSeq
<1>2. AddPending(st.PendingToolIDs, cs) \in SUBSET CallRecords
  BY <1>1 DEF AddPending, PatternStates
<1>3. FirstTool(cs) \in Tools \cup {NoTool}
  BY <1>1, EmptySeq DEF FirstTool, CallRecords
<1> DEFINE mid == [st EXCEPT !.PendingToolIDs   = AddPending(@, cs),
                             !.SessionToolCount = @ + Len(cs)]
<1>4. mid \in PatternStates /\ mid.TurnCount = st.TurnCount
  <2> DEFINE p == AddPending(st.PendingToolIDs, cs)
             n == st.SessionToolCount + Len(cs)
  <2>1. n \in Nat /\ p \in SUBSET CallRecords
    BY <1>1, <1>2 DEF PatternStates
  <2>2. mid = [st EXCEPT !.PendingToolIDs = p, !.SessionToolCount = n]
    OBVIOUS
  <2> HIDE DEF mid, n, p
  <2> QED
    BY <2>1, <2>2 DEF PatternStates
<1>5. ASSUME NEW t \in Tools \cup {NoTool}, NEW m \in PatternStates
      PROVE  ComputePatterns(m, t) \in PatternStates
             /\ ComputePatterns(m, t).TurnCount = m.TurnCount
  <2> DEFINE streak  == IF t = m.LastToolName THEN m.ToolStreak + 1 ELSE 1
             retries == IF IsRetry(m, t) THEN m.RetryCount + 1 ELSE 0
  <2>1. streak \in Nat /\ retries \in Nat
    BY DEF PatternStates
  <2>2. CASE t = NoTool
    BY <2>2 DEF ComputePatterns, PatternStates
  <2>3. CASE t # NoTool
    <3>1. ComputePatterns(m, t) = [m EXCEPT !.ToolStreak = streak, !.RetryCount = retries,
                                            !.LastToolName = t]
      BY <2>3 DEF ComputePatterns
    <3> HIDE DEF streak, retries
    <3> QED
      BY <2>1, <3>1 DEF PatternStates
  <2> QED
    BY <2>2, <2>3
<1> HIDE DEF mid
<1>6. ComputePatterns(mid, FirstTool(cs)) \in PatternStates
      /\ ComputePatterns(mid, FirstTool(cs)).TurnCount = mid.TurnCount
  BY <1>3, <1>4, <1>5
<1> QED
  BY <1>4, <1>6 DEF AfterResponse, mid

-----------------------------------------------------------------------------
(* Rows, copies and control states stay in their ranges.                   *)
LEMMA ReceivesType ==
    ASSUME TypeOK, NEW r \in Requests, NEW tools \in Seq(Tools), Receives(r, tools)
    PROVE  answers' \in [Clients \cup {NoClient} -> SUBSET ResultRecords]
<1>1. DOMAIN tools \subseteq Nat
  BY LenProperties
<1>2. PICK err \in SUBSET DOMAIN tools :
         answers' = [answers EXCEPT ![client[r]] =
                        @ \cup {[id |-> <<r, i>>, error |-> i \in err] : i \in DOMAIN tools}]
  BY DEF Receives
<1> DEFINE new == {[id |-> <<r, i>>, error |-> i \in err] : i \in DOMAIN tools}
<1>3. ASSUME NEW i \in DOMAIN tools
      PROVE  [id |-> <<r, i>>, error |-> i \in err] \in ResultRecords
  <2>1. (i \in err) \in BOOLEAN
    OBVIOUS
  <2>2. <<r, i>> \in Requests \X Nat
    BY <1>1
  <2> QED
    BY <2>1, <2>2 DEF ResultRecords
<1>4. new \in SUBSET ResultRecords
  BY <1>3
<1>5. answers' = [answers EXCEPT ![client[r]] = answers[client[r]] \cup new]
  BY <1>2
<1> HIDE DEF new
<1> QED
  BY <1>4, <1>5 DEF TypeOK

LEMMA ArriveType ==
    ASSUME TypeOK, NEW r \in Requests, NEW c \in Clients \cup {NoClient}, Arrive(r, c)
    PROVE  /\ results' \in [Requests -> SUBSET ResultRecords]
           /\ client' \in [Requests -> Clients \cup {NoClient}]
<1>1. answers[c] \in SUBSET ResultRecords
  BY DEF TypeOK
<1>2. PICK b \in {{}, answers[c]} : results' = [results EXCEPT ![r] = b]
  BY DEF Arrive
<1> QED
  BY <1>1, <1>2 DEF Arrive, TypeOK

LEMMA ToolsOfCalls ==
    ASSUME NEW cs \in Seq(CallRecords)
    PROVE  [i \in DOMAIN cs |-> cs[i].tool] \in Seq(Tools)
<1>1. Len(cs) \in Nat /\ DOMAIN cs = 1..Len(cs)
      /\ \A i \in 1..Len(cs) : cs[i] \in CallRecords
  BY LenProperties, ElementOfSeq
<1>2. [i \in DOMAIN cs |-> cs[i].tool] \in [1..Len(cs) -> Tools]
  BY <1>1 DEF CallRecords
<1> QED
  BY <1>1, <1>2, SeqDef

LEMMA ForgetType ==
    ASSUME TypeOK, NEW gone \in SUBSET Requests, Forget(gone)
    PROVE  /\ results' \in [Requests -> SUBSET ResultRecords]
           /\ state' \in [Requests -> PatternStates]
           /\ calls' \in [Requests -> Seq(CallRecords)]
           /\ \A q \in Requests \ gone : state'[q] = state[q]
<1>1. <<>> \in Seq(CallRecords)
  BY EmptySeq
<1>2. \A q \in Requests : results[q] \in SUBSET ResultRecords
                        /\ state[q] \in PatternStates /\ calls[q] \in Seq(CallRecords)
  BY DEF TypeOK
<1> QED
  BY <1>1, <1>2, FreshStateType DEF Forget

(* The type invariant of the session tracker (session.go, db.go).          *)
THEOREM TypeCorrect == Spec => []TypeOK
<1>1. Init => TypeOK
  BY FreshStateType, EmptySeq DEF Init, TypeOK
<1>2. ASSUME TypeOK, [Next]_vars
      PROVE  TypeOK'
  <2> USE DEF TypeOK
  <2>1. ASSUME NEW r \in Requests, NEW c \in Clients \cup {NoClient},
               GetOrCreateSession(r, c)
        PROVE  TypeOK'
    <3>1. results' \in [Requests -> SUBSET ResultRecords]
          /\ client' \in [Requests -> Clients \cup {NoClient}]
      BY <1>2, <2>1, ArriveType DEF GetOrCreateSession
    <3>2. CASE Continue(r, c)
      <4>1. PICK s \in SessionsOf(c) :
               /\ db' = [db EXCEPT ![s].last_seq = @ + 1]
               /\ Located(r, s, db[s].last_seq + 1, FALSE)
        BY <3>2 DEF Continue
      <4>2. s \in Requests /\ db[s] \in Rows
        BY <1>2 DEF SessionsOf
      <4>3. [db[s] EXCEPT !.last_seq = @ + 1] \in Rows /\ db[s].last_seq + 1 \in Nat
        BY <4>2 DEF Rows
      <4>4. db' = [db EXCEPT ![s] = [db[s] EXCEPT !.last_seq = @ + 1]]
        BY <4>1
      <4>5. db' \in [Requests -> Rows \cup {NoSession}]
        BY <1>2, <4>2, <4>3, <4>4
      <4> QED
        BY <1>2, <3>1, <4>1, <4>2, <4>3, <4>5 DEF Located
    <3>3. CASE Create(r, c)
      <4>1. [client |-> c, last_seq |-> 1, state |-> FreshState] \in Rows
        BY FreshStateType DEF Rows
      <4> QED
        BY <1>2, <3>1, <3>3, <4>1 DEF Create, Located
    <3> QED
      BY <2>1, <3>2, <3>3 DEF GetOrCreateSession
  <2>2. ASSUME NEW r \in Requests, NEW c \in Clients \cup {NoClient},
               SessionFallback(r, c)
        PROVE  TypeOK'
    <3>1. results' \in [Requests -> SUBSET ResultRecords]
          /\ client' \in [Requests -> Clients \cup {NoClient}]
      BY <1>2, <2>2, ArriveType DEF SessionFallback
    <3> QED
      BY <1>2, <2>2, <3>1 DEF SessionFallback, Located
  <2>3. ASSUME NEW r \in Requests, LoadPatternState(r) \/ LoadFails(r)
        PROVE  TypeOK'
    <3>1. PICK loaded \in PatternStates : Begin(r, loaded)
      BY <1>2, <2>3, FreshStateType DEF LoadPatternState, LoadFails, Stored, Rows
    <3>2. AfterRequest(loaded, results[r]) \in PatternStates
      BY <1>2, AfterRequestType
    <3>3. disturbed' \subseteq Requests
      BY <1>2, <2>3 DEF LoadPatternState, LoadFails
    <3> QED
      BY <1>2, <3>1, <3>2, <3>3 DEF Begin, request
  <2>4. ASSUME NEW r \in Requests, NEW tools \in Responses,
               RespondBuffered(r, tools) \/ RespondStreaming(r, tools)
        PROVE  TypeOK'
    <3>1. tools \in Seq(Tools)
      BY SessionAssumption
    <3>2. CallsOf(r, tools) \in Seq(CallRecords)
      BY <3>1, CallsType
    <3>3. AfterResponse(state[r], CallsOf(r, tools)) \in PatternStates
      BY <1>2, <3>2, AfterResponseType
    <3>4. answers' \in [Clients \cup {NoClient} -> SUBSET ResultRecords]
      BY <1>2, <2>4, <3>1, ReceivesType DEF RespondBuffered, RespondStreaming
    <3>5. EmitResponse(r, tools) /\ pc' \in {[pc EXCEPT ![r] = "responded"],
                                             [pc EXCEPT ![r] = "streamed"]}
      BY <2>4 DEF RespondBuffered, RespondStreaming
    <3> QED
      BY <1>2, <3>2, <3>3, <3>4, <3>5 DEF EmitResponse, request
  <2>5. ASSUME NEW r \in Requests, UpstreamFails(r)
        PROVE  TypeOK'
    <3>1. Forget({r})
      BY <2>5 DEF UpstreamFails
    <3> QED
      BY <1>2, <2>5, <3>1, ForgetType DEF UpstreamFails, identity
  <2>6. ASSUME NEW r \in Requests, UpdatePatternState(r) \/ UpdateFails(r)
        PROVE  TypeOK'
    <3>1. Finish(r)
      BY <2>6 DEF UpdatePatternState, UpdateFails
    <3>2. answers' \in [Clients \cup {NoClient} -> SUBSET ResultRecords]
      BY <1>2, <3>1, ReceivesType, ToolsOfCalls DEF Finish
    <3>3. /\ pc' = [pc EXCEPT ![r] = "done"] /\ UNCHANGED <<identity, disturbed>>
          /\ results' \in [Requests -> SUBSET ResultRecords]
          /\ state' \in [Requests -> PatternStates]
          /\ calls' \in [Requests -> Seq(CallRecords)]
      BY <1>2, <3>1, ForgetType DEF Finish
    <3>4. CASE UNCHANGED <<db, turns>>
      BY <1>2, <3>2, <3>3, <3>4 DEF identity
    <3>5. CASE /\ db[sid[r]] # NoSession
               /\ db' = [db EXCEPT ![sid[r]].state = state[r]]
               /\ turns' = [turns EXCEPT ![sid[r]] =
                               Append(@, [results |-> results[r], calls |-> calls[r]])]
      <4>1. sid[r] \in Requests /\ db[sid[r]] \in Rows
        BY <1>2, <3>5
      <4>2. [db[sid[r]] EXCEPT !.state = state[r]] \in Rows
        BY <1>2, <4>1 DEF Rows
      <4>3. db' = [db EXCEPT ![sid[r]] = [db[sid[r]] EXCEPT !.state = state[r]]]
        BY <3>5
      <4>4. db' \in [Requests -> Rows \cup {NoSession}]
        BY <1>2, <4>1, <4>2, <4>3
      <4> DEFINE Turns == [results : SUBSET ResultRecords, calls : Seq(CallRecords)]
      <4>5. Append(turns[sid[r]], [results |-> results[r], calls |-> calls[r]]) \in Seq(Turns)
        BY <1>2, <4>1, AppendProperties
      <4>6. turns' \in [Requests -> Seq(Turns)]
        BY <1>2, <3>5, <4>1, <4>5
      <4> QED
        BY <1>2, <3>2, <3>3, <4>4, <4>6 DEF identity
    <3> QED
      BY <2>6, <3>4, <3>5 DEF UpdatePatternState, UpdateFails
  <2>7. CASE Restart
    <3>1. Forget({r \in Requests : Active(r)})
      BY <2>7 DEF Restart
    <3> QED
      BY <1>2, <2>7, <3>1, ForgetType DEF Restart, identity
  <2>8. CASE UNCHANGED vars
    BY <1>2, <2>8 DEF vars
  <2> QED
    BY <1>2, <2>1, <2>2, <2>3, <2>4, <2>5, <2>6, <2>7, <2>8 DEF Next, Handle
<1> QED
  BY <1>1, <1>2, PTL DEF Spec

-----------------------------------------------------------------------------
(* What the steps of a request do to the identity of sessions.             *)

\* Steps after GetOrCreateSession leave identities and numbers alone.
SameIdentity ==
    /\ UNCHANGED <<client, sid, seq, isNew>>
    /\ \A r \in Requests : pc'[r] = "idle" <=> pc[r] = "idle"
    /\ \A s \in Requests :
         /\ db'[s] = NoSession <=> db[s] = NoSession
         /\ db[s] # NoSession =>
              db'[s].client = db[s].client /\ db'[s].last_seq = db[s].last_seq

LEMMA LaterSteps ==
    ASSUME TypeOK, NEW r \in Requests,
           \/ LoadPatternState(r) \/ LoadFails(r) \/ UpstreamFails(r)
           \/ \E tools \in Responses : RespondBuffered(r, tools) \/ RespondStreaming(r, tools)
           \/ UpdatePatternState(r) \/ UpdateFails(r)
    PROVE  SameIdentity
<1>1. CASE LoadPatternState(r) \/ LoadFails(r) \/ UpstreamFails(r)
  BY <1>1 DEF LoadPatternState, LoadFails, Begin, UpstreamFails, SameIdentity, request, identity, TypeOK
<1>2. ASSUME NEW tools \in Responses, RespondBuffered(r, tools) \/ RespondStreaming(r, tools)
      PROVE  SameIdentity
  BY <1>2 DEF RespondBuffered, RespondStreaming, EmitResponse, SameIdentity, request, TypeOK
<1>3. CASE UpdatePatternState(r) \/ UpdateFails(r)
  <2>1. UNCHANGED <<client, sid, seq, isNew>> /\ pc[r] # "idle"
        /\ pc' = [pc EXCEPT ![r] = "done"]
    BY <1>3 DEF UpdatePatternState, UpdateFails, Finish, identity
  <2>2. CASE UNCHANGED db
    BY <2>1, <2>2 DEF SameIdentity, TypeOK
  <2>3. CASE db[sid[r]] # NoSession /\ db' = [db EXCEPT ![sid[r]].state = state[r]]
    <3> DEFINE row == [db[sid[r]] EXCEPT !.state = state[r]]
    <3>1. sid[r] \in Requests /\ db[sid[r]] \in Rows /\ state[r] \in PatternStates
      BY <2>3 DEF TypeOK
    <3>2. row \in Rows /\ row.client = db[sid[r]].client /\ row.last_seq = db[sid[r]].last_seq
      BY <3>1 DEF Rows
    <3>3. row # NoSession
      BY <3>2, SessionAssumption
    <3>4. db' = [db EXCEPT ![sid[r]] = row]
      BY <2>3
    <3> HIDE DEF row
    <3> QED
      BY <2>1, <2>3, <3>1, <3>2, <3>3, <3>4 DEF SameIdentity, TypeOK
  <2> QED
    BY <1>3, <2>2, <2>3 DEF UpdatePatternState, UpdateFails
<1> QED
  BY <1>1, <1>2, <1>3

LEMMA QuietSteps ==
    ASSUME TypeOK, Restart \/ UNCHANGED vars
    PROVE  SameIdentity
<1>1. CASE Restart
  BY <1>1 DEF Restart, Active, SameIdentity, identity, TypeOK
<1>2. CASE UNCHANGED vars
  BY <1>2 DEF vars, SameIdentity
<1> QED
  BY <1>1, <1>2

\* Request r enters session s with number n; no other request changes.
Placed(r, c, s, n, new) ==
    /\ pc[r] = "idle" /\ pc'[r] = "located"
    /\ client'[r] = c /\ sid'[r] = s /\ seq'[r] = n /\ isNew'[r] = new
    /\ \A q \in Requests \ {r} :
         /\ pc'[q] = pc[q] /\ client'[q] = client[q] /\ sid'[q] = sid[q]
         /\ seq'[q] = seq[q] /\ isNew'[q] = isNew[q] /\ results'[q] = results[q]
    /\ disturbed' = IF \E q \in Requests \ {r} : Active(q) /\ sid[q] = s
                    THEN disturbed \cup {s} ELSE disturbed
    /\ UNCHANGED <<state, calls, turns>>

LEMMA PlacedStep ==
    ASSUME TypeOK, NEW r \in Requests, NEW c, NEW s, NEW n, NEW new,
           Arrive(r, c), Located(r, s, n, new)
    PROVE  Placed(r, c, s, n, new)
  BY DEF TypeOK, Arrive, Located, Placed

LEMMA ContinueStep ==
    ASSUME TypeOK, NEW r \in Requests, NEW c \in Clients \cup {NoClient},
           Arrive(r, c), Continue(r, c)
    PROVE  \E s \in Requests :
             /\ Placed(r, c, s, db[s].last_seq + 1, FALSE)
             /\ db[s] # NoSession /\ db[s].client = c /\ c # NoClient
             /\ \A t \in Requests \ {s} : db'[t] = db[t]
             /\ db'[s] # NoSession /\ db'[s].client = db[s].client
             /\ db'[s].last_seq = db[s].last_seq + 1 /\ db'[s].state = db[s].state
<1>1. PICK s \in SessionsOf(c) :
         /\ db' = [db EXCEPT ![s].last_seq = @ + 1]
         /\ Located(r, s, db[s].last_seq + 1, FALSE)
  BY DEF Continue
<1>2. /\ s \in Requests /\ db[s] # NoSession /\ c # NoClient /\ db[s].client = c
      /\ db[s] \in Rows
  BY DEF SessionsOf, TypeOK
<1> DEFINE row == [db[s] EXCEPT !.last_seq = @ + 1]
<1>3. row \in Rows /\ row.client = db[s].client /\ row.last_seq = db[s].last_seq + 1
      /\ row.state = db[s].state
  BY <1>2 DEF Rows
<1>4. row # NoSession
  BY <1>3, SessionAssumption
<1>5. db' = [db EXCEPT ![s] = row]
  BY <1>1
<1> HIDE DEF row
<1>6. db'[s] = row /\ \A t \in Requests \ {s} : db'[t] = db[t]
  BY <1>2, <1>5 DEF TypeOK
<1>7. Placed(r, c, s, db[s].last_seq + 1, FALSE)
  BY <1>1, PlacedStep
<1> QED
  BY <1>2, <1>3, <1>4, <1>6, <1>7

LEMMA CreateStep ==
    ASSUME TypeOK, NEW r \in Requests, NEW c \in Clients \cup {NoClient},
           Arrive(r, c), Create(r, c)
    PROVE  /\ Placed(r, c, r, 1, TRUE)
           /\ SessionsOf(c) = {}
           /\ \A t \in Requests \ {r} : db'[t] = db[t]
           /\ db'[r] # NoSession /\ db'[r].client = c /\ db'[r].last_seq = 1
           /\ db'[r].state = FreshState
<1> DEFINE row == [client |-> c, last_seq |-> 1, state |-> FreshState]
<1>1. row \in Rows
  BY FreshStateType DEF Rows
<1>2. row # NoSession
  BY <1>1, SessionAssumption
<1>3. db' = [db EXCEPT ![r] = row] /\ SessionsOf(c) = {} /\ Located(r, r, 1, TRUE)
  BY DEF Create
<1>4. db'[r] = row /\ \A t \in Requests \ {r} : db'[t] = db[t]
  BY <1>3 DEF TypeOK
<1>5. row.client = c /\ row.last_seq = 1 /\ row.state = FreshState
  OBVIOUS
<1>6. Placed(r, c, r, 1, TRUE)
  BY <1>3, PlacedStep
<1> HIDE DEF row
<1> QED
  BY <1>2, <1>3, <1>4, <1>5, <1>6

LEMMA FallbackStep ==
    ASSUME TypeOK, NEW r \in Requests, NEW c \in Clients \cup {NoClient},
           SessionFallback(r, c)
    PROVE  Placed(r, c, r, 1, TRUE) /\ UNCHANGED db
  BY PlacedStep DEF SessionFallback

-----------------------------------------------------------------------------
LEMMA SessionInvStep ==
    ASSUME TypeOK, SessionInv, [Next]_vars
    PROVE  SessionInv'
<1> USE DEF SessionInv
<1>1. ASSUME NEW r \in Requests, NEW c \in Clients \cup {NoClient},
             Arrive(r, c), Continue(r, c)
      PROVE  SessionInv'
  <2>1. PICK s \in Requests :
           /\ Placed(r, c, s, db[s].last_seq + 1, FALSE)
           /\ db[s] # NoSession /\ db[s].client = c /\ c # NoClient
           /\ \A t \in Requests \ {s} : db'[t] = db[t]
           /\ db'[s] # NoSession /\ db'[s].client = db[s].client
    BY <1>1, ContinueStep
  <2>2. db[r] = NoSession
    BY <2>1 DEF Placed
  <2>3. \A t \in Requests : /\ db'[t] = NoSession <=> db[t] = NoSession
                            /\ db[t] # NoSession => db'[t].client = db[t].client
    BY <2>1
  <2>4. \A q \in Requests : sid[q] \in Requests
    BY DEF TypeOK
  <2> QED
    BY <2>1, <2>2, <2>3, <2>4 DEF Placed
<1>2. ASSUME NEW r \in Requests, NEW c \in Clients \cup {NoClient},
             Arrive(r, c), Create(r, c)
      PROVE  SessionInv'
  <2>1. /\ Placed(r, c, r, 1, TRUE)
        /\ \A t \in Requests \ {r} : db'[t] = db[t]
        /\ db'[r] # NoSession /\ db'[r].client = c
    BY <1>2, CreateStep
  <2>2. db[r] = NoSession
    BY <2>1 DEF Placed
  <2>3. \A t \in Requests : (db[t] # NoSession /\ db[t].client = c) => c = NoClient
    <3>1. SessionsOf(c) = {}
      BY <1>2, CreateStep
    <3> QED
      BY <3>1 DEF SessionsOf
  <2>4. \A q \in Requests : sid[q] \in Requests /\ (q # r => sid[q] # r)
    BY <2>2 DEF TypeOK
  <2> QED
    BY <2>1, <2>2, <2>3, <2>4 DEF Placed
<1>3. ASSUME NEW r \in Requests, NEW c \in Clients \cup {NoClient}, SessionFallback(r, c)
      PROVE  SessionInv'
  <2>1. Placed(r, c, r, 1, TRUE) /\ UNCHANGED db
    BY <1>3, FallbackStep
  <2>2. db[r] = NoSession
    BY <2>1 DEF Placed
  <2>3. \A q \in Requests : sid[q] \in Requests /\ (q # r => sid[q] # r)
    BY <2>2 DEF TypeOK
  <2> QED
    BY <2>1, <2>2, <2>3 DEF Placed
<1>4. ASSUME SameIdentity
      PROVE  SessionInv'
  <2>1. \A q \in Requests : sid[q] \in Requests
    BY DEF TypeOK
  <2> QED
    BY <1>4, <2>1 DEF SameIdentity
<1> QED
  BY <1>1, <1>2, <1>3, <1>4, LaterSteps, QuietSteps DEF Next, Handle, GetOrCreateSession

LEMMA SessionInvHolds == Spec => []SessionInv
<1>1. Init => SessionInv
  BY DEF Init, SessionInv
<1> QED
  BY <1>1, SessionInvStep, TypeCorrect, PTL DEF Spec

(* A client's requests share one session, and nobody else's (session.go,   *)
(* GetOrCreateSession): lookup and insert are one critical section.        *)
THEOREM OneSessionPerClientHolds == Spec => []OneSessionPerClient
<1>1. ASSUME TypeOK, SessionInv
      PROVE  OneSessionPerClient
  <2>1. \A q \in Requests : sid[q] \in Requests
    BY <1>1 DEF TypeOK
  <2> QED
    BY <1>1, <2>1 DEF SessionInv, OneSessionPerClient
<1> QED
  BY <1>1, SessionInvHolds, TypeCorrect, PTL

-----------------------------------------------------------------------------
(* The requests of a session are numbered 1, 2, ... (session.go,           *)
(* getOrCreateByClientSessionID): no number is given twice or left out.    *)
THEOREM SeqConsecutiveHolds == Spec => []SeqConsecutive
<1>1. Init => SeqConsecutive
  BY DEF Init, SeqConsecutive
<1>2. ASSUME TypeOK, SessionInv, SeqConsecutive, [Next]_vars
      PROVE  SeqConsecutive'
  <2>1. ASSUME NEW r \in Requests, NEW c \in Clients \cup {NoClient},
               Arrive(r, c), Continue(r, c)
        PROVE  SeqConsecutive'
    <3>1. PICK s \in Requests :
             /\ Placed(r, c, s, db[s].last_seq + 1, FALSE)
             /\ db[s] # NoSession
             /\ \A t \in Requests \ {s} : db'[t] = db[t]
             /\ db'[s] # NoSession /\ db'[s].last_seq = db[s].last_seq + 1
      BY <1>2, <2>1, ContinueStep
    <3>2. db[s].last_seq \in Nat /\ db[s].last_seq >= 1
      <4>1. s \in Members(s)
        BY <1>2, <3>1 DEF SessionInv, Members
      <4>2. db[s] \in Rows
        BY <1>2, <3>1 DEF TypeOK
      <4>3. db[s].last_seq \in Nat
        BY <4>2 DEF Rows
      <4>4. seq[s] \in 1..db[s].last_seq
        BY <1>2, <3>1, <4>1 DEF SeqConsecutive
      <4> QED
        BY <4>3, <4>4
    <3>3. r \notin Members(s) /\ Members(s)' = Members(s) \cup {r}
      BY <3>1 DEF Members, Placed
    <3>4. \A t \in Requests \ {s} : db[t] # NoSession => Members(t)' = Members(t)
      BY <3>1 DEF Members, Placed
    <3>5. \A q \in Requests \ {r} : seq'[q] = seq[q] /\ isNew'[q] = isNew[q]
      BY <3>1 DEF Placed
    <3>6. seq'[r] = db[s].last_seq + 1 /\ isNew'[r] = FALSE
      BY <3>1 DEF Placed
    <3>7. ASSUME NEW t \in Requests, db'[t] # NoSession
          PROVE  /\ {seq'[q] : q \in Members(t)'} = 1..db'[t].last_seq
                 /\ \A p, q \in Members(t)' : p # q => seq'[p] # seq'[q]
                 /\ \A q \in Members(t)' : isNew'[q] <=> seq'[q] = 1
      <4>1. CASE t # s
        <5>1. db[t] # NoSession /\ db'[t] = db[t] /\ Members(t)' = Members(t)
          BY <3>1, <3>4, <3>7, <4>1
        <5>2. r \notin Members(t)
          BY <3>1 DEF Members, Placed
        <5>3. \A q \in Members(t) : seq'[q] = seq[q] /\ isNew'[q] = isNew[q]
          BY <3>5, <5>2 DEF Members
        <5> QED
          BY <1>2, <5>1, <5>3 DEF SeqConsecutive
      <4>2. CASE t = s
        <5>1. /\ {seq[q] : q \in Members(s)} = 1..db[s].last_seq
              /\ \A p, q \in Members(s) : p # q => seq[p] # seq[q]
              /\ \A q \in Members(s) : isNew[q] <=> seq[q] = 1
          BY <1>2, <3>1 DEF SeqConsecutive
        <5>2. \A q \in Members(s) : seq'[q] = seq[q] /\ isNew'[q] = isNew[q]
          BY <3>3, <3>5 DEF Members
        <5>3. \A q \in Members(s) : seq'[q] \in 1..db[s].last_seq
          BY <5>1, <5>2
        <5>4. {seq'[q] : q \in Members(s) \cup {r}}
                 = {seq[q] : q \in Members(s)} \cup {db[s].last_seq + 1}
          BY <3>6, <5>2
        <5>5. {seq'[q] : q \in Members(s) \cup {r}} = 1..db[s].last_seq + 1
          BY <3>2, <5>1, <5>4
        <5>6. \A p, q \in Members(s) \cup {r} : p # q => seq'[p] # seq'[q]
          BY <3>2, <3>6, <5>1, <5>2, <5>3
        <5>7. \A q \in Members(s) \cup {r} : isNew'[q] <=> seq'[q] = 1
          BY <3>2, <3>6, <5>1, <5>2
        <5> QED
          BY <3>1, <3>3, <4>2, <5>5, <5>6, <5>7
      <4> QED
        BY <4>1, <4>2
    <3> QED
      BY <3>7 DEF SeqConsecutive
  <2>2. ASSUME NEW r \in Requests, NEW c \in Clients \cup {NoClient},
               Arrive(r, c), Create(r, c)
        PROVE  SeqConsecutive'
    <3>1. /\ Placed(r, c, r, 1, TRUE)
          /\ \A t \in Requests \ {r} : db'[t] = db[t]
          /\ db'[r].last_seq = 1
      BY <1>2, <2>2, CreateStep
    <3>2. \A q \in Requests \ {r} : sid[q] # r
      BY <1>2, <3>1 DEF SessionInv, Placed
    <3>3. Members(r)' = {r}
      BY <3>1, <3>2 DEF Members, Placed
    <3>4. \A t \in Requests \ {r} : r \notin Members(t) /\ Members(t)' = Members(t)
      BY <3>1 DEF Members, Placed
    <3>5. /\ \A q \in Requests \ {r} : seq'[q] = seq[q] /\ isNew'[q] = isNew[q]
          /\ seq'[r] = 1 /\ isNew'[r] = TRUE
      BY <3>1 DEF Placed
    <3>6. ASSUME NEW t \in Requests \ {r}, db'[t] # NoSession
          PROVE  /\ {seq'[q] : q \in Members(t)'} = 1..db'[t].last_seq
                 /\ \A p, q \in Members(t)' : p # q => seq'[p] # seq'[q]
                 /\ \A q \in Members(t)' : isNew'[q] <=> seq'[q] = 1
      <4>1. db[t] # NoSession /\ db'[t] = db[t] /\ Members(t)' = Members(t)
        BY <3>1, <3>4, <3>6
      <4>2. \A q \in Members(t) : seq'[q] = seq[q] /\ isNew'[q] = isNew[q]
        BY <3>4, <3>5 DEF Members
      <4> QED
        BY <1>2, <4>1, <4>2 DEF SeqConsecutive
    <3>7. /\ {seq'[q] : q \in Members(r)'} = 1..db'[r].last_seq
          /\ \A p, q \in Members(r)' : p # q => seq'[p] # seq'[q]
          /\ \A q \in Members(r)' : isNew'[q] <=> seq'[q] = 1
      BY <3>1, <3>3, <3>5
    <3> QED
      BY <3>6, <3>7 DEF SeqConsecutive
  <2>3. ASSUME NEW r \in Requests, NEW c \in Clients \cup {NoClient}, SessionFallback(r, c)
        PROVE  SeqConsecutive'
    <3>1. Placed(r, c, r, 1, TRUE) /\ UNCHANGED db
      BY <1>2, <2>3, FallbackStep
    <3>2. \A t \in Requests : db[t] # NoSession => Members(t)' = Members(t) /\ r \notin Members(t)
      BY <1>2, <3>1 DEF Members, Placed, SessionInv
    <3>3. \A q \in Requests \ {r} : seq'[q] = seq[q] /\ isNew'[q] = isNew[q]
      BY <3>1 DEF Placed
    <3>4. ASSUME NEW t \in Requests, db[t] # NoSession
          PROVE  \A q \in Members(t) : seq'[q] = seq[q] /\ isNew'[q] = isNew[q]
      BY <3>2, <3>3, <3>4 DEF Members
    <3> QED
      BY <1>2, <3>1, <3>2, <3>4 DEF SeqConsecutive
  <2>4. ASSUME SameIdentity
        PROVE  SeqConsecutive'
    <3>1. \A t \in Requests : Members(t)' = Members(t)
      BY <2>4 DEF SameIdentity, Members
    <3> QED
      BY <1>2, <2>4, <3>1 DEF SameIdentity, SeqConsecutive
  <2> QED
    BY <1>2, <2>1, <2>2, <2>3, <2>4, LaterSteps, QuietSteps
       DEF Next, Handle, GetOrCreateSession
<1> QED
  BY <1>1, <1>2, SessionInvHolds, TypeCorrect, PTL DEF Spec

-----------------------------------------------------------------------------
(* Counting turns: a copy is at most one turn ahead of the history, so     *)
(* that writing it back never makes the row count more than the history.   *)

LEMMA CountTypes ==
    ASSUME TypeOK
    PROVE  \A r \in Requests :
             /\ sid[r] \in Requests /\ Len(turns[r]) \in Nat
             /\ state[r] \in PatternStates /\ state[r].TurnCount \in Nat
             /\ db[r] # NoSession =>
                  db[r].state \in PatternStates /\ db[r].state.TurnCount \in Nat
  BY LenProperties DEF TypeOK, Rows, PatternStates

LEMMA CountStep ==
    ASSUME TypeOK, CopyInv, NeverOvercounts, [Next]_vars
    PROVE  CopyInv' /\ NeverOvercounts'
<1> USE DEF CopyInv, NeverOvercounts
<1>1. ASSUME NEW r \in Requests, NEW c \in Clients \cup {NoClient},
             Arrive(r, c), Continue(r, c)
      PROVE  CopyInv' /\ NeverOvercounts'
  <2>1. PICK s \in Requests :
           /\ Placed(r, c, s, db[s].last_seq + 1, FALSE) /\ db[s] # NoSession
           /\ \A t \in Requests \ {s} : db'[t] = db[t]
           /\ db'[s].state = db[s].state
    BY <1>1, ContinueStep
  <2> QED
    BY <2>1 DEF Placed
<1>2. ASSUME NEW r \in Requests, NEW c \in Clients \cup {NoClient},
             Arrive(r, c), Create(r, c)
      PROVE  CopyInv' /\ NeverOvercounts'
  <2>1. /\ Placed(r, c, r, 1, TRUE)
        /\ \A t \in Requests \ {r} : db'[t] = db[t]
        /\ db'[r].state = FreshState
    BY <1>2, CreateStep
  <2>2. db'[r].state.TurnCount <= Len(turns[r])
    BY <2>1, CountTypes DEF FreshState
  <2> QED
    BY <2>1, <2>2 DEF Placed
<1>3. ASSUME NEW r \in Requests, NEW c \in Clients \cup {NoClient}, SessionFallback(r, c)
      PROVE  CopyInv' /\ NeverOvercounts'
  <2>1. Placed(r, c, r, 1, TRUE) /\ UNCHANGED db
    BY <1>3, FallbackStep
  <2> QED
    BY <2>1 DEF Placed
<1>4. ASSUME NEW r \in Requests, LoadPatternState(r) \/ LoadFails(r)
      PROVE  CopyInv' /\ NeverOvercounts'
  <2>1. PICK loaded \in PatternStates :
           Begin(r, loaded) /\ loaded.TurnCount <= Len(turns[sid[r]])
    BY <1>4, CountTypes, FreshStateType DEF LoadPatternState, LoadFails, Stored, FreshState
  <2>2. AfterRequest(loaded, results[r]).TurnCount = loaded.TurnCount + 1
    BY AfterRequestType DEF TypeOK
  <2>3. loaded.TurnCount \in Nat
    BY DEF PatternStates
  <2>4. /\ UNCHANGED <<db, sid, turns>>
        /\ state'[r] = AfterRequest(loaded, results[r])
        /\ \A q \in Requests \ {r} : state'[q] = state[q] /\ pc'[q] = pc[q]
    BY <2>1 DEF Begin, request, TypeOK
  <2>5. state'[r].TurnCount <= Len(turns[sid[r]]) + 1
    BY <2>1, <2>2, <2>3, <2>4, CountTypes
  <2> QED
    BY <2>4, <2>5
<1>5. ASSUME NEW r \in Requests, NEW tools \in Responses,
             RespondBuffered(r, tools) \/ RespondStreaming(r, tools)
      PROVE  CopyInv' /\ NeverOvercounts'
  <2>1. /\ UNCHANGED <<db, sid, turns>> /\ pc[r] = "loaded"
        /\ state'[r] = AfterResponse(state[r], CallsOf(r, tools))
        /\ \A q \in Requests \ {r} : state'[q] = state[q] /\ pc'[q] = pc[q]
    BY <1>5 DEF RespondBuffered, RespondStreaming, EmitResponse, request, TypeOK
  <2>2. state'[r].TurnCount = state[r].TurnCount
    BY <2>1, CallsType, AfterResponseType, SessionAssumption DEF TypeOK
  <2>3. state[r].TurnCount <= Len(turns[sid[r]]) + 1
    BY <2>1
  <2> QED
    BY <2>1, <2>2, <2>3
<1>6. ASSUME NEW r \in Requests, UpdatePatternState(r) \/ UpdateFails(r)
      PROVE  CopyInv' /\ NeverOvercounts'
  <2>1. /\ UNCHANGED sid /\ pc[r] \in {"responded", "streamed"} /\ pc'[r] = "done"
        /\ \A q \in Requests \ {r} : pc'[q] = pc[q]
        /\ Forget({r})
    BY <1>6 DEF UpdatePatternState, UpdateFails, Finish, identity, TypeOK
  <2>2. \A q \in Requests \ {r} : state'[q] = state[q]
    BY <2>1, ForgetType
  <2>3. CASE UNCHANGED <<db, turns>>
    BY <2>1, <2>2, <2>3
  <2>4. CASE /\ db[sid[r]] # NoSession
             /\ db' = [db EXCEPT ![sid[r]].state = state[r]]
             /\ turns' = [turns EXCEPT ![sid[r]] =
                             Append(@, [results |-> results[r], calls |-> calls[r]])]
    <3>1. sid[r] \in Requests /\ db[sid[r]] \in Rows
      BY <2>4 DEF TypeOK
    <3>2. db'[sid[r]].state = state[r] /\ \A t \in Requests \ {sid[r]} : db'[t] = db[t]
      BY <2>4, <3>1 DEF TypeOK, Rows
    <3>3. /\ Len(turns'[sid[r]]) = Len(turns[sid[r]]) + 1
          /\ \A t \in Requests \ {sid[r]} : turns'[t] = turns[t]
      <4> DEFINE Turns == [results : SUBSET ResultRecords, calls : Seq(CallRecords)]
      <4>1. [results |-> results[r], calls |-> calls[r]] \in Turns
        BY DEF TypeOK
      <4>2. turns \in [Requests -> Seq(Turns)]
        BY DEF TypeOK
      <4> HIDE DEF Turns
      <4> QED
        BY <2>4, <3>1, <4>1, <4>2, AppendProperties
    <3>4. state[r].TurnCount <= Len(turns[sid[r]]) + 1
      BY <2>1
    <3>5. \A t \in Requests : Len(turns[t]) <= Len(turns'[t])
      BY <3>1, <3>3, CountTypes
    <3>6. NeverOvercounts'
      BY <3>1, <3>2, <3>3, <3>4
    <3>7. CopyInv'
      BY <2>1, <2>2, <3>5, CountTypes, <3>3
    <3> QED
      BY <3>6, <3>7
  <2> QED
    BY <1>6, <2>3, <2>4 DEF UpdatePatternState, UpdateFails
<1>7. ASSUME NEW r \in Requests, UpstreamFails(r)
      PROVE  CopyInv' /\ NeverOvercounts'
  <2>1. /\ UNCHANGED <<db, sid, turns>> /\ pc'[r] = "failed"
        /\ \A q \in Requests \ {r} : pc'[q] = pc[q] /\ state'[q] = state[q]
    BY <1>7, ForgetType DEF UpstreamFails, identity, TypeOK
  <2> QED
    BY <2>1
<1>8. CASE Restart
  <2>1. /\ UNCHANGED <<db, sid, turns>>
        /\ \A q \in Requests : IF Active(q) THEN pc'[q] = "failed"
                                ELSE pc'[q] = pc[q] /\ state'[q] = state[q]
    <3>1. Forget({q \in Requests : Active(q)}) /\ UNCHANGED <<db, sid, turns>>
      BY <1>8 DEF Restart, identity
    <3>2. \A q \in Requests : ~Active(q) => state'[q] = state[q]
      BY <3>1, ForgetType
    <3>3. \A q \in Requests : pc'[q] = IF Active(q) THEN "failed" ELSE pc[q]
      BY <1>8 DEF Restart
    <3> QED
      BY <3>1, <3>2, <3>3
  <2> QED
    BY <2>1 DEF Active
<1>9. CASE UNCHANGED vars
  BY <1>9 DEF vars
<1> QED
  BY <1>1, <1>2, <1>3, <1>4, <1>5, <1>6, <1>7, <1>8, <1>9
     DEF Next, Handle, GetOrCreateSession

(* Lost updates and database errors only lose turns (db.go,                *)
(* UpdatePatternState): no interleaving makes a session count more turns   *)
(* than it completed.                                                      *)
THEOREM NeverOvercountsHolds == Spec => []NeverOvercounts
<1>1. Init => CopyInv /\ NeverOvercounts
  BY DEF Init, CopyInv, NeverOvercounts
<1> QED
  BY <1>1, CountStep, TypeCorrect, PTL DEF Spec

-----------------------------------------------------------------------------
(* The figures of a history, turn by turn.                                 *)

Turns == [results : SUBSET ResultRecords, calls : Seq(CallRecords)]

\* The history longer is turns and one turn more, t.
OneMore(longer, turnz, t) ==
    /\ turnz \in Seq(Turns) /\ longer \in Seq(Turns) /\ t \in Turns
    /\ Len(turnz) \in Nat /\ Len(longer) = Len(turnz) + 1
    /\ longer[Len(turnz) + 1] = t /\ \A i \in 1..Len(turnz) : longer[i] = turnz[i]

LEMMA OneMoreTurn ==
    ASSUME NEW past \in Seq(Turns), NEW t \in Turns
    PROVE  OneMore(Append(past, t), past, t)
BY AppendProperties, LenProperties DEF OneMore

LEMMA LeastElement ==
    ASSUME NEW T \in SUBSET Nat, T # {}
    PROVE  \E m \in T : \A k \in T : m <= k
<1>1. PICK m \in T : \A k \in T : ~(<<k, m>> \in OpToRel(<, Nat))
  BY NatLessThanWellFounded, WFMin
<1>2. \A k \in T : ~(k < m)
  BY <1>1 DEF OpToRel
<1> QED
  BY <1>2

IsLongest(n, S) == n \in S /\ \A m \in S : m <= n

LEMMA LongestExists ==
    ASSUME NEW N \in Nat, NEW S \in SUBSET (0..N), S # {}
    PROVE  \E n \in S : IsLongest(n, S)
<1> DEFINE T == {N - k : k \in S}
<1>1. T \in SUBSET Nat /\ T # {}
  OBVIOUS
<1> HIDE DEF T
<1>2. PICK m \in T : \A k \in T : m <= k
  BY <1>1, LeastElement
<1>3. PICK n \in S : m = N - n
  BY DEF T
<1>4. ASSUME NEW k \in S PROVE k <= n
  <2>1. N - k \in T
    BY DEF T
  <2> QED
    BY <1>2, <1>3, <2>1
<1> QED
  BY <1>3, <1>4 DEF IsLongest

\* The lengths of runs at the end of a history.
Streaks(past) == {n \in 0..Len(past) : SameTool(past, n)}
Repeats(past) ==
    {n \in 0..Len(past) : \A i \in Len(past) - n + 1 .. Len(past) : CountedRetry(past, i)}

LEMMA LongestIs ==
    ASSUME NEW S \in SUBSET Nat, NEW n, IsLongest(n, S)
    PROVE  Longest(S) = n
<1> DEFINE s == CHOOSE k \in S : \A m \in S : m <= k
<1>1. Longest(S) = s
  BY DEF Longest
<1>2. n \in S /\ \A m \in S : m <= n
  BY DEF IsLongest
<1>3. s \in S /\ \A m \in S : m <= s
  BY <1>2
<1> HIDE DEF s
<1>4. s <= n /\ n <= s /\ s \in Nat /\ n \in Nat
  BY <1>2, <1>3
<1> QED
  BY <1>1, <1>4

LEMMA StreakIs ==
    ASSUME NEW past \in Seq(Turns), NEW n, IsLongest(n, Streaks(past))
    PROVE  Streak(past) = n
<1>1. Streaks(past) \in SUBSET Nat
  BY LenProperties DEF Streaks
<1>2. Streak(past) = Longest(Streaks(past))
  BY DEF Streak, Streaks
<1> QED
  BY <1>1, <1>2, LongestIs

LEMMA RetriesIs ==
    ASSUME NEW past \in Seq(Turns), NEW n, IsLongest(n, Repeats(past))
    PROVE  CountedRetries(past) = n
<1>1. Repeats(past) \in SUBSET Nat
  BY LenProperties DEF Repeats
<1>2. CountedRetries(past) = Longest(Repeats(past))
  BY DEF CountedRetries, Repeats
<1> QED
  BY <1>1, <1>2, LongestIs

LEMMA RunsExist ==
    ASSUME NEW past \in Seq(Turns)
    PROVE  /\ IsLongest(Streak(past), Streaks(past)) /\ Streak(past) \in Nat
           /\ IsLongest(CountedRetries(past), Repeats(past)) /\ CountedRetries(past) \in Nat
<1>1. Len(past) \in Nat
  BY LenProperties
<1>2. Streaks(past) \in SUBSET (0..Len(past)) /\ 0 \in Streaks(past)
  BY <1>1 DEF Streaks, SameTool
<1>3. Repeats(past) \in SUBSET (0..Len(past)) /\ 0 \in Repeats(past)
  BY <1>1 DEF Repeats
<1>4. PICK n \in Streaks(past) : IsLongest(n, Streaks(past))
  BY <1>1, <1>2, LongestExists
<1>5. PICK m \in Repeats(past) : IsLongest(m, Repeats(past))
  BY <1>1, <1>3, LongestExists
<1> QED
  BY <1>1, <1>2, <1>3, <1>4, <1>5, StreakIs, RetriesIs

\* What a history and one more turn have in common.
LEMMA FirstOf ==
    ASSUME NEW past, NEW t, NEW longer, OneMore(longer, past, t)
    PROVE  /\ First(longer, Len(past) + 1) = FirstTool(t.calls)
           /\ \A i \in 1..Len(past) : First(longer, i) = First(past, i)
BY DEF OneMore, First

\* Only the tool of the last turn can be that of the last turn that called one.
LEMMA LastTurnNamed ==
    ASSUME NEW past \in Seq(Turns), NEW last, LastNamed(past, last), Len(past) # 0
    PROVE  First(past, Len(past)) \in {NoTool, last}
<1>1. Len(past) \in 1..Len(past)
  BY LenProperties
<1>2. CASE \A j \in 1..Len(past) : First(past, j) = NoTool
  BY <1>1, <1>2
<1>3. ASSUME NEW j \in 1..Len(past), First(past, j) = last,
             \A k \in j+1..Len(past) : First(past, k) = NoTool
      PROVE  First(past, Len(past)) \in {NoTool, last}
  <2>1. j = Len(past) \/ Len(past) \in j+1..Len(past)
    BY <1>1
  <2> QED
    BY <1>3, <2>1
<1> QED
  BY <1>2, <1>3 DEF LastNamed

LEMMA StreakNext ==
    ASSUME NEW past, NEW t, NEW longer, OneMore(longer, past, t),
           NEW last, LastNamed(past, last)
    PROVE  Streak(longer) = IF FirstTool(t.calls) = NoTool THEN 0
                            ELSE IF FirstTool(t.calls) = last THEN Streak(past) + 1 ELSE 1
<1> DEFINE n == Len(past)
           first == FirstTool(t.calls)
<1>0. /\ past \in Seq(Turns) /\ longer \in Seq(Turns) /\ n \in Nat /\ Len(longer) = n + 1
      /\ n + 1 \in Nat
  BY DEF OneMore
<1>1. First(longer, n + 1) = first /\ \A i \in 1..n : First(longer, i) = First(past, i)
  BY FirstOf
<1>2. n # 0 => n \in 1..n /\ First(past, n) \in {NoTool, last}
  BY <1>0, LastTurnNamed
<1> HIDE DEF n, first
<1>3. 0 \in Streaks(longer)
  BY <1>0 DEF Streaks, SameTool
<1>4. ASSUME NEW m \in 1..n+1, SameTool(longer, m)
      PROVE  first # NoTool
  <2>1. n + 1 \in Len(longer) - m + 1 .. Len(longer)
    BY <1>0
  <2> QED
    BY <1>0, <1>1, <1>4, <2>1 DEF SameTool
<1>5. CASE first = NoTool
  <2>1. \A m \in Streaks(longer) : m <= 0
    BY <1>0, <1>4, <1>5 DEF Streaks
  <2> QED
    BY <1>0, <1>3, <1>5, <2>1, StreakIs DEF IsLongest, first
<1>6. ASSUME NEW m \in 1..n, SameTool(longer, m + 1)
      PROVE  First(past, n) = first
  <2>1. n \in Len(longer) - (m + 1) + 1 .. Len(longer) /\ n \in 1..n
    BY <1>0
  <2> QED
    BY <1>0, <1>1, <1>6, <2>1 DEF SameTool
<1>7. CASE first # NoTool /\ first # last
  <2>1. ASSUME NEW m \in Streaks(longer) PROVE m <= 1
    <3>1. SUFFICES ASSUME ~(m <= 1) PROVE FALSE
      OBVIOUS
    <3>2. m - 1 \in 1..n /\ (m - 1) + 1 = m /\ n # 0
      BY <1>0, <3>1 DEF Streaks
    <3>3. First(past, n) = first
      BY <1>6, <3>2 DEF Streaks
    <3> QED
      BY <1>2, <1>7, <3>2, <3>3
  <2>2. 1 \in Streaks(longer)
    BY <1>0, <1>1, <1>7 DEF Streaks, SameTool
  <2> QED
    BY <1>0, <1>7, <2>1, <2>2, StreakIs DEF IsLongest, first
<1>8. CASE first # NoTool /\ first = last
  <2>1. IsLongest(Streak(past), Streaks(past)) /\ Streak(past) \in Nat
    BY <1>0, RunsExist
  <2>2. ASSUME NEW m \in 0..n, SameTool(longer, m + 1) PROVE SameTool(past, m)
    <3>1. m # 0 => First(past, n) = first
      BY <1>0, <1>6, <2>2
    <3>2. ASSUME NEW j \in n - m + 1 .. n
          PROVE  First(past, j) # NoTool /\ First(past, j) = First(past, n)
      <4>1. m # 0 /\ j \in 1..n /\ j \in Len(longer) - (m + 1) + 1 .. Len(longer)
        BY <1>0
      <4>2. First(longer, j) = first
        BY <1>0, <1>1, <2>2, <4>1 DEF SameTool
      <4> QED
        BY <1>1, <1>8, <3>1, <4>1, <4>2
    <3> QED
      BY <3>2 DEF SameTool, n
  <2>3. ASSUME NEW m \in 0..n, SameTool(past, m) PROVE SameTool(longer, m + 1)
    <3>1. m # 0 => First(past, n) = first
      <4>1. SUFFICES ASSUME m # 0 PROVE First(past, n) = first
        OBVIOUS
      <4>2. n \in n - m + 1 .. n /\ n # 0
        BY <1>0, <4>1
      <4> QED
        BY <1>2, <1>8, <2>3, <4>2 DEF SameTool, n
    <3>2. ASSUME NEW j \in n - m + 1 .. n + 1
          PROVE  First(longer, j) = first
      <4>1. j = n + 1 \/ (m # 0 /\ j \in n - m + 1 .. n /\ j \in 1..n)
        BY <1>0
      <4> QED
        BY <1>1, <2>3, <3>1, <4>1 DEF SameTool, n
    <3>3. Len(longer) - (m + 1) + 1 = n - m + 1
      BY <1>0
    <3> QED
      BY <1>0, <1>1, <1>8, <3>2, <3>3 DEF SameTool
  <2>4. ASSUME NEW m \in Streaks(longer) PROVE m <= Streak(past) + 1
    <3>1. m = 0 \/ (m - 1 \in 0..n /\ (m - 1) + 1 = m)
      BY <1>0 DEF Streaks
    <3>2. m = 0 \/ m - 1 \in Streaks(past)
      BY <2>2, <3>1 DEF Streaks, n
    <3>3. m \in Nat
      BY <1>0 DEF Streaks
    <3> QED
      BY <2>1, <3>2, <3>3 DEF IsLongest
  <2>5. Streak(past) + 1 \in Streaks(longer)
    <3>1. Streak(past) \in 0..n /\ SameTool(past, Streak(past))
      BY <2>1 DEF IsLongest, Streaks, n
    <3>2. SameTool(longer, Streak(past) + 1) /\ Streak(past) + 1 \in 0..Len(longer)
      BY <1>0, <2>3, <3>1
    <3> QED
      BY <3>2 DEF Streaks
  <2> QED
    BY <1>0, <1>8, <2>4, <2>5, StreakIs DEF IsLongest, first
<1> QED
  BY <1>5, <1>7, <1>8

LEMMA RetriesNext ==
    ASSUME NEW past, NEW t, NEW longer, OneMore(longer, past, t),
           NEW last, LastNamed(past, last)
    PROVE  CountedRetries(longer) =
             IF /\ FirstTool(t.calls) # NoTool /\ FirstTool(t.calls) = last
                /\ \E r \in t.results : r.error
             THEN CountedRetries(past) + 1 ELSE 0
<1> DEFINE n == Len(past)
           first == FirstTool(t.calls)
           repeats == first # NoTool /\ first = last /\ \E r \in t.results : r.error
<1>0. /\ past \in Seq(Turns) /\ longer \in Seq(Turns) /\ n \in Nat /\ Len(longer) = n + 1
      /\ n + 1 \in Nat
  BY DEF OneMore
<1>1. First(longer, n + 1) = first /\ \A i \in 1..n : First(longer, i) = First(past, i)
  BY FirstOf
<1>2. longer[n + 1] = t /\ \A i \in 1..n : longer[i] = past[i]
  BY DEF OneMore
<1> HIDE DEF n, first
<1>3. ASSUME NEW i \in 1..n PROVE CountedRetry(longer, i) <=> CountedRetry(past, i)
  <2>1. First(longer, i) = First(past, i) /\ longer[i].results = past[i].results
    BY <1>1, <1>2
  <2>2. \A j \in 1..i-1 : First(longer, j) = First(past, j)
    BY <1>0, <1>1
  <2>3. \A j \in 1..i-1 : \A k \in j+1..i-1 : First(longer, k) = First(past, k)
    BY <1>0, <2>2
  <2> QED
    BY <2>1, <2>2, <2>3 DEF CountedRetry
<1>4. CountedRetry(longer, n + 1) <=> repeats
  <2>1. first # NoTool =>
           ((\E j \in 1..n : First(past, j) = first /\ \A k \in j+1..n : First(past, k) = NoTool)
              <=> first = last)
    <3>1. SUFFICES ASSUME first # NoTool, NEW j \in 1..n, First(past, j) = first,
                          \A k \in j+1..n : First(past, k) = NoTool
                   PROVE  first = last
      BY DEF LastNamed, n
    <3>2. PICK i \in 1..n : First(past, i) = last /\ \A k \in i+1..n : First(past, k) = NoTool
      BY <3>1 DEF LastNamed, n
    <3>3. i = j \/ i \in j+1..n \/ j \in i+1..n
      BY <1>0
    <3>4. last # NoTool
      BY <3>1 DEF LastNamed, n
    <3> QED
      BY <3>1, <3>2, <3>3, <3>4
  <2>2. (n + 1) - 1 = n
    BY <1>0
  <2>3. (\E j \in 1..n : First(longer, j) = first /\ \A k \in j+1..n : First(longer, k) = NoTool)
          <=> (\E j \in 1..n : First(past, j) = first /\ \A k \in j+1..n : First(past, k) = NoTool)
    <3>1. \A j \in 1..n : \A k \in j+1..n : First(longer, k) = First(past, k)
      BY <1>0, <1>1
    <3> QED
      BY <1>1, <3>1
  <2> QED
    BY <1>1, <1>2, <2>1, <2>2, <2>3 DEF CountedRetry
<1> HIDE DEF repeats
<1>5. 0 \in Repeats(longer)
  BY <1>0 DEF Repeats
<1>6. CASE ~repeats
  <2>1. ASSUME NEW m \in Repeats(longer) PROVE m <= 0
    <3>1. SUFFICES ASSUME ~(m <= 0) PROVE FALSE
      OBVIOUS
    <3>2. n + 1 \in Len(longer) - m + 1 .. Len(longer)
      BY <1>0, <3>1 DEF Repeats
    <3> QED
      BY <1>4, <1>6, <3>2 DEF Repeats
  <2> QED
    BY <1>0, <1>5, <1>6, <2>1, RetriesIs DEF IsLongest, first, repeats
<1>7. CASE repeats
  <2>1. IsLongest(CountedRetries(past), Repeats(past)) /\ CountedRetries(past) \in Nat
    BY <1>0, RunsExist
  <2>2. ASSUME NEW m \in 0..n
        PROVE  m + 1 \in Repeats(longer) <=> m \in Repeats(past)
    <3>1. /\ m + 1 \in 0..Len(longer) /\ Len(longer) - (m + 1) + 1 = n - m + 1
      BY <1>0
    <3>2. \A i \in n - m + 1 .. n : i \in 1..n
      BY <1>0
    <3>3. \A i \in n - m + 1 .. n + 1 : i = n + 1 \/ i \in n - m + 1 .. n
      BY <1>0
    <3>4. \A i \in n - m + 1 .. n : i \in n - m + 1 .. n + 1
      BY <1>0
    <3>5. (\A i \in n - m + 1 .. n + 1 : CountedRetry(longer, i))
             <=> (\A i \in n - m + 1 .. n : CountedRetry(past, i))
      BY <1>3, <1>4, <1>7, <3>2, <3>3, <3>4
    <3> QED
      BY <1>0, <3>1, <3>5 DEF Repeats, n
  <2>3. ASSUME NEW m \in Repeats(longer) PROVE m <= CountedRetries(past) + 1
    <3>1. m = 0 \/ (m - 1 \in 0..n /\ (m - 1) + 1 = m)
      BY <1>0 DEF Repeats
    <3>2. m = 0 \/ m - 1 \in Repeats(past)
      BY <2>2, <3>1
    <3>3. m \in Nat
      BY <1>0 DEF Repeats
    <3> QED
      BY <2>1, <3>2, <3>3 DEF IsLongest
  <2>4. CountedRetries(past) + 1 \in Repeats(longer)
    <3>1. CountedRetries(past) \in 0..n /\ CountedRetries(past) \in Repeats(past)
      BY <2>1 DEF IsLongest, Repeats, n
    <3> QED
      BY <2>2, <3>1
  <2> QED
    BY <1>0, <1>7, <2>3, <2>4, RetriesIs DEF IsLongest, first, repeats
<1> QED
  BY <1>6, <1>7 DEF repeats, first

\* The calls of a turn.
CallsIn(t) == {t.calls[k] : k \in DOMAIN t.calls}

LEMMA CallsNext ==
    ASSUME NEW past, NEW t, NEW longer, OneMore(longer, past, t)
    PROVE  Calls(longer) = Calls(past) \cup CallsIn(t)
<1> DEFINE n == Len(past)
<1>1. DOMAIN past = 1..n /\ DOMAIN longer = 1..n+1 /\ n \in Nat
  BY LenProperties DEF OneMore
<1>2. longer[n + 1] = t /\ \A i \in 1..n : longer[i] = past[i]
  BY DEF OneMore
<1> HIDE DEF n
<1>3. 1..n+1 = 1..n \cup {n + 1}
  BY <1>1
<1>4. \A c : c \in Calls(longer) <=> \E i \in 1..n \cup {n + 1} : c \in CallsIn(longer[i])
  BY <1>1, <1>3 DEF Calls, CallsIn
<1>5. \A c : c \in Calls(past) <=> \E i \in 1..n : c \in CallsIn(past[i])
  BY <1>1 DEF Calls, CallsIn
<1> QED
  BY <1>2, <1>4, <1>5

LEMMA FiniteImage ==
    ASSUME NEW S, IsFiniteSet(S), NEW f
    PROVE  IsFiniteSet({f[x] : x \in S})
<1> DEFINE g == [x \in S |-> f[x]]
           T == {f[x] : x \in S}
<1>1. g \in [S -> T] /\ \A y \in T : \E x \in S : g[x] = y
  OBVIOUS
<1> HIDE DEF g, T
<1>2. g \in Surjection(S, T)
  BY <1>1 DEF Surjection
<1>3. IsFiniteSet(T)
  BY <1>2, FS_Surjection
<1> QED
  BY <1>3 DEF T

LEMMA CallsFinite ==
    ASSUME NEW past \in Seq(Turns)
    PROVE  IsFiniteSet(Calls(past)) /\ Calls(past) \subseteq CallRecords
<1> DEFINE sets == [i \in DOMAIN past |-> CallsIn(past[i])]
           S == {sets[i] : i \in DOMAIN past}
<1>1. DOMAIN past = 1..Len(past) /\ Len(past) \in Nat
      /\ \A i \in 1..Len(past) : past[i] \in Turns
  BY LenProperties, ElementOfSeq
<1>2. IsFiniteSet(DOMAIN past)
  BY <1>1, FS_Interval
<1>3. IsFiniteSet(S)
  BY <1>2, FiniteImage
<1>4. ASSUME NEW i \in DOMAIN past
      PROVE  IsFiniteSet(CallsIn(past[i])) /\ CallsIn(past[i]) \subseteq CallRecords
  <2>1. past[i].calls \in Seq(CallRecords)
    BY <1>1 DEF Turns
  <2>2. DOMAIN past[i].calls = 1..Len(past[i].calls) /\ Len(past[i].calls) \in Nat
        /\ \A k \in 1..Len(past[i].calls) : past[i].calls[k] \in CallRecords
    BY <2>1, LenProperties, ElementOfSeq
  <2>3. IsFiniteSet(DOMAIN past[i].calls)
    BY <2>2, FS_Interval
  <2>4. IsFiniteSet(CallsIn(past[i]))
    BY <2>3, FiniteImage DEF CallsIn
  <2> QED
    BY <2>2, <2>4 DEF CallsIn
<1>5. Calls(past) = UNION S
  BY DEF Calls, CallsIn
<1>6. IsFiniteSet(UNION S)
  BY <1>3, <1>4, FS_UNION
<1> QED
  BY <1>4, <1>5, <1>6

\* As many calls as the response has, if their IDs are distinct.
LEMMA CallsCounted ==
    ASSUME NEW t \in Turns,
           \A i, k \in DOMAIN t.calls : t.calls[i].id = t.calls[k].id => i = k
    PROVE  IsFiniteSet(CallsIn(t)) /\ Cardinality(CallsIn(t)) = Len(t.calls)
<1> DEFINE L == Len(t.calls)
<1>1. t.calls \in Seq(CallRecords)
  BY DEF Turns
<1>2. DOMAIN t.calls = 1..L /\ L \in Nat
  BY <1>1, LenProperties
<1> DEFINE f == [k \in 1..L |-> t.calls[k]]
<1> HIDE DEF L
<1>3. f \in Bijection(1..L, CallsIn(t))
  <2>1. f \in [1..L -> CallsIn(t)]
    BY <1>2 DEF CallsIn
  <2>2. \A c \in CallsIn(t) : \E k \in 1..L : f[k] = c
    BY <1>2 DEF CallsIn
  <2>3. \A i, k \in 1..L : f[i] = f[k] => i = k
    BY <1>2
  <2> HIDE DEF f
  <2> QED
    BY <2>1, <2>2, <2>3 DEF Bijection, Injection, IsInjective, Surjection
<1>4. ExistsBijection(1..L, CallsIn(t))
  BY <1>3 DEF ExistsBijection
<1>5. IsFiniteSet(1..L) /\ Cardinality(1..L) = L
  BY <1>2, FS_Interval
<1> QED
  BY <1>4, <1>5, FS_Bijection DEF L

LEMMA UnansweredNext ==
    ASSUME NEW past, NEW t, NEW longer, OneMore(longer, past, t)
    PROVE  Unanswered(longer) =
             {c \in Unanswered(past) : \A r \in t.results : r.id # c.id} \cup CallsIn(t)
<1> DEFINE n == Len(past)
           Open(h, i, c) == \A j \in i+1..Len(h) : \A r \in h[j].results : r.id # c.id
<1>1. /\ DOMAIN past = 1..n /\ DOMAIN longer = 1..n+1 /\ n \in Nat
      /\ Len(longer) = n + 1 /\ Len(past) = n
  BY LenProperties DEF OneMore
<1>2. longer[n + 1] = t /\ \A i \in 1..n : longer[i] = past[i]
  BY DEF OneMore
<1>3. \A c : c \in Unanswered(longer)
                <=> \E i \in 1..n+1 : c \in CallsIn(longer[i]) /\ Open(longer, i, c)
  BY <1>1 DEF Unanswered, CallsIn
<1>4. \A c : c \in Unanswered(past)
                <=> \E i \in 1..n : c \in CallsIn(past[i]) /\ Open(past, i, c)
  BY <1>1 DEF Unanswered, CallsIn
<1> HIDE DEF n
<1>5. ASSUME NEW i \in 1..n, NEW c
      PROVE  Open(longer, i, c) <=> Open(past, i, c) /\ \A r \in t.results : r.id # c.id
  <2>1. i+1..n+1 = i+1..n \cup {n + 1} /\ i+1..n \subseteq 1..n
    BY <1>1
  <2> QED
    BY <1>1, <1>2, <2>1
<1>6. ASSUME NEW c PROVE Open(longer, n + 1, c)
  BY <1>1
<1>7. 1..n+1 = 1..n \cup {n + 1}
  BY <1>1
<1> HIDE DEF Open
<1> QED
  BY <1>2, <1>3, <1>4, <1>5, <1>6, <1>7

\* What a turn does to each figure.
Figures(st, t, new) ==
    LET first == FirstTool(t.calls) IN
    /\ new.TurnCount = st.TurnCount + 1
    /\ new.SessionToolCount = st.SessionToolCount + Len(t.calls)
    /\ new.LastWasError = (\E r \in t.results : r.error)
    /\ new.PendingToolIDs =
         AddPending({p \in st.PendingToolIDs : \A r \in t.results : r.id # p.id}, t.calls)
    /\ new.LastToolName = IF first = NoTool THEN st.LastToolName ELSE first
    /\ new.ToolStreak = IF first = NoTool THEN 0
                        ELSE IF first = st.LastToolName THEN st.ToolStreak + 1 ELSE 1
    /\ new.RetryCount = IF /\ first # NoTool /\ first = st.LastToolName
                           /\ \E r \in t.results : r.error
                        THEN st.RetryCount + 1 ELSE 0

LEMMA TurnFigures ==
    ASSUME NEW st \in PatternStates, NEW t \in Turns
    PROVE  Figures(st, t, AfterResponse(AfterRequest(st, t.results), t.calls))
<1> DEFINE new == AfterResponse(AfterRequest(st, t.results), t.calls)
           first == FirstTool(t.calls)
<1> DEFINE open == {p \in st.PendingToolIDs : \A r \in t.results : r.id # p.id}
           err  == \E r \in t.results : r.error
           mid  == [st EXCEPT !.PendingToolIDs = open, !.LastWasError = err,
                              !.TurnCount = st.TurnCount + 1]
           all  == AddPending(open, t.calls)
           late == [mid EXCEPT !.PendingToolIDs = all,
                               !.SessionToolCount = mid.SessionToolCount + Len(t.calls)]
<1>1. AfterRequest(st, t.results) = mid
  BY DEF AfterRequest
<1>2. new = ComputePatterns(late, first)
  BY <1>1 DEF AfterResponse
<1> HIDE DEF open, err, new, first
<1>3. /\ mid.TurnCount = st.TurnCount + 1 /\ mid.LastWasError = err
      /\ mid.PendingToolIDs = open /\ mid.SessionToolCount = st.SessionToolCount
      /\ mid.LastToolName = st.LastToolName /\ mid.ToolStreak = st.ToolStreak
      /\ mid.RetryCount = st.RetryCount
      /\ DOMAIN mid = {"TurnCount", "LastToolName", "ToolStreak", "RetryCount",
                       "SessionToolCount", "LastWasError", "PendingToolIDs"}
      /\ mid = [x \in DOMAIN mid |-> mid[x]]
  BY DEF PatternStates
<1> HIDE DEF mid, all
<1>4. /\ late.TurnCount = st.TurnCount + 1 /\ late.LastWasError = err
      /\ late.PendingToolIDs = all
      /\ late.SessionToolCount = st.SessionToolCount + Len(t.calls)
      /\ late.LastToolName = st.LastToolName /\ late.ToolStreak = st.ToolStreak
      /\ late.RetryCount = st.RetryCount
      /\ DOMAIN late = {"TurnCount", "LastToolName", "ToolStreak", "RetryCount",
                        "SessionToolCount", "LastWasError", "PendingToolIDs"}
  BY <1>3
<1> HIDE DEF late
<1>5. CASE first = NoTool
  BY <1>2, <1>4, <1>5 DEF ComputePatterns, err, all, open, Figures, first, new
<1>6. CASE first # NoTool
  <2>1. IsRetry(late, first) <=> first = st.LastToolName /\ err
    BY <1>4 DEF IsRetry
  <2>2. new = [late EXCEPT
                 !.ToolStreak   = IF first = st.LastToolName THEN st.ToolStreak + 1 ELSE 1,
                 !.RetryCount   = IF first = st.LastToolName /\ err THEN st.RetryCount + 1 ELSE 0,
                 !.LastToolName = first]
    BY <1>2, <1>4, <1>6, <2>1 DEF ComputePatterns
  <2>3. /\ new.TurnCount = st.TurnCount + 1 /\ new.LastWasError = err
        /\ new.PendingToolIDs = all
        /\ new.SessionToolCount = st.SessionToolCount + Len(t.calls)
        /\ new.LastToolName = first
        /\ new.ToolStreak = IF first = st.LastToolName THEN st.ToolStreak + 1 ELSE 1
        /\ new.RetryCount = IF first = st.LastToolName /\ err THEN st.RetryCount + 1 ELSE 0
    BY <1>4, <2>2
  <2>4. Figures(st, t, new)
    BY <1>6, <2>3 DEF err, all, open, Figures, first
  <2> QED
    BY <2>4 DEF new
<1> QED
  BY <1>5, <1>6

LEMMA NamedNext ==
    ASSUME NEW past, NEW t, NEW longer, OneMore(longer, past, t),
           NEW last, LastNamed(past, last)
    PROVE  LastNamed(longer, IF FirstTool(t.calls) = NoTool THEN last ELSE FirstTool(t.calls))
<1> DEFINE n == Len(past)
           first == FirstTool(t.calls)
<1>1. First(longer, n + 1) = first /\ \A i \in 1..n : First(longer, i) = First(past, i)
  BY FirstOf
<1>2. Len(longer) = n + 1 /\ n \in Nat
  BY DEF OneMore
<1> HIDE DEF n, first
<1>3. CASE first # NoTool
  <2>1. n + 1 \in 1..n+1 /\ \A k \in (n+1)+1..n+1 : First(longer, k) = NoTool
    BY <1>2
  <2> QED
    BY <1>1, <1>2, <1>3, <2>1 DEF LastNamed, first
<1>4. CASE first = NoTool /\ last = NoTool
  <2>1. \A j \in 1..n : First(past, j) = NoTool
    BY <1>4 DEF LastNamed, n
  <2>2. \A j \in 1..n+1 : j \in 1..n \/ j = n + 1
    BY <1>2
  <2> QED
    BY <1>1, <1>2, <1>4, <2>1, <2>2 DEF LastNamed, first
<1>5. CASE first = NoTool /\ last # NoTool
  <2>1. PICK j \in 1..n : First(past, j) = last /\ \A k \in j+1..n : First(past, k) = NoTool
    BY <1>5 DEF LastNamed, n
  <2>2. j \in 1..n+1 /\ \A k \in j+1..n+1 : (k \in 1..n /\ k \in j+1..n) \/ k = n + 1
    BY <1>2
  <2>3. First(longer, j) = last /\ \A k \in j+1..n+1 : First(longer, k) = NoTool
    BY <1>1, <1>5, <2>1, <2>2
  <2> QED
    BY <1>2, <1>5, <2>2, <2>3 DEF LastNamed, first
<1> QED
  BY <1>3, <1>4, <1>5

\* What a turn does to the stored figures is what it does to those the code
\* keeps of its history.
LEMMA TurnTracked ==
    ASSUME NEW st \in PatternStates, NEW past \in Seq(Turns), Tracks(st, past),
           NEW t \in Turns,
           \A i, k \in DOMAIN t.calls : t.calls[i].id = t.calls[k].id => i = k,
           \A c \in Calls(past), k \in DOMAIN t.calls : c.id # t.calls[k].id
    PROVE  Tracks(AfterResponse(AfterRequest(st, t.results), t.calls), Append(past, t))
<1> DEFINE longer == Append(past, t)
           new == AfterResponse(AfterRequest(st, t.results), t.calls)
           first == FirstTool(t.calls)
           open == {p \in st.PendingToolIDs : \A r \in t.results : r.id # p.id}
<1>1. OneMore(longer, past, t)
  BY OneMoreTurn
<1>2. LastNamed(past, st.LastToolName)
  BY DEF Tracks
<1> HIDE DEF longer, new, first
<1>3. /\ new.TurnCount = st.TurnCount + 1
      /\ new.SessionToolCount = st.SessionToolCount + Len(t.calls)
      /\ new.LastWasError = (\E r \in t.results : r.error)
      /\ new.PendingToolIDs = AddPending(open, t.calls)
      /\ new.LastToolName = IF first = NoTool THEN st.LastToolName ELSE first
      /\ new.ToolStreak = IF first = NoTool THEN 0
                          ELSE IF first = st.LastToolName THEN st.ToolStreak + 1 ELSE 1
      /\ new.RetryCount =
           IF /\ first # NoTool /\ first = st.LastToolName
              /\ \E r \in t.results : r.error
           THEN st.RetryCount + 1 ELSE 0
  <2>1. Figures(st, t, new)
    BY TurnFigures DEF new
  <2> QED
    BY <2>1 DEF Figures, first
<1> HIDE DEF open
<1>4. new.TurnCount = Len(longer)
  BY <1>1, <1>3 DEF Tracks, OneMore
<1>5. LastNamed(longer, new.LastToolName)
  BY <1>1, <1>2, <1>3, NamedNext DEF first
<1>6. new.ToolStreak = Streak(longer)
  BY <1>1, <1>2, <1>3, StreakNext DEF Tracks, first
<1>7. new.RetryCount = CountedRetries(longer)
  BY <1>1, <1>2, <1>3, RetriesNext DEF Tracks, first
<1>8. new.SessionToolCount = Cardinality(Calls(longer))
  <2>1. IsFiniteSet(Calls(past)) /\ IsFiniteSet(CallsIn(t))
        /\ Cardinality(CallsIn(t)) = Len(t.calls)
    BY CallsFinite, CallsCounted
  <2>2. Calls(past) \cap CallsIn(t) = {}
    BY DEF CallsIn
  <2>3. Cardinality(Calls(past) \cup CallsIn(t))
           = Cardinality(Calls(past)) + Cardinality(CallsIn(t)) - 0
    <3>1. Cardinality(Calls(past) \cap CallsIn(t)) = 0
      BY <2>2, FS_EmptySet
    <3>2. Cardinality(Calls(past) \cup CallsIn(t))
             = Cardinality(Calls(past)) + Cardinality(CallsIn(t))
                 - Cardinality(Calls(past) \cap CallsIn(t))
      BY <2>1, FS_Union
    <3> QED
      BY <3>1, <3>2
  <2>4. Cardinality(Calls(past)) \in Nat /\ Cardinality(CallsIn(t)) \in Nat
    BY <2>1, FS_CardinalityType
  <2>5. Calls(longer) = Calls(past) \cup CallsIn(t)
    BY <1>1, CallsNext
  <2>6. st.SessionToolCount = Cardinality(Calls(past))
    BY DEF Tracks
  <2> QED
    BY <1>3, <2>1, <2>3, <2>4, <2>5, <2>6
<1>9. new.LastWasError = (longer # <<>> /\ \E r \in longer[Len(longer)].results : r.error)
  <2>1. longer # <<>> /\ longer[Len(longer)] = t
    BY <1>1, EmptySeq DEF OneMore
  <2> QED
    BY <1>3, <2>1
<1>10. new.PendingToolIDs = Unanswered(longer)
  <2>1. Unanswered(past) \subseteq Calls(past)
    BY DEF Unanswered, Calls
  <2>2. AddPending(open, t.calls) = open \cup CallsIn(t)
    <3>1. open \subseteq Calls(past)
      BY <2>1 DEF open, Tracks
    <3> QED
      BY <3>1 DEF AddPending, CallsIn
  <2>3. open = {c \in Unanswered(past) : \A r \in t.results : r.id # c.id}
    BY DEF open, Tracks
  <2>4. Unanswered(longer)
           = {c \in Unanswered(past) : \A r \in t.results : r.id # c.id} \cup CallsIn(t)
    BY <1>1, UnansweredNext
  <2> QED
    BY <1>3, <2>2, <2>3, <2>4
<1> QED
  BY <1>4, <1>5, <1>6, <1>7, <1>8, <1>9, <1>10 DEF Tracks, longer, new

\* Calls name tools, so that a turn with calls has a first tool.
LEMMA FirstIsTool ==
    ASSUME NEW past \in Seq(Turns), NEW i \in 1..Len(past), NEW k \in DOMAIN past[i].calls
    PROVE  First(past, i) # NoTool
<1>1. PICK t \in Turns : t = past[i]
  BY ElementOfSeq
<1>2. PICK q \in Seq(CallRecords) : q = past[i].calls
  BY <1>1 DEF Turns
<1>3. k \in 1..Len(q) /\ Len(q) \in Nat
  BY <1>2, LenProperties
<1>4. 1 \in 1..Len(q) /\ q # <<>>
  BY <1>3, EmptySeq
<1>5. q[1] \in CallRecords
  BY <1>4, ElementOfSeq
<1>6. q[1].tool # NoTool
  BY <1>5, SessionAssumption DEF CallRecords
<1> QED
  BY <1>2, <1>4, <1>6 DEF First, FirstTool

\* Every retry is counted, and what is counted is a retry where the results
\* are of the turn before.
LEMMA RetriesCounted ==
    ASSUME NEW past \in Seq(Turns), NEW i \in 1..Len(past)
    PROVE  /\ Retried(past, i) => CountedRetry(past, i)
           /\ CountedRetry(past, i) /\ OwnResults(past, i) => Retried(past, i)
<1>0. i \in Nat /\ Len(past) \in Nat
  BY LenProperties
<1>1. ASSUME Retried(past, i) PROVE CountedRetry(past, i)
  <2>1. PICK r \in past[i].results, k \in DOMAIN past[i-1].calls : r.error
    BY <1>1 DEF Retried, PreviousFailed
  <2>2. i > 1 /\ First(past, i) = First(past, i-1)
    BY <1>1 DEF Retried, PreviousFailed
  <2>3. i-1 \in 1..Len(past) /\ i-1 \in 1..i-1 /\ (i-1)+1..i-1 = {}
    BY <1>0, <2>2
  <2>4. First(past, i-1) # NoTool
    BY <2>1, <2>3, FirstIsTool
  <2> QED
    BY <2>1, <2>2, <2>3, <2>4 DEF CountedRetry
<1>2. ASSUME CountedRetry(past, i), OwnResults(past, i) PROVE Retried(past, i)
  <2>1. PICK r \in past[i].results : r.error
    BY <1>2 DEF CountedRetry
  <2>2. i > 1 /\ \E k \in DOMAIN past[i-1].calls : r.id = past[i-1].calls[k].id
    BY <1>2, <2>1 DEF OwnResults
  <2>3. i-1 \in 1..Len(past) /\ i-1 \in Nat
    BY <1>0, <2>2
  <2>4. First(past, i-1) # NoTool
    BY <2>2, <2>3, FirstIsTool
  <2>5. PICK j \in 1..i-1 : First(past, j) = First(past, i) /\ \A k \in j+1..i-1 : First(past, k) = NoTool
    BY <1>2 DEF CountedRetry
  <2>6. j = i-1 \/ i-1 \in j+1..i-1
    BY <2>3
  <2>7. First(past, i) = First(past, i-1)
    BY <2>4, <2>5, <2>6
  <2> QED
    BY <2>1, <2>2, <2>7 DEF Retried, PreviousFailed
<1> QED
  BY <1>1, <1>2

\* So the longest run of retries is no longer than what is counted.
LEMMA RunsCounted ==
    ASSUME NEW past \in Seq(Turns)
    PROVE  /\ Retries(past) <= CountedRetries(past)
           /\ (\A i \in 1..Len(past) : OwnResults(past, i)) => CountedRetries(past) = Retries(past)
<1> DEFINE Runs == {n \in 0..Len(past) : \A i \in Len(past) - n + 1 .. Len(past) : Retried(past, i)}
<1>1. Len(past) \in Nat
  BY LenProperties
<1>2. \A n \in 0..Len(past) : \A i \in Len(past) - n + 1 .. Len(past) : i \in 1..Len(past)
  BY <1>1
<1>3. Runs \in SUBSET (0..Len(past)) /\ 0 \in Runs /\ Runs \in SUBSET Nat
  BY <1>1
<1>4. Runs \subseteq Repeats(past)
  BY <1>2, RetriesCounted DEF Repeats
<1>5. (\A i \in 1..Len(past) : OwnResults(past, i)) => Repeats(past) \subseteq Runs
  BY <1>2, RetriesCounted DEF Repeats
<1>6. Retries(past) = Longest(Runs) /\ CountedRetries(past) = Longest(Repeats(past))
  BY DEF Retries, CountedRetries, Repeats
<1> HIDE DEF Runs
<1>7. PICK n \in Runs : IsLongest(n, Runs)
  BY <1>1, <1>3, LongestExists
<1>8. Retries(past) = n
  BY <1>3, <1>6, <1>7, LongestIs
<1>9. IsLongest(CountedRetries(past), Repeats(past))
  BY RunsExist
<1>10. n <= CountedRetries(past)
  BY <1>4, <1>9 DEF IsLongest
<1>11. (\A i \in 1..Len(past) : OwnResults(past, i)) => Repeats(past) = Runs
  BY <1>4, <1>5
<1> QED
  BY <1>6, <1>8, <1>10, <1>11

(* What the code keeps is what the history says in the words of            *)
(* PatternState's comments (db.go): all of it where the results are of the *)
(* turn before, and where older ones come again no error and no retry is   *)
(* missed.                                                                 *)
LEMMA TracksMatch ==
    ASSUME NEW past \in Seq(Turns), NEW st, Tracks(st, past)
    PROVE  MatchesHistory(st, past)
<1> DEFINE n == Len(past)
<1>0. n \in Nat /\ (n > 0 => n \in 1..n /\ n # 0)
  BY LenProperties
<1>1. /\ Retries(past) <= st.RetryCount
      /\ (\A i \in 1..n : OwnResults(past, i)) => st.RetryCount = Retries(past)
  BY RunsCounted DEF Tracks
<1>2. ASSUME n > 0, First(past, n) # NoTool PROVE st.LastToolName = First(past, n)
  BY <1>0, <1>2, LastTurnNamed DEF Tracks
<1>3. n > 0 => past # <<>>
  BY <1>0, EmptySeq
<1>4. n > 0 => (st.LastWasError <=> \E r \in past[n].results : r.error)
  BY <1>3 DEF Tracks
<1>5. ASSUME n > 0, PreviousFailed(past, n) PROVE st.LastWasError
  BY <1>4, <1>5 DEF PreviousFailed
<1>6. ASSUME n > 0, OwnResults(past, n), st.LastWasError PROVE PreviousFailed(past, n)
  BY <1>4, <1>6 DEF PreviousFailed, OwnResults
<1> QED
  BY <1>1, <1>2, <1>5, <1>6 DEF MatchesHistory, Tracks

(* A turn brings the stored figures from one history to the next           *)
(* (proxy.go, processToolResultsAndEmitEvents and emitResponseEvents;      *)
(* session.go, ComputePatterns): if the code has kept them so far they are *)
(* what the longer history says, for every history and every turn whose    *)
(* calls have IDs of their own.                                            *)
THEOREM TurnMatchesHistory ==
    ASSUME NEW st \in PatternStates, NEW past \in Seq(Turns), Tracks(st, past),
           NEW t \in Turns,
           \A i, k \in DOMAIN t.calls : t.calls[i].id = t.calls[k].id => i = k,
           \A c \in Calls(past), k \in DOMAIN t.calls : c.id # t.calls[k].id
    PROVE  MatchesHistory(AfterResponse(AfterRequest(st, t.results), t.calls), Append(past, t))
<1>1. Append(past, t) \in Seq(Turns)
  BY AppendProperties
<1>2. Tracks(AfterResponse(AfterRequest(st, t.results), t.calls), Append(past, t))
  BY TurnTracked
<1> QED
  BY <1>1, <1>2, TracksMatch

-----------------------------------------------------------------------------
(* A session that is not disturbed has exact figures.                      *)

LEMMA FreshTracks == Tracks(FreshState, <<>>)
<1>1. <<>> \in Seq(Turns) /\ Len(<<>>) = 0
  BY EmptySeq
<1>2. Streaks(<<>>) = {0} /\ Repeats(<<>>) = {0}
  BY <1>1 DEF Streaks, SameTool, Repeats
<1>3. IsLongest(0, Streaks(<<>>)) /\ IsLongest(0, Repeats(<<>>))
  BY <1>2 DEF IsLongest
<1>4. Calls(<<>>) = {} /\ Unanswered(<<>>) = {}
  BY <1>1 DEF Calls, Unanswered
<1>5. Cardinality({}) = 0
  BY FS_EmptySet
<1>6. LastNamed(<<>>, NoTool)
  BY <1>1 DEF LastNamed
<1> QED
  BY <1>1, <1>3, <1>4, <1>5, <1>6, StreakIs, RetriesIs DEF Tracks, FreshState

LEMMA SerialTypes ==
    ASSUME TypeOK
    PROVE  \A r \in Requests :
             /\ sid[r] \in Requests /\ Stored(r) \in PatternStates
             /\ turns[r] \in Seq(Turns) /\ calls[r] \in Seq(CallRecords)
             /\ results[r] \in SUBSET ResultRecords
BY FreshStateType DEF TypeOK, Stored, Rows, Turns

\* The IDs in a history stay spent.
LEMMA SpentKept ==
    ASSUME TypeOK, NEW s \in Requests, IDsSpent(s), turns'[s] = turns[s],
           \A q \in Requests : pc[q] = "done" => pc'[q] = "done"
    PROVE  IDsSpent(s)'
<1>1. Calls(turns[s]) \subseteq CallRecords
  BY SerialTypes, CallsFinite
<1>2. \A c \in Calls(turns[s]) : c.id[1] \in Requests
  BY <1>1 DEF CallRecords
<1> QED
  BY <1>2 DEF IDsSpent

\* A request that does not move keeps in step with a session that does not.
LEMMA InStepKept ==
    ASSUME TypeOK, NEW r \in Requests, InStep(r), sid' = sid, disturbed \subseteq disturbed',
           pc'[r] = pc[r], state'[r] = state[r], results'[r] = results[r], calls'[r] = calls[r],
           Stored(sid[r])' = Stored(sid[r]),
           \A q \in Requests : Active(q)' => Active(q)
    PROVE  InStep(r)'
<1>1. Responded(r)' <=> Responded(r)
  BY DEF Responded
<1> QED
  BY <1>1 DEF InStep

\* A request enters a session.
LEMMA EnterKeeps ==
    ASSUME TypeOK, SerialInv, NEW r \in Requests, NEW c, NEW s \in Requests, NEW n, NEW new,
           Placed(r, c, s, n, new), \A t \in Requests : Stored(t)' = Stored(t)
    PROVE  SerialInv'
<1>1. /\ pc[r] = "idle" /\ pc'[r] = "located" /\ sid'[r] = s
      /\ UNCHANGED <<state, calls, turns>>
      /\ disturbed' = IF \E q \in Requests \ {r} : Active(q) /\ sid[q] = s
                      THEN disturbed \cup {s} ELSE disturbed
  BY DEF Placed
<1>2. \A q \in Requests \ {r} : pc'[q] = pc[q] /\ sid'[q] = sid[q] /\ results'[q] = results[q]
  BY DEF Placed
<1>3. \A q \in Requests \ {r} : (Active(q)' <=> Active(q)) /\ (Responded(q)' <=> Responded(q))
  BY <1>2 DEF Active, Responded
<1>4. ~Responded(r)' /\ pc'[r] # "loaded" /\ disturbed \subseteq disturbed'
  BY <1>1 DEF Responded
<1>5. ASSUME NEW q \in Requests, NEW p \in Requests \ {q},
             Active(q)', Active(p)', sid'[q] = sid'[p]
      PROVE  sid'[q] \in disturbed'
  <2>1. CASE q = r \/ p = r
    BY <1>1, <1>2, <1>3, <1>5, <2>1
  <2>2. CASE q # r /\ p # r
    <3>1. sid[q] \in disturbed
      BY <1>2, <1>3, <1>5, <2>2 DEF SerialInv, InStep
    <3> QED
      BY <1>2, <1>4, <2>2, <3>1
  <2> QED
    BY <2>1, <2>2
<1>6. ASSUME NEW q \in Requests PROVE InStep(q)'
  <2>1. CASE q = r
    BY <1>4, <1>5, <2>1 DEF InStep
  <2>2. CASE q # r
    <3>1. /\ pc'[q] = pc[q] /\ sid'[q] = sid[q] /\ results'[q] = results[q]
          /\ state'[q] = state[q] /\ calls'[q] = calls[q]
          /\ Responded(q)' <=> Responded(q)
      BY <1>1, <1>2, <1>3, <2>2
    <3>2. Stored(sid[q])' = Stored(sid[q])
      <4>1. sid[q] \in Requests
        BY SerialTypes
      <4>2. Stored(sid[q])' = IF db'[sid[q]] = NoSession THEN FreshState ELSE db'[sid[q]].state
        BY <3>1 DEF Stored
      <4> QED
        BY <4>1, <4>2 DEF Stored
    <3>3. sid[q] \notin disturbed' => sid[q] \notin disturbed
      BY <1>4
    <3>4. InStep(q)
      BY DEF SerialInv
    <3> QED
      BY <1>5, <3>1, <3>2, <3>3, <3>4 DEF InStep
  <2> QED
    BY <2>1, <2>2
<1>7. ASSUME NEW q \in Requests PROVE IDsSpent(q)' /\ OwnIDs(q)'
  <2>1. IDsSpent(q)'
    BY <1>1, <1>2, SpentKept DEF SerialInv
  <2>2. OwnIDs(q)'
    BY <1>1, <1>3, <1>4 DEF SerialInv, OwnIDs
  <2> QED
    BY <2>1, <2>2
<1>8. ASSUME NEW t \in Requests, t \notin disturbed'
      PROVE  Tracks(Stored(t), turns[t])'
  BY <1>1, <1>4, <1>8 DEF SerialInv
<1> QED
  BY <1>6, <1>7, <1>8 DEF SerialInv

\* Handlers go, by themselves or with the process, and nothing is written.
LEMMA LeaveKeeps ==
    ASSUME TypeOK, SerialInv, NEW gone \in SUBSET Requests, Forget(gone),
           UNCHANGED <<db, sid, turns, disturbed>>,
           \A q \in gone : ~Active(q)' /\ pc[q] # "done",
           \A q \in Requests \ gone : pc'[q] = pc[q]
    PROVE  SerialInv'
<1>1. \A q \in Requests \ gone :
         state'[q] = state[q] /\ results'[q] = results[q] /\ calls'[q] = calls[q]
  BY DEF Forget
<1>2. \A t \in Requests : Stored(t)' = Stored(t) /\ sid[t] \in Requests
  BY SerialTypes DEF Stored
<1>3. \A q \in Requests : Active(q)' => Active(q)
  BY DEF Active
<1>4. ASSUME NEW q \in Requests PROVE InStep(q)' /\ OwnIDs(q)'
  <2>1. CASE q \in gone
    <3>1. ~Responded(q)' /\ pc'[q] # "loaded"
      BY <2>1 DEF Active, Responded
    <3> QED
      BY <2>1, <3>1 DEF InStep, OwnIDs
  <2>2. CASE q \notin gone
    <3>1. InStep(q)'
      BY <1>1, <1>2, <1>3, <2>2, InStepKept DEF SerialInv
    <3>2. OwnIDs(q)'
      BY <1>1, <2>2 DEF SerialInv, OwnIDs, Responded
    <3> QED
      BY <3>1, <3>2
  <2> QED
    BY <2>1, <2>2
<1>5. ASSUME NEW s \in Requests PROVE IDsSpent(s)'
  BY SpentKept DEF SerialInv
<1> QED
  BY <1>2, <1>4, <1>5 DEF SerialInv

\* A request begins its turn, or its response is complete: it alone moves, and
\* nothing is written.
LEMMA MoveKeeps ==
    ASSUME TypeOK, SerialInv, NEW r \in Requests,
           UNCHANGED <<db, sid, results, turns>>, disturbed \subseteq disturbed',
           Active(r), Active(r)', pc[r] # "done",
           \A q \in Requests \ {r} :
              pc'[q] = pc[q] /\ state'[q] = state[q] /\ calls'[q] = calls[q],
           OwnIDs(r)',
           sid[r] \notin disturbed' =>
              /\ pc'[r] = "loaded" => state'[r] = AfterRequest(Stored(sid[r]), results[r])
              /\ Responded(r)' =>
                   state'[r] = AfterResponse(AfterRequest(Stored(sid[r]), results[r]), calls'[r])
    PROVE  SerialInv'
<1>1. \A t \in Requests : Stored(t)' = Stored(t) /\ sid[t] \in Requests
  BY SerialTypes DEF Stored
<1>2. \A q \in Requests : Active(q)' <=> Active(q)
  BY DEF Active
<1>3. Stored(sid[r])' = Stored(sid[r])
  BY DEF Stored
<1>4. InStep(r)'
  <2>1. InStep(r)
    BY DEF SerialInv
  <2> QED
    BY <1>2, <1>3, <2>1 DEF InStep
<1>5. ASSUME NEW q \in Requests \ {r} PROVE InStep(q)' /\ OwnIDs(q)'
  <2>1. InStep(q) /\ OwnIDs(q)
    BY DEF SerialInv
  <2>2. Stored(sid[q])' = Stored(sid[q])
    BY DEF Stored
  <2>3. InStep(q)'
    BY <1>2, <2>1, <2>2, InStepKept
  <2>4. OwnIDs(q)'
    BY <2>1 DEF OwnIDs, Responded
  <2> QED
    BY <2>3, <2>4
<1>6. ASSUME NEW s \in Requests PROVE IDsSpent(s)'
  BY SpentKept DEF SerialInv
<1> QED
  BY <1>1, <1>4, <1>5, <1>6 DEF SerialInv

\* A turn is written.
LEMMA WriteKeeps ==
    ASSUME TypeOK, SerialInv, NEW r \in Requests, Finish(r), NEW s \in Requests, s = sid[r],
           db[s] # NoSession, db' = [db EXCEPT ![s].state = state[r]],
           turns' = [turns EXCEPT ![s] = Append(@, [results |-> results[r], calls |-> calls[r]])]
    PROVE  SerialInv'
<1> DEFINE t == [results |-> results[r], calls |-> calls[r]]
<1>1. /\ Responded(r) /\ pc'[r] = "done" /\ \A q \in Requests \ {r} : pc'[q] = pc[q]
      /\ Forget({r}) /\ UNCHANGED <<sid, disturbed>>
  BY DEF Finish, Responded, identity, TypeOK
<1>2. \A q \in Requests \ {r} :
         state'[q] = state[q] /\ results'[q] = results[q] /\ calls'[q] = calls[q]
  BY <1>1 DEF Forget
<1>3. t \in Turns /\ turns[s] \in Seq(Turns) /\ Stored(s) \in PatternStates
  BY SerialTypes DEF Turns
<1>4. turns'[s] = Append(turns[s], t) /\ \A q \in Requests \ {s} : turns'[q] = turns[q]
  BY DEF TypeOK
<1>5. Stored(s)' = state[r] /\ \A q \in Requests \ {s} : Stored(q)' = Stored(q)
  <2> DEFINE row == [db[s] EXCEPT !.state = state[r]]
  <2>1. db[s] \in Rows /\ state[r] \in PatternStates
    BY DEF TypeOK
  <2>2. row \in Rows /\ row.state = state[r] /\ row # NoSession
    BY <2>1, SessionAssumption DEF Rows
  <2>3. db' = [db EXCEPT ![s] = row]
    OBVIOUS
  <2> HIDE DEF row
  <2> QED
    BY <2>2, <2>3 DEF Stored, TypeOK
<1>6. /\ OneMore(Append(turns[s], t), turns[s], t)
      /\ Calls(Append(turns[s], t)) = Calls(turns[s]) \cup CallsIn(t)
  BY <1>3, OneMoreTurn, CallsNext
<1>7. \A k \in DOMAIN t.calls : t.calls[k].id = <<r, k>>
  BY <1>1 DEF SerialInv, OwnIDs
<1>8. \A c \in Calls(turns[s]) : c.id[1] \in Requests /\ pc[c.id[1]] = "done"
  <2>1. Calls(turns[s]) \subseteq CallRecords
    BY <1>3, CallsFinite
  <2> QED
    BY <2>1 DEF CallRecords, SerialInv, IDsSpent
<1>9. pc[r] # "done"
  BY <1>1 DEF Responded
<1> HIDE DEF t
<1>10. IDsSpent(s)'
  <2>1. ASSUME NEW c \in CallsIn(t) PROVE pc'[c.id[1]] = "done"
    BY <1>1, <1>7 DEF CallsIn
  <2>2. ASSUME NEW c \in Calls(turns[s]) PROVE pc'[c.id[1]] = "done"
    BY <1>1, <1>8
  <2> QED
    BY <1>4, <1>6, <2>1, <2>2 DEF IDsSpent
<1>11. ASSUME s \notin disturbed
       PROVE  Tracks(Stored(s), turns[s])'
  <2>1. Tracks(Stored(s), turns[s])
    BY <1>11 DEF SerialInv
  <2>2. \A i, k \in DOMAIN t.calls : t.calls[i].id = t.calls[k].id => i = k
    BY <1>7
  <2>3. \A c \in Calls(turns[s]), k \in DOMAIN t.calls : c.id # t.calls[k].id
    BY <1>7, <1>8, <1>9
  <2>4. Tracks(AfterResponse(AfterRequest(Stored(s), t.results), t.calls),
                       Append(turns[s], t))
    BY <1>3, <2>1, <2>2, <2>3, TurnTracked
  <2>5. state[r] = AfterResponse(AfterRequest(Stored(s), t.results), t.calls)
    BY <1>1, <1>11 DEF SerialInv, InStep, t
  <2> QED
    BY <1>4, <1>5, <2>4, <2>5
<1>12. ASSUME NEW q \in Requests PROVE IDsSpent(q)'
  BY <1>1, <1>4, <1>10, SpentKept DEF SerialInv
<1>13. ASSUME NEW q \in Requests PROVE InStep(q)' /\ OwnIDs(q)'
  <2>1. CASE q = r
    BY <1>1, <2>1 DEF InStep, OwnIDs, Responded, Active
  <2>2. CASE q # r
    <3>1. OwnIDs(q)'
      BY <1>1, <1>2, <2>2 DEF SerialInv, OwnIDs, Responded
    <3>2. \A p \in Requests : Active(p)' => Active(p)
      BY <1>1 DEF Active
    <3>3. CASE sid[q] # s
      <4>1. Stored(sid[q])' = Stored(sid[q])
        <5>1. sid[q] \in Requests \ {s} /\ sid'[q] = sid[q]
          BY <1>1, <3>3, SerialTypes
        <5>2. Stored(sid[q])' = IF db'[sid[q]] = NoSession THEN FreshState ELSE db'[sid[q]].state
          BY <5>1 DEF Stored
        <5> QED
          BY <1>5, <5>1, <5>2 DEF Stored
      <4>2. InStep(q)'
        BY <1>1, <1>2, <2>2, <3>2, <4>1, InStepKept DEF SerialInv
      <4> QED
        BY <3>1, <4>2
    <3>4. CASE sid[q] = s /\ s \notin disturbed
      <4>1. ~Active(q)
        BY <1>1, <2>2, <3>4 DEF SerialInv, InStep, Responded, Active
      <4> QED
        BY <1>1, <2>2, <3>1, <3>2, <4>1 DEF InStep, Active, Responded
    <3>5. CASE sid[q] = s /\ s \in disturbed
      BY <1>1, <3>1, <3>5 DEF InStep
    <3> QED
      BY <3>3, <3>4, <3>5
  <2> QED
    BY <2>1, <2>2
<1>14. ASSUME NEW q \in Requests \ {s}, q \notin disturbed
       PROVE  Tracks(Stored(q), turns[q])'
  BY <1>4, <1>5, <1>14 DEF SerialInv
<1> QED
  BY <1>1, <1>11, <1>12, <1>13, <1>14 DEF SerialInv

LEMMA SerialStep == ASSUME TypeOK, SessionInv, SerialInv, [Next]_vars PROVE SerialInv'
<1>1. ASSUME NEW r \in Requests, NEW c \in Clients \cup {NoClient}, GetOrCreateSession(r, c)
      PROVE  SerialInv'
  <2>1. CASE Arrive(r, c) /\ Continue(r, c)
    <3>1. PICK s \in Requests :
             /\ Placed(r, c, s, db[s].last_seq + 1, FALSE) /\ db[s] # NoSession
             /\ \A t \in Requests \ {s} : db'[t] = db[t]
             /\ db'[s] # NoSession /\ db'[s].state = db[s].state
      BY <2>1, ContinueStep
    <3>2. \A t \in Requests : Stored(t)' = Stored(t)
      BY <3>1 DEF Stored
    <3> QED
      BY <3>1, <3>2, EnterKeeps
  <2>2. CASE Arrive(r, c) /\ Create(r, c)
    <3>1. /\ Placed(r, c, r, 1, TRUE)
          /\ \A t \in Requests \ {r} : db'[t] = db[t]
          /\ db'[r] # NoSession /\ db'[r].state = FreshState
      BY <2>2, CreateStep
    <3>2. db[r] = NoSession
      BY <3>1 DEF Placed, SessionInv
    <3>3. \A t \in Requests : Stored(t)' = Stored(t)
      BY <3>1, <3>2 DEF Stored
    <3> QED
      BY <3>1, <3>3, EnterKeeps
  <2> QED
    BY <1>1, <2>1, <2>2 DEF GetOrCreateSession
<1>2. ASSUME NEW r \in Requests, NEW c \in Clients \cup {NoClient}, SessionFallback(r, c)
      PROVE  SerialInv'
  <2>1. Placed(r, c, r, 1, TRUE) /\ UNCHANGED db
    BY <1>2, FallbackStep
  <2>2. \A t \in Requests : Stored(t)' = Stored(t)
    BY <2>1 DEF Stored
  <2> QED
    BY <2>1, <2>2, EnterKeeps
<1>3. ASSUME NEW r \in Requests, LoadPatternState(r) \/ LoadFails(r)
      PROVE  SerialInv'
  <2>1. /\ pc[r] = "located" /\ pc'[r] = "loaded"
        /\ UNCHANGED <<db, sid, results, turns, calls>> /\ disturbed \subseteq disturbed'
        /\ \A q \in Requests \ {r} : pc'[q] = pc[q] /\ state'[q] = state[q]
    BY <1>3 DEF LoadPatternState, LoadFails, Begin, request, TypeOK
  <2>2. sid[r] \notin disturbed' => state'[r] = AfterRequest(Stored(sid[r]), results[r])
    BY <1>3 DEF LoadPatternState, LoadFails, Begin, TypeOK
  <2>3. Active(r) /\ Active(r)' /\ ~Responded(r)' /\ OwnIDs(r)'
    BY <2>1 DEF Active, Responded, OwnIDs
  <2> QED
    BY <2>1, <2>2, <2>3, MoveKeeps
<1>4. ASSUME NEW r \in Requests, NEW tools \in Responses,
             RespondBuffered(r, tools) \/ RespondStreaming(r, tools)
      PROVE  SerialInv'
  <2>1. /\ pc[r] = "loaded" /\ pc'[r] \in {"responded", "streamed"}
        /\ UNCHANGED <<db, sid, results, turns, disturbed>>
        /\ \A q \in Requests \ {r} :
              pc'[q] = pc[q] /\ state'[q] = state[q] /\ calls'[q] = calls[q]
        /\ calls'[r] = CallsOf(r, tools) /\ state'[r] = AfterResponse(state[r], CallsOf(r, tools))
    BY <1>4 DEF RespondBuffered, RespondStreaming, EmitResponse, request, TypeOK
  <2>2. \A k \in DOMAIN CallsOf(r, tools) : CallsOf(r, tools)[k].id = <<r, k>>
    BY DEF CallsOf
  <2>3. Active(r) /\ Active(r)' /\ OwnIDs(r)'
    BY <2>1, <2>2 DEF Active, OwnIDs
  <2>4. sid[r] \notin disturbed => state[r] = AfterRequest(Stored(sid[r]), results[r])
    BY <2>1 DEF SerialInv, InStep
  <2>5. pc'[r] # "loaded" /\ pc[r] # "done"
    BY <2>1
  <2>6. sid[r] \notin disturbed =>
           state'[r] = AfterResponse(AfterRequest(Stored(sid[r]), results[r]), calls'[r])
    BY <2>1, <2>4
  <2> QED
    BY <2>1, <2>3, <2>5, <2>6, MoveKeeps
<1>5. ASSUME NEW r \in Requests, UpstreamFails(r)
      PROVE  SerialInv'
  <2>1. /\ pc[r] = "loaded" /\ pc'[r] = "failed" /\ \A q \in Requests \ {r} : pc'[q] = pc[q]
        /\ Forget({r}) /\ UNCHANGED <<db, sid, turns, disturbed>>
    BY <1>5 DEF UpstreamFails, identity, TypeOK
  <2>2. \A q \in {r} : ~Active(q)' /\ pc[q] # "done"
    BY <2>1 DEF Active
  <2> QED
    BY <2>1, <2>2, LeaveKeeps
<1>6. ASSUME NEW r \in Requests, UpdatePatternState(r) \/ UpdateFails(r)
      PROVE  SerialInv'
  <2>1. Finish(r)
    BY <1>6 DEF UpdatePatternState, UpdateFails
  <2>2. CASE UNCHANGED <<db, turns>>
    <3>1. /\ pc[r] # "done" /\ pc'[r] = "done" /\ \A q \in Requests \ {r} : pc'[q] = pc[q]
          /\ Forget({r}) /\ UNCHANGED <<sid, disturbed>>
      BY <2>1 DEF Finish, identity, TypeOK
    <3>2. \A q \in {r} : ~Active(q)' /\ pc[q] # "done"
      BY <3>1 DEF Active
    <3> QED
      BY <2>2, <3>1, <3>2, LeaveKeeps
  <2>3. CASE /\ db[sid[r]] # NoSession
             /\ db' = [db EXCEPT ![sid[r]].state = state[r]]
             /\ turns' = [turns EXCEPT ![sid[r]] =
                             Append(@, [results |-> results[r], calls |-> calls[r]])]
    BY <2>1, <2>3, SerialTypes, WriteKeeps
  <2> QED
    BY <1>6, <2>2, <2>3 DEF UpdatePatternState, UpdateFails
<1>7. CASE Restart
  <2> DEFINE gone == {q \in Requests : Active(q)}
  <2>1. /\ Forget(gone) /\ UNCHANGED <<db, sid, turns, disturbed>>
        /\ pc' = [q \in Requests |-> IF Active(q) THEN "failed" ELSE pc[q]]
    BY <1>7 DEF Restart, identity
  <2>2. \A q \in gone : ~Active(q)' /\ pc[q] # "done"
    BY <2>1 DEF Active
  <2>3. \A q \in Requests \ gone : pc'[q] = pc[q]
    BY <2>1
  <2> HIDE DEF gone
  <2>4. gone \in SUBSET Requests
    BY DEF gone
  <2> QED
    BY <2>1, <2>2, <2>3, <2>4, LeaveKeeps
<1>8. CASE UNCHANGED vars
  BY <1>8 DEF vars, SerialInv, IDsSpent, OwnIDs, InStep, Responded, Active, Stored
<1> QED
  BY <1>1, <1>2, <1>3, <1>4, <1>5, <1>6, <1>7, <1>8 DEF Next, Handle

(* Without overlaps and failed loads the stored figures are those of the   *)
(* history (proxy.go, ServeHTTP; db.go, UpdatePatternState), whatever      *)
(* requests, writes and processes failed in between.                       *)
THEOREM SerialExactHolds == Spec => []SerialExact
<1>1. Init => SerialInv
  <2>1. Calls(<<>>) = {}
    BY EmptySeq DEF Calls
  <2> QED
    BY <2>1, FreshTracks DEF Init, SerialInv, IDsSpent, OwnIDs, InStep, Responded, Active, Stored
<1>2. TypeOK /\ SerialInv => SerialExact
  <2>1. ASSUME TypeOK, SerialInv, NEW s \in Requests, db[s] # NoSession, s \notin disturbed
        PROVE  MatchesHistory(db[s].state, turns[s])
    <3>1. Tracks(db[s].state, turns[s])
      BY <2>1 DEF SerialInv, Stored
    <3>2. turns[s] \in Seq(Turns)
      BY <2>1, SerialTypes
    <3> QED
      BY <3>1, <3>2, TracksMatch
  <2> QED
    BY <2>1 DEF SerialExact
<1> QED
  BY <1>1, <1>2, SerialStep, SessionInvHolds, TypeCorrect, PTL DEF Spec
-----------------------------------------------------------------------------
(* What the log of a session is ordered and counted by: who opens it, that *)
(* the request under way in an undisturbed session is its newest, and that *)
(* a turn is written by a request of its own.                              *)

\* After it is located a request only ends, and disturbances stay.
LEMMA OnlyEnds ==
    ASSUME TypeOK, [Next]_vars,
           ~ \E r \in Requests, c \in Clients \cup {NoClient} :
                GetOrCreateSession(r, c) \/ SessionFallback(r, c)
    PROVE  /\ SameIdentity /\ disturbed \subseteq disturbed'
           /\ \A q \in Requests : Active(q)' => Active(q)
<1>1. SameIdentity
  BY LaterSteps, QuietSteps DEF Next, Handle
<1>2. CASE Restart \/ UNCHANGED vars
  BY <1>1, <1>2 DEF Restart, Active, vars
<1>3. ASSUME NEW r \in Requests, LoadPatternState(r) \/ LoadFails(r)
      PROVE  disturbed \subseteq disturbed' /\ \A q \in Requests : Active(q)' => Active(q)
  BY <1>3 DEF LoadPatternState, LoadFails, Begin, Active, TypeOK
<1>4. ASSUME NEW r \in Requests,
             \E tools \in Responses : RespondBuffered(r, tools) \/ RespondStreaming(r, tools)
      PROVE  disturbed \subseteq disturbed' /\ \A q \in Requests : Active(q)' => Active(q)
  BY <1>4 DEF RespondBuffered, RespondStreaming, EmitResponse, Active, TypeOK
<1>5. ASSUME NEW r \in Requests, UpstreamFails(r) \/ UpdatePatternState(r) \/ UpdateFails(r)
      PROVE  disturbed \subseteq disturbed' /\ \A q \in Requests : Active(q)' => Active(q)
  BY <1>5 DEF UpstreamFails, UpdatePatternState, UpdateFails, Finish, Active, TypeOK
<1> QED
  BY <1>1, <1>2, <1>3, <1>4, <1>5 DEF Next, Handle

\* A request placed in s: nothing else becomes newest there.
LEMMA PlacedNewest ==
    ASSUME TypeOK, SessionInv, NewestInv, NEW r \in Requests, NEW c, NEW s \in Requests,
           NEW n \in Nat, NEW new \in BOOLEAN, Placed(r, c, s, n, new), new <=> s = r,
           \A q \in Members(s) : seq[q] < n
    PROVE  NewestInv'
<1>1. \A q \in Requests \ {r} : pc'[q] # "idle" => (isNew'[q] <=> sid'[q] = q)
  BY DEF NewestInv, Placed
<1>2. isNew'[r] <=> sid'[r] = r
  BY DEF Placed
<1>3. ASSUME NEW q \in Requests, Active(q)', sid'[q] \notin disturbed',
             NEW p \in Requests \ {q}, pc'[p] # "idle", sid'[p] = sid'[q]
      PROVE  seq'[p] < seq'[q]
  <2>1. CASE q = r
    BY <1>3, <2>1 DEF Placed, Members
  <2>2. CASE q # r /\ p = r
    BY <1>3, <2>2 DEF Placed, Active
  <2>3. CASE q # r /\ p # r
    <3>1. Active(q) /\ sid[q] \notin disturbed /\ p \in Members(sid[q]) \ {q}
      BY <1>3, <2>3 DEF Placed, Active, Members
    <3> QED
      BY <2>3, <3>1 DEF NewestInv, Placed
  <2> QED
    BY <2>1, <2>2, <2>3
<1> QED
  BY <1>1, <1>2, <1>3 DEF NewestInv, Members

LEMMA NewestStep ==
    ASSUME TypeOK, SessionInv, SeqConsecutive, NewestInv, [Next]_vars
    PROVE  NewestInv'
<1>1. ASSUME NEW r \in Requests, NEW c \in Clients \cup {NoClient},
             Arrive(r, c), Continue(r, c)
      PROVE  NewestInv'
  <2>1. PICK s \in Requests :
           Placed(r, c, s, db[s].last_seq + 1, FALSE) /\ db[s] # NoSession
    BY <1>1, ContinueStep
  <2>2. s # r
    BY <2>1 DEF Placed, SessionInv
  <2>3. db[s] \in Rows
    BY <2>1 DEF TypeOK
  <2>4. db[s].last_seq \in Nat
    BY <2>3 DEF Rows
  <2>5. \A q \in Members(s) : seq[q] \in 1..db[s].last_seq
    BY <2>1 DEF SeqConsecutive
  <2>6. \A q \in Members(s) : seq[q] < db[s].last_seq + 1
    BY <2>4, <2>5
  <2>7. db[s].last_seq + 1 \in Nat
    BY <2>4
  <2> QED
    BY <2>1, <2>2, <2>6, <2>7, PlacedNewest
<1>2. ASSUME NEW r \in Requests, NEW c \in Clients \cup {NoClient}, Placed(r, c, r, 1, TRUE)
      PROVE  NewestInv'
  <2>1. Members(r) = {}
    BY <1>2 DEF Members, SessionInv, Placed
  <2> QED
    BY <1>2, <2>1, PlacedNewest
<1>3. CASE ~ \E r \in Requests, c \in Clients \cup {NoClient} :
                GetOrCreateSession(r, c) \/ SessionFallback(r, c)
  BY <1>3, OnlyEnds DEF SameIdentity, NewestInv, Members
<1> QED
  BY <1>1, <1>2, <1>3, CreateStep, FallbackStep DEF GetOrCreateSession

LEMMA NewestInvHolds == Spec => []NewestInv
<1>1. Init => NewestInv
  BY DEF Init, NewestInv, Active
<1> QED
  BY <1>1, NewestStep, SessionInvHolds, SeqConsecutiveHolds, TypeCorrect, PTL DEF Spec

\* A request that is done leaves the others as they are.
LEMMA OneMoreDone ==
    ASSUME NEW r \in Requests, pc[r] # "done", pc'[r] = "done",
           \A q \in Requests \ {r} : pc'[q] = pc[q], UNCHANGED sid
    PROVE  /\ r \notin Done(sid[r]) /\ Done(sid[r])' = Done(sid[r]) \cup {r}
           /\ \A t \in Requests \ {sid[r]} : Done(t)' = Done(t)
BY DEF Done

LEMMA WritersStep ==
    ASSUME TypeOK, WritersInv, [Next]_vars
    PROVE  WritersInv'
<1>1. ASSUME UNCHANGED turns, \A t \in Requests : Done(t)' = Done(t)
      PROVE  WritersInv'
  BY <1>1 DEF WritersInv
<1>2. ASSUME NEW r \in Requests, NEW c \in Clients \cup {NoClient},
             GetOrCreateSession(r, c) \/ SessionFallback(r, c)
      PROVE  WritersInv'
  <2>1. \E s, n, new : Placed(r, c, s, n, new)
    BY <1>2, ContinueStep, CreateStep, FallbackStep DEF GetOrCreateSession
  <2>2. UNCHANGED turns /\ \A t \in Requests : Done(t)' = Done(t)
    BY <2>1 DEF Placed, Done
  <2> QED
    BY <1>1, <2>2
<1>3. ASSUME NEW r \in Requests,
             \/ LoadPatternState(r) \/ LoadFails(r) \/ UpstreamFails(r)
             \/ \E tools \in Responses : RespondBuffered(r, tools) \/ RespondStreaming(r, tools)
      PROVE  WritersInv'
  <2>1. /\ UNCHANGED <<turns, sid>> /\ pc[r] # "done" /\ pc'[r] # "done"
        /\ \A q \in Requests \ {r} : pc'[q] = pc[q]
    BY <1>3 DEF LoadPatternState, LoadFails, Begin, UpstreamFails, RespondBuffered,
         RespondStreaming, EmitResponse, request, identity, TypeOK
  <2>2. \A t \in Requests : Done(t)' = Done(t)
    BY <2>1 DEF Done
  <2> QED
    BY <1>1, <2>1, <2>2
<1>4. ASSUME NEW r \in Requests, UpdatePatternState(r) \/ UpdateFails(r)
      PROVE  WritersInv'
  <2>1. /\ UNCHANGED sid /\ pc[r] # "done" /\ pc'[r] = "done"
        /\ \A q \in Requests \ {r} : pc'[q] = pc[q]
    BY <1>4 DEF UpdatePatternState, UpdateFails, Finish, identity, TypeOK
  <2>2. PICK s \in Requests : s = sid[r]
    BY CountTypes
  <2>3. \A t \in Requests : Len(turns[t]) \in Nat
    BY CountTypes
  <2>4. /\ Len(turns'[s]) \in {Len(turns[s]), Len(turns[s]) + 1}
        /\ \A t \in Requests \ {s} : turns'[t] = turns[t]
    <3>1. CASE UNCHANGED turns
      BY <2>3, <3>1
    <3>2. CASE turns' = [turns EXCEPT ![sid[r]] =
                             Append(@, [results |-> results[r], calls |-> calls[r]])]
      <4>1. [results |-> results[r], calls |-> calls[r]] \in Turns
        BY DEF TypeOK, Turns
      <4>2. turns \in [Requests -> Seq(Turns)]
        BY DEF TypeOK, Turns
      <4>3. Len(turns'[s]) = Len(turns[s]) + 1
        BY <2>2, <2>3, <3>2, <4>1, <4>2, AppendProperties
      <4> QED
        BY <2>2, <3>2, <4>2, <4>3
    <3> QED
      BY <1>4, <3>1, <3>2 DEF UpdatePatternState, UpdateFails
  <2>5. /\ r \notin Done(s) /\ Done(s)' = Done(s) \cup {r}
        /\ \A t \in Requests \ {s} : Done(t)' = Done(t)
    BY <2>1, <2>2, OneMoreDone
  <2>6. IsFiniteSet(Done(s)) /\ Len(turns[s]) <= Cardinality(Done(s))
    BY <2>2 DEF WritersInv
  <2>7. /\ IsFiniteSet(Done(s) \cup {r})
        /\ Cardinality(Done(s) \cup {r}) = Cardinality(Done(s)) + 1
        /\ Cardinality(Done(s)) \in Nat
    BY <2>5, <2>6, FS_AddElement, FS_CardinalityType
  <2>8. IsFiniteSet(Done(s)') /\ Len(turns'[s]) <= Cardinality(Done(s)')
    <3>1. Len(turns[s]) \in Nat /\ Len(turns'[s]) \in Nat
      BY <2>3, <2>4
    <3> QED
      BY <2>4, <2>5, <2>6, <2>7, <3>1
  <2> QED
    BY <2>4, <2>5, <2>8 DEF WritersInv
<1>5. CASE Restart
  <2>1. UNCHANGED <<turns, sid>> /\ pc' = [q \in Requests |-> IF Active(q) THEN "failed" ELSE pc[q]]
    BY <1>5 DEF Restart, identity
  <2>2. \A t \in Requests : Done(t)' = Done(t)
    BY <2>1 DEF Done, Active
  <2> QED
    BY <1>1, <2>1, <2>2
<1>6. CASE UNCHANGED vars
  <2>1. UNCHANGED turns /\ \A t \in Requests : Done(t)' = Done(t)
    BY <1>6 DEF vars, Done
  <2> QED
    BY <1>1, <2>1
<1> QED
  BY <1>2, <1>3, <1>4, <1>5, <1>6 DEF Next, Handle

LEMMA WritersInvHolds == Spec => []WritersInv
<1>1. Init => WritersInv
  <2> SUFFICES ASSUME Init, NEW s \in Requests
               PROVE  IsFiniteSet(Done(s)) /\ Len(turns[s]) <= Cardinality(Done(s))
    BY DEF WritersInv
  <2>1. Done(s) = {}
    BY DEF Init, Done
  <2> QED
    BY <2>1, FS_EmptySet, EmptySeq DEF Init
<1> QED
  BY <1>1, WritersStep, TypeCorrect, PTL DEF Spec
=============================================================================
