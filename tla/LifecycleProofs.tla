-------------------------- MODULE LifecycleProofs ---------------------------
(***************************************************************************)
(* Proofs about the life of the service, for any number of requests, runs  *)
(* of --env, ports and starts.                                             *)
(***************************************************************************)
EXTENDS Lifecycle, SequenceTheorems, TLAPS

\* What the exporter does to its variables, with the facts about sequences
\* that the proofs below need.
LEMMA AcceptFacts ==
    ASSUME TypeOK, E!Accept
    PROVE  /\ offered' = offered + 1 /\ pending' \in Seq(Nat)
           /\ \A i \in DOMAIN pending' :
                 pending'[i] = offered + 1 \/ (i \in DOMAIN pending /\ pending'[i] = pending[i])
           /\ UNCHANGED <<closed, closedAt, stopped>>
<1>1. pending' = Append(pending, offered + 1) /\ offered' = offered + 1
      /\ UNCHANGED <<closed, closedAt, stopped>>
  BY DEF E!Accept
<1>2. offered + 1 \in Nat /\ pending \in Seq(Nat)
  BY DEF TypeOK
<1>3. /\ pending' \in Seq(Nat) /\ Len(pending) \in Nat
      /\ Len(pending') = Len(pending) + 1
      /\ \A i \in 1..Len(pending) : pending'[i] = pending[i]
      /\ pending'[Len(pending) + 1] = offered + 1
  BY <1>1, <1>2, AppendProperties, LenProperties
<1>4. DOMAIN pending' = 1..(Len(pending) + 1) /\ DOMAIN pending = 1..Len(pending)
  BY <1>2, <1>3, LenProperties
<1>5. \A i \in 1..(Len(pending) + 1) : i \in 1..Len(pending) \/ i = Len(pending) + 1
  BY <1>3
<1> QED
  BY <1>1, <1>3, <1>4, <1>5

LEMMA ResolveFacts ==
    ASSUME TypeOK, NEW n \in 1..Len(pending), E!Resolve(n)
    PROVE  /\ ~stopped /\ pending' \in Seq(Nat)
           /\ \A i \in DOMAIN pending' : \E j \in DOMAIN pending : pending'[i] = pending[j]
           /\ UNCHANGED <<offered, closed, closedAt, stopped>>
<1>1. pending' = SubSeq(pending, n + 1, Len(pending)) /\ ~stopped
      /\ UNCHANGED <<offered, closed, closedAt, stopped>>
  BY DEF E!Resolve
<1>2. pending \in Seq(Nat) /\ Len(pending) \in Nat /\ DOMAIN pending = 1..Len(pending)
  BY LenProperties DEF TypeOK
<1>3. \A i \in (n + 1)..Len(pending) : pending[i] \in Nat
  <2>1. \A i \in 1..Len(pending) : pending[i] \in Nat
    BY <1>2, ElementOfSeq
  <2> QED
    BY <2>1, <1>2
<1>4. CASE n + 1 <= Len(pending)
  <2>1. /\ pending' \in Seq(Nat) /\ Len(pending') = Len(pending) - n
        /\ \A i \in 1..(Len(pending) - n) : pending'[i] = pending[n + i]
    BY <1>1, <1>2, <1>3, <1>4, SubSeqProperties, Z3
  <2>2. DOMAIN pending' = 1..(Len(pending) - n)
    BY <2>1, LenProperties
  <2>3. \A i \in 1..(Len(pending) - n) : n + i \in DOMAIN pending
    BY <1>2
  <2> QED
    BY <1>1, <2>1, <2>2, <2>3
<1>5. CASE ~(n + 1 <= Len(pending))
  <2>1. pending' = <<>>
    BY <1>1, <1>2, <1>5, SubSeqProperties
  <2>2. pending' \in Seq(Nat) /\ DOMAIN pending' = {}
    BY <2>1, EmptySeq
  <2> QED
    BY <1>1, <2>2
<1> QED
  BY <1>4, <1>5

\* A push changes the exporter's variables as Accept does or as Refuse does.
LEMMA PushFacts ==
    ASSUME TypeOK, Push
    PROVE  /\ offered' \in {offered, offered + 1} /\ pending' \in Seq(Nat)
           /\ \A i \in DOMAIN pending' :
                 \/ offered' = offered + 1 /\ pending'[i] = offered + 1
                 \/ i \in DOMAIN pending /\ pending'[i] = pending[i]
           /\ ~loki => pending' = pending /\ offered' = offered
           /\ UNCHANGED <<closed, closedAt, stopped>>
<1>1. CASE loki /\ E!Accept
  BY <1>1, AcceptFacts
<1>2. CASE loki /\ E!Refuse
  BY <1>2 DEF E!Refuse, TypeOK
<1>3. CASE ~loki /\ UNCHANGED exporter
  BY <1>3 DEF TypeOK, exporter
<1> QED
  BY <1>1, <1>2, <1>3 DEF Push

\* So does the exporter's worker, as Stop or as Resolve.
LEMMA ExportFacts ==
    ASSUME TypeOK, Export
    PROVE  /\ loki /\ UNCHANGED <<offered, closed, closedAt>>
           /\ pending' \in Seq(Nat)
           /\ \A i \in DOMAIN pending' : \E j \in DOMAIN pending : pending'[i] = pending[j]
           /\ stopped' \in BOOLEAN
           /\ stopped => stopped' /\ UNCHANGED pending
           /\ stopped' => closed /\ \A i \in DOMAIN pending' : pending'[i] > closedAt \/ stopped
<1>1. CASE E!Stop
  <2>1. DOMAIN pending = 1..Len(pending)
    BY LenProperties DEF TypeOK
  <2> QED
    BY <1>1, <2>1 DEF Export, E!Stop, TypeOK
<1>2. CASE \E n \in 1..Len(pending) : E!Resolve(n)
  BY <1>2, ResolveFacts DEF Export, TypeOK
<1> QED
  BY <1>1, <1>2 DEF Export

\* The history variables keep their types whatever else happens.
LEMMA ObserveType ==
    ASSUME TypeOK, Observe, port' \in Ports \cup {NoPort}
    PROVE  up' \in [Shells -> SUBSET (Ports \cup {NoPort})] /\ gap' \in [Shells -> BOOLEAN]
<1>1. ASSUME NEW s \in Shells
      PROVE  (IF shell[s] # "done" /\ shell'[s] # "idle" /\ Answering'
              THEN up[s] \cup {port'} ELSE up[s]) \in SUBSET (Ports \cup {NoPort})
  BY DEF TypeOK
<1>2. ASSUME NEW s \in Shells
      PROVE  (gap[s] \/ (shell[s] # "done" /\ shell'[s] # "idle" /\ ~Answering')) \in BOOLEAN
  OBVIOUS
<1> QED
  BY <1>1, <1>2 DEF Observe

\* Types of everything but the histories.
Types == /\ main' \in {"down", "listen", "truncate", "portfile", "ready", "serve"}
         /\ life' \in 0..MaxLives
         /\ loki' \in BOOLEAN /\ signal' \in BOOLEAN
         /\ open' \subseteq {"file", "db"} /\ timedOut' \subseteq {"shutdown", "flush"}
         /\ at' \in [Requests -> {"new", "request", "forward", "response", "save", "done",
                                  "cut", "crashed"}]
         /\ failed' \subseteq Requests \X {"file", "db"}
         /\ closer' \in {"wait", "shutdown", "db", "loki", "flush", "file", "closed"}
         /\ port' \in Ports \cup {NoPort} /\ portfile' \in Ports \cup {NoPort}
         /\ shell' \in [Shells -> {"idle", "check", "done"}]
         /\ got' \in [Shells -> Ports \cup {NoPort}]
         /\ offered' \in Nat /\ closedAt' \in Nat /\ pending' \in Seq(Nat)
         /\ closed' \in BOOLEAN /\ stopped' \in BOOLEAN

LEMMA StepType ==
    ASSUME TypeOK, Step
    PROVE  Types
<1> USE DEF TypeOK, Types, exporter, env, service, work, Quiet, Frame, Goes, Uses
<1>1. CASE NewServer
  <2>1. pending' \in Seq(Nat)
    BY <1>1, EmptySeq DEF NewServer
  <2>2. life' \in 0..MaxLives
    BY <1>1, LifecycleAssumption DEF NewServer
  <2>3. offered' = 0 /\ closedAt' = 0 /\ closed' = FALSE /\ stopped' = FALSE
    BY <1>1 DEF NewServer
  <2>4. /\ main' = "listen" /\ loki' \in BOOLEAN /\ open' = {"file", "db"} /\ failed' = {}
        /\ signal' = FALSE /\ closer' = "wait" /\ timedOut' = {}
    BY <1>1 DEF NewServer
  <2>5. UNCHANGED <<at, service, env>>
    BY <1>1 DEF NewServer
  <2> QED
    BY <2>1, <2>2, <2>3, <2>4, <2>5
<1>2. CASE Listen
  BY <1>2 DEF Listen
<1>3. CASE TruncatePortfile
  BY <1>3 DEF TruncatePortfile
<1>4. CASE WritePortfile
  BY <1>4 DEF WritePortfile
<1>5. CASE Serve
  BY <1>5 DEF Serve
<1>6. CASE Crash
  BY <1>6 DEF Crash, Exit
<1>7. CASE MainReturns
  BY <1>7 DEF MainReturns, Exit
<1>8. ASSUME NEW r \in Requests, Arrive(r) \/ UpstreamAnswers(r)
      PROVE  Types
  BY <1>8 DEF Arrive, UpstreamAnswers
<1>9. ASSUME NEW r \in Requests, LogRequest(r) \/ LogResponse(r)
      PROVE  Types
  <2>1. Push /\ Frame
    BY <1>9 DEF LogRequest, LogResponse
  <2>2. at' \in [Requests -> {"new", "request", "forward", "response", "save", "done",
                             "cut", "crashed"}]
    BY <1>9 DEF LogRequest, LogResponse
  <2>3. failed' \subseteq Requests \X {"file", "db"}
    BY <1>9 DEF LogRequest, LogResponse
  <2> QED
    BY <2>1, <2>2, <2>3, PushFacts
<1>10. ASSUME NEW r \in Requests, SavePatterns(r)
       PROVE  Types
  BY <1>10 DEF SavePatterns
<1>11. CASE Export
  BY <1>11, ExportFacts DEF Export
<1>12. CASE Signal
  BY <1>12 DEF Signal
<1>13. CASE CloseExporter
  BY <1>13 DEF CloseExporter, Closes, E!Close
<1>14. CASE Closer /\ ~CloseExporter
  BY <1>14 DEF Closer, Closes, BeginShutdown, ShutdownDone, ShutdownTimesOut, CloseDatabase,
               Flushed, FlushTimesOut, CloseFiles
<1>15. ASSUME NEW s \in Shells, Env(s)
       PROVE  Types
  <2>1. ASSUME NEW to \in {"check", "done"}, NEW p \in Ports \cup {NoPort},
               NEW from \in {"idle", "check"}, Asks(s, from, to, p)
        PROVE  Types
    BY <2>1 DEF Asks
  <2> QED
    BY <1>15, <2>1 DEF Env, ReadPortfile, Healthy, Unhealthy
<1> QED
  BY <1>1, <1>2, <1>3, <1>4, <1>5, <1>6, <1>7, <1>8, <1>9, <1>10, <1>11, <1>12, <1>13, <1>14,
     <1>15 DEF Step, Handle

LEMMA TypeStep == TypeOK /\ [Next]_vars => TypeOK'
<1> SUFFICES ASSUME TypeOK, [Next]_vars PROVE TypeOK'
  OBVIOUS
<1>1. CASE Next
  <2>1. Types
    BY <1>1, StepType DEF Next
  <2>2. up' \in [Shells -> SUBSET (Ports \cup {NoPort})] /\ gap' \in [Shells -> BOOLEAN]
    BY <1>1, <2>1, ObserveType DEF Next, Types
  <2> QED
    BY <2>1, <2>2 DEF TypeOK, Types
<1>2. CASE UNCHANGED vars
  BY <1>2 DEF TypeOK, vars, exporter, env, service, work
<1> QED
  BY <1>1, <1>2

(* The variables of the service keep their types (type invariant).         *)
THEOREM TypeCorrect == Spec => []TypeOK
<1>1. ASSUME Init PROVE TypeOK
  <2>1. pending \in Seq(Nat)
    BY <1>1, EmptySeq DEF Init, E!Init
  <2>2. life \in 0..MaxLives
    BY <1>1, LifecycleAssumption DEF Init
  <2>3. /\ offered = 0 /\ closed = FALSE /\ closedAt = 0 /\ stopped = FALSE
        /\ main = "down" /\ loki = FALSE /\ open = {} /\ failed = {}
        /\ signal = FALSE /\ closer = "wait" /\ timedOut = {}
        /\ port = NoPort /\ portfile = NoPort
    BY <1>1 DEF Init, E!Init
  <2>4. /\ at \in [Requests -> {"new"}] /\ shell \in [Shells -> {"idle"}]
        /\ got \in [Shells -> {NoPort}] /\ gap \in [Shells -> {FALSE}]
    BY <1>1 DEF Init
  <2>5. up \in [Shells -> {{}}]
    BY <1>1 DEF Init
  <2>6. up \in [Shells -> SUBSET (Ports \cup {NoPort})]
    BY <2>5
  <2>7. /\ at \in [Requests -> {"new", "request", "forward", "response", "save", "done",
                                "cut", "crashed"}]
        /\ shell \in [Shells -> {"idle", "check", "done"}]
        /\ got \in [Shells -> Ports \cup {NoPort}] /\ gap \in [Shells -> BOOLEAN]
    BY <2>4
  <2> QED
    BY <2>1, <2>2, <2>3, <2>6, <2>7 DEF TypeOK
<1> QED
  BY <1>1, TypeStep, PTL DEF Spec

-----------------------------------------------------------------------------
(* Shutting down                                                           *)

\* No handler is at work after the process has ended.
LEMMA ExitEndsHandlers ==
    ASSUME TypeOK, NEW how \in {"cut", "crashed"}, Exit(how)
    PROVE  \A r \in Requests : ~Active(r)'
BY DEF Exit, Active, TypeOK

\* Nothing but a handler at work, in a process, fails a write or pushes.
LEMMA ShutdownStep == TypeOK /\ ShutdownInv /\ [Next]_vars => ShutdownInv'
<1> SUFFICES ASSUME TypeOK, ShutdownInv, [Next]_vars PROVE ShutdownInv'
  OBVIOUS
<1> USE DEF exporter, work, Alive
<1>1. CASE NewServer
  <2>1. pending' = <<>> /\ DOMAIN pending' = {}
    BY <1>1, EmptySeq DEF NewServer
  <2>2. /\ main' = "listen" /\ open' = {"file", "db"} /\ failed' = {} /\ closer' = "wait"
        /\ timedOut' = {} /\ offered' = 0 /\ closedAt' = 0 /\ stopped' = FALSE
    BY <1>1 DEF NewServer
  <2> HIDE DEF Alive
  <2> QED
    BY <2>1, <2>2 DEF ShutdownInv, Alive
<1>2. CASE Listen \/ TruncatePortfile \/ WritePortfile \/ Serve
  BY <1>2 DEF Listen, TruncatePortfile, WritePortfile, Serve, Quiet, ShutdownInv, Active
<1>3. CASE Crash \/ MainReturns
  <2>1. \A r \in Requests : ~Active(r)'
    BY <1>3, ExitEndsHandlers DEF Crash, MainReturns
  <2> QED
    BY <1>3, <2>1 DEF Crash, MainReturns, Exit, ShutdownInv
<1>4. ASSUME NEW r \in Requests, Arrive(r)
      PROVE  ShutdownInv'
  BY <1>4 DEF Arrive, Answering, Goes, Frame, ShutdownInv, Active, TypeOK
<1>5. ASSUME NEW r \in Requests, UpstreamAnswers(r)
      PROVE  ShutdownInv'
  BY <1>5 DEF UpstreamAnswers, Goes, Frame, ShutdownInv, Active, TypeOK
<1>6. ASSUME NEW r \in Requests, Active(r), NEW c \in {"file", "db"}, Uses(r, c), Frame, Alive
      PROVE  failed' # {} => "shutdown" \in timedOut'
  BY <1>6 DEF Uses, Frame, ShutdownInv, TypeOK
<1>7. ASSUME NEW r \in Requests, LogRequest(r) \/ LogResponse(r)
      PROVE  ShutdownInv'
  <2>1. Active(r) /\ Alive /\ Uses(r, "file") /\ Push /\ Frame
    BY <1>7 DEF LogRequest, LogResponse, Goes, Active
  <2>2. failed' # {} => "shutdown" \in timedOut'
    BY <1>6, <2>1
  <2>3. closer \notin {"wait", "shutdown"} => "shutdown" \in timedOut
    BY <2>1 DEF ShutdownInv
  <2>4. /\ offered' \in {offered, offered + 1}
        /\ \A i \in DOMAIN pending' :
              \/ offered' = offered + 1 /\ pending'[i] = offered + 1
              \/ i \in DOMAIN pending /\ pending'[i] = pending[i]
        /\ ~loki => pending' = pending /\ offered' = offered
        /\ UNCHANGED <<closed, closedAt, stopped>>
    BY <2>1, PushFacts
  <2>5. closedAt' <= offered' /\ \A i \in DOMAIN pending' : pending'[i] <= offered'
    BY <2>4, ElementOfSeq, LenProperties DEF ShutdownInv, TypeOK
  <2>6. stopped' => closed' /\ \A i \in DOMAIN pending' : pending'[i] > closedAt'
    BY <2>4 DEF ShutdownInv, TypeOK
  <2>7. \A q \in Requests : Active(q)' => Active(q)
    BY <1>7, <2>1 DEF LogRequest, LogResponse, Goes, Active, TypeOK
  <2> QED
    BY <2>1, <2>2, <2>3, <2>4, <2>5, <2>6, <2>7 DEF ShutdownInv, Frame
<1>8. ASSUME NEW r \in Requests, SavePatterns(r)
      PROVE  ShutdownInv'
  <2>1. failed' # {} => "shutdown" \in timedOut'
    BY <1>6, <1>8 DEF SavePatterns, Goes, Active
  <2>2. \A q \in Requests : Active(q)' => Active(q)
    BY <1>8 DEF SavePatterns, Goes, Active, TypeOK
  <2> QED
    BY <1>8, <2>1, <2>2 DEF SavePatterns, Frame, ShutdownInv
<1>9. CASE Export
  <2>1. UNCHANGED work /\ Frame
    BY <1>9 DEF Export
  <2>2. /\ loki /\ UNCHANGED <<offered, closed, closedAt>>
        /\ \A i \in DOMAIN pending' : \E j \in DOMAIN pending : pending'[i] = pending[j]
        /\ stopped => stopped' /\ UNCHANGED pending
        /\ stopped' => closed /\ \A i \in DOMAIN pending' : pending'[i] > closedAt \/ stopped
    BY <1>9, ExportFacts
  <2>3. \A i \in DOMAIN pending' : pending'[i] <= offered'
    BY <2>2 DEF ShutdownInv
  <2>4. stopped' => closed' /\ \A i \in DOMAIN pending' : pending'[i] > closedAt'
    BY <2>2 DEF ShutdownInv
  <2> QED
    BY <2>1, <2>2, <2>3, <2>4 DEF ShutdownInv, Frame, Active
<1>10. CASE Signal
  BY <1>10 DEF Signal, ShutdownInv, Active
<1>11. CASE BeginShutdown \/ ShutdownDone \/ ShutdownTimesOut
  BY <1>11 DEF BeginShutdown, ShutdownDone, ShutdownTimesOut, Closes, ShutdownInv, Active
<1>12. CASE CloseDatabase
  BY <1>12 DEF CloseDatabase, Closes, ShutdownInv, Active
<1>13. CASE CloseExporter
  <2>1. CASE loki
    <3>1. ~closed /\ closedAt' = offered /\ UNCHANGED <<offered, pending, stopped>>
      BY <1>13, <2>1 DEF CloseExporter, E!Close
    <3> QED
      BY <1>13, <3>1 DEF CloseExporter, Closes, ShutdownInv, Active, TypeOK
  <2>2. CASE ~loki
    BY <1>13, <2>2 DEF CloseExporter, Closes, ShutdownInv, Active
  <2> QED
    BY <2>1, <2>2
<1>14. CASE Flushed \/ FlushTimesOut \/ CloseFiles
  BY <1>14 DEF Flushed, FlushTimesOut, CloseFiles, Closes, ShutdownInv, Active
<1>15. ASSUME NEW s \in Shells, Env(s)
       PROVE  ShutdownInv'
  BY <1>15 DEF Env, ReadPortfile, Healthy, Unhealthy, Asks, ShutdownInv, Active
<1>16. CASE UNCHANGED vars
  BY <1>16 DEF vars, ShutdownInv, Active
<1> QED
  BY <1>1, <1>2, <1>3, <1>4, <1>5, <1>7, <1>8, <1>9, <1>10, <1>11, <1>12, <1>13, <1>14, <1>15,
     <1>16 DEF Next, Step, Handle, Closer

LEMMA ShutdownInvariant == Spec => []ShutdownInv
<1>1. ASSUME Init PROVE ShutdownInv
  <2>1. DOMAIN pending = {} /\ pending = <<>>
    BY <1>1, EmptySeq DEF Init, E!Init
  <2> QED
    BY <1>1, <2>1 DEF Init, E!Init, ShutdownInv, Alive
<1> QED
  BY <1>1, TypeCorrect, ShutdownStep, PTL DEF Spec

(* A handler's write fails only if Shutdown's timeout has expired, in      *)
(* spite of Close taking the database away first.                          *)
THEOREM WritesFailOnlyAfterTimeoutHolds == Spec => []WritesFailOnlyAfterTimeout
<1>1. ShutdownInv => WritesFailOnlyAfterTimeout
  BY DEF ShutdownInv, WritesFailOnlyAfterTimeout
<1> QED
  BY <1>1, ShutdownInvariant, PTL

(* Once Close has run to its end without a timeout nothing is missing.     *)
THEOREM CleanCloseIsCompleteHolds == Spec => []CleanCloseIsComplete
<1>1. ASSUME TypeOK, ShutdownInv PROVE CleanCloseIsComplete
  <2> SUFFICES ASSUME closer = "closed", timedOut = {}
               PROVE  failed = {} /\ pending = <<>> /\ \A r \in Requests : ~Active(r)
    BY DEF CleanCloseIsComplete
  <2>1. failed = {} /\ \A r \in Requests : ~Active(r)
    BY <1>1 DEF ShutdownInv
  <2>2. CASE loki
    <3>1. \A i \in DOMAIN pending : pending[i] > closedAt /\ pending[i] <= closedAt
      BY <1>1, <2>2 DEF ShutdownInv
    <3>2. \A i \in DOMAIN pending : pending[i] \in Nat
      BY <1>1, LenProperties, ElementOfSeq DEF TypeOK
    <3>3. DOMAIN pending = {}
      BY <1>1, <3>1, <3>2 DEF TypeOK
    <3> QED
      BY <1>1, <2>1, <3>3, LenProperties, EmptySeq DEF TypeOK
  <2>3. CASE ~loki
    BY <1>1, <2>1, <2>3 DEF ShutdownInv
  <2> QED
    BY <2>2, <2>3 DEF TypeOK
<1> QED
  BY <1>1, TypeCorrect, ShutdownInvariant, PTL

-----------------------------------------------------------------------------
(* llm-proxy --env                                                         *)

\* One run of --env: what EnvInv says of it.
Asked(s) == /\ shell[s] = "check" =>
                  got[s] \in Ports /\ (gap[s] \/ (Answering /\ port = got[s]))
            /\ shell[s] = "done" =>
                  IF got[s] = NoPort THEN gap[s] ELSE got[s] \in up[s]

\* A step that leaves the runs of --env alone.
LEMMA Bystander ==
    ASSUME TypeOK, EnvInv, Observe, UNCHANGED env, NEW s \in Shells,
           Answering' => ~Answering \/ UNCHANGED port
    PROVE  Asked(s)'
<1>1. Asked(s)
  BY DEF EnvInv, EnvIsTruthful, Asked
<1>2. UNCHANGED <<shell, got>>
  BY DEF env
<1>3. CASE shell[s] = "done"
  BY <1>1, <1>2, <1>3 DEF Asked, Observe, TypeOK
<1>4. CASE shell[s] = "check"
  BY <1>1, <1>2, <1>4 DEF Asked, Observe, TypeOK
<1> QED
  BY <1>2, <1>3, <1>4 DEF Asked

LEMMA EnvStep == TypeOK /\ EnvInv /\ [Next]_vars => EnvInv'
<1> SUFFICES ASSUME TypeOK, EnvInv, [Next]_vars PROVE EnvInv'
  OBVIOUS
<1>1. ASSUME main' \notin {"down", "listen"} => port' \in Ports,
             main' \in {"ready", "serve"} => portfile' = port',
             \A s \in Shells : Asked(s)'
      PROVE  EnvInv'
  BY <1>1 DEF EnvInv, EnvIsTruthful, Asked
<1>2. CASE UNCHANGED vars
  BY <1>2 DEF vars, service, env, EnvInv, EnvIsTruthful, Answering
<1>3. ASSUME Observe, UNCHANGED env, main' \notin {"ready", "serve"},
             main' \notin {"down", "listen"} => port' \in Ports
      PROVE  EnvInv'
  BY <1>1, <1>3, Bystander DEF Answering
<1>4. CASE Observe /\ (NewServer \/ Listen \/ TruncatePortfile \/ Crash \/ MainReturns)
  <2>1. UNCHANGED env /\ main' \notin {"ready", "serve"}
    BY <1>4 DEF NewServer, Listen, TruncatePortfile, Crash, MainReturns, Exit, Quiet
  <2>2. main' \notin {"down", "listen"} => port' \in Ports
    BY <1>4 DEF NewServer, Listen, TruncatePortfile, Crash, MainReturns, Exit, EnvInv
  <2> QED
    BY <1>3, <1>4, <2>1, <2>2
<1>5. CASE Observe /\ (WritePortfile \/ Serve)
  <2>1. UNCHANGED <<env, port>> /\ portfile' = port' /\ port' \in Ports
    BY <1>5 DEF WritePortfile, Serve, Quiet, EnvInv, service
  <2> QED
    BY <1>1, <1>5, <2>1, Bystander
<1>6. ASSUME Observe, UNCHANGED <<main, service, env>>
      PROVE  EnvInv'
  <2>1. UNCHANGED <<port, portfile>>
    BY <1>6 DEF service
  <2> QED
    BY <1>1, <1>6, <2>1, Bystander DEF EnvInv
<1>7. CASE Observe /\ (Export \/ Signal \/ Closer
                       \/ \E r \in Requests : Arrive(r) \/ UpstreamAnswers(r) \/ Handle(r))
  <2>1. UNCHANGED <<main, service, env>>
    BY <1>7 DEF Export, Signal, Closer, BeginShutdown, ShutdownDone, ShutdownTimesOut,
                CloseDatabase, CloseExporter, Flushed, FlushTimesOut, CloseFiles, Closes,
                Arrive, UpstreamAnswers, Handle, LogRequest, LogResponse, SavePatterns, Frame
  <2> QED
    BY <1>6, <1>7, <2>1
<1>8. ASSUME NEW s \in Shells, Observe, Env(s)
      PROVE  EnvInv'
  <2>1. PICK from \in {"idle", "check"}, to \in {"check", "done"}, p \in Ports \cup {NoPort} :
           Asks(s, from, to, p)
    BY <1>8 DEF Env, ReadPortfile, Healthy, Unhealthy, TypeOK
  <2>2. UNCHANGED <<main, port, portfile, closer>> /\ (Answering' <=> Answering)
    BY <2>1 DEF Asks, service, Answering
  <2>3. ASSUME NEW x \in Shells \ {s}
        PROVE  Asked(x)'
    <3>1. shell'[x] = shell[x] /\ got'[x] = got[x]
      BY <2>1 DEF Asks, TypeOK
    <3> QED
      BY <1>8, <2>2, <3>1 DEF Asked, EnvInv, EnvIsTruthful, Observe, TypeOK
  <2>4. /\ gap'[s] <=> gap[s] \/ ~Answering
        /\ Answering => port \in up'[s]
        /\ shell[s] # "done" /\ shell'[s] # "idle"
    BY <1>8, <2>1, <2>2 DEF Asks, Observe, TypeOK
  <2>5. ASSUME ReadPortfile(s)
        PROVE  Asked(s)'
    <3>1. Answering => portfile = port /\ port \in Ports
      BY DEF Answering, EnvInv
    <3>2. ASSUME portfile \in Ports, Asks(s, "idle", "check", portfile)
          PROVE  Asked(s)'
      BY <2>2, <2>4, <3>1, <3>2 DEF Asks, Asked, TypeOK
    <3>3. ASSUME portfile = NoPort, Asks(s, "idle", "done", NoPort)
          PROVE  Asked(s)'
      BY <2>2, <2>4, <3>1, <3>3, LifecycleAssumption DEF Asks, Asked, TypeOK
    <3> QED
      BY <2>5, <3>2, <3>3 DEF ReadPortfile
  <2>6. ASSUME Healthy(s)
        PROVE  Asked(s)'
    <3>1. shell'[s] = "done" /\ got'[s] = port /\ Answering
      BY <2>6 DEF Healthy, Asks, TypeOK
    <3>2. port # NoPort
      BY <3>1, LifecycleAssumption DEF Answering, EnvInv
    <3> QED
      BY <2>4, <3>1, <3>2 DEF Asked
  <2>7. ASSUME Unhealthy(s)
        PROVE  Asked(s)'
    <3>1. /\ shell'[s] = "done" /\ got'[s] = NoPort /\ shell[s] = "check"
          /\ ~(Answering /\ port = got[s])
      BY <2>7 DEF Unhealthy, Asks, Answering, Listening, TypeOK
    <3>2. gap[s]
      BY <3>1 DEF EnvInv
    <3> QED
      BY <2>4, <3>1, <3>2 DEF Asked
  <2>8. Asked(s)'
    BY <1>8, <2>5, <2>6, <2>7 DEF Env
  <2> QED
    BY <1>1, <2>2, <2>3, <2>8 DEF EnvInv
<1> QED
  BY <1>2, <1>4, <1>5, <1>7, <1>8 DEF Next, Step

(* What --env tells a shell is right, whatever happens between its look at *)
(* the portfile and its question to the port.                              *)
THEOREM EnvIsTruthfulHolds == Spec => []EnvIsTruthful
<1>1. ASSUME Init PROVE EnvInv
  <2>1. \A s \in Shells : shell[s] = "idle"
    BY <1>1 DEF Init
  <2> QED
    BY <1>1, <2>1 DEF Init, EnvInv, EnvIsTruthful
<1>2. EnvInv => EnvIsTruthful
  BY DEF EnvInv
<1> QED
  BY <1>1, <1>2, TypeCorrect, EnvStep, PTL DEF Spec
=============================================================================
