------------------------- MODULE LokiExporterProofs -------------------------
(***************************************************************************)
(* Theorems about LokiExporter, for every value of its constants.          *)
(***************************************************************************)
EXTENDS LokiExporter, SequenceTheorems, FiniteSetTheorems, TLAPS

(* Queues are closed under what the channel and the batch do.              *)
LEMMA QueueOps ==
    ASSUME NEW S, NEW s \in Seq(S)
    PROVE  /\ Len(s) \in Nat
           /\ \A e \in S : /\ Append(s, e) \in Seq(S)
                           /\ Len(Append(s, e)) = Len(s) + 1
           /\ s # <<>> => /\ Head(s) \in S
                          /\ Tail(s) \in Seq(S)
                          /\ Len(s) >= 1
                          /\ Len(Tail(s)) = Len(s) - 1
<1>1. Len(s) \in Nat /\ (s # <<>> => Len(s) >= 1)
  BY LenProperties, EmptySeq
<1>2. \A e \in S : Append(s, e) \in Seq(S) /\ Len(Append(s, e)) = Len(s) + 1
  BY AppendProperties
<1>3. s # <<>> => Head(s) \in S /\ Tail(s) \in Seq(S) /\ Len(Tail(s)) = Len(s) - 1
  BY HeadTailProperties
<1> QED
  BY <1>1, <1>2, <1>3

LEMMA EmptyQueue ==
    ASSUME NEW S
    PROVE  <<>> \in Seq(S) /\ Len(<<>>) = 0
  BY EmptySeq

(* A failed attempt, retried or given up, keeps the types.                 *)
LEMMA FailedTypeOK ==
    ASSUME TypeOK, Failed, wire' \subseteq wire, UNCHANGED <<posts, loki>>, BatchLimit'
    PROVE  TypeOK'
<1> USE ConfigAssumption DEF TypeOK
<1>1. CASE attempt < RetryMax
  BY <1>1 DEF Failed, pushVars, closeVars, statVars
<1>2. CASE ~(attempt < RetryMax)
  <2>1. EndSend /\ entriesFailed' = entriesFailed + Len(batch)
        /\ UNCHANGED <<entriesSent, batchesSent, acked>>
    BY <1>2 DEF Failed
  <2>2. batch' \in Seq(Entries)
    BY <2>1, EmptyQueue DEF EndSend
  <2>3. Len(batch) \in Nat
    BY QueueOps
  <2>4. tick' \in BOOLEAN
    BY <2>1 DEF EndSend
  <2>5. worker' \in {"return", "select"} /\ UNCHANGED <<trigger, attempt>>
    BY <2>1 DEF EndSend
  <2>6. UNCHANGED <<pushVars, closeVars>>
    BY <2>1 DEF EndSend
  <2> QED
    BY <2>1, <2>2, <2>3, <2>4, <2>5, <2>6 DEF pushVars, closeVars
<1> QED
  BY <1>1, <1>2

(* The size trigger (loki_exporter.go, run): a batch leaves the select as  *)
(* soon as it is full, and comes back empty.                               *)
LEMMA BatchStep ==
    ASSUME TypeOK, [Next]_vars
    PROVE  BatchLimit'
<1> USE ConfigAssumption DEF TypeOK, BatchLimit
<1>1. Len(batch) \in Nat
  BY LenProperties
<1>2. CASE Receive
  <2>1. Len(batch') = Len(batch) + 1
    BY <1>2, QueueOps DEF Receive
  <2> QED
    BY <1>1, <1>2, <2>1 DEF Receive, StartSend
<1>3. CASE Flush
  BY <1>1, <1>3 DEF Flush, StartSend
<1>4. CASE SeeClose \/ Drain \/ DrainEnd \/ Return
  BY <1>4 DEF SeeClose, Drain, DrainEnd, StartSend, Return
<1>5. CASE Post
  BY <1>5 DEF Post
<1>6. CASE EndSend
  BY <1>6, EmptyQueue DEF EndSend
<1>7. CASE SendOK
  BY <1>6, <1>7 DEF SendOK
<1>8. ASSUME Failed, worker = "posted"
      PROVE  BatchLimit'
  BY <1>6, <1>8 DEF Failed
<1>9. CASE SendRefused \/ SendTimedOut
  BY <1>8, <1>9 DEF SendRefused, SendTimedOut
<1>10. CASE UNCHANGED <<worker, trigger, batch>>
  BY <1>10
<1> QED
  BY <1>2, <1>3, <1>4, <1>5, <1>7, <1>9, <1>10
  DEF Next, Run, Push, vars, Enqueue, Drop, Tick, LokiAccepts, CloseFirst, CloseReturn,
      CloseAgain, CloseClean, CloseTimeout, workerVars

(* The type invariant holds in every reachable state (loki_exporter.go,    *)
(* LokiExporter and run): no counter leaves its range, no channel exceeds  *)
(* its capacity, no attempt exceeds RetryMax.                              *)
THEOREM TypeCorrect == Spec => []TypeOK
<1> USE ConfigAssumption DEF TypeOK
<1>1. Init => TypeOK
  <2> SUFFICES ASSUME Init PROVE TypeOK
    OBVIOUS
  <2>0. BatchLimit
    BY EmptyQueue DEF Init, BatchLimit
  <2>1. entryChan \in Seq(Entries) /\ Len(entryChan) <= BufferSize
    BY EmptyQueue DEF Init
  <2>2. batch \in Seq(Entries)
    BY EmptyQueue DEF Init
  <2>3. closeChan \in BOOLEAN /\ tick \in BOOLEAN
    BY DEF Init
  <2>4. wire \cup loki = {}
    BY DEF Init
  <2> QED
    BY <2>0, <2>1, <2>2, <2>3, <2>4 DEF Init
<1>2. ASSUME TypeOK, [Next]_vars
      PROVE  TypeOK'
  <2>0. BatchLimit'
    BY <1>2, BatchStep
  <2> USE <2>0
  <2>1. CASE Enqueue
    <3>1. pushed + 1 \in Entries
      BY <1>2, <2>1 DEF Enqueue, Entries
    <3>2. entryChan' \in Seq(Entries) /\ Len(entryChan') <= BufferSize
      BY <1>2, <2>1, <3>1, QueueOps DEF Enqueue
    <3> QED
      BY <1>2, <2>1, <3>2 DEF Enqueue, closeVars, workerVars, sendVars, statVars
  <2>2. CASE Drop
    BY <1>2, <2>2 DEF Drop, closeVars, workerVars, sendVars, statVars
  <2>3. CASE Tick
    BY <1>2, <2>3 DEF Tick, pushVars, closeVars, sendVars, statVars
  <2>4. CASE Receive
    <3>1. /\ entryChan' \in Seq(Entries) /\ Len(entryChan') <= BufferSize
          /\ batch' \in Seq(Entries)
      BY <1>2, <2>4, QueueOps DEF Receive
    <3> QED
      BY <1>2, <2>4, <3>1 DEF Receive, StartSend, closeVars, sendVars, statVars
  <2>5. CASE Flush
    <3>1. tick' \in BOOLEAN
      BY <2>5 DEF Flush
    <3>2. worker' \in {"select", "send"} /\ trigger' \in {trigger, "tick"}
      BY <2>5 DEF Flush, StartSend
    <3>3. attempt' \in {0, attempt}
      BY <2>5 DEF Flush, StartSend
    <3> QED
      BY <1>2, <2>5, <3>1, <3>2, <3>3 DEF Flush, pushVars, closeVars, sendVars, statVars
  <2>6. CASE SeeClose
    BY <1>2, <2>6 DEF SeeClose, pushVars, closeVars, sendVars, statVars
  <2>7. CASE Drain
    <3>1. /\ entryChan' \in Seq(Entries) /\ Len(entryChan') <= BufferSize
          /\ batch' \in Seq(Entries)
      BY <1>2, <2>7, QueueOps DEF Drain
    <3> QED
      BY <1>2, <2>7, <3>1 DEF Drain, closeVars, sendVars, statVars
  <2>8. CASE DrainEnd
    BY <1>2, <2>8 DEF DrainEnd, StartSend, pushVars, closeVars, sendVars, statVars
  <2>9. CASE Post
    BY <1>2, <2>9 DEF Post, pushVars, closeVars, statVars
  <2>10. CASE SendOK
    <3>1. Len(batch) \in Nat /\ batch' \in Seq(Entries)
      BY <1>2, <2>10, QueueOps, EmptyQueue DEF SendOK, EndSend
    <3>2. {batch[i] : i \in DOMAIN batch} \subseteq Entries
      BY <1>2, LenProperties, ElementOfSeq
    <3> QED
      BY <1>2, <2>10, <3>1, <3>2 DEF SendOK, EndSend, pushVars, closeVars, sendVars
  <2>11. CASE SendRefused
    <3>1. wire' \subseteq wire /\ UNCHANGED <<posts, loki>>
      BY <2>11 DEF SendRefused
    <3> QED
      BY <1>2, <2>11, <3>1, FailedTypeOK DEF SendRefused
  <2>12. CASE SendTimedOut
    BY <1>2, <2>12, FailedTypeOK DEF SendTimedOut, sendVars
  <2>13. CASE Return
    BY <1>2, <2>13 DEF Return, pushVars, closeVars, sendVars, statVars
  <2>14. ASSUME NEW r \in wire, LokiAccepts(r)
         PROVE  TypeOK'
    BY <1>2, <2>14 DEF LokiAccepts, pushVars, closeVars, workerVars, statVars
  <2>15. ASSUME NEW c \in Closers, CloseFirst(c)
         PROVE  TypeOK'
    BY <1>2, <2>15 DEF CloseFirst, pushVars, workerVars, sendVars, statVars
  <2>16. ASSUME NEW c \in Closers, CloseReturn(c)
         PROVE  TypeOK'
    BY <1>2, <2>16 DEF CloseReturn, CloseAgain, CloseClean, CloseTimeout,
                       pushVars, workerVars, sendVars, statVars
  <2>17. CASE UNCHANGED vars
    BY <1>2, <2>17 DEF vars, pushVars, closeVars, workerVars, sendVars, statVars
  <2> QED
    BY <1>2, <2>1, <2>2, <2>3, <2>4, <2>5, <2>6, <2>7, <2>8, <2>9, <2>10, <2>11,
       <2>12, <2>13, <2>14, <2>15, <2>16, <2>17 DEF Next, Push, Run
<1> QED
  BY <1>1, <1>2, PTL DEF Spec

-----------------------------------------------------------------------------
(* Every Push is accounted for exactly once (loki_exporter.go, Push, run   *)
(* and sendBatch): dropped, queued, in the batch, sent or failed.          *)
THEOREM AccountingHolds == Spec => []Accounting
<1>1. Init => Accounting
  BY EmptyQueue DEF Init, Accounting
<1>2. ASSUME TypeOK, Accounting, [Next]_vars
      PROVE  Accounting'
  <2> USE QueueOps, EmptyQueue DEF TypeOK, Accounting
  <2>1. CASE Enqueue
    <3>1. pushed + 1 \in Entries
      BY <1>2, <2>1, ConfigAssumption DEF Enqueue, Entries
    <3>2. Len(entryChan') = Len(entryChan) + 1 /\ Len(entryChan) \in Nat
      BY <1>2, <2>1, <3>1 DEF Enqueue
    <3> QED
      BY <1>2, <2>1, <3>2 DEF Enqueue, workerVars, statVars
  <2>2. CASE Drop
    BY <1>2, <2>2 DEF Drop, workerVars, statVars
  <2>3. ASSUME Receive \/ Drain
        PROVE  Accounting'
    <3>1. /\ Len(entryChan') = Len(entryChan) - 1 /\ Len(entryChan) \in Nat
          /\ Len(batch') = Len(batch) + 1 /\ Len(batch) \in Nat
      BY <1>2, <2>3 DEF Receive, Drain
    <3> QED
      BY <1>2, <2>3, <3>1 DEF Receive, Drain, statVars
  <2>4. CASE SendOK
    <3>1. batch' = <<>>
      BY <2>4 DEF SendOK, EndSend
    <3>2. Len(batch) \in Nat /\ Len(batch') = 0 /\ Len(entryChan) \in Nat
      BY <1>2, <3>1
    <3> QED
      BY <1>2, <2>4, <3>2 DEF SendOK, EndSend, pushVars
  <2>5. CASE Failed
    <3>1. CASE attempt < RetryMax
      BY <1>2, <2>5, <3>1 DEF Failed, pushVars, statVars
    <3>2. CASE ~(attempt < RetryMax)
      <4>1. Len(batch) \in Nat /\ Len(batch') = 0 /\ Len(entryChan) \in Nat
        BY <1>2, <2>5, <3>2 DEF Failed, EndSend
      <4> QED
        BY <1>2, <2>5, <3>2, <4>1 DEF Failed, EndSend, pushVars
    <3> QED
      BY <3>1, <3>2
  <2>6. ASSUME UNCHANGED <<pushVars, batch, statVars>>
        PROVE  Accounting'
    BY <1>2, <2>6 DEF pushVars, statVars
  <2>7. Tick \/ Flush \/ SeeClose \/ DrainEnd \/ Post \/ Return
          => UNCHANGED <<pushVars, batch, statVars>>
    BY DEF Tick, Flush, SeeClose, DrainEnd, Post, Return
  <2>8. \A r \in wire : LokiAccepts(r) => UNCHANGED <<pushVars, batch, statVars>>
    BY DEF LokiAccepts, workerVars
  <2>9. \A c \in Closers : CloseFirst(c) \/ CloseReturn(c)
          => UNCHANGED <<pushVars, batch, statVars>>
    BY DEF CloseFirst, CloseReturn, CloseAgain, CloseClean, CloseTimeout, workerVars
  <2>10. UNCHANGED vars => UNCHANGED <<pushVars, batch, statVars>>
    BY DEF vars, workerVars
  <2> QED
    BY <1>2, <2>1, <2>2, <2>3, <2>4, <2>5, <2>6, <2>7, <2>8, <2>9, <2>10
       DEF Next, Push, Run, SendRefused, SendTimedOut
<1> QED
  BY <1>1, <1>2, TypeCorrect, PTL DEF Spec

-----------------------------------------------------------------------------
(* A queue that gains or loses an element at an end keeps the others.      *)
LEMMA QueueElements ==
    ASSUME NEW S, NEW s \in Seq(S)
    PROVE  /\ \A e \in S : \A i \in 1..Len(Append(s, e)) :
                Append(s, e)[i] = IF i <= Len(s) THEN s[i] ELSE e
           /\ s # <<>> => \A i \in 1..Len(Tail(s)) :
                            i + 1 \in 1..Len(s) /\ Tail(s)[i] = s[i + 1]
<1>1. Len(s) \in Nat
  BY QueueOps
<1>2. ASSUME NEW e \in S, NEW i \in 1..Len(Append(s, e))
      PROVE  Append(s, e)[i] = IF i <= Len(s) THEN s[i] ELSE e
  <2>1. /\ Len(Append(s, e)) = Len(s) + 1
        /\ \A j \in 1..Len(s) : Append(s, e)[j] = s[j]
        /\ Append(s, e)[Len(s) + 1] = e
    BY AppendProperties
  <2> QED
    BY <1>1, <1>2, <2>1
<1>3. ASSUME s # <<>>, NEW i \in 1..Len(Tail(s))
      PROVE  i + 1 \in 1..Len(s) /\ Tail(s)[i] = s[i + 1]
  BY <1>1, <1>3, HeadTailProperties
<1> QED
  BY <1>2, <1>3

(* The strengthening is inductive.                                         *)
LEMMA DrainStep ==
    ASSUME TypeOK, DrainInv, [Next]_vars
    PROVE  DrainInv'
<1> USE DEF DrainInv, Finishing
<1>1. pushed \in Nat /\ closedAt \in Nat
  BY DEF TypeOK
<1>2. CASE Enqueue
  <2>1. pushed + 1 \in Entries
    BY <1>1, <1>2, ConfigAssumption DEF Enqueue, Entries
  <2>2. Len(entryChan') = Len(entryChan) + 1
        /\ \A i \in 1..Len(entryChan') :
             entryChan'[i] = IF i <= Len(entryChan) THEN entryChan[i] ELSE pushed + 1
    BY <1>2, <2>1, QueueOps, QueueElements DEF Enqueue, TypeOK
  <2>3. Len(entryChan) \in Nat
    BY QueueOps DEF TypeOK
  <2>4. UNCHANGED <<closeVars, workerVars>> /\ pushed' = pushed + 1
    BY <1>2 DEF Enqueue
  <2> QED
    BY <1>1, <2>2, <2>3, <2>4 DEF closeVars, workerVars
<1>3. CASE Drop
  BY <1>1, <1>3 DEF Drop, closeVars, workerVars
<1>4. CASE Receive
  <2>1. batch' # <<>>
    BY <1>4, AppendProperties, HeadTailProperties DEF Receive, TypeOK
  <2>2. worker = "select" /\ (worker' = "select" \/ (worker' = "send" /\ trigger' = "size"))
    BY <1>4 DEF Receive, StartSend
  <2>3. UNCHANGED <<pushed, closeVars>>
    BY <1>4 DEF Receive
  <2> QED
    BY <2>1, <2>2, <2>3 DEF closeVars
<1>5. CASE Flush
  BY <1>5 DEF Flush, StartSend, pushVars, closeVars
<1>6. CASE SeeClose
  BY <1>6 DEF SeeClose, pushVars, closeVars
<1>7. CASE Drain
  BY <1>7 DEF Drain, closeVars
<1>8. CASE DrainEnd
  <2>1. Len(entryChan') = 0
    BY <1>8, EmptyQueue DEF DrainEnd, pushVars
  <2> QED
    BY <1>8, <2>1 DEF DrainEnd, StartSend, pushVars, closeVars
<1>9. ASSUME EndSend, worker = "posted"
      PROVE  DrainInv'
  BY <1>9 DEF EndSend, pushVars, closeVars
<1>10. CASE SendOK
  BY <1>9, <1>10 DEF SendOK
<1>11. CASE SendRefused \/ SendTimedOut
  <2>1. worker = "posted" /\ Failed
    BY <1>11 DEF SendRefused, SendTimedOut
  <2>2. CASE attempt < RetryMax
    BY <2>1, <2>2 DEF Failed, pushVars, closeVars
  <2>3. CASE ~(attempt < RetryMax)
    BY <1>9, <2>1, <2>3 DEF Failed
  <2> QED
    BY <2>2, <2>3
<1>12. CASE Post
  BY <1>12 DEF Post, pushVars, closeVars
<1>13. CASE Return
  BY <1>13 DEF Return, pushVars, closeVars
<1>14. ASSUME NEW c \in Closers, CloseFirst(c)
       PROVE  DrainInv'
  BY <1>1, <1>14 DEF CloseFirst, TypeOK, pushVars, workerVars
<1>15. ASSUME NEW c \in Closers, CloseReturn(c)
       PROVE  DrainInv'
  BY <1>15 DEF CloseReturn, CloseAgain, CloseClean, CloseTimeout, TypeOK,
               pushVars, workerVars
<1>16. ASSUME UNCHANGED <<pushVars, closeVars, worker, trigger, batch>>
       PROVE  DrainInv'
  BY <1>16 DEF pushVars, closeVars
<1>17. Tick \/ UNCHANGED vars => UNCHANGED <<pushVars, closeVars, worker, trigger, batch>>
  BY DEF Tick, vars, workerVars
<1>18. \A r \in wire : LokiAccepts(r)
         => UNCHANGED <<pushVars, closeVars, worker, trigger, batch>>
  BY DEF LokiAccepts, workerVars
<1> QED
  BY <1>2, <1>3, <1>4, <1>5, <1>6, <1>7, <1>8, <1>10, <1>11, <1>12, <1>13, <1>14,
     <1>15, <1>16, <1>17, <1>18 DEF Next, Push, Run

LEMMA DrainInvHolds == Spec => []DrainInv
<1>1. Init => DrainInv
  BY EmptyQueue DEF Init, DrainInv, Finishing
<1> QED
  BY <1>1, DrainStep, TypeCorrect, PTL DEF Spec

(* Close drains (loki_exporter.go, run and Close): a stopped worker holds  *)
(* nothing, and only entries pushed after Close began are left behind.     *)
THEOREM NothingStrandedHolds == Spec => []NothingStranded
<1>1. DrainInv => NothingStranded
  BY DEF DrainInv, Finishing, NothingStranded
<1> QED
  BY <1>1, DrainInvHolds, PTL

-----------------------------------------------------------------------------
(* Moving the head of the channel to the end of the batch keeps Pending.   *)
LEMMA MoveHead ==
    ASSUME NEW S, NEW s \in Seq(S), NEW t \in Seq(S), t # <<>>
    PROVE  Append(s, Head(t)) \o Tail(t) = s \o t
<1> DEFINE u == Append(s, Head(t)) \o Tail(t)
<1>1. /\ Append(s, Head(t)) \in Seq(S) /\ Tail(t) \in Seq(S)
      /\ Len(Append(s, Head(t))) = Len(s) + 1 /\ Len(Tail(t)) = Len(t) - 1
      /\ Len(s) \in Nat /\ Len(t) \in Nat /\ Len(t) >= 1 /\ Head(t) \in S
  BY QueueOps
<1>2. /\ u \in Seq(S) /\ Len(u) = Len(s) + Len(t)
      /\ \A i \in 1..Len(s) + Len(t) :
           u[i] = IF i <= Len(s) + 1 THEN Append(s, Head(t))[i] ELSE Tail(t)[i - (Len(s) + 1)]
  BY <1>1, ConcatProperties
<1>3. /\ s \o t \in Seq(S) /\ Len(s \o t) = Len(s) + Len(t)
      /\ \A i \in 1..Len(s) + Len(t) :
           (s \o t)[i] = IF i <= Len(s) THEN s[i] ELSE t[i - Len(s)]
  BY ConcatProperties
<1>4. ASSUME NEW i \in 1..Len(u)
      PROVE  u[i] = (s \o t)[i]
  <2>1. CASE i <= Len(s)
    BY <1>1, <1>2, <1>3, <2>1, QueueElements
  <2>2. CASE i = Len(s) + 1
    <3>1. Append(s, Head(t))[i] = Head(t)
      BY <1>1, <2>2, AppendProperties
    <3>2. Head(t) = t[1]
      OBVIOUS
    <3> QED
      BY <1>1, <1>2, <1>3, <2>2, <3>1, <3>2
  <2>3. CASE i > Len(s) + 1
    <3>1. i - (Len(s) + 1) \in 1..Len(Tail(t))
      BY <1>1, <1>2, <2>3
    <3>2. Tail(t)[i - (Len(s) + 1)] = t[i - Len(s)]
      BY <1>1, <3>1, QueueElements
    <3> QED
      BY <1>1, <1>2, <1>3, <2>3, <3>2
  <2> QED
    BY <1>1, <1>2, <2>1, <2>2, <2>3
<1> QED
  BY <1>2, <1>3, <1>4, SeqEqual

(* Removing a whole first part of a concatenation leaves the second.       *)
LEMMA DropFirst ==
    ASSUME NEW S, NEW s \in Seq(S), NEW t \in Seq(S)
    PROVE  SubSeq(s \o t, Len(s) + 1, Len(s \o t)) = t
<1> DEFINE u == SubSeq(s \o t, Len(s) + 1, Len(s \o t))
<1>1. Len(s) \in Nat /\ Len(t) \in Nat
  BY QueueOps
<1>2. /\ s \o t \in Seq(S) /\ Len(s \o t) = Len(s) + Len(t)
      /\ \A i \in 1..Len(s) + Len(t) :
           (s \o t)[i] = IF i <= Len(s) THEN s[i] ELSE t[i - Len(s)]
  BY ConcatProperties
<1>3. \A i \in Len(s) + 1..Len(s \o t) : (s \o t)[i] \in S
  BY <1>1, <1>2, ElementOfSeq
<1>4. /\ u \in Seq(S) /\ Len(u) = Len(t)
      /\ \A i \in 1..Len(t) : u[i] = (s \o t)[Len(s) + 1 + i - 1]
  BY <1>1, <1>2, <1>3, SubSeqProperties
<1>5. \A i \in 1..Len(t) : u[i] = t[i]
  BY <1>1, <1>2, <1>4
<1> QED
  BY <1>4, <1>5, SeqEqual

(* Every step of the exporter is a step of LogExport, or leaves it alone.  *)
LEMMA AbstractStep ==
    ASSUME TypeOK, DrainInv, [Next]_vars
    PROVE  [Abstract!Next]_(Abstract!vars)
<1> USE DEF Abstract!vars, Pending
<1>1. /\ batch \in Seq(Entries) /\ entryChan \in Seq(Entries)
      /\ Len(batch) \in Nat /\ Len(entryChan) \in Nat
      /\ Len(Pending) = Len(batch) + Len(entryChan)
  BY QueueOps, ConcatProperties DEF TypeOK
<1>2. ASSUME UNCHANGED <<pushVars, closeChan, closedAt, worker, batch, acked>>
      PROVE  UNCHANGED Abstract!vars
  BY <1>2 DEF pushVars
<1>3. CASE Enqueue
  <2>1. pushed + 1 \in Entries
    BY <1>3, ConfigAssumption DEF Enqueue, Entries, TypeOK
  <2>2. batch \o Append(entryChan, pushed + 1) = Append(batch \o entryChan, pushed + 1)
    <3>1. <<pushed + 1>> \in Seq(Entries)
      BY <2>1
    <3>2. /\ Append(entryChan, pushed + 1) = entryChan \o <<pushed + 1>>
          /\ Append(batch \o entryChan, pushed + 1) = (batch \o entryChan) \o <<pushed + 1>>
      BY <1>1, <2>1, AppendIsConcat, ConcatProperties
    <3> QED
      BY <1>1, <3>1, <3>2, ConcatAssociative
  <2> QED
    BY <1>3, <2>2 DEF Enqueue, closeVars, workerVars, statVars, Abstract!Next, Abstract!Accept
<1>4. CASE Drop
  <2>1. Len(Pending) >= BufferSize
    BY <1>1, <1>4, ConfigAssumption DEF Drop
  <2> QED
    BY <1>4, <2>1 DEF Drop, closeVars, workerVars, statVars, Abstract!Next, Abstract!Refuse
<1>5. ASSUME Receive \/ Drain
      PROVE  UNCHANGED Abstract!vars
  <2>1. Pending' = Pending
    BY <1>1, <1>5, MoveHead DEF Receive, Drain
  <2>2. worker # "done" /\ worker' # "done"
    BY <1>5 DEF Receive, Drain, StartSend
  <2> QED
    BY <1>5, <2>1, <2>2 DEF Receive, Drain, closeVars, statVars
<1>6. ASSUME Flush \/ SeeClose \/ DrainEnd \/ Post
      PROVE  UNCHANGED Abstract!vars
  <2>1. worker # "done" /\ worker' # "done"
    BY <1>6 DEF Flush, SeeClose, DrainEnd, Post, StartSend
  <2>2. UNCHANGED <<pushVars, closeChan, closedAt, batch, acked>>
    BY <1>6 DEF Flush, SeeClose, DrainEnd, Post, closeVars, statVars
  <2> QED
    BY <2>1, <2>2 DEF pushVars
<1>7. ASSUME EndSend, worker = "posted",
             acked' \in {acked, acked \cup {batch[i] : i \in DOMAIN batch}}
      PROVE  Abstract!Next
  <2>1. batch # <<>> /\ Len(batch) >= 1
    BY <1>1, <1>7, QueueOps DEF DrainInv
  <2>2. Len(batch) \in 1..Len(Pending)
    BY <1>1, <2>1
  <2>3. batch' = <<>> /\ entryChan' = entryChan /\ worker' # "done"
    BY <1>7 DEF EndSend, pushVars
  <2>4. Pending' = SubSeq(Pending, Len(batch) + 1, Len(Pending))
    BY <1>1, <2>3, DropFirst, ConcatEmptySeq
  <2>5. {batch[i] : i \in DOMAIN batch} = {Pending[i] : i \in 1..Len(batch)}
    <3>1. DOMAIN batch = 1..Len(batch)
      BY <1>1, LenProperties
    <3>2. \A i \in 1..Len(batch) : Pending[i] = batch[i]
      BY <1>1, ConcatProperties
    <3> QED
      BY <3>1, <3>2
  <2>6. Abstract!Resolve(Len(batch))
    BY <1>7, <2>3, <2>4, <2>5 DEF Abstract!Resolve, EndSend, pushVars, closeVars
  <2> QED
    BY <2>2, <2>6 DEF Abstract!Next
<1>8. CASE SendOK
  BY <1>7, <1>8 DEF SendOK
<1>9. CASE SendRefused \/ SendTimedOut
  <2>1. worker = "posted" /\ Failed
    BY <1>9 DEF SendRefused, SendTimedOut
  <2>2. CASE attempt < RetryMax
    BY <2>1, <2>2 DEF Failed, pushVars, closeVars, statVars
  <2>3. CASE ~(attempt < RetryMax)
    BY <1>7, <2>1, <2>3 DEF Failed
  <2> QED
    BY <2>2, <2>3
<1>10. CASE Return
  <2>1. \A i \in 1..Len(Pending) : Pending[i] > closedAt
    BY <1>1, <1>10, ConcatEmptySeq DEF Return, DrainInv, Finishing
  <2>2. closeChan /\ worker # "done" /\ worker' = "done"
    BY <1>10 DEF Return, DrainInv, Finishing
  <2> QED
    BY <1>10, <2>1, <2>2
       DEF Return, pushVars, closeVars, statVars, Abstract!Next, Abstract!Stop
<1>11. ASSUME NEW c \in Closers, CloseFirst(c)
       PROVE  Abstract!Next
  BY <1>11 DEF CloseFirst, pushVars, workerVars, statVars, Abstract!Next, Abstract!Close
<1>12. ASSUME NEW c \in Closers, CloseReturn(c)
       PROVE  UNCHANGED Abstract!vars
  BY <1>2, <1>12 DEF CloseReturn, CloseAgain, CloseClean, CloseTimeout, workerVars, statVars
<1>13. ASSUME NEW r \in wire, LokiAccepts(r)
       PROVE  UNCHANGED Abstract!vars
  BY <1>2, <1>13 DEF LokiAccepts, closeVars, workerVars, statVars
<1>14. Tick \/ UNCHANGED vars => UNCHANGED Abstract!vars
  BY <1>2 DEF Tick, vars, closeVars, workerVars, statVars
<1> QED
  BY <1>3, <1>4, <1>5, <1>6, <1>8, <1>9, <1>10, <1>11, <1>12, <1>13, <1>14
     DEF Next, Push, Run

(* The exporter implements LogExport (loki_exporter.go): entries leave in  *)
(* the order of their Push and whole batches at a time, none is dropped    *)
(* while there is room, and run returns only when everything pushed before *)
(* Close is resolved.                                                      *)
THEOREM ExporterImplementsLogExport == Spec => ImplementsLogExport
<1>1. Init => Abstract!Init
  BY EmptyQueue, ConcatEmptySeq DEF Init, Abstract!Init, Pending
<1> QED
  BY <1>1, AbstractStep, TypeCorrect, DrainInvHolds, PTL
     DEF Spec, ImplementsLogExport, Abstract!Spec

-----------------------------------------------------------------------------
(* What Loki stores                                                        *)

Rising(s) == \A i, j \in 1..Len(s) : i < j => s[i] < s[j]

\* Entries wait in the order they were pushed, those of the batch first.
QueueInv ==
    /\ Rising(batch) /\ Rising(entryChan)
    /\ \A i \in 1..Len(batch) : batch[i] <= pushed
    /\ \A j \in 1..Len(entryChan) : entryChan[j] <= pushed
    /\ \A i \in 1..Len(batch), j \in 1..Len(entryChan) : batch[i] < entryChan[j]

Requests == wire \cup loki

Carries(r, e) == \E s \in DOMAIN r.streams : \E i \in DOMAIN r.streams[s] : r.streams[s][i] = e

WellFormed(r) ==
    \A s \in DOMAIN r.streams :
        LET v == r.streams[s] IN
        /\ DOMAIN v # {}
        /\ \A i, j \in DOMAIN v : LabelsOf[v[i]] = s /\ (i < j => v[i] < v[j])

\* Requests made so far for the batch in hand.
Made == IF worker = "send" THEN attempt ELSE IF worker = "posted" THEN attempt + 1 ELSE 0

(* An entry that is in a request is past the channel, and if it is still   *)
(* in the batch, only the requests made for this batch carry it; so all    *)
(* requests that carry it are among RetryMax + 1 consecutive ones.         *)
DeliveryInv ==
    /\ QueueInv
    /\ \A r \in Requests : WellFormed(r)
    /\ \A r, q \in Requests : r.no = q.no => r = q
    /\ worker = "posted" => \A r \in Requests : r.no = posts => r.streams = Streams(batch)
    /\ \A r \in Requests, e \in Entries : Carries(r, e) =>
          /\ e <= pushed
          /\ \A j \in 1..Len(entryChan) : e < entryChan[j]
          /\ \A i \in 1..Len(batch) : batch[i] = e => r.no > posts - Made
    /\ \A e \in Entries : \E k \in Int :
          \A r \in Requests : Carries(r, e) => k < r.no /\ r.no <= k + RetryMax + 1
    /\ \A e \in acked : \E r \in loki : Carries(r, e)

\* What a step does to the queues.
LEMMA QueueMoves ==
    ASSUME TypeOK, [Next]_vars
    PROVE  \/ UNCHANGED <<pushed, batch, entryChan>>
           \/ pushed' = pushed + 1 /\ UNCHANGED <<batch, entryChan>>
           \/ /\ pushed' = pushed + 1 /\ pushed + 1 \in Entries
              /\ entryChan' = Append(entryChan, pushed + 1) /\ batch' = batch
           \/ /\ entryChan # <<>> /\ batch' = Append(batch, Head(entryChan))
              /\ entryChan' = Tail(entryChan) /\ pushed' = pushed
           \/ batch' = <<>> /\ UNCHANGED <<pushed, entryChan>>
<1> USE DEF pushVars, closeVars, workerVars, sendVars, statVars
<1>1. ASSUME Enqueue PROVE pushed + 1 \in Entries
  BY <1>1, ConfigAssumption DEF Enqueue, Entries, TypeOK
<1>2. CASE Push \/ Tick
  BY <1>1, <1>2 DEF Push, Enqueue, Drop, Tick
<1>3. CASE Receive \/ Flush \/ SeeClose \/ Drain \/ DrainEnd \/ Post \/ Return
  BY <1>3 DEF Receive, Flush, SeeClose, Drain, DrainEnd, Post, Return
<1>4. CASE SendOK \/ SendRefused \/ SendTimedOut
  BY <1>4 DEF SendOK, SendRefused, SendTimedOut, Failed, EndSend
<1>5. CASE \E r \in wire : LokiAccepts(r)
  BY <1>5 DEF LokiAccepts
<1>6. CASE \E c \in Closers : CloseFirst(c) \/ CloseReturn(c)
  BY <1>6 DEF CloseFirst, CloseReturn, CloseAgain, CloseClean, CloseTimeout
<1>7. CASE UNCHANGED vars
  BY <1>7 DEF vars
<1> QED
  BY <1>2, <1>3, <1>4, <1>5, <1>6, <1>7 DEF Next, Run

LEMMA QueueStep ==
    ASSUME TypeOK, QueueInv, [Next]_vars
    PROVE  /\ QueueInv'
           /\ pushed' \in Int /\ pushed <= pushed'
           /\ \A j \in 1..Len(entryChan') :
                \/ \E k \in 1..Len(entryChan) : entryChan'[j] = entryChan[k]
                \/ entryChan'[j] = pushed + 1
           /\ \A i \in 1..Len(batch') :
                \/ \E k \in 1..Len(batch) : batch'[i] = batch[k]
                \/ \E k \in 1..Len(entryChan) : batch'[i] = entryChan[k]
<1>1. /\ pushed \in Int /\ batch \in Seq(Entries) /\ entryChan \in Seq(Entries)
      /\ Len(batch) \in Nat /\ Len(entryChan) \in Nat /\ Entries \subseteq Int
      /\ \A i \in 1..Len(batch) : batch[i] \in Int
      /\ \A j \in 1..Len(entryChan) : entryChan[j] \in Int
  <2>1. batch \in Seq(Entries) /\ entryChan \in Seq(Entries) /\ pushed \in Int /\ Entries \subseteq Int
    BY ConfigAssumption DEF TypeOK, Entries
  <2> QED
    BY <2>1, QueueOps, ElementOfSeq
<1>2. CASE UNCHANGED <<pushed, batch, entryChan>>
  BY <1>1, <1>2 DEF QueueInv
<1>3. CASE pushed' = pushed + 1 /\ UNCHANGED <<batch, entryChan>>
  BY <1>1, <1>3 DEF QueueInv
<1>4. CASE /\ pushed' = pushed + 1 /\ pushed + 1 \in Entries
           /\ entryChan' = Append(entryChan, pushed + 1) /\ batch' = batch
  <2>1. Len(entryChan') = Len(entryChan) + 1
        /\ \A j \in 1..Len(entryChan') : \/ j \in 1..Len(entryChan) /\ entryChan'[j] = entryChan[j]
                                         \/ j = Len(entryChan) + 1 /\ entryChan'[j] = pushed + 1
    BY <1>1, <1>4, QueueOps, QueueElements
  <2>2. Rising(entryChan')
    BY <1>1, <2>1 DEF QueueInv, Rising
  <2>3. \A j \in 1..Len(entryChan') : entryChan'[j] <= pushed + 1
    BY <1>1, <2>1 DEF QueueInv
  <2>4. \A i \in 1..Len(batch), j \in 1..Len(entryChan') : batch[i] < entryChan'[j]
    BY <1>1, <2>1 DEF QueueInv
  <2> QED
    BY <1>1, <1>4, <2>1, <2>2, <2>3, <2>4 DEF QueueInv
<1>5. CASE /\ entryChan # <<>> /\ batch' = Append(batch, Head(entryChan))
           /\ entryChan' = Tail(entryChan) /\ pushed' = pushed
  <2>1. Head(entryChan) = entryChan[1] /\ 1 \in 1..Len(entryChan) /\ Head(entryChan) \in Entries
    BY <1>1, <1>5, QueueOps, HeadTailProperties
  <2>2. Len(batch') = Len(batch) + 1
        /\ \A i \in 1..Len(batch') : \/ i \in 1..Len(batch) /\ batch'[i] = batch[i]
                                     \/ i = Len(batch) + 1 /\ batch'[i] = entryChan[1]
    BY <1>1, <1>5, <2>1, QueueOps, QueueElements
  <2>3. Len(entryChan') = Len(entryChan) - 1
        /\ \A j \in 1..Len(entryChan') : j + 1 \in 1..Len(entryChan) /\ entryChan'[j] = entryChan[j + 1]
    BY <1>1, <1>5, QueueOps, QueueElements
  <2>4. Rising(batch')
    BY <1>1, <2>1, <2>2 DEF QueueInv, Rising
  <2>5. Rising(entryChan')
    BY <1>1, <2>3 DEF QueueInv, Rising
  <2>6. ASSUME NEW i \in 1..Len(batch'), NEW j \in 1..Len(entryChan')
        PROVE  batch'[i] < entryChan'[j]
    <3>1. PICK n \in 1..Len(entryChan) : n = j + 1 /\ entryChan'[j] = entryChan[n] /\ 1 < n
      BY <1>1, <2>3
    <3>2. entryChan[1] < entryChan[n]
      BY <2>1, <3>1 DEF QueueInv, Rising
    <3>3. \A m \in 1..Len(batch) : batch[m] < entryChan[n]
      BY DEF QueueInv
    <3> QED
      BY <2>2, <3>1, <3>2, <3>3
  <2> QED
    BY <1>1, <1>5, <2>1, <2>2, <2>3, <2>4, <2>5, <2>6 DEF QueueInv
<1>6. CASE batch' = <<>> /\ UNCHANGED <<pushed, entryChan>>
  <2>1. Len(batch') = 0
    BY <1>6, EmptyQueue
  <2> QED
    BY <1>1, <1>6, <2>1 DEF QueueInv, Rising
<1> QED
  BY <1>2, <1>3, <1>4, <1>5, <1>6, QueueMoves

\* A request made of a batch has each of its entries, and in rising order
\* under their labels.
LEMMA StreamsOfBatch ==
    ASSUME NEW b \in Seq(Entries), Rising(b), NEW r, r.streams = Streams(b)
    PROVE  /\ WellFormed(r)
           /\ \A e : Carries(r, e) <=> \E i \in 1..Len(b) : b[i] = e
<1>1. DOMAIN b = 1..Len(b) /\ Len(b) \in Nat
  BY LenProperties
<1>2. r.streams = [s \in {LabelsOf[b[i]] : i \in DOMAIN b} |->
                     [i \in {j \in DOMAIN b : LabelsOf[b[j]] = s} |-> b[i]]]
  BY DEF Streams
<1>3. DOMAIN r.streams = {LabelsOf[b[i]] : i \in 1..Len(b)}
  BY <1>1, <1>2
<1>4. ASSUME NEW s \in DOMAIN r.streams
      PROVE  /\ r.streams[s] = [i \in {j \in 1..Len(b) : LabelsOf[b[j]] = s} |-> b[i]]
             /\ DOMAIN r.streams[s] = {j \in 1..Len(b) : LabelsOf[b[j]] = s}
             /\ \A i \in DOMAIN r.streams[s] : r.streams[s][i] = b[i]
  BY <1>1, <1>2
<1>5. WellFormed(r)
  <2> SUFFICES ASSUME NEW s \in DOMAIN r.streams
               PROVE  /\ DOMAIN r.streams[s] # {}
                      /\ \A i, j \in DOMAIN r.streams[s] :
                            LabelsOf[r.streams[s][i]] = s /\ (i < j => r.streams[s][i] < r.streams[s][j])
    BY DEF WellFormed
  <2>1. PICK i \in 1..Len(b) : s = LabelsOf[b[i]]
    BY <1>3
  <2>2. i \in DOMAIN r.streams[s]
    BY <1>4, <2>1
  <2>3. ASSUME NEW k \in DOMAIN r.streams[s], NEW j \in DOMAIN r.streams[s]
        PROVE  LabelsOf[r.streams[s][k]] = s /\ (k < j => r.streams[s][k] < r.streams[s][j])
    <3>1. r.streams[s][k] = b[k] /\ r.streams[s][j] = b[j]
      BY <1>4
    <3>2. k \in {m \in 1..Len(b) : LabelsOf[b[m]] = s} /\ j \in {m \in 1..Len(b) : LabelsOf[b[m]] = s}
      <4>1. DOMAIN r.streams[s] = {m \in 1..Len(b) : LabelsOf[b[m]] = s}
        BY <1>4
      <4> QED
        BY <4>1, Zenon
    <3>3. k \in 1..Len(b) /\ j \in 1..Len(b) /\ LabelsOf[b[k]] = s
      BY <3>2
    <3> QED
      BY <3>1, <3>3 DEF Rising
  <2> QED
    BY <2>2, <2>3
<1>6. ASSUME NEW e, Carries(r, e)
      PROVE  \E i \in 1..Len(b) : b[i] = e
  <2>1. PICK s \in DOMAIN r.streams : \E i \in DOMAIN r.streams[s] : r.streams[s][i] = e
    BY <1>6 DEF Carries
  <2>2. PICK i \in DOMAIN r.streams[s] : r.streams[s][i] = e
    BY <2>1
  <2>3. i \in 1..Len(b) /\ r.streams[s][i] = b[i]
    BY <1>4
  <2> QED
    BY <2>2, <2>3
<1>7. ASSUME NEW i \in 1..Len(b)
      PROVE  Carries(r, b[i])
  <2>1. LabelsOf[b[i]] \in DOMAIN r.streams
    BY <1>3
  <2>2. i \in DOMAIN r.streams[LabelsOf[b[i]]] /\ r.streams[LabelsOf[b[i]]][i] = b[i]
    BY <1>4, <2>1
  <2> QED
    BY <2>1, <2>2 DEF Carries
<1> QED
  BY <1>5, <1>6, <1>7

\* A step that makes no request: what is on the wire stays, is refused or is
\* accepted, and the batch is resolved or stays what it was.
LEMMA KeepDelivery ==
    ASSUME TypeOK, DeliveryInv, [Next]_vars, UNCHANGED <<posts>>,
           Requests' \subseteq Requests, loki \subseteq loki',
           worker' = "posted" => worker = "posted" /\ batch' = batch,
           Made' = Made \/ batch' = <<>>,
           \A e \in acked' : \E r \in loki' : Carries(r, e)
    PROVE  DeliveryInv'
<1>1. /\ \A j \in 1..Len(entryChan') :
            \/ \E k \in 1..Len(entryChan) : entryChan'[j] = entryChan[k]
            \/ entryChan'[j] = pushed + 1
      /\ \A i \in 1..Len(batch') :
            \/ \E k \in 1..Len(batch) : batch'[i] = batch[k]
            \/ \E k \in 1..Len(entryChan) : batch'[i] = entryChan[k]
      /\ QueueInv' /\ pushed' \in Int /\ pushed <= pushed' /\ pushed \in Int
  BY QueueStep DEF DeliveryInv, TypeOK
<1>2. ASSUME NEW r \in Requests', NEW e \in Entries, Carries(r, e)
      PROVE  /\ e <= pushed'
             /\ \A j \in 1..Len(entryChan') : e < entryChan'[j]
             /\ \A i \in 1..Len(batch') : batch'[i] = e => r.no > posts - Made'
  <2>1. /\ r \in Requests /\ e \in Int /\ e <= pushed
        /\ \A j \in 1..Len(entryChan) : e < entryChan[j]
        /\ \A i \in 1..Len(batch) : batch[i] = e => r.no > posts - Made
    BY <1>2, ConfigAssumption DEF DeliveryInv, Entries
  <2>2. e <= pushed' /\ \A j \in 1..Len(entryChan') : e < entryChan'[j]
    BY <1>1, <2>1
  <2>3. ASSUME NEW i \in 1..Len(batch'), batch'[i] = e
        PROVE  r.no > posts - Made'
    <3>1. batch' # <<>>
      BY <2>3, EmptyQueue
    <3>2. PICK k \in 1..Len(batch) : batch[k] = e
      <4>1. ~\E k \in 1..Len(entryChan) : e = entryChan[k]
        BY <2>1
      <4> QED
        BY <1>1, <2>3, <4>1
    <3> QED
      BY <2>1, <3>1, <3>2
  <2> QED
    BY <2>2, <2>3
<1>3. \A r \in Requests' : r \in Requests
  OBVIOUS
<1>4. ASSUME NEW e \in Entries
      PROVE  \E k \in Int : \A r \in Requests' : Carries(r, e) => k < r.no /\ r.no <= k + RetryMax + 1
  BY <1>3 DEF DeliveryInv
<1>5. worker' = "posted" => \A r \in Requests' : r.no = posts' => r.streams = Streams(batch')
  BY <1>3 DEF DeliveryInv
<1> QED
  BY <1>1, <1>2, <1>3, <1>4, <1>5 DEF DeliveryInv

\* Another request is made of the batch.
LEMMA PostDelivery ==
    ASSUME TypeOK, DeliveryInv, Post
    PROVE  DeliveryInv'
<1> DEFINE new == [no |-> posts + 1, streams |-> Streams(batch)]
<1>1. /\ worker = "send" /\ worker' = "posted" /\ posts' = posts + 1
      /\ wire' = wire \cup {new}
      /\ UNCHANGED <<pushed, entryChan, batch, attempt, loki, acked>>
  BY DEF Post, pushVars, workerVars, statVars
<1>2. /\ posts \in Nat /\ attempt \in Nat /\ attempt <= RetryMax /\ RetryMax \in Nat
      /\ batch \in Seq(Entries) /\ Len(batch) \in Nat
      /\ \A i \in 1..Len(batch) : batch[i] \in Entries
      /\ \A r \in Requests : r.no \in Int /\ r.no <= posts
      /\ Rising(batch)
  <2>1. batch \in Seq(Entries)
    BY DEF TypeOK
  <2>2. Len(batch) \in Nat /\ \A i \in 1..Len(batch) : batch[i] \in Entries
    BY <2>1, LenProperties, ElementOfSeq
  <2> QED
    BY <2>1, <2>2, ConfigAssumption DEF TypeOK, DeliveryInv, QueueInv, Requests
<1>3. Requests' = Requests \cup {new}
  BY <1>1 DEF Requests
<1>4. new.no = posts + 1 /\ new.streams = Streams(batch)
  OBVIOUS
<1>5. WellFormed(new) /\ \A e : Carries(new, e) <=> \E i \in 1..Len(batch) : batch[i] = e
  BY <1>2, <1>4, StreamsOfBatch
<1> HIDE DEF new
<1>6. QueueInv'
  BY <1>1 DEF DeliveryInv, QueueInv
<1>7. Made = attempt /\ Made' = attempt + 1
  BY <1>1 DEF Made
<1>8. \A r \in Requests' : WellFormed(r)
  BY <1>3, <1>5 DEF DeliveryInv
<1>9. \A r, q \in Requests' : r.no = q.no => r = q
  <2>1. \A r \in Requests : r.no # new.no
    BY <1>2, <1>4
  <2> QED
    BY <1>3, <2>1 DEF DeliveryInv
<1>10. \A r \in Requests' : r.no = posts' => r.streams = Streams(batch')
  <2>1. \A r \in Requests : r.no # posts + 1
    BY <1>2
  <2> QED
    BY <1>1, <1>3, <1>4, <2>1
<1>11. ASSUME NEW r \in Requests', NEW e \in Entries, Carries(r, e)
       PROVE  /\ e <= pushed
              /\ \A j \in 1..Len(entryChan) : e < entryChan[j]
              /\ \A i \in 1..Len(batch) : batch[i] = e => r.no > (posts + 1) - (attempt + 1)
  <2>1. CASE r \in Requests
    <3>1. /\ e <= pushed /\ \A j \in 1..Len(entryChan) : e < entryChan[j]
          /\ \A i \in 1..Len(batch) : batch[i] = e => r.no > posts - attempt
      BY <1>7, <1>11, <2>1 DEF DeliveryInv
    <3> QED
      BY <1>2, <2>1, <3>1
  <2>2. CASE r = new
    <3>1. PICK i \in 1..Len(batch) : batch[i] = e
      BY <1>5, <1>11, <2>2
    <3> QED
      BY <1>2, <1>4, <2>2, <3>1 DEF DeliveryInv, QueueInv
  <2> QED
    BY <1>3, <1>11, <2>1, <2>2
<1>12. ASSUME NEW e \in Entries
       PROVE  \E k \in Int : \A r \in Requests' : Carries(r, e) => k < r.no /\ r.no <= k + RetryMax + 1
  <2>1. CASE \E i \in 1..Len(batch) : batch[i] = e
    <3>1. \A r \in Requests' : Carries(r, e) => posts - attempt < r.no /\ r.no <= (posts - attempt) + RetryMax + 1
      <4>1. ASSUME NEW r \in Requests', Carries(r, e)
            PROVE  posts - attempt < r.no /\ r.no <= (posts - attempt) + RetryMax + 1
        <5>1. r.no > (posts + 1) - (attempt + 1)
          BY <1>11, <2>1, <4>1
        <5>2. r.no \in Int /\ r.no <= posts + 1
          BY <1>2, <1>3, <1>4
        <5> QED
          BY <1>2, <5>1, <5>2
      <4> QED
        BY <4>1
    <3>2. posts - attempt \in Int
      BY <1>2
    <3> QED
      BY <3>1, <3>2
  <2>2. CASE ~\E i \in 1..Len(batch) : batch[i] = e
    <3>1. ~Carries(new, e)
      BY <1>5, <2>2
    <3>2. PICK k \in Int : \A r \in Requests : Carries(r, e) => k < r.no /\ r.no <= k + RetryMax + 1
      BY DEF DeliveryInv
    <3> QED
      BY <1>3, <3>1, <3>2
  <2> QED
    BY <2>1, <2>2
<1>13. \A e \in acked' : \E r \in loki' : Carries(r, e)
  BY <1>1 DEF DeliveryInv
<1> QED
  BY <1>1, <1>6, <1>7, <1>8, <1>9, <1>10, <1>11, <1>12, <1>13 DEF DeliveryInv

LEMMA DeliveryStep ==
    ASSUME TypeOK, DeliveryInv, [Next]_vars
    PROVE  DeliveryInv'
<1> USE DEF pushVars, closeVars, workerVars, sendVars, statVars
<1>1. CASE Post
  BY <1>1, PostDelivery
<1>2. ASSUME UNCHANGED <<posts, wire, loki, acked>>,
             worker' = "posted" => worker = "posted" /\ batch' = batch,
             Made' = Made \/ batch' = <<>>
      PROVE  DeliveryInv'
  <2>1. Requests' = Requests /\ \A e \in acked' : \E r \in loki' : Carries(r, e)
    BY <1>2 DEF Requests, DeliveryInv
  <2> QED
    BY <1>2, <2>1, KeepDelivery
<1>3. CASE Push \/ Tick
  <2>1. UNCHANGED <<posts, wire, loki, acked, worker, attempt, batch>>
    BY <1>3 DEF Push, Enqueue, Drop, Tick
  <2> QED
    BY <1>2, <2>1 DEF Made
<1>4. CASE Receive \/ Flush \/ SeeClose \/ Drain \/ DrainEnd \/ Return
  <2>1. UNCHANGED <<posts, wire, loki, acked>>
    BY <1>4 DEF Receive, Flush, SeeClose, Drain, DrainEnd, Return
  <2>2. Made = 0 /\ Made' = 0 /\ worker' # "posted"
    BY <1>4 DEF Receive, Flush, SeeClose, Drain, DrainEnd, Return, StartSend, Made
  <2> QED
    BY <1>2, <2>1, <2>2
\* A retry has made as many requests as were made when it was decided on.
<1>5. ASSUME worker = "posted", Failed
      PROVE  worker' # "posted" /\ (Made' = Made \/ batch' = <<>>) /\ acked' = acked
  BY <1>5 DEF Failed, EndSend, Made, TypeOK
<1>6. CASE SendRefused \/ SendTimedOut
  <2>1. worker = "posted" /\ Failed /\ posts' = posts /\ loki' = loki /\ wire' \subseteq wire
    BY <1>6 DEF SendRefused, SendTimedOut
  <2>2. \A e \in acked' : \E r \in loki' : Carries(r, e)
    BY <1>5, <2>1 DEF DeliveryInv
  <2> QED
    BY <1>5, <2>1, <2>2, KeepDelivery DEF Requests
<1>7. CASE SendOK
  <2>1. /\ worker = "posted" /\ worker' # "posted" /\ batch' = <<>>
        /\ UNCHANGED <<posts, wire, loki>>
        /\ acked' = acked \cup {batch[i] : i \in DOMAIN batch}
        /\ \E r \in loki : r.no = posts
    BY <1>7 DEF SendOK, EndSend
  <2>2. batch \in Seq(Entries) /\ DOMAIN batch = 1..Len(batch) /\ Rising(batch)
    BY LenProperties DEF TypeOK, DeliveryInv, QueueInv
  <2>3. PICK r \in loki : r.no = posts
    BY <2>1
  <2>4. r.streams = Streams(batch)
    BY <2>1, <2>3 DEF DeliveryInv, Requests
  <2>5. \A i \in 1..Len(batch) : Carries(r, batch[i])
    BY <2>2, <2>4, StreamsOfBatch
  <2>6. \A e \in acked' : \E q \in loki' : Carries(q, e)
    BY <2>1, <2>2, <2>5 DEF DeliveryInv
  <2> QED
    BY <2>1, <2>6, KeepDelivery DEF Requests
<1>8. CASE \E r \in wire : LokiAccepts(r)
  <2>1. PICK r \in wire : LokiAccepts(r)
    BY <1>8
  <2>2. /\ wire' = wire \ {r} /\ loki' = loki \cup {r}
        /\ UNCHANGED <<posts, acked, worker, attempt, batch>>
    BY <2>1 DEF LokiAccepts
  <2>3. Requests' \subseteq Requests /\ \A e \in acked' : \E q \in loki' : Carries(q, e)
    BY <2>2 DEF Requests, DeliveryInv
  <2> QED
    BY <2>2, <2>3, KeepDelivery DEF Made
<1>9. CASE \E c \in Closers : CloseFirst(c) \/ CloseReturn(c)
  <2>1. UNCHANGED <<posts, wire, loki, acked, worker, attempt, batch>>
    BY <1>9 DEF CloseFirst, CloseReturn, CloseAgain, CloseClean, CloseTimeout
  <2> QED
    BY <1>2, <2>1 DEF Made
<1>10. CASE UNCHANGED vars
  <2>1. UNCHANGED <<posts, wire, loki, acked, worker, attempt, batch>>
    BY <1>10 DEF vars
  <2> QED
    BY <1>2, <2>1 DEF Made
<1> QED
  BY <1>1, <1>3, <1>4, <1>6, <1>7, <1>8, <1>9, <1>10 DEF Next, Run

LEMMA DeliveryInvHolds == Spec => []DeliveryInv
<1>1. ASSUME Init PROVE DeliveryInv
  <2>1. Len(batch) = 0 /\ Len(entryChan) = 0 /\ Requests = {} /\ acked = {} /\ worker = "select"
    BY <1>1, EmptyQueue DEF Init, Requests
  <2> QED
    BY <2>1 DEF DeliveryInv, QueueInv, Rising
<1>2. TypeOK /\ DeliveryInv /\ [Next]_vars => DeliveryInv'
  BY DeliveryStep
<1> QED
  BY <1>1, <1>2, TypeCorrect, PTL DEF Spec

(* What sendBatch counts as sent is stored in Loki, whichever attempt got  *)
(* it there.                                                               *)
THEOREM SentIsStoredHolds == Spec => []SentIsStored
<1>1. DeliveryInv => SentIsStored
  BY DEF DeliveryInv, SentIsStored, Copies, Carries
<1> QED
  BY <1>1, DeliveryInvHolds, PTL

(* sendBatch puts each entry into the stream of its labels and keeps the   *)
(* order in which handlers pushed.                                         *)
THEOREM StreamIntegrityHolds == Spec => []StreamIntegrity
<1>1. DeliveryInv => StreamIntegrity
  BY DEF DeliveryInv, StreamIntegrity, WellFormed, Requests
<1> QED
  BY <1>1, DeliveryInvHolds, PTL

(* Retries alone make duplicates: an entry is in Loki at most once for     *)
(* each attempt at its batch.                                              *)
THEOREM BoundedCopiesHolds == Spec => []BoundedCopies
<1>1. ASSUME DeliveryInv, TypeOK, NEW e \in Entries
      PROVE  Cardinality(Copies(e)) <= RetryMax + 1
  <2>1. Copies(e) \subseteq Requests /\ \A r \in Copies(e) : Carries(r, e)
    BY DEF Copies, Requests, Carries
  <2>2. PICK k \in Int : \A r \in Requests : Carries(r, e) => k < r.no /\ r.no <= k + RetryMax + 1
    BY <1>1 DEF DeliveryInv
  <2>3. \A r \in Copies(e) : r.no \in Int
    BY <1>1, <2>1 DEF TypeOK, Requests
  <2>4. RetryMax \in Nat
    BY ConfigAssumption
  <2>5. \A r \in Copies(e) : r.no \in (k + 1)..(k + RetryMax + 1)
    BY <2>1, <2>2, <2>3, <2>4
  <2> DEFINE f == [r \in Copies(e) |-> r.no]
  <2>6. f \in Injection(Copies(e), (k + 1)..(k + RetryMax + 1))
    <3>1. f \in [Copies(e) -> (k + 1)..(k + RetryMax + 1)]
      BY <2>5
    <3>2. \A r, q \in Copies(e) : f[r] = f[q] => r = q
      BY <1>1, <2>1 DEF DeliveryInv
    <3> QED
      BY <3>1, <3>2 DEF Injection, IsInjective
  <2>7. IsFiniteSet((k + 1)..(k + RetryMax + 1)) /\ Cardinality((k + 1)..(k + RetryMax + 1)) = RetryMax + 1
    <3>1. k + 1 \in Int /\ k + RetryMax + 1 \in Int /\ ~(k + 1 > k + RetryMax + 1)
          /\ (k + RetryMax + 1) - (k + 1) + 1 = RetryMax + 1
      BY <2>4
    <3> QED
      BY <3>1, FS_Interval
  <2> HIDE DEF f
  <2>8. Cardinality(Copies(e)) <= Cardinality((k + 1)..(k + RetryMax + 1))
    BY <2>6, <2>7, FS_Injection
  <2> QED
    BY <2>7, <2>8
<1>2. DeliveryInv /\ TypeOK => BoundedCopies
  BY <1>1 DEF BoundedCopies
<1> QED
  BY <1>2, DeliveryInvHolds, TypeCorrect, PTL
=============================================================================
