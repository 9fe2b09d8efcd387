----------------------------- MODULE LogExport ------------------------------
(***************************************************************************)
(* What the exporter promises the handlers that push log entries, without  *)
(* channel, worker, batches or retries: entries wait in the order they     *)
(* were offered, leave from the front, several at a time, and are then     *)
(* sent or given up; an entry is refused only when at least Capacity       *)
(* entries wait; and the exporter stops only after Close, when everything  *)
(* offered before Close has left.                                          *)
(***************************************************************************)
EXTENDS Integers, Sequences

CONSTANTS
    MaxPush,     \* bound of the model: number of entries ever offered
    Capacity     \* waiting entries below which no entry is refused

VARIABLES
    offered,     \* number of entries offered so far
    pending,     \* accepted entries that are not yet sent or given up
    sent,        \* entries reported as sent
    closed,      \* TRUE once Close was called
    closedAt,    \* the value of offered at that moment
    stopped      \* TRUE once the exporter has stopped

vars == <<offered, pending, sent, closed, closedAt, stopped>>

Init ==
    /\ offered = 0 /\ pending = <<>> /\ sent = {}
    /\ closed = FALSE /\ closedAt = 0 /\ stopped = FALSE

Accept ==
    /\ offered < MaxPush
    /\ offered' = offered + 1
    /\ pending' = Append(pending, offered + 1)
    /\ UNCHANGED <<sent, closed, closedAt, stopped>>

Refuse ==
    /\ offered < MaxPush
    /\ Len(pending) >= Capacity
    /\ offered' = offered + 1
    /\ UNCHANGED <<pending, sent, closed, closedAt, stopped>>

(* The first n entries leave together: all sent, or all given up.          *)
Resolve(n) ==
    /\ ~stopped
    /\ pending' = SubSeq(pending, n + 1, Len(pending))
    /\ sent' \in {sent, sent \cup {pending[i] : i \in 1..n}}
    /\ UNCHANGED <<offered, closed, closedAt, stopped>>

Close ==
    /\ ~closed
    /\ closed' = TRUE /\ closedAt' = offered
    /\ UNCHANGED <<offered, pending, sent, stopped>>

Stop ==
    /\ closed /\ ~stopped
    /\ \A i \in 1..Len(pending) : pending[i] > closedAt
    /\ stopped' = TRUE
    /\ UNCHANGED <<offered, pending, sent, closed, closedAt>>

Next ==
    \/ Accept \/ Refuse \/ Close \/ Stop
    \/ \E n \in 1..Len(pending) : Resolve(n)

Spec == Init /\ [][Next]_vars
=============================================================================
