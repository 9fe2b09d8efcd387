---------------------------- MODULE LokiExporter ----------------------------
(***************************************************************************)
(* The asynchronous batching exporter of loki_exporter.go.                 *)
(*                                                                         *)
(* Request handlers Push entries into a bounded channel and never block: a *)
(* full channel drops the entry.  One background worker (run) selects over *)
(* the channel, a ticker and the close signal, collects a batch, and posts *)
(* it to Loki with retries (sendBatch, doSend).  Close signals the worker, *)
(* which drains the channel, sends what is left and stops; the closer      *)
(* waits for that at most ShutdownTimeout.                                 *)
(*                                                                         *)
(* An entry is the position of its Push (1, 2, ...): what it carries does  *)
(* not matter here, except the label set that chooses its Loki stream.     *)
(* Durations are abstracted: a timer may fire at any moment it is armed.   *)
(***************************************************************************)
EXTENDS Integers, Sequences, FiniteSets

CONSTANTS
    MaxPush,      \* bound of the model: number of entries ever offered to Push
    LabelsOf,     \* label set (labelKey) of each entry, a function on 1..MaxPush
    BufferSize,   \* capacity of entryChan
    BatchSize,    \* entries that trigger a send
    RetryMax,     \* retries after the first attempt
    Closers       \* goroutines that call Close

\* NewLokiExporter replaces every value that is not positive by its default.
ASSUME ConfigAssumption ==
    /\ MaxPush \in Nat
    /\ BufferSize \in Nat \ {0}
    /\ BatchSize \in Nat \ {0}
    /\ RetryMax \in Nat \ {0}

VARIABLES
    pushed,          \* number of Push calls made
    entryChan,       \* the buffered channel
    entriesDropped,  \* counter
    closeChan,       \* TRUE once the channel closeChan is closed
    closedAt,        \* history: the value of pushed when closeChan was closed
    worker,          \* where the goroutine run is
    trigger,         \* the select arm that called sendBatch: "size", "tick", "final"
    batch,           \* local of run: entries received and not yet resolved
    attempt,         \* local of sendBatch
    tick,            \* TRUE when a tick waits in ticker.C
    posts,           \* number of HTTP requests made by doSend
    wire,            \* external: requests Loki may still accept
    loki,            \* external: requests Loki has accepted
    entriesSent, entriesFailed, batchesSent,    \* counters
    acked,           \* history: entries counted in entriesSent
    closer           \* where each caller of Close is

pushVars   == <<pushed, entryChan, entriesDropped>>
closeVars  == <<closeChan, closedAt, closer>>
workerVars == <<worker, trigger, batch, attempt, tick>>
sendVars   == <<posts, wire, loki>>
statVars   == <<entriesSent, entriesFailed, batchesSent, acked>>
vars       == <<pushVars, closeVars, workerVars, sendVars, statVars>>

Entries == 1..MaxPush

-----------------------------------------------------------------------------
(* NewLokiExporter: empty channel, the worker at its select.               *)
Init ==
    /\ pushed = 0 /\ entryChan = <<>> /\ entriesDropped = 0
    /\ closeChan = FALSE /\ closedAt = 0 /\ closer = [c \in Closers |-> "idle"]
    /\ worker = "select" /\ trigger = "size" /\ batch = <<>> /\ attempt = 0
    /\ tick = FALSE
    /\ posts = 0 /\ wire = {} /\ loki = {}
    /\ entriesSent = 0 /\ entriesFailed = 0 /\ batchesSent = 0 /\ acked = {}

(* Push, and emitEvent likewise, never blocks, whatever the worker does    *)
(* and even after Close.                                                   *)
Enqueue ==
    /\ pushed < MaxPush
    /\ Len(entryChan) < BufferSize
    /\ pushed' = pushed + 1
    /\ entryChan' = Append(entryChan, pushed + 1)
    /\ UNCHANGED <<entriesDropped, closeVars, workerVars, sendVars, statVars>>

Drop ==
    /\ pushed < MaxPush
    /\ Len(entryChan) >= BufferSize
    /\ pushed' = pushed + 1
    /\ entriesDropped' = entriesDropped + 1
    /\ UNCHANGED <<entryChan, closeVars, workerVars, sendVars, statVars>>

Push == Enqueue \/ Drop

(* The ticker keeps at most one tick; run stops it when it returns.        *)
Tick ==
    /\ worker # "done" /\ ~tick
    /\ tick' = TRUE
    /\ UNCHANGED <<pushVars, closeVars, worker, trigger, batch, attempt,
                   sendVars, statVars>>

(* sendBatch begins with attempt 0.                                        *)
StartSend(arm) ==
    /\ worker' = "send" /\ trigger' = arm /\ attempt' = 0

\* Mutant of Receive: > for >=.
ReceiveLate ==
    /\ worker = "select" /\ entryChan # <<>>
    /\ batch' = Append(batch, Head(entryChan))
    /\ entryChan' = Tail(entryChan)
    /\ IF Len(batch) + 1 > BatchSize
       THEN StartSend("size")
       ELSE UNCHANGED <<worker, trigger, attempt>>
    /\ UNCHANGED <<pushed, entriesDropped, closeVars, tick, sendVars, statVars>>

(* select arm: case entry := <-e.entryChan.                                *)
Receive ==
    /\ worker = "select" /\ entryChan # <<>>
    /\ batch' = Append(batch, Head(entryChan))
    /\ entryChan' = Tail(entryChan)
    /\ IF Len(batch) + 1 >= BatchSize
       THEN StartSend("size")
       ELSE UNCHANGED <<worker, trigger, attempt>>
    /\ UNCHANGED <<pushed, entriesDropped, closeVars, tick, sendVars, statVars>>

\* Mutant of Flush: the ticker, too, sends full batches only.
FlushFullOnly ==
    /\ worker = "select" /\ tick
    /\ tick' = FALSE
    /\ IF Len(batch) >= BatchSize
       THEN StartSend("tick")
       ELSE UNCHANGED <<worker, trigger, attempt>>
    /\ UNCHANGED <<pushVars, closeVars, batch, sendVars, statVars>>

(* select arm: case <-ticker.C.                                            *)
Flush ==
    /\ worker = "select" /\ tick
    /\ tick' = FALSE
    /\ IF batch # <<>>
       THEN StartSend("tick")
       ELSE UNCHANGED <<worker, trigger, attempt>>
    /\ UNCHANGED <<pushVars, closeVars, batch, sendVars, statVars>>

\* Mutant of SeeClose: run returns at once.
SeeCloseNoDrain ==
    /\ worker = "select" /\ closeChan
    /\ worker' = "return"
    /\ UNCHANGED <<pushVars, closeVars, trigger, batch, attempt, tick,
                   sendVars, statVars>>

(* select arm: case <-e.closeChan.                                         *)
SeeClose ==
    /\ worker = "select" /\ closeChan
    /\ worker' = "drain"
    /\ UNCHANGED <<pushVars, closeVars, trigger, batch, attempt, tick,
                   sendVars, statVars>>

(* The drain loop receives until the channel is empty.                     *)
Drain ==
    /\ worker = "drain" /\ entryChan # <<>>
    /\ batch' = Append(batch, Head(entryChan))
    /\ entryChan' = Tail(entryChan)
    /\ UNCHANGED <<pushed, entriesDropped, closeVars, worker, trigger, attempt,
                   tick, sendVars, statVars>>

\* Mutant of DrainEnd: run returns only after a final batch.
DrainEndNeedsBatch ==
    /\ worker = "drain" /\ entryChan = <<>>
    /\ batch # <<>> /\ StartSend("final")
    /\ UNCHANGED <<pushVars, closeVars, batch, tick, sendVars, statVars>>

(* Its default arm: the final batch, if there is one, then return.         *)
DrainEnd ==
    /\ worker = "drain" /\ entryChan = <<>>
    /\ IF batch # <<>>
       THEN StartSend("final")
       ELSE worker' = "return" /\ UNCHANGED <<trigger, attempt>>
    /\ UNCHANGED <<pushVars, closeVars, batch, tick, sendVars, statVars>>

\* Mutant of Streams: the labels of the first entry stand for the batch.
StreamsOfFirst(b) == [s \in {LabelsOf[b[1]]} |-> b]

(* The streams of one push request: the entries of a batch by label set,   *)
(* each kept at its position in the batch.                                 *)
Streams(b) ==
    [s \in {LabelsOf[b[i]] : i \in DOMAIN b} |->
        [i \in {j \in DOMAIN b : LabelsOf[b[j]] = s} |-> b[i]]]

(* doSend puts one HTTP request on the wire (after the back-off, if this   *)
(* is a retry).                                                            *)
Post ==
    /\ worker = "send"
    /\ worker' = "posted"
    /\ posts' = posts + 1
    /\ wire' = wire \cup {[no |-> posts + 1, streams |-> Streams(batch)]}
    /\ UNCHANGED <<pushVars, closeVars, trigger, batch, attempt, tick, loki,
                   statVars>>

(* External: Loki stores a request.  It may do so after the client gave up.*)
LokiAccepts(r) ==
    /\ r \in wire
    /\ wire' = wire \ {r}
    /\ loki' = loki \cup {r}
    /\ UNCHANGED <<pushVars, closeVars, workerVars, posts, statVars>>

\* Mutant of EndSend: the batch is not cleared.
EndSendKeepsBatch ==
    /\ worker' = IF trigger = "final" THEN "return" ELSE "select"
    /\ tick' = (tick /\ trigger # "size")
    /\ UNCHANGED <<pushVars, closeVars, batch, trigger, attempt>>

(* sendBatch returns to the loop with an empty batch, or to the end of run *)
(* after the final batch.  A size-triggered send resets the ticker, which  *)
(* discards a tick that came meanwhile.                                    *)
EndSend ==
    /\ batch' = <<>>
    /\ worker' = IF trigger = "final" THEN "return" ELSE "select"
    /\ tick' = (tick /\ trigger # "size")
    /\ UNCHANGED <<pushVars, closeVars, trigger, attempt>>

\* Mutant of SendOK: any answer is taken for success.
SendOKUnchecked ==
    /\ worker = "posted"
    /\ entriesSent' = entriesSent + Len(batch)
    /\ batchesSent' = batchesSent + 1
    /\ acked' = acked \cup {batch[i] : i \in DOMAIN batch}
    /\ EndSend
    /\ UNCHANGED <<sendVars, entriesFailed>>

(* doSend returns nil: Loki answered 2xx, which it does after storing.     *)
SendOK ==
    /\ worker = "posted"
    /\ \E r \in loki : r.no = posts
    /\ entriesSent' = entriesSent + Len(batch)
    /\ batchesSent' = batchesSent + 1
    /\ acked' = acked \cup {batch[i] : i \in DOMAIN batch}
    /\ EndSend
    /\ UNCHANGED <<sendVars, entriesFailed>>

\* Mutants of Failed: <= for <; a batch given up without counting its entries.
FailedOnceMore ==
    IF attempt <= RetryMax
    THEN /\ worker' = "send" /\ attempt' = attempt + 1
         /\ UNCHANGED <<pushVars, closeVars, trigger, batch, tick, statVars>>
    ELSE /\ entriesFailed' = entriesFailed + Len(batch)
         /\ EndSend
         /\ UNCHANGED <<entriesSent, batchesSent, acked>>

FailedUncounted ==
    IF attempt < RetryMax
    THEN /\ worker' = "send" /\ attempt' = attempt + 1
         /\ UNCHANGED <<pushVars, closeVars, trigger, batch, tick, statVars>>
    ELSE /\ EndSend
         /\ UNCHANGED <<entriesSent, entriesFailed, batchesSent, acked>>

(* doSend returns an error: the next attempt, or the batch is given up.    *)
Failed ==
    IF attempt < RetryMax
    THEN /\ worker' = "send" /\ attempt' = attempt + 1
         /\ UNCHANGED <<pushVars, closeVars, trigger, batch, tick, statVars>>
    ELSE /\ entriesFailed' = entriesFailed + Len(batch)
         /\ EndSend
         /\ UNCHANGED <<entriesSent, batchesSent, acked>>

(* The connection fails, or Loki answers with another status.              *)
SendRefused ==
    /\ worker = "posted"
    /\ \E r \in wire : r.no = posts /\ wire' = wire \ {r}
    /\ Failed
    /\ UNCHANGED <<posts, loki>>

(* The client gives up waiting, whether or not Loki stores the request.    *)
SendTimedOut ==
    /\ worker = "posted"
    /\ Failed
    /\ UNCHANGED sendVars

(* run returns: the deferred calls stop the ticker and close closedChan.   *)
Return ==
    /\ worker = "return"
    /\ worker' = "done"
    /\ UNCHANGED <<pushVars, closeVars, trigger, batch, attempt, tick,
                   sendVars, statVars>>

-----------------------------------------------------------------------------
(* Close: the first caller runs the body of closeOnce, the others wait for *)
(* it and return nil.                                                      *)
CloseFirst(c) ==
    /\ closer[c] = "idle" /\ ~closeChan
    /\ closeChan' = TRUE /\ closedAt' = pushed
    /\ closer' = [closer EXCEPT ![c] = "waiting"]
    /\ UNCHANGED <<pushVars, workerVars, sendVars, statVars>>

CloseAgain(c) ==
    /\ closer[c] = "idle" /\ closeChan
    /\ \A d \in Closers : closer[d] # "waiting"
    /\ closer' = [closer EXCEPT ![c] = "nothing"]
    /\ UNCHANGED <<closeChan, closedAt, pushVars, workerVars, sendVars, statVars>>

CloseClean(c) ==
    /\ closer[c] = "waiting" /\ worker = "done"
    /\ closer' = [closer EXCEPT ![c] = "clean"]
    /\ UNCHANGED <<closeChan, closedAt, pushVars, workerVars, sendVars, statVars>>

CloseTimeout(c) ==
    /\ closer[c] = "waiting"
    /\ closer' = [closer EXCEPT ![c] = "timeout"]
    /\ UNCHANGED <<closeChan, closedAt, pushVars, workerVars, sendVars, statVars>>

CloseReturn(c) == CloseAgain(c) \/ CloseClean(c) \/ CloseTimeout(c)

Run == \/ Receive \/ Flush \/ SeeClose \/ Drain \/ DrainEnd \/ Post
       \/ SendOK \/ SendRefused \/ SendTimedOut \/ Return

Next ==
    \/ Push
    \/ Tick
    \/ Run
    \/ \E r \in wire : LokiAccepts(r)
    \/ \E c \in Closers : CloseFirst(c) \/ CloseReturn(c)

(* The scheduler runs the worker, each select arm that stays ready is      *)
(* taken, the ticker ticks, and doSend returns (the client has a timeout). *)
(* Nothing is assumed of Loki, of the handlers or of the callers of Close. *)
Fairness ==
    /\ WF_vars(Receive) /\ WF_vars(SeeClose) /\ WF_vars(Drain)
    /\ WF_vars(DrainEnd) /\ WF_vars(Post) /\ WF_vars(Return)
    /\ WF_vars(Flush) /\ WF_vars(Tick)
    /\ WF_vars(SendOK \/ SendRefused \/ SendTimedOut)

Spec == Init /\ [][Next]_vars
FairSpec == Spec /\ Fairness

-----------------------------------------------------------------------------
(* Properties                                                              *)

(* The select waits only with a batch that is not full yet, and what it    *)
(* sends is no larger than BatchSize; what Close drains may be.            *)
BatchLimit ==
    /\ worker = "select" => Len(batch) < BatchSize
    /\ worker \in {"send", "posted"} /\ trigger # "final" => Len(batch) <= BatchSize

(* Type invariant: every variable, counter and control state in its range. *)
TypeOK ==
    /\ pushed \in 0..MaxPush
    /\ entryChan \in Seq(Entries) /\ Len(entryChan) <= BufferSize
    /\ entriesDropped \in Nat
    /\ closeChan \in BOOLEAN /\ closedAt \in 0..MaxPush
    /\ worker \in {"select", "drain", "send", "posted", "return", "done"}
    /\ trigger \in {"size", "tick", "final"}
    /\ batch \in Seq(Entries) /\ attempt \in 0..RetryMax /\ tick \in BOOLEAN
    /\ BatchLimit
    /\ posts \in Nat
    /\ \A r \in wire \cup loki : r.no \in 1..posts
    /\ entriesSent \in Nat /\ entriesFailed \in Nat /\ batchesSent \in Nat
    /\ acked \subseteq Entries
    /\ closer \in [Closers -> {"idle", "waiting", "nothing", "clean", "timeout"}]

(* Every Push is accounted for exactly once at every moment: dropped,      *)
(* queued, in the worker's batch, sent or failed.  The counters Stats      *)
(* reports neither lose an entry nor count it twice, retries included.     *)
Accounting ==
    pushed = entriesDropped + Len(entryChan) + Len(batch)
             + entriesSent + entriesFailed

(* What the exporter holds: the worker's batch, then the channel.          *)
Pending == batch \o entryChan

(* The accepted requests that carry entry e.                               *)
Copies(e) ==
    {r \in loki : \E s \in DOMAIN r.streams : \E i \in DOMAIN r.streams[s] :
                      r.streams[s][i] = e}

(* What is counted as sent is in Loki, whichever attempt got it there.     *)
SentIsStored == \A e \in acked : Copies(e) # {}

(* A retry after a lost answer duplicates entries in Loki, but an entry    *)
(* never has more copies than one batch has attempts: once its batch is    *)
(* resolved no later batch carries it again.                               *)
BoundedCopies == \A e \in Entries : Cardinality(Copies(e)) <= RetryMax + 1

(* Each entry Loki stores is in the stream of its own label set, and the   *)
(* values of a stream are in the order they were pushed.                   *)
StreamIntegrity ==
    \A r \in loki : \A s \in DOMAIN r.streams :
        LET v == r.streams[s] IN
        /\ DOMAIN v # {}
        /\ \A i, j \in DOMAIN v : LabelsOf[v[i]] = s /\ (i < j => v[i] < v[j])

(* Close keeps its promise to drain: once the worker has stopped, the only *)
(* entries left in the channel were pushed after Close began, so a Close   *)
(* that returns cleanly has resolved everything pushed before it.          *)
NothingStranded ==
    /\ worker = "done" =>
         batch = <<>> /\ \A i \in 1..Len(entryChan) : entryChan[i] > closedAt
    /\ \A c \in Closers : closer[c] = "clean" => worker = "done"

(* The strengthening of NothingStranded that every step preserves: from    *)
(* the end of the drain on, the channel holds only entries pushed after    *)
(* Close began; and sendBatch is never called with an empty batch.         *)
Finishing ==
    worker \in {"return", "done"} \/ (worker \in {"send", "posted"} /\ trigger = "final")

DrainInv ==
    /\ closedAt <= pushed
    /\ worker = "drain" => closeChan
    /\ Finishing =>
         closeChan /\ \A i \in 1..Len(entryChan) : entryChan[i] > closedAt
    /\ worker \in {"return", "done"} => batch = <<>>
    /\ worker \in {"send", "posted"} => batch # <<>>
    /\ \A c \in Closers : closer[c] = "clean" => worker = "done"

(* The exporter implements LogExport: its batch followed by its channel is *)
(* the abstract queue, so no interleaving of handlers, worker, retries and *)
(* Close loses, repeats, reorders or half-resolves entries, drops one      *)
(* while there is room, or stops before what preceded Close is resolved.   *)
Abstract == INSTANCE LogExport WITH
    Capacity <- BufferSize,
    offered  <- pushed,
    pending  <- Pending,
    sent     <- acked,
    closed   <- closeChan,
    stopped  <- worker = "done"

ImplementsLogExport == Abstract!Spec

(* Every entry pushed before Close begins that is not dropped is sent or   *)
(* given up, even if no further entry arrives and Loki never answers: time *)
(* and again (pushes being finitely many) the exporter holds nothing but   *)
(* entries that came after Close.                                          *)
Held(e) == \E i \in 1..Len(Pending) : Pending[i] = e

EventuallyResolved == []<>(\A e \in Entries : Held(e) => (closeChan /\ e > closedAt))

(* After Close the worker stops, even if Loki never answers: no retry loop *)
(* and no drain keeps it for ever.                                         *)
WorkerStops == []<>(closeChan => worker = "done")
=============================================================================
