# TLA+ specifications of llm-proxy

llm-proxy (transparent-agent-logger) is a Go HTTP proxy between LLM clients and
the provider APIs. It forwards requests, writes one JSONL file per conversation,
optionally exports the same entries to Grafana Loki, and derives figures about
the conversation (turns, tool streaks, retries) that it keeps in SQLite. Its
correctness is a matter of what many concurrent handlers, one background worker
and a process that may die at any moment do to shared state; that is what these
specifications are about.

Paths such as `logger.go:73` are relative to the repository's source root. Run the
tools in this directory:

    tlc -workers 2 -config MCLokiExporter.cfg MCLokiExporter
    tlapm LokiExporterProofs.tla

A configuration is named after its module, with the question after it when there is
more than one (`MCPipelineLosses.cfg` is for `MCProxyPipeline`); `PROJECT.json` has the pairs.
`PROJECT.json` lists components, runs, mutants, the map from definitions to source
lines, findings, hazards and theorems in machine-readable form.

## 1. The system

| Component | State | Operations | Shared with |
|---|---|---|---|
| Proxy handler (`proxy.go`, `streaming.go`) | per request: body, session, number, copy of the pattern state | `ServeHTTP`, `streamResponse`, `emitResponseEvents` | everything below |
| Session manager (`session.go`) | one mutex | `GetOrCreateSession`, `LoadPatternState`, `UpdatePatternState`, `ComputePatterns` | all handlers |
| Session database (`db.go`) | SQLite table `sessions` (client ID, last number, pattern state), fingerprints | one method per statement | session manager; survives the process |
| File logger (`logger.go`) | open files, upstream of each session, one mutex | `RegisterUpstream`, `LogSessionStart`, `LogRequest`, `LogResponse`, `getFile`, `writeEntry`, `Close` | all handlers; files survive the process |
| Multi writer, event emitter (`multi_writer.go`) | Bedrock metadata by request | the logger's calls, each followed by a push to Loki | all handlers |
| Loki exporter (`loki_exporter.go`) | channel, batch, ticker, counters | `Push`, `run`, `sendBatch`, `doSend`, `Close`, `Stats` | handlers push, one worker sends |
| Bedrock handler (`bedrock.go`) | semaphore, decode errors | `serveBedrock` and its two response paths | logger, multi writer |
| Server lifecycle (`server.go`, `main.go`, `service.go`) | listener, components, portfile | `NewServer`, health, signal, `Shutdown`, `Close`; `--env` | owns all components; the portfile survives the process |
| Log explorer (`explorer.go`) | none (reads files) | grouping a log into turns, sorting them, search | files of the logger |
| Parser (`parser.go`) | blocks under construction | `ParseStreamingResponse`, bodies | called by handler and explorer |
| Client IDs, routing (`fingerprint.go`, `urlparse.go`) | none | `ExtractClientSessionID`, `ParseProxyURL` | called by the handler |
| Configuration, setup, obfuscation | files of the user | straight-line code | - |

**How a request flows.** The handler buffers the body, finds or creates the session
(by the ID the client sent), loads the pattern state, matches the tool results of
the body against the pending tool calls and counts the turn, emits `turn_start`,
logs `session_start` if the session is new, logs the request, and forwards it. When
the answer is complete (buffered, or streamed chunk by chunk to the client) it logs
the response, updates its copy of the pattern state, emits `turn_end` and writes the
copy to the database. Every log call goes to the file first and then to the
exporter's channel, whatever the file said; errors of logging and of the database
are ignored.

**What is hard.** Requests of one session may overlap. The three database calls of a
request hold the mutex one by one, so what was read is old when it is written. A log
call is up to four critical sections and one unprotected read. The exporter's
worker selects among arrival, ticker and close, and retries requests whose answer
may merely be lost. The process may die between any two steps, and the database and
the files then outlive maps in memory. The upstream may fail, or break off a stream,
after part of the answer was sent. On a signal, `main`, the closing goroutine, the
handlers and the exporter's worker all run towards the end of the process at once. Who
reads a log reads it while it is written, out of order and with lines missing.

**What makes the components correct.**
- Exporter: never blocks a handler; each entry is exactly one of dropped, waiting,
  sent, failed; sent means stored; duplicates only by retries of one batch; every
  accepted entry is resolved in time; Close drains.
- File logger: a conversation is in one file, in order, without repeats; a call that
  reports success has written; nothing is written after Close; no data race.
- Sessions: one per client ID, numbered without gaps; the stored figures are what the
  comments of `PatternState` (`db.go:14`) say of the conversation's history.
- Handler: every exchange is in the log and offered to Loki; database and log agree;
  logging never holds up a request.
- Bedrock: never more requests than slots, each slot returned; observing a stream
  neither disturbs it nor loses events unnoticed.
- Lifecycle: shutting down takes no component away from a handler at work and leaves
  nothing behind, unless a timeout expires; `--env` tells the truth about the port.
- Explorer and parser: each response is shown with its request wherever the lines tell
  which that is, each block with its own text, whatever is missing; the timeline goes
  forward.
- Routing: the same client is recognised wherever its ID stands, and nothing invalid is
  ever taken for an ID.

## 2. Modules

| Module | Models | Role |
|---|---|---|
| `LogExport` | what the exporter promises | abstract specification |
| `LokiExporter` | `loki_exporter.go` | detailed specification, implements `LogExport` |
| `ToolPatterns` | `PatternState` and the functions on it; reference definitions over a history | pure operators |
| `SessionTracking` | `session.go`, `db.go`, the session half of `ServeHTTP` | concurrent requests over the database |
| `FileLogger` | `logger.go` | goroutines, mutex, files, restart |
| `ProxyPipeline` | `ServeHTTP` and `multi_writer.go` | composes `SessionTracking` and `FileLogger` by INSTANCE |
| `Routing` | `server.go` (dispatch), `urlparse.go`, `ExtractClientSessionID` and `isConversationEndpoint` | pure operators; which client a request of `SessionTracking` has |
| `Lifecycle` | `main.go`, `Server.Close`, `MultiWriter.Close`, the portfile | composes the abstract exporter `LogExport` with handlers and shells |
| `ResponseParser` | `ParseStreamingResponse` | one stream, event by event |
| `LogReader` | `parseSessionFile`, `groupAndParseTurns`, the sort | writers, file and reader; composes `ResponseParser` |
| `BedrockProxy` | `bedrock.go`, the metadata map of `multi_writer.go` | concurrent requests, slots, the observed stream |
| `MC*` | - | values of the constants for TLC, with one `.cfg` per run |
| `*Proofs` | - | theorems and proofs about `LokiExporter`, `SessionTracking`, `FileLogger`, `BedrockProxy`, `Lifecycle`, `Routing`, `LogReader` (with `ResponseParser`); `ProxyPipelineProofs` composes those of its components |

Definitions commented as *mutants* are not part of any specification. Each is what a
plausible mistake in the code would make of the definition below it, and is kept to
show that a property notices that mistake when the definition is replaced by it.

### LokiExporter

An entry is the position of its `Push`. `Enqueue` and `Drop` are the two arms of the
`select` in `Push`. The goroutine `run` is the variable `worker`: `"select"` is its
select statement, whose arms are `Receive`, `Flush` and `SeeClose`; `"drain"` the loop
after the close signal (`Drain`, `DrainEnd`); `"send"` and `"posted"` are `sendBatch`
before and after `doSend` has put a request on the wire. `trigger` remembers which arm
called `sendBatch`, because that decides where it returns to and whether the ticker is
reset. `SendOK`, `SendRefused` and `SendTimedOut` are the outcomes of `doSend`; the last
one says nothing about whether Loki stores the request, which is the external action
`LokiAccepts`. Timers fire whenever they are armed: back-off, batch wait, client and
shutdown timeouts have no length. `BatchLimit`, a part of the type invariant, is the size
trigger: the select never waits with a full batch and sends none that is too large (what
Close drains may be larger than `BatchSize`; it is one batch in the code).
`closedAt` and `acked` are history variables.

A marshalling error in `sendBatch` would be counted as failed and once more with its
batch; the entries are maps of strings, numbers and slices, which always marshal, so
that path is left out.

### ToolPatterns and SessionTracking

`pc[r]` is how far the handler of request `r` is: `located` after
`GetOrCreateSession`, `loaded` after `LoadPatternState` and the processing of tool
results, `responded` or `streamed` once the response's events are emitted, `done` after
`UpdatePatternState`. Each of the three database calls is one action because it holds
the manager's mutex and runs in one process; nothing is held between them. With
`DBErrors` each of them may fail, with the code's reaction: `SessionFallback` (a session
without a row), `LoadFails` (a fresh state), `UpdateFails` (ignored). `Forget` clears
what a handler had in memory when it returns. The clients are external: they answer
tool calls, and repeat all their answers in every later body (`answers`), as the
messages API requires, or start over with none. A stream has reached the client before
the state is written; a buffered answer has not.

`ToolPatterns` has the functions the code applies to the state and, separately, the same
figures defined from a history of turns in the words of the comments of `PatternState`:
`Streak`, `PreviousFailed` (an error among the results of the *previous* turn's calls),
`Retried` (its tool again after such an error), `Calls`, `Unanswered`. `MatchesHistory`, and
with it `SerialExact`, compares the state with these. It says less than equality in two
places, where the code departs from the comments:

- `LastWasError` and `RetryCount` are exact only where a turn brings results of the turn
  before and of no other (`OwnResults`). Where it brings older ones too the code charges them
  to this turn: the two may then be too high, and that is finding 2, but never too low.
- `LastToolName` is compared where the last turn called a tool. After one that did not, the
  code keeps the older name (section 5).

`Tracks` is what the code does keep in all cases. It is no property of a run: it is the
induction hypothesis from which `MatchesHistory` is proved (section 6).

### FileLogger

`at[c]` is where goroutine `c` is in its call. `RegisterUpstream` takes two steps, lock
and write, so that an unlocked lookup can fall between them; a lookup is
`BeginLookup` and `Lookup`. `getFile` and the write of `writeEntry` are critical sections
and one action each (`UseFile`, `OpenFile`, `NoFileFor`; `WriteLine`, `WriteFails`).
`_meta.host` of a line is the looked-up upstream, reduced to found or not. A file is a
session and a day: the upstream of a session never changes, so it adds nothing to the
path. `Restart` empties memory and keeps the disk; `FatalRace` is the Go runtime ending
the process. A failed write leaves nothing: torn lines are not modelled.

### ProxyPipeline

Each action of a handler conjoins a step of `SessionTracking` or of `FileLogger` with the
handler's place in `ServeHTTP` (`stage`); the components' actions are used as they are.
`LogReturn` is `MultiWriter`: the logger's call is back, and the entry is pushed to the
exporter whatever it returned. What happens to the entry then is `LokiExporter`. `reply`
is what the client has. `Restart` restarts both components.

### Routing

A path is a sequence of segments, and what a field or a header of a request says is a
client ID, the empty string or something `isValidSessionID` refuses. The operators follow
`Server.ServeHTTP` (health, Bedrock, proxied), `ParseProxyURL`, the detour of ChatGPT
tokens, `isConversationEndpoint` and the cascade of sources in `extractOpenAISessionID`.
What `ExtractClientSessionID` returns is the client that `SessionTracking!Arrive` takes. The
assumptions `CascadeFindsFirstValid`, `ClientOfRequest` and `LoggedRequests` of
`MCSessionTracking` compare the operators with reference definitions over all small
requests; TLC evaluates them in the runs of that module.

Three consequences of the code can be read off the operators. A path that goes to ChatGPT
gets a prefix before it is looked at, so threads are not seen in it
(`NoThreadsOnChatGPT`). `previous_response_id` differs from turn to turn, so of a chain of
turns that carry nothing else each starts a session of its own,
although `docs/openai-session-tracking-notes.md:48` lists the chaining among the sources of
an ID. And an ID says nothing of the
provider: the same ID through two providers is one session.

### Lifecycle

`main` is where the function `main` is between `NewServer` and its return, `closer` where the
goroutine is that waits for the signal, and `at[r]` what the handler of request `r` does
next. `BeginShutdown` closes the listener. From then on `MainReturns` is possible, because
`Serve` returns at once, and it ends the process wherever the others are (`Exit("cut")`).
`Crash` does the same at any time and stands also for the calls of `os.Exit`. `Server.Close`
is taken apart in its order: `CloseDatabase`, `CloseExporter` with `Flushed` or
`FlushTimesOut`, `CloseFiles`. The exporter is an INSTANCE of `LogExport`, the abstract
specification that `LokiExporter` is shown to implement; what became of an entry is not
told apart (`sent <- {}`). `loki` is FALSE where no exporter is configured or it could not
be made.

`WritePortfile` takes two steps, truncation and writing, and the file outlives the process.
`shell[s]` is a run of `llm-proxy --env`: it reads the portfile and asks the port for its
health, and `Status` asks in the same way. `up` and `gap`, kept by `Observe`, are the history a
run of `--env` is judged by.

### ResponseParser and LogReader

The stream of `ResponseParser` is the one the provider documents for `CONSTANT Message`, and
any of its events may be `Missing`. `blk` and `part` say which event comes next. A fragment is
its block and its number, so that a block can be asked which fragments it is made of.
Tool input assembled from some of its fragments may or may not be JSON. A block that was
never announced has no type (`NoType`, the empty string of the code).

`LogReader` has the writers first: each exchange notes the time of a line
(`NoteRequest`, `NoteResponse`) before the logger's mutex orders the lines
(`WriteRequest`, `WriteResponse`), and any line may fail to be written. The reader
takes the file once (`Open`), walks through it (`ReadRequest`, `ReadBuffered`, `ReadStreamed` with
`Parse` and `Parsed`, `PassOver`) and sorts (`Show`; `sort.Slice` is not stable, so equal
times may come in any order). A line's `of`, the exchange it is of, is what the properties ask
for; the reader's decisions do not look at it. `byID` and `bySeq` are the keys of the maps of turns,
`Matched` the lookup, `Place` the update of the slice. In a log with
IDs each exchange has its own (`number` is the identity, as `SeqConsecutive` has it of today's
`session.go`). `withIDs = FALSE` is a log of older code, whose lines have no `request_id`; there `number`
is arbitrary and may give exchanges the same sequence number, because that code did not
keep requests from interleaving between the database calls of a session
(`docs/plans/PLAN-REVISION-NOTES.md:363`, Issue A). `explorer.go:426` warns that this fallback "may have issues with parallel requests", and
so it has: of the requests with one number the first in the file shows the last response
that could be matched, whosever it is, and the others show none. `TurnsPaired` therefore
promises an exchange its own response if it can be told from the others (`Told`: by its ID, or
by a number no other has), and of the rest only that the response shown has the same number.
TLC refutes both halves of the stronger claim, that a response shown is always one's own and
that one which is in the file is always shown, as soon as two exchanges have one number.
`TimelineForward` is restricted in the same way.

### BedrockProxy

`at[r]` follows `serveBedrock`: `waiting` for the semaphore, `admitted` (a slot is held, the
body is being read), `log`, `send`, then one of the return paths. The deferred calls run
in `ClearContext` and `Release`, in Go's order. A stream is a sequence of frames; each is
read, offered to the `LimitedWriter` (`Observe`) and written to the client (`Relay`), or finds
the client gone. `LogStream` decodes the copy as `decodeBedrockEventstream` does:
exception frames are passed over, garbled ones skipped and reported, a torn one ends
the decoding. What the copy holds and what was logged are sets of positions of frames. `incomplete` is a history variable. The session half of `serveBedrock` repeats
that of `ServeHTTP` word for word and is not modelled a second time; signing, headers and
the sizes of buffered bodies are left out.

## 3. Runs

| Run | Instance | Shows |
|---|---|---|
| `loki` | 3 entries of 2 label sets, channel and batch of 2, 1 retry, 2 callers of Close | safety of the exporter, the refinement of `LogExport`, every accepted entry resolved, the worker stops |
| `sessions` | 3 requests, 1 client ID, 2 tools, database errors, restarts | numbering, sharing, figures as `PatternState` describes them without overlap, never too high with it |
| `sessions_lost_update` | 2 requests | finding 1 |
| `sessions_stale_results` | 3 requests | finding 2 |
| `logger` | 2 goroutines with 2 calls, 2 sessions, 2 days, 2 lives, disk errors, Close | files, order, truthful results, quiet after Close |
| `logger_race` | 2 goroutines with 1 call | finding 3 |
| `pipeline` | 2 requests, 2 days, 2 lives, database errors | complete ordered logs, one file per session for ever, agreement with the database, everything offered to Loki, logging never holds up a request |
| `pipeline_losses` | 2 requests, 1 day, 2 lives | finding 4 |
| `lifecycle` | 2 requests, 1 shell, 2 ports, 2 lives, 4 pushes into a queue of 2 | writes fail only after a timeout, a clean close is complete, `--env` is truthful |
| `lifecycle_graceful` | 1 request, 1 life | finding 5 |
| `log_reader` | 2 exchanges, one of them a stream of a tool call in 2 pieces and a text, 3 points of time, IDs or any sequence numbers | responses with the requests they can be told to belong to, exact blocks, a timeline that goes forward |
| `bedrock` | 2 requests over 1 slot, 3 frames of 5 sorts, buffer of 2 | slots, labels, the observer, counted losses, admission |

**Why these bounds are enough.** `MaxPush = 3` against a channel and a batch of 2 makes
the channel fill and drop, a batch reach its size with an entry left over, and two
batches follow each other; one retry is the smallest number for which a batch is both
repeated and given up; two closers give a first and a later one. Three requests of one
client are a session's first turn, a turn that brings results, and a turn that repeats
them or overlaps either of the others, and requests without an ID take part in every
mixture. Two goroutines with two calls show a session_start and an entry of the same or
another session in every order, one midnight puts any step on either side of it, and
two lives put any step on either side of a restart. A process that ends and one that
begins on the same or another port are all a stale portfile takes; two handlers let one
write while the other holds up the shutdown, and four pushes into a queue of two fill it
and leave entries behind a timeout. Two exchanges overlap in every way two can, three
points of time put either line of either before, beside or after the other's, and a block
of two fragments beside one of a single fragment is the smallest answer in which a gap
can be within a block, between blocks or across them. A stream of three frames is the
shortest in which a small frame follows an overflow, and two requests over one slot
make one of them wait in every state of the other. The theorems of section 6 have no
such bounds.

**Bounds that are in guards:** `MaxPush`, `MaxCalls`, `MaxDay`, `MaxLives`, `MaxFrames`, `MaxTime`,
and `Capacity` of the abstract exporter. Requests, exchanges and runs of `--env` are made once
each. Because of them the models stop where the program would wait for more work, and
the configurations switch deadlock checking off; that nothing gets stuck is what the
liveness properties show.

**Symmetry** is used for requests in the `sessions` runs and for goroutines in `logger`: none
is told apart by a definition. The sessions of `logger` are not interchangeable, because
`Init` chooses one of them for the unused first `line`. No run with a liveness property
uses symmetry.

## 4. Fairness

- `LokiExporter!FairSpec`: weak fairness of each step of the worker, of the ticker and
  of *some* outcome of `doSend`, since the HTTP client has a timeout. An arm of a `select`
  that stays ready is eventually chosen, because Go chooses uniformly. Nothing is
  assumed of Loki (it may never answer), of the handlers, or of the callers of Close.
- `ProxyPipeline!FairSpec`: weak fairness of each handler's own steps, the Go scheduler
  and a mutex that does not starve its waiters. Nothing is assumed of the upstream,
  whose HTTP client has no timeout (`proxy.go:43`), so a handler may wait in `"forward"`
  for ever. The mutex is contended at most once for each logging call of the other
  requests, which are finitely many, so weak fairness suffices.
- `BedrockProxy!FairSpec`: weak fairness of a handler's own steps (`Handle`). Reading the
  client's body and everything that waits for Bedrock is not fair, and `WaitersAdmitted`
  says what may keep a request waiting for that reason.
- `SessionTracking`, `FileLogger`, `Lifecycle` and `LogReader` state safety only and assume
  no fairness.

## 5. Findings

1. **Overlapping turns are lost** (`TurnCountIsCycles`, `session.go:147`). Two requests of a
   session load the same state; the later write erases the earlier turn. `db.go:16`
   calls the field the number of request-response cycles.
2. **Old results are processed again** (`ResultsOfPreviousTurn`, `proxy.go:111`). All
   messages of the body are scanned, and the body has the whole conversation; the
   comment at `proxy.go:345` speaks of the previous turn. An old error makes
   `LastWasError` true on every later turn and so turns a repeated tool into a retry.
3. **Data race** (`NoDataRace`, `logger.go:156`, also 178 and 207). The map of upstreams is read
   without the mutex; the Go runtime ends the process when it notices.
   `docs/constitutions/current/patterns.md:51` asks for a mutex around shared maps.
4. **Exchanges are missing from the files** (`LogsEveryExchange`, `logger.go:86`). The map of
   upstreams is in memory, and only the `session_start` of a new session fills it. After
   a restart a session that goes on is never registered again; and a second request of a
   new session may log before the first one's `session_start`, since the session is
   shared from `GetOrCreateSession` on (`proxy.go:364`). Both times `getFile` refuses, and the
   error is ignored. `README.md:30` promises every request and response.
5. **The end of the process is not graceful** (`GracefulShutdown`, `main.go:284`). `Serve`
   returns as soon as `Shutdown` has closed the listener, and `main` after it: streams under
   way are cut off and the exporter is not flushed. `main.go:266` wants requests to
   complete and `README.md:89` the buffer flushed.

`NeverOvercounts` and `QuietExchangesLogged` delimit 1 and 4: overlap only loses counts, and
without overlap or restart nothing is lost. `WritesFailOnlyAfterTimeout` and
`CleanCloseIsComplete` delimit 5: where the closing goroutine is given the time, the order in
which it closes the components does no harm.

Seen while reading, and not checked by a run:

- A stream that breaks off is not logged at all, although the design document
  (`docs/plans/2026-01-13-transparent-agent-logger-design.md:175`) has it logged with a
  marker. `CountsAreLogged` shows that the database agrees with what is logged.
- `LastToolName` is "First tool name from previous turn" (`db.go:17`), but after a turn without
  tools it is still that of an earlier turn (`session.go:162`, "keep other state"). Nothing
  follows for the streak and the retries where turns bring their own results, as
  `SerialExact` shows; a repetition after such a turn is flagged as a retry only by an old
  result (finding 2).
- Old logs that repeat a sequence number are paired wrongly or not at all, as `explorer.go:426`
  expects (section 2, LogReader).
- The shift of the back-off overflows for some 37 retries and more (`loki_exporter.go:572`).
- A second `Close` of the exporter returns nil although the first timed out
  (`loki_exporter.go:658`).
- `ParseStreamingResponse` knows the events of Anthropic only; a stream of OpenAI gives it no
  blocks.

## 6. What is proved

All theorems hold for every value of the constants that the named assumptions admit:
`ConfigAssumption` (sizes are positive, as `NewLokiExporter` makes them),
`SessionAssumption`, `LoggerAssumption`, `PipelineAssumption` and `LifecycleAssumption` (special
values are distinct from real ones, bounds are natural numbers), `BedrockAssumption`
(finitely many requests, at least one slot) and `ReaderAssumption` (exchanges have positive
numbers, the message is a sequence of blocks). TLC evaluates each of them in a run.

**`LokiExporterProofs`.** `TypeCorrect`; `AccountingHolds` (inductive relative to the type
invariant: each action moves an entry from one summand to another); `NothingStrandedHolds`.
`NothingStranded` speaks only of a worker that has stopped, so it is not inductive;
`DrainInv` carries the same fact back to the moment the drain found the channel empty:
since then only entries pushed after Close have entered the channel. DrainInv also says
that `sendBatch` never has an empty batch, which the refinement needs.
`ExporterImplementsLogExport` is the refinement under the mapping *pending = batch \o channel*:
`Receive` and `Drain` move an entry across the boundary and are stutters, as are posts, ticks
and retries; `Enqueue`, `Drop`, `SendOK`, the last `Failed`, `CloseFirst` and `Return` are the
abstract `Accept`, `Refuse`, `Resolve`, `Resolve`, `Close` and `Stop`.
`SentIsStoredHolds`, `StreamIntegrityHolds` and `BoundedCopiesHolds` rest on `QueueInv` (what is in
batch and channel is distinct, ordered and pushed) and `DeliveryInv`. Its argument: an
entry that a request carries has left the channel, and as long as it is in the batch only
this batch's requests carry it. All requests that carry an entry therefore lie among
`RetryMax + 1` consecutive ones, which bounds its copies, and an acknowledged request is one
of those Loki stored.

**`SessionTrackingProofs`.** `TypeCorrect`; `OneSessionPerClientHolds` from `SessionInv`: a row
belongs to the request that created it, requests are in sessions of their own client,
and no two rows carry the same client ID; `SeqConsecutiveHolds`, where the step that
matters is `Continue`, whose new number is one more than the largest number in use;
`NeverOvercountsHolds` from `CopyInv`: a handler's copy counts at most one turn more than
its session has completed, so writing it is safe whatever was written meanwhile.
`SerialExactHolds` has three steps. Two are about data alone. `TurnTracked` says that what a
request and its response do to a state turns the figures the code keeps (`Tracks`) of a
history into those of the history with that turn added, for every history: the streak
and the retries as longest runs at its end, the calls counted without repeats, the ones
unanswered. `Tracks` has to say which tool was the last to be named at all, since
`RetryCount` depends on it. `TracksMatch` says that a state that tracks a history is what
the comments of `PatternState` say of it (`MatchesHistory`): an error of the previous turn's
calls is an error in the body, so each retry is counted, and where turns bring only their
own results each one counted is a retry. `TurnMatchesHistory` joins the two. The third is
`SerialInv`: in an undisturbed session the one request under
way has a copy of what is stored, brought to where it is, and its calls have IDs no turn
has used. `NewestInv` (the request under way in an undisturbed session is its newest) and
`WritersInv` (a history has no more turns than requests that are done) are for the log,
below.

**`FileLoggerProofs`.** All the safety properties that its run checks: `TypeCorrect`;
`OneFilePerLifeHolds` from `FileInv`: as long as the logger is open, the file in the map is the
only one the session has written in this life, and a goroutine about to write holds that
file; `QuietAfterCloseHolds`; `CallsInOrderHolds` and `ResultsAreTrueHolds` from `OrderInv`: no line on disk is of a later call than
its goroutine's current one, or of the current one before its write, and nobody holds a
file of a day to come; so each line that is written goes behind all earlier ones of its
goroutine.

**`ProxyPipelineProofs`.** `ComponentsImplemented`: every behaviour of the composed handlers is a
behaviour of `SessionTracking` and one of `FileLogger`, step by step with stutters. The
theorems of the two components therefore hold of the composition and are cited, not
repeated: `ComponentsSafe` has `SeqConsecutive`, `OneSessionPerClient`, `SerialExact`,
`CallsInOrder` and `ResultsAreTrue`. `TypeCorrect` follows from theirs. `LokiOfferedHolds` from `OfferInv`: what a
handler has offered is determined by its stage and by what the client has.
`OneFileForReaderHolds` uses `FileInv` of the logger with `ControlInv` and `LifeInv`: only the
request that created a session registers it, a registration lasts one life, so all lines
of a session are of the life it began in, and in one life it has one file. It is finding
4 seen from the other side: a session that goes on after a restart never gets a second
file, because it is never logged again.

The three properties of a *quiet* session, one whose requests did not overlap, need both
components at once:

- `TrackInv` says where the session tracking is at each stage of a handler, `LineInv` that
  the line a handler is logging is the one of its stage and of this life, and that an
  opener past its `session_start` is registered. With `NewestInv` they give the fact that
  the rest turns on (`OpenerEnded`): whenever a request logs in a quiet session that it did
  not open, the one that opened it has ended.
- `FiledInv`: on file is only what is *behind* its request, that is, whose call has
  returned. So a line that the newest request writes goes after all others: `OrderInv`, and
  `QuietLogInOrderHolds`, where `FirstInv` adds that the first line is the `session_start`.
- `DueInv` is the converse: without disk errors, what is behind a request is on file if its
  session is quiet and was opened in this life, because the one way for the logger to refuse
  it, a session not registered, is excluded by `LineInv`. `QuietExchangesLoggedHolds` is
  its instance at the end of a request.
- `CountsAreLoggedHolds`: each request that is done has its response on file, and no two the
  same line, so the history has at most as many turns as the log has responses
  (`WritersInv`), and the database counts no more than the history (`NeverOvercounts`).

They speak of the log the explorer reads, the files of a session in the order of their
days. `LogIsAFile` reduces it to one file: by `OneFileForReader` all others are empty, and
`FlattenOne` is what `FlattenSeq` makes of such a sequence.

**`LifecycleProofs`.** `TypeCorrect`; `WritesFailOnlyAfterTimeoutHolds` and `CleanCloseIsCompleteHolds`
from `ShutdownInv`: past a shutdown that did not time out no handler is at work, so nothing
is pushed after the exporter's Close, and an exporter that has stopped holds only what
was pushed later, which is nothing. `EnvIsTruthfulHolds` from `EnvInv`: who serves has written
its own port before, and a run of `--env` either holds the port that answers now or has
seen a moment without a proxy.

**`RoutingProofs`.** `IdentityIsValid` (what is extracted is a valid ID or none),
`SameSourceSameSession` (requests that agree in the first valid source have the same
client, whatever the later sources say), `ThreadsByPath`, `NoThreadsOnChatGPT`.

**`LogReaderProofs`.** `TypeCorrect`; `BlocksExactHolds` from `ParserInv` (a builder holds an initial
part of the numbers read so far, all of them where nothing is missing);
`TurnsPairedHolds` and `TimelineForwardHolds` from `PairInv`: of each exchange a file has at most one
request line and at most one response line, not in the other order, with one kind of
key for the whole file (`KeyOf`: ID or number). A turn that fits a response has its key; an
exchange that is `Told` shares its key with no other, so the first turn that fits its response
is its own and the only one.

**`BedrockProxyProofs`.** `TypeCorrect` and `SlotsHeldHolds` are proved together, because the
semaphore stays a natural number only as long as it has a value for each admitted
request; the argument is that every step moves one handler, and only `Acquire` and
`Release` move it across the semaphore. `ResponsesLabelledHolds` from `LabelInv`: a handler has
its metadata from before its first log call to its deferred calls. `NoSilentLossHolds` from
`LossInv`: a log that lacks an event of its stream has a decode error or an overflow
counted against it.

`ObserverHarmlessHolds` from `ObserverInv`: the client has every frame that was read, up to the
one on which it went; what is observed is a prefix of the same stream within the bound,
and all of it unless the overflow is set, after which it is not touched. The size of a
stream is a sum over its frames; that it grows by the size of the frame appended is
`SizeProperties`.

**Sums, longest runs and concatenations.** Such operators are defined by recursion or by
CHOOSE over a whole sequence, and the library's induction theorems, which take a predicate
as their parameter, cannot be instantiated here. The lemmas about them go by the least
counterexample instead, which is induction enough: the set of places where two candidate
functions differ would have a least element, as `<` is well-founded on `Nat`; and there the
equation that both satisfy makes them agree (`SumsUnique`, `FlattenIs`).

**Only model-checked.** Liveness under fairness (`EventuallyResolved`, `WorkerStops`,
`NeverHeldUp`, `WaitersAdmitted`), and everything that involves ENABLED. All the invariants
and all the action properties of the passing runs are stated by a theorem. The
violations of section 5 are counterexamples and need no proof.

## 7. The plan, and what is not modelled

The order of work was: the exporter with its abstract specification; the sessions; the
file logger; the handlers that compose the two; Bedrock; the lifecycle; routing; the
parser and the explorer; and the proofs, each component's before the composition's. All
of it is done. What could still be added is the file logger as an abstract
specification of its own (a set of calls and the lines they left), as `LogExport` is for
the exporter, and the explorer's full-text search, if it grows an index.

Not modelled, and why:

- **Configuration, header obfuscation, formatting** of labels, JSON and pages; the lists,
  the search and the templates of the explorer; the health endpoints that only read
  counters. Straight-line code on single values, without concurrency, that unit tests
  reach.
- **Setup and uninstall** of shell files and of the systemd unit: edits of files by one
  short process.
- **Other programs.** Two services that share a portfile, and another program that answers
  health checks on a stale port. The portfile has no lock and the check no identity; what
  systemd starts is one service.
- **Running without a portfile** (not as a service) is `Lifecycle` without its shells.
- **Fingerprints** (`fingerprint.go`, the fingerprint table) are not reached by the program,
  which tracks sessions by client ID alone, nor is `groupIntoTurns` of the explorer,
  `LogFork`, `forceClose` and `ClearMatchedToolID`.
- **Sizes**: bodies over 16 MB, which `bedrock.go:397` cuts off, and the 64-bit product of the
  back-off. Both are one arithmetic step, and TLC's integers are of 32 bits.
- **Half-written lines**: a failed write of a line leaves nothing in the model.
- **The events of `EventEmitter`** in `Lifecycle`, where they would be further pushes between
  the two that are there; in `ProxyPipeline` they are offered in their places.

External and taken for granted: SQLite executes each statement atomically and durably,
generated IDs are distinct, a complete append of one line is not interleaved with
another.
