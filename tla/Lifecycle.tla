----------------------------- MODULE Lifecycle ------------------------------
(***************************************************************************)
(* The life of the proxy as a service (main.go, server.go, service.go):    *)
(* NewServer, the listener, the portfile, Serve, and after a signal the    *)
(* goroutine that shuts the HTTP server down and closes the database, the  *)
(* exporter and the file logger, while handlers are still at work and main *)
(* returns as soon as the listener is closed.  Beside it, shells that run  *)
(* llm-proxy --env: they read the portfile and ask the port for its        *)
(* health.                                                                 *)
(*                                                                         *)
(* The exporter is an instance of its abstract specification.  Of the      *)
(* database and of the file logger only whether they are open is kept.     *)
(* Timeouts have no length: they may expire whenever they are armed.       *)
(***************************************************************************)
EXTENDS Integers, Sequences

CONSTANTS
    Requests,    \* requests that clients send, each once
    Shells,      \* runs of llm-proxy --env
    Ports,       \* what net.Listen may return for port 0
    NoPort,      \* no number in the portfile, nothing exported
    MaxPush,     \* bound of the model: entries pushed in one life
    Capacity,    \* entries that may wait before the exporter refuses
    MaxLives     \* bound of the model: starts of the process

ASSUME LifecycleAssumption == NoPort \notin Ports /\ {MaxPush, Capacity, MaxLives} \subseteq Nat

VARIABLES
    main,        \* where main is; "down" when there is no process
    life,        \* starts so far
    loki,        \* TRUE iff NewServer has made an exporter
    open,        \* which of "file" and "db" are open
    at,          \* what the handler of each request does next
    failed,      \* history: writes that a handler could not make
    signal,      \* TRUE once SIGINT or SIGTERM has arrived
    closer,      \* where the goroutine that waits for the signal is
    timedOut,    \* the waits that expired: of "shutdown", of "flush"
    port,        \* where this process listens
    portfile,    \* what the portfile says
    shell, got,  \* each run of --env: how far it is, and the port it has
    up, gap,     \* history: the ports that answered since it began, and
                 \* whether at some moment since then none did
    offered, pending, closed, closedAt, stopped   \* of LogExport

exporter == <<offered, pending, closed, closedAt, stopped>>
env == <<shell, got>>
service == <<port, portfile>>
work == <<at, failed>>
vars == <<main, life, loki, open, work, signal, closer, timedOut, service, env, up, gap,
          exporter>>

\* What was sent and what was given up is not told apart here.
E == INSTANCE LogExport WITH sent <- {}

Init ==
    /\ main = "down" /\ life = 0
    /\ loki = FALSE /\ open = {}
    /\ at = [r \in Requests |-> "new"] /\ failed = {}
    /\ signal = FALSE /\ closer = "wait" /\ timedOut = {}
    /\ port = NoPort /\ portfile = NoPort
    /\ shell = [s \in Shells |-> "idle"] /\ got = [s \in Shells |-> NoPort]
    /\ up = [s \in Shells |-> {}] /\ gap = [s \in Shells |-> FALSE]
    /\ E!Init

Alive == main # "down"
Active(r) == at[r] \in {"request", "forward", "response", "save"}

\* The listener exists; Serve accepts its connections.
Listening == main \in {"truncate", "portfile", "ready", "serve"} /\ closer = "wait"
Answering == main = "serve" /\ closer = "wait"

-----------------------------------------------------------------------------
(* Starting                                                                *)

(* NewServer: the file logger, the exporter (or none: not configured, or   *)
(* it could not be made), the database and Bedrock.                        *)
NewServer ==
    /\ main = "down" /\ life < MaxLives
    /\ main' = "listen" /\ life' = life + 1
    /\ loki' \in BOOLEAN /\ open' = {"file", "db"}
    /\ failed' = {} /\ signal' = FALSE /\ closer' = "wait" /\ timedOut' = {}
    /\ offered' = 0 /\ pending' = <<>>
    /\ closed' = FALSE /\ closedAt' = 0 /\ stopped' = FALSE
    /\ UNCHANGED <<at, service, env>>

(* The process ends.  Its memory goes with it: handlers are cut off, what  *)
(* the exporter has not sent is lost.  The exporter's variables stay as    *)
(* they were at that moment until the next start.                          *)
Exit(how) ==
    /\ main' = "down"
    /\ at' = [r \in Requests |-> IF Active(r) THEN how ELSE at[r]]
    /\ UNCHANGED <<life, loki, open, failed, signal, closer, timedOut, port, env, exporter>>

Quiet == UNCHANGED <<life, loki, open, work, signal, closer, timedOut, env, exporter>>

Listen ==
    /\ main = "listen" /\ main' = "truncate"
    /\ port' \in Ports
    /\ UNCHANGED portfile /\ Quiet

(* WritePortfile empties the file,                                         *)
TruncatePortfile ==
    /\ main = "truncate" /\ main' = "portfile"
    /\ portfile' = NoPort
    /\ UNCHANGED port /\ Quiet

\* Mutant of WritePortfile: it writes the configured port, not the actual one.
WriteConfiguredPort ==
    /\ main = "portfile" /\ main' = "ready"
    /\ portfile' = 0
    /\ UNCHANGED port /\ Quiet

(* and writes the number.  From here on signals are handled.               *)
WritePortfile ==
    /\ main = "portfile" /\ main' = "ready"
    /\ portfile' = port
    /\ UNCHANGED port /\ Quiet

Serve ==
    /\ main = "ready" /\ main' = "serve"
    /\ closer = "wait"
    /\ UNCHANGED service /\ Quiet

(* No file, no listener, no portfile: os.Exit.  Or the process is killed.  *)
Crash == Alive /\ Exit("crashed") /\ UNCHANGED portfile

-----------------------------------------------------------------------------
(* Handlers                                                                *)

Frame == UNCHANGED <<main, life, loki, open, signal, closer, timedOut, service, env>>

Goes(r, from, to) == at[r] = from /\ at' = [at EXCEPT ![r] = to]

\* A handler ignores the error of a component that is closed.
Uses(r, component) ==
    failed' = IF component \in open THEN failed ELSE failed \cup {<<r, component>>}

\* The exporter takes an entry even after Close; it may find the channel full.
Push == IF loki THEN E!Accept \/ E!Refuse ELSE UNCHANGED exporter

Arrive(r) ==
    /\ Answering
    /\ Goes(r, "new", "request")
    /\ UNCHANGED <<failed, exporter>> /\ Frame

LogRequest(r) == Alive /\ Goes(r, "request", "forward") /\ Uses(r, "file") /\ Push /\ Frame

(* The upstream answers, or fails and the handler is done.                 *)
UpstreamAnswers(r) ==
    /\ Alive
    /\ Goes(r, "forward", "response") \/ Goes(r, "forward", "done")
    /\ UNCHANGED <<failed, exporter>> /\ Frame

LogResponse(r) == Alive /\ Goes(r, "response", "save") /\ Uses(r, "file") /\ Push /\ Frame

SavePatterns(r) ==
    /\ Alive /\ Goes(r, "save", "done") /\ Uses(r, "db")
    /\ UNCHANGED exporter /\ Frame

Handle(r) == LogRequest(r) \/ LogResponse(r) \/ SavePatterns(r)

\* The exporter's worker sends, or gives up, what waits.
Export ==
    /\ Alive /\ loki
    /\ E!Stop \/ \E n \in 1..Len(pending) : E!Resolve(n)
    /\ UNCHANGED work /\ Frame

-----------------------------------------------------------------------------
(* Shutting down                                                           *)

Signal ==
    /\ main \in {"ready", "serve"} /\ ~signal
    /\ signal' = TRUE
    /\ UNCHANGED <<main, life, loki, open, work, closer, timedOut, service, env, exporter>>

Closes(from, to) ==
    /\ Alive /\ closer = from /\ closer' = to
    /\ UNCHANGED <<main, life, loki, work, signal, service, env>>

(* Shutdown closes the listener and then waits for the handlers, at most   *)
(* for its 300 seconds.                                                    *)
BeginShutdown ==
    /\ signal /\ Closes("wait", "shutdown")
    /\ UNCHANGED <<open, timedOut, exporter>>

\* Mutant of ShutdownDone: Shutdown does not wait for the handlers.
ShutdownAtOnce == Closes("shutdown", "db") /\ UNCHANGED <<open, timedOut, exporter>>

ShutdownDone ==
    /\ Closes("shutdown", "db")
    /\ \A r \in Requests : ~Active(r)
    /\ UNCHANGED <<open, timedOut, exporter>>

ShutdownTimesOut ==
    /\ Closes("shutdown", "db")
    /\ timedOut' = timedOut \cup {"shutdown"}
    /\ UNCHANGED <<open, exporter>>

(* Server.Close: the database, then MultiWriter.Close: the exporter, which *)
(* is given a limited time to drain, and the file logger.                  *)
CloseDatabase ==
    /\ Closes("db", "loki")
    /\ open' = open \ {"db"} /\ UNCHANGED <<timedOut, exporter>>

CloseExporter ==
    /\ Closes("loki", "flush")
    /\ IF loki THEN E!Close ELSE UNCHANGED exporter
    /\ UNCHANGED <<open, timedOut>>

\* Mutant of Flushed: MultiWriter does not wait for the exporter to drain.
FlushedAtOnce == Closes("flush", "file") /\ UNCHANGED <<open, timedOut, exporter>>

Flushed ==
    /\ Closes("flush", "file")
    /\ loki => stopped
    /\ UNCHANGED <<open, timedOut, exporter>>

FlushTimesOut ==
    /\ loki /\ Closes("flush", "file")
    /\ timedOut' = timedOut \cup {"flush"}
    /\ UNCHANGED <<open, exporter>>

CloseFiles ==
    /\ Closes("file", "closed")
    /\ open' = open \ {"file"} /\ UNCHANGED <<timedOut, exporter>>

Closer ==
    \/ BeginShutdown \/ ShutdownDone \/ ShutdownTimesOut \/ CloseDatabase
    \/ CloseExporter \/ Flushed \/ FlushTimesOut \/ CloseFiles

(* Serve returns ErrServerClosed as soon as the listener is closed, main   *)
(* returns after it, and that is the end of the process.                   *)
MainReturns ==
    /\ main \in {"ready", "serve"} /\ closer # "wait"
    /\ Exit("cut") /\ UNCHANGED portfile

-----------------------------------------------------------------------------
(* llm-proxy --env; Status asks in the same way                            *)

Asks(s, from, to, p) ==
    /\ shell[s] = from
    /\ shell' = [shell EXCEPT ![s] = to] /\ got' = [got EXCEPT ![s] = p]
    /\ UNCHANGED <<main, life, loki, open, work, signal, closer, timedOut, service, exporter>>

ReadPortfile(s) ==
    \/ portfile \in Ports /\ Asks(s, "idle", "check", portfile)
    \/ portfile = NoPort /\ Asks(s, "idle", "done", NoPort)

\* Mutant of Healthy: the answer is not looked at.
HealthyAnyway(s) == Asks(s, "check", "done", got[s])

Healthy(s) == Answering /\ port = got[s] /\ Asks(s, "check", "done", got[s])

\* A listener whose process does not serve yet makes the caller wait.
Unhealthy(s) == ~(Listening /\ port = got[s]) /\ Asks(s, "check", "done", NoPort)

Env(s) == ReadPortfile(s) \/ Healthy(s) \/ Unhealthy(s)

\* The history of a run of --env, until it is done.
Observe ==
    /\ up' = [s \in Shells |->
                IF shell[s] # "done" /\ shell'[s] # "idle" /\ Answering'
                THEN up[s] \cup {port'} ELSE up[s]]
    /\ gap' = [s \in Shells |->
                gap[s] \/ (shell[s] # "done" /\ shell'[s] # "idle" /\ ~Answering')]

Step ==
    \/ NewServer \/ Listen \/ TruncatePortfile \/ WritePortfile \/ Serve \/ Crash
    \/ \E r \in Requests : Arrive(r) \/ UpstreamAnswers(r) \/ Handle(r)
    \/ Export \/ Signal \/ Closer \/ MainReturns
    \/ \E s \in Shells : Env(s)

Next == Step /\ Observe

Spec == Init /\ [][Next]_vars

-----------------------------------------------------------------------------
(* Properties                                                              *)

(* Type invariant.                                                         *)
TypeOK ==
    /\ main \in {"down", "listen", "truncate", "portfile", "ready", "serve"}
    /\ life \in 0..MaxLives
    /\ loki \in BOOLEAN /\ signal \in BOOLEAN
    /\ open \subseteq {"file", "db"} /\ timedOut \subseteq {"shutdown", "flush"}
    /\ at \in [Requests -> {"new", "request", "forward", "response", "save", "done",
                            "cut", "crashed"}]
    /\ failed \subseteq Requests \X {"file", "db"}
    /\ closer \in {"wait", "shutdown", "db", "loki", "flush", "file", "closed"}
    /\ port \in Ports \cup {NoPort} /\ portfile \in Ports \cup {NoPort}
    /\ shell \in [Shells -> {"idle", "check", "done"}]
    /\ got \in [Shells -> Ports \cup {NoPort}]
    /\ up \in [Shells -> SUBSET (Ports \cup {NoPort})] /\ gap \in [Shells -> BOOLEAN]
    /\ offered \in Nat /\ closedAt \in Nat /\ pending \in Seq(Nat)
    /\ closed \in BOOLEAN /\ stopped \in BOOLEAN

(* Close takes the database away first, then the exporter, then the files, *)
(* so a handler at work would fail its last writes.  It meets none: a      *)
(* write fails only if Shutdown's 300 seconds have expired.                *)
WritesFailOnlyAfterTimeout == failed # {} => "shutdown" \in timedOut

(* Where the closing goroutine gets to its end and neither wait expired,   *)
(* nothing is missing: no handler at work, no write failed, nothing that   *)
(* was pushed still waits in the exporter.                                 *)
CleanCloseIsComplete ==
    closer = "closed" /\ timedOut = {} =>
        failed = {} /\ pending = <<>> /\ \A r \in Requests : ~Active(r)

(* What --env tells a shell is right, in spite of portfiles that outlive   *)
(* their process or are half written: a port it exports has answered since *)
(* --env began, and it exports nothing only if there was a moment without  *)
(* a proxy.                                                                *)
EnvIsTruthful ==
    \A s \in Shells : shell[s] = "done" =>
        IF got[s] = NoPort THEN gap[s] ELSE got[s] \in up[s]

(* "Allow in-flight streaming requests to complete" (main.go), "buffer is  *)
(* flushed on shutdown" (README.md): a process that ended after a signal,  *)
(* without a timeout, has cut no request off and left no entry behind.     *)
GracefulShutdown ==
    (main = "down" /\ signal /\ timedOut = {}) =>
        pending = <<>> /\ \A r \in Requests : at[r] # "cut"

-----------------------------------------------------------------------------
(* What makes WritesFailOnlyAfterTimeout and CleanCloseIsComplete          *)
(* inductive: past an unexpired Shutdown no handler is at work, so nothing *)
(* is pushed after the exporter's Close.                                   *)
ShutdownInv ==
    /\ closer \notin {"wait", "shutdown"} /\ "shutdown" \notin timedOut =>
          \A r \in Requests : ~Active(r)
    /\ Alive /\ closer \in {"wait", "shutdown"} => open = {"file", "db"}
    /\ failed # {} => "shutdown" \in timedOut
    /\ closedAt <= offered /\ \A i \in DOMAIN pending : pending[i] <= offered
    /\ stopped => closed /\ \A i \in DOMAIN pending : pending[i] > closedAt
    /\ ~loki => pending = <<>>
    /\ closer \in {"flush", "file", "closed"} /\ loki /\ "shutdown" \notin timedOut =>
          offered = closedAt
    /\ closer \in {"file", "closed"} /\ loki /\ timedOut = {} => stopped

(* What makes EnvIsTruthful inductive: a process that serves has written   *)
(* its own port, and --env, as long as no moment without a proxy went by,  *)
(* holds the port of the one that answers.                                 *)
EnvInv ==
    /\ main \notin {"down", "listen"} => port \in Ports
    /\ main \in {"ready", "serve"} => portfile = port
    /\ \A s \in Shells : shell[s] = "check" =>
          got[s] \in Ports /\ (gap[s] \/ (Answering /\ port = got[s]))
    /\ EnvIsTruthful
=============================================================================
