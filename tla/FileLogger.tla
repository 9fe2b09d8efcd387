----------------------------- MODULE FileLogger -----------------------------
(***************************************************************************)
(* The file logger (logger.go): one JSONL file per session, opened on the  *)
(* day of the session's first entry and kept open, shared by all request   *)
(* handlers.                                                               *)
(*                                                                         *)
(* A call LogSessionStart, LogRequest or LogResponse is several steps of   *)
(* its goroutine: registering the upstream or looking it up, getFile, and  *)
(* the write.  The mutex mu is held for registering, in getFile and for    *)
(* the write, never between them, and not for the lookup, which reads the  *)
(* map upstreams without it.  The upstream of a session is registered by   *)
(* its LogSessionStart alone and never changes, so a session names its     *)
(* directory and upstreams is the set of registered sessions.              *)
(***************************************************************************)
EXTENDS Integers, Sequences, FiniteSets

CONSTANTS
    Callers,      \* goroutines that log
    Sessions,     \* session IDs
    Nobody,       \* mu is free
    NoFile,       \* no open file
    MaxCalls,     \* bound of the model: calls of each goroutine
    MaxDay,       \* bound of the model: days that pass
    MaxLives,     \* bound of the model: times the process is started
    DiskErrors    \* TRUE if opening and writing files can fail

Days == 1..MaxDay
Files == Sessions \X Days
Kinds == {"session_start", "request", "response"}

\* A line of a file: the n-th call of a goroutine, and _meta.host.
Lines == [call : Callers \X Nat, kind : Kinds, session : Sessions, host : BOOLEAN, life : Nat]

ASSUME LoggerAssumption ==
    /\ Sessions # {}
    /\ MaxCalls \in Nat /\ MaxDay \in Nat \ {0} /\ MaxLives \in Nat \ {0}
    /\ DiskErrors \in BOOLEAN
    /\ Nobody \notin Callers
    /\ NoFile \notin Files

VARIABLES
    closed,       \* TRUE once Close has set the maps to nil
    upstreams,    \* sessions with a registered upstream
    files,        \* the open file of each session
    mu,           \* holder of the mutex
    at,           \* where each goroutine is in its call
    line,         \* the line it is logging
    handle,       \* the file getFile returned to it
    result,       \* what its call returned
    disk,         \* contents of the files
    today,        \* the date
    life          \* history: which run of the process this is

call == <<line, result>>
maps == <<closed, upstreams, files>>
world == <<disk, today, life>>
vars == <<maps, mu, at, call, handle, world>>

(* NewLogger.                                                              *)
Init ==
    /\ closed = FALSE /\ upstreams = {} /\ files = [s \in Sessions |-> NoFile]
    /\ mu = Nobody
    /\ at = [c \in Callers |-> "idle"]
    /\ line = [c \in Callers |-> [call |-> <<c, 0>>, kind |-> "request",
                                  session |-> CHOOSE s \in Sessions : TRUE,
                                  host |-> FALSE, life |-> 1]]
    /\ handle = [c \in Callers |-> NoFile]
    /\ result = [c \in Callers |-> "none"]
    /\ disk = [f \in Files |-> <<>>] /\ today = 1 /\ life = 1

(* A goroutine calls LogSessionStart, LogRequest or LogResponse.           *)
Call(c, kind, s) ==
    /\ at[c] = "idle" /\ line[c].call[2] < MaxCalls
    /\ at' = [at EXCEPT ![c] = IF kind = "session_start" THEN "register" ELSE "lookup"]
    /\ line' = [line EXCEPT ![c] = [call |-> <<c, @.call[2] + 1>>, kind |-> kind, session |-> s,
                                    host |-> kind = "session_start", life |-> life]]
    /\ UNCHANGED <<maps, mu, handle, result, world>>

Moves(c, from, to) == at[c] = from /\ at' = [at EXCEPT ![c] = to]

(* RegisterUpstream writes the map while it holds mu.                      *)
LockUpstreams(c) ==
    /\ Moves(c, "register", "registering")
    /\ mu = Nobody /\ mu' = c
    /\ UNCHANGED <<maps, call, handle, world>>

\* Mutants of RegisterUpstream: the wrong key; no unlock.
RegisterWrongKey(c) ==
    /\ Moves(c, "registering", "open")
    /\ upstreams' = IF closed THEN upstreams ELSE upstreams \cup {c}
    /\ mu' = Nobody
    /\ UNCHANGED <<closed, files, call, handle, world>>

RegisterKeepsLock(c) ==
    /\ Moves(c, "registering", "open")
    /\ upstreams' = IF closed THEN upstreams ELSE upstreams \cup {line[c].session}
    /\ UNCHANGED <<closed, files, mu, call, handle, world>>

RegisterUpstream(c) ==
    /\ Moves(c, "registering", "open")
    /\ upstreams' = IF closed THEN upstreams ELSE upstreams \cup {line[c].session}
    /\ mu' = Nobody
    /\ UNCHANGED <<closed, files, call, handle, world>>

(* Reading the map is not one step: another goroutine can be writing it.   *)
BeginLookup(c) ==
    /\ Moves(c, "lookup", "reading")
    /\ UNCHANGED <<maps, mu, call, handle, world>>

Racing(c) == at[c] = "reading" /\ \E d \in Callers : at[d] = "registering"

(* A read that races may find the entry being written or not.              *)
Lookup(c) ==
    /\ Moves(c, "reading", "open")
    /\ \E found \in BOOLEAN :
        /\ \/ found = (line[c].session \in upstreams)
           \/ Racing(c) /\ line[mu].session = line[c].session
        /\ line' = [line EXCEPT ![c].host = found]
    /\ UNCHANGED <<maps, mu, result, handle, world>>

Returns(c, r) == result' = [result EXCEPT ![c] = r] /\ UNCHANGED line

\* Mutant of UseFile: the path is computed for every line.
UseFileOfToday(c) ==
    LET s == line[c].session IN
    /\ Moves(c, "open", "write") /\ mu = Nobody
    /\ ~closed /\ files[s] # NoFile
    /\ handle' = [handle EXCEPT ![c] = <<s, today>>]
    /\ UNCHANGED <<maps, mu, call, world>>

(* getFile, one critical section: the open file of the session,            *)
UseFile(c) ==
    LET s == line[c].session IN
    /\ Moves(c, "open", "write") /\ mu = Nobody
    /\ ~closed /\ files[s] # NoFile
    /\ handle' = [handle EXCEPT ![c] = files[s]]
    /\ UNCHANGED <<maps, mu, call, world>>

\* Mutant of OpenFile: the file is not kept.
OpenFileUncached(c) ==
    LET s == line[c].session IN
    /\ Moves(c, "open", "write") /\ mu = Nobody
    /\ ~closed /\ files[s] = NoFile /\ s \in upstreams
    /\ handle' = [handle EXCEPT ![c] = <<s, today>>]
    /\ UNCHANGED <<maps, mu, call, world>>

(* or the file of this day, opened for append,                             *)
OpenFile(c) ==
    LET s == line[c].session IN
    /\ Moves(c, "open", "write") /\ mu = Nobody
    /\ ~closed /\ files[s] = NoFile /\ s \in upstreams
    /\ files' = [files EXCEPT ![s] = <<s, today>>]
    /\ handle' = [handle EXCEPT ![c] = <<s, today>>]
    /\ UNCHANGED <<closed, upstreams, mu, call, world>>

(* or an error: the logger is closed, the session not registered, or the   *)
(* file cannot be opened.                                                  *)
NoFileFor(c) ==
    LET s == line[c].session IN
    /\ Moves(c, "open", "returned") /\ mu = Nobody
    /\ closed \/ (files[s] = NoFile /\ (s \notin upstreams \/ DiskErrors))
    /\ Returns(c, "error")
    /\ UNCHANGED <<maps, mu, handle, world>>

GetFile(c) == UseFile(c) \/ OpenFile(c) \/ NoFileFor(c)

\* Mutants of WriteLine: the file is still open after Close; a line that was
\* written is written again.
WriteLineAnyway(c) ==
    /\ Moves(c, "write", "returned") /\ mu = Nobody
    /\ disk' = [disk EXCEPT ![handle[c]] = Append(@, line[c])]
    /\ Returns(c, "ok")
    /\ UNCHANGED <<maps, mu, handle, today, life>>

WriteLineAgain(c) ==
    /\ at[c] = "write" /\ mu = Nobody
    /\ ~closed
    /\ disk' = [disk EXCEPT ![handle[c]] = Append(@, line[c])]
    /\ Len(disk[handle[c]]) < 2
    /\ UNCHANGED <<maps, mu, at, call, handle, today, life>>

(* writeEntry: the line is appended, unless Close closed the file or the   *)
(* write fails.                                                            *)
WriteLine(c) ==
    /\ Moves(c, "write", "returned") /\ mu = Nobody
    /\ ~closed
    /\ disk' = [disk EXCEPT ![handle[c]] = Append(@, line[c])]
    /\ Returns(c, "ok")
    /\ UNCHANGED <<maps, mu, handle, today, life>>

\* Mutant of WriteFails: the error is lost.
WriteFailsSilently(c) ==
    /\ Moves(c, "write", "returned") /\ mu = Nobody
    /\ closed \/ DiskErrors
    /\ Returns(c, "ok")
    /\ UNCHANGED <<maps, mu, handle, world>>

WriteFails(c) ==
    /\ Moves(c, "write", "returned") /\ mu = Nobody
    /\ closed \/ DiskErrors
    /\ Returns(c, "error")
    /\ UNCHANGED <<maps, mu, handle, world>>

WriteEntry(c) == WriteLine(c) \/ WriteFails(c)

(* The call returns to the caller.                                         *)
Return(c) ==
    /\ Moves(c, "returned", "idle")
    /\ handle' = [handle EXCEPT ![c] = NoFile]
    /\ result' = [result EXCEPT ![c] = "none"]
    /\ UNCHANGED <<maps, mu, line, world>>

Close ==
    /\ mu = Nobody
    /\ ~closed
    /\ closed' = TRUE /\ upstreams' = {} /\ files' = [s \in Sessions |-> NoFile]
    /\ UNCHANGED <<mu, at, call, handle, world>>

(* The process ends, however, and is started again: NewLogger.             *)
Restart ==
    /\ life < MaxLives
    /\ life' = life + 1
    /\ closed' = FALSE /\ upstreams' = {} /\ files' = [s \in Sessions |-> NoFile]
    /\ mu' = Nobody
    /\ at' = [c \in Callers |-> "idle"]
    /\ handle' = [c \in Callers |-> NoFile]
    /\ result' = [c \in Callers |-> "none"]
    /\ UNCHANGED <<line, disk, today>>

(* The Go runtime detects a map that is read while it is written and ends  *)
(* the process; no handler can recover from that.                          *)
FatalRace == (\E c \in Callers : Racing(c)) /\ Restart

Midnight ==
    /\ today < MaxDay
    /\ today' = today + 1
    /\ UNCHANGED <<maps, mu, at, call, handle, disk, life>>

Step(c) ==
    \/ LockUpstreams(c) \/ RegisterUpstream(c) \/ BeginLookup(c) \/ Lookup(c)
    \/ GetFile(c) \/ WriteEntry(c)

Next ==
    \/ \E c \in Callers :
        \/ \E k \in Kinds, s \in Sessions : Call(c, k, s)
        \/ Step(c)
        \/ Return(c)
    \/ Close \/ Restart \/ FatalRace \/ Midnight

Spec == Init /\ [][Next]_vars

-----------------------------------------------------------------------------
(* Properties                                                              *)

(* Type invariant: maps, calls under way and files in their ranges.        *)
TypeOK ==
    /\ closed \in BOOLEAN
    /\ upstreams \subseteq Sessions
    /\ files \in [Sessions -> Files \cup {NoFile}]
    /\ mu \in Callers \cup {Nobody}
    /\ at \in [Callers -> {"idle", "register", "registering", "lookup", "reading",
                           "open", "write", "returned"}]
    /\ line \in [Callers -> Lines]
    /\ handle \in [Callers -> Files \cup {NoFile}]
    /\ result \in [Callers -> {"none", "ok", "error"}]
    /\ disk \in [Files -> Seq(Lines)]
    /\ today \in Days /\ life \in 1..MaxLives

OnDisk(f) == {disk[f][i] : i \in DOMAIN disk[f]}

(* The entries of a session lie in its own directory and, as long as the   *)
(* process runs, in one file, whatever happens at midnight: a reader of    *)
(* the file has the whole conversation.                                    *)
OneFilePerLife ==
    \A f, g \in Files : \A x \in OnDisk(f), y \in OnDisk(g) :
        /\ x.session = f[1]
        /\ (x.session = y.session /\ x.life = y.life) => f = g

(* A session's files, read by date, hold the lines of each goroutine in    *)
(* the order in which it logged them, none of them twice: a request is     *)
(* never behind its response, across midnight and restarts.                *)
CallsInOrder ==
    \A s \in Sessions : \A d, e \in Days :
        \A i \in DOMAIN disk[<<s, d>>], j \in DOMAIN disk[<<s, e>>] :
            LET x == disk[<<s, d>>][i].call
                y == disk[<<s, e>>][j].call
            IN (x[1] = y[1] /\ (d < e \/ (d = e /\ i < j))) => x[2] < y[2]

(* What a call returns is true: after nil its line is on disk, after an    *)
(* error it is not.                                                        *)
ResultsAreTrue ==
    \A c \in Callers : at[c] = "returned" =>
        LET written == \E f \in Files : line[c] \in OnDisk(f) IN
        (result[c] = "ok" <=> written)

(* Once Close has returned no line is written, even by a call that had its *)
(* file already.                                                           *)
QuietAfterClose == [][closed => disk' = disk]_vars

(* "Use `sync.Mutex` for protecting shared maps" (patterns.md): no         *)
(* goroutine reads upstreams while another writes it.                      *)
NoDataRace == \A c \in Callers : ~Racing(c)

-----------------------------------------------------------------------------
(* What makes OneFilePerLife inductive: an open file and a handle obtained *)
(* in this life are the only file the session has written in this life.    *)
FileInv ==
    /\ \A s \in Sessions : files[s] # NoFile => files[s][1] = s
    /\ \A c \in Callers : at[c] = "write" =>
         /\ handle[c] # NoFile /\ handle[c][1] = line[c].session
         /\ line[c].life = life
         /\ ~closed => files[line[c].session] = handle[c]
    /\ \A c \in Callers : at[c] # "idle" => line[c].life = life
    /\ \A f \in Files : \A x \in OnDisk(f) :
         /\ x.session = f[1] /\ x.life <= life
         /\ (x.life = life /\ ~closed) => files[f[1]] = f
    /\ OneFilePerLife
=============================================================================
