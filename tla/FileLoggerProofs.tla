-------------------------- MODULE FileLoggerProofs --------------------------
(***************************************************************************)
(* Proofs about the file logger, for any number of goroutines, sessions,   *)
(* calls, days and lives of the process.                                   *)
(***************************************************************************)
EXTENDS FileLogger, SequenceTheorems, TLAPS

\* Appending a line adds that line to the lines of the file and no other.
LEMMA LinesAfterAppend ==
    ASSUME NEW q \in Seq(Lines), NEW x \in Lines
    PROVE  /\ Append(q, x) \in Seq(Lines)
           /\ {Append(q, x)[i] : i \in DOMAIN Append(q, x)}
                = {q[i] : i \in DOMAIN q} \cup {x}
<1>1. /\ Append(q, x) \in Seq(Lines) /\ Len(q) \in Nat
      /\ Len(Append(q, x)) = Len(q) + 1
      /\ \A i \in 1..Len(q) : Append(q, x)[i] = q[i]
      /\ Append(q, x)[Len(q) + 1] = x
  BY AppendProperties, LenProperties
<1>2. DOMAIN q = 1..Len(q) /\ DOMAIN Append(q, x) = 1..(Len(q) + 1)
  BY <1>1, LenProperties
<1>3. \A i \in 1..(Len(q) + 1) : i \in 1..Len(q) \/ i = Len(q) + 1
  BY <1>1
<1>4. \A i \in 1..Len(q) : i \in 1..(Len(q) + 1)
  BY <1>1
<1>5. Len(q) + 1 \in 1..(Len(q) + 1)
  BY <1>1
<1> QED
  BY <1>1, <1>2, <1>3, <1>4, <1>5

\* A call replaces the line of its goroutine by a line.
LEMMA CallType ==
    ASSUME TypeOK, NEW c \in Callers, NEW k \in Kinds, NEW s \in Sessions, Call(c, k, s)
    PROVE  /\ line' \in [Callers -> Lines]
           /\ line'[c].session = s /\ line'[c].life = life
           /\ \A d \in Callers \ {c} : line'[d] = line[d]
<1> DEFINE new == [call |-> <<c, line[c].call[2] + 1>>, kind |-> k, session |-> s,
                   host |-> (k = "session_start"), life |-> life]
<1>1. line[c].call \in Callers \X Nat
  BY DEF TypeOK, Lines
<1>2. <<c, line[c].call[2] + 1>> \in Callers \X Nat
  BY <1>1
<1>3. new \in Lines
  <2>1. (k = "session_start") \in BOOLEAN /\ life \in Nat
    BY LoggerAssumption DEF TypeOK
  <2> QED
    BY <1>2, <2>1 DEF Lines
<1>4. line' = [line EXCEPT ![c] = new]
  BY DEF Call
<1> HIDE DEF new
<1>5. new.session = s /\ new.life = life
  BY DEF new
<1> QED
  BY <1>3, <1>4, <1>5 DEF TypeOK

\* A lookup changes nothing of a line but its host.
LEMMA LookupType ==
    ASSUME TypeOK, NEW c \in Callers, Lookup(c)
    PROVE  /\ line' \in [Callers -> Lines]
           /\ \A d \in Callers : line'[d].session = line[d].session /\ line'[d].life = line[d].life
<1>1. PICK found \in BOOLEAN : line' = [line EXCEPT ![c].host = found]
  BY DEF Lookup
<1> DEFINE new == [line[c] EXCEPT !.host = found]
<1>2. new \in Lines /\ new.session = line[c].session /\ new.life = line[c].life
  BY DEF TypeOK, Lines
<1>3. line' = [line EXCEPT ![c] = new]
  BY <1>1
<1> HIDE DEF new
<1> QED
  BY <1>2, <1>3 DEF TypeOK

(* The type invariant of the logger (logger.go).                           *)
THEOREM TypeCorrect == Spec => []TypeOK
<1>1. Init => TypeOK
  <2> SUFFICES ASSUME Init PROVE TypeOK
    OBVIOUS
  <2> DEFINE first(c) == [call |-> <<c, 0>>, kind |-> "request",
                          session |-> CHOOSE s \in Sessions : TRUE,
                          host |-> FALSE, life |-> 1]
  <2>1. (CHOOSE s \in Sessions : TRUE) \in Sessions
    BY LoggerAssumption
  <2>2. \A c \in Callers : first(c) \in Lines
    BY <2>1 DEF Lines, Kinds
  <2>3. line = [c \in Callers |-> first(c)]
    BY DEF Init
  <2> HIDE DEF first
  <2>4. line \in [Callers -> Lines]
    BY <2>2, <2>3
  <2>5. <<>> \in Seq(Lines)
    BY EmptySeq
  <2>6. 1 \in Days /\ 1 \in 1..MaxLives
    BY LoggerAssumption DEF Days
  <2>7. disk \in [Files -> Seq(Lines)] /\ today \in Days /\ life \in 1..MaxLives
    BY <2>5, <2>6 DEF Init
  <2>8. /\ closed \in BOOLEAN /\ upstreams \subseteq Sessions /\ mu = Nobody
        /\ files \in [Sessions -> Files \cup {NoFile}]
        /\ at \in [Callers -> {"idle"}] /\ handle \in [Callers -> {NoFile}]
        /\ result \in [Callers -> {"none"}]
    BY DEF Init
  <2> QED
    BY <2>4, <2>7, <2>8 DEF TypeOK
<1>2. ASSUME TypeOK, [Next]_vars
      PROVE  TypeOK'
  <2> USE DEF TypeOK
  <2>1. ASSUME NEW c \in Callers, NEW k \in Kinds, NEW s \in Sessions, Call(c, k, s)
        PROVE  TypeOK'
    <3>1. line' \in [Callers -> Lines]
      BY <1>2, <2>1, CallType
    <3> QED
      BY <1>2, <2>1, <3>1 DEF Call, maps, world
  <2>2. ASSUME NEW c \in Callers, LockUpstreams(c)
        PROVE  TypeOK'
    BY <1>2, <2>2 DEF LockUpstreams, Moves, maps, call, world
  <2>3. ASSUME NEW c \in Callers, RegisterUpstream(c)
        PROVE  TypeOK'
    <3>1. line[c].session \in Sessions
      BY <1>2 DEF Lines
    <3> QED
      BY <1>2, <2>3, <3>1 DEF RegisterUpstream, Moves, call, world
  <2>4. ASSUME NEW c \in Callers, BeginLookup(c)
        PROVE  TypeOK'
    BY <1>2, <2>4 DEF BeginLookup, Moves, maps, call, world
  <2>5. ASSUME NEW c \in Callers, Lookup(c)
        PROVE  TypeOK'
    <3>1. line' \in [Callers -> Lines]
      BY <1>2, <2>5, LookupType
    <3> QED
      BY <1>2, <2>5, <3>1 DEF Lookup, Moves, maps, world
  <2>6. ASSUME NEW c \in Callers, GetFile(c)
        PROVE  TypeOK'
    <3>1. line[c].session \in Sessions /\ <<line[c].session, today>> \in Files
      BY <1>2 DEF Lines, Files
    <3>2. CASE UseFile(c)
      BY <1>2, <3>1, <3>2 DEF UseFile, Moves, maps, call, world
    <3>3. CASE OpenFile(c)
      BY <1>2, <3>1, <3>3 DEF OpenFile, Moves, call, world
    <3>4. CASE NoFileFor(c)
      BY <1>2, <3>4 DEF NoFileFor, Moves, Returns, maps, world
    <3> QED
      BY <2>6, <3>2, <3>3, <3>4 DEF GetFile
  <2>7. ASSUME NEW c \in Callers, WriteEntry(c)
        PROVE  TypeOK'
    <3>1. CASE WriteLine(c)
      <4>1. line[c] \in Lines /\ disk \in [Files -> Seq(Lines)]
        BY <1>2
      <4>2. \A f \in Files : Append(disk[f], line[c]) \in Seq(Lines)
        BY <4>1, LinesAfterAppend
      <4>3. disk' \in [Files -> Seq(Lines)]
        BY <3>1, <4>1, <4>2 DEF WriteLine
      <4> QED
        BY <1>2, <3>1, <4>3 DEF WriteLine, Moves, Returns, maps
    <3>2. CASE WriteFails(c)
      BY <1>2, <3>2 DEF WriteFails, Moves, Returns, maps, world
    <3> QED
      BY <2>7, <3>1, <3>2 DEF WriteEntry
  <2>8. ASSUME NEW c \in Callers, Return(c)
        PROVE  TypeOK'
    BY <1>2, <2>8 DEF Return, Moves, maps, world
  <2>9. CASE Close
    BY <1>2, <2>9 DEF Close, call, world
  <2>10. CASE Restart \/ FatalRace
    <3>1. Restart
      BY <2>10 DEF FatalRace
    <3>2. life' \in 1..MaxLives
      BY <1>2, <3>1, LoggerAssumption DEF Restart
    <3> QED
      BY <1>2, <3>1, <3>2 DEF Restart
  <2>11. CASE Midnight
    BY <1>2, <2>11, LoggerAssumption DEF Midnight, Days, maps, call
  <2>12. CASE UNCHANGED vars
    BY <1>2, <2>12 DEF vars, maps, call, world
  <2> QED
    BY <1>2, <2>1, <2>2, <2>3, <2>4, <2>5, <2>6, <2>7, <2>8, <2>9, <2>10, <2>11, <2>12
       DEF Next, Step
<1> QED
  BY <1>1, <1>2, PTL DEF Spec

-----------------------------------------------------------------------------
(* The steps that leave the lines and the open files of a session alone.   *)
SameFiles ==
    /\ UNCHANGED <<closed, files, disk, life>>
    /\ \A c \in Callers :
         /\ line'[c].session = line[c].session /\ line'[c].life = line[c].life
         /\ handle'[c] = handle[c] \/ at'[c] # "write"
         /\ at'[c] # "idle" => at[c] # "idle"
         /\ at'[c] = "write" => at[c] = "write"

LEMMA SameFilesStep ==
    ASSUME TypeOK, FileInv, SameFiles
    PROVE  FileInv'
<1>1. \A f \in Files : OnDisk(f)' = OnDisk(f)
  BY DEF SameFiles, OnDisk
<1> QED
  BY <1>1 DEF FileInv, OneFilePerLife, SameFiles

LEMMA FileStep ==
    ASSUME TypeOK, FileInv, [Next]_vars
    PROVE  FileInv'
<1>1. ASSUME NEW c \in Callers, NEW k \in Kinds, NEW s \in Sessions, Call(c, k, s)
      PROVE  FileInv'
  <2>1. /\ line'[c].session = s /\ line'[c].life = life /\ at'[c] # "write"
        /\ \A d \in Callers \ {c} : line'[d] = line[d] /\ at'[d] = at[d]
    BY <1>1, CallType DEF Call, TypeOK
  <2>2. UNCHANGED <<closed, files, handle, disk, life>>
    BY <1>1 DEF Call, maps, world
  <2>3. \A f \in Files : OnDisk(f)' = OnDisk(f)
    BY <2>2 DEF OnDisk
  <2> QED
    BY <2>1, <2>2, <2>3 DEF FileInv, OneFilePerLife
<1>2. ASSUME NEW c \in Callers,
             LockUpstreams(c) \/ RegisterUpstream(c) \/ BeginLookup(c) \/ Lookup(c)
                 \/ NoFileFor(c) \/ WriteFails(c) \/ Return(c)
      PROVE  FileInv'
  <2>1. CASE LockUpstreams(c) \/ BeginLookup(c)
    BY <2>1, SameFilesStep DEF LockUpstreams, BeginLookup, Moves, maps, call, world, SameFiles, TypeOK
  <2>2. CASE RegisterUpstream(c)
    BY <2>2, SameFilesStep DEF RegisterUpstream, Moves, call, world, SameFiles, TypeOK
  <2>3. CASE Lookup(c)
    BY <2>3, SameFilesStep, LookupType DEF Lookup, Moves, maps, world, SameFiles, TypeOK
  <2>4. CASE NoFileFor(c) \/ WriteFails(c)
    BY <2>4, SameFilesStep
       DEF NoFileFor, WriteFails, Moves, Returns, maps, world, SameFiles, TypeOK
  <2>5. CASE Return(c)
    BY <2>5, SameFilesStep DEF Return, Moves, maps, world, SameFiles, TypeOK
  <2> QED
    BY <1>2, <2>1, <2>2, <2>3, <2>4, <2>5
<1>3. ASSUME NEW c \in Callers, UseFile(c)
      PROVE  FileInv'
  <2> DEFINE s == line[c].session
  <2>1. /\ s \in Sessions /\ files[s] \in Files /\ files[s][1] = s
    BY <1>3 DEF UseFile, FileInv, TypeOK, Lines
  <2>2. /\ UNCHANGED <<closed, files, line, disk, life>>
        /\ handle' = [handle EXCEPT ![c] = files[s]]
        /\ at' = [at EXCEPT ![c] = "write"] /\ at[c] = "open"
    BY <1>3 DEF UseFile, Moves, maps, call, world
  <2>3. \A f \in Files : OnDisk(f)' = OnDisk(f)
    BY <2>2 DEF OnDisk
  <2>4. files[s] # NoFile
    BY <2>1, LoggerAssumption
  <2> QED
    BY <2>1, <2>2, <2>3, <2>4 DEF FileInv, OneFilePerLife, TypeOK
<1>4. ASSUME NEW c \in Callers, OpenFile(c)
      PROVE  FileInv'
  <2> DEFINE s == line[c].session
             f == <<s, today>>
  <2>1. s \in Sessions /\ f \in Files /\ f[1] = s /\ f # NoFile
    BY LoggerAssumption DEF TypeOK, Lines, Files
  <2>2. /\ UNCHANGED <<closed, line, disk, life>> /\ ~closed /\ files[s] = NoFile
        /\ files' = [files EXCEPT ![s] = f]
        /\ handle' = [handle EXCEPT ![c] = f]
        /\ at' = [at EXCEPT ![c] = "write"] /\ at[c] = "open"
    BY <1>4 DEF OpenFile, Moves, call, world
  <2>3. \A g \in Files : OnDisk(g)' = OnDisk(g)
    BY <2>2 DEF OnDisk
  <2> HIDE DEF f, s
  <2>4. /\ files'[s] = f /\ \A t \in Sessions \ {s} : files'[t] = files[t]
        /\ handle'[c] = f /\ \A d \in Callers \ {c} : handle'[d] = handle[d] /\ at'[d] = at[d]
    BY <2>1, <2>2 DEF TypeOK
  <2>5. \A d \in Callers \ {c} : at[d] = "write" => line[d].session # s
    BY <2>2 DEF FileInv
  <2>6. \A g \in Files : \A x \in OnDisk(g) : x.life = life => g[1] # s
    <3>1. \A g \in Files : g # NoFile
      BY LoggerAssumption
    <3> QED
      BY <2>1, <2>2, <3>1 DEF FileInv
  <2> QED
    BY <2>1, <2>2, <2>3, <2>4, <2>5, <2>6 DEF FileInv, OneFilePerLife, TypeOK, s
<1>5. ASSUME NEW c \in Callers, WriteLine(c)
      PROVE  FileInv'
  <2> DEFINE h == handle[c]
             x == line[c]
  <2>1. /\ h \in Files /\ h[1] = x.session /\ x \in Lines /\ x.life = life
        /\ files[x.session] = h /\ ~closed
    BY <1>5 DEF WriteLine, Moves, FileInv, TypeOK
  <2>2. /\ UNCHANGED <<closed, files, handle, line, life>>
        /\ at' = [at EXCEPT ![c] = "returned"] /\ at[c] = "write"
        /\ disk' = [disk EXCEPT ![h] = Append(@, x)]
    BY <1>5 DEF WriteLine, Moves, Returns, maps
  <2> HIDE DEF h, x
  <2>3. \A g \in Files \ {h} : OnDisk(g)' = OnDisk(g)
    BY <2>1, <2>2 DEF OnDisk, TypeOK
  <2>4. \A g \in Files : \A y \in OnDisk(g)' : y \in OnDisk(g) \/ (g = h /\ y = x)
    <3>1. ASSUME NEW g \in Files, NEW y \in OnDisk(g)', g = h
          PROVE  y \in OnDisk(g) \/ y = x
      <4>1. y \in {disk'[h][i] : i \in DOMAIN disk'[h]}
        BY <3>1 DEF OnDisk
      <4>2. disk[h] \in Seq(Lines) /\ disk'[h] = Append(disk[h], x)
        BY <2>1, <2>2 DEF TypeOK
      <4>3. y \in {disk[h][i] : i \in DOMAIN disk[h]} \cup {x}
        BY <2>1, <4>1, <4>2, LinesAfterAppend
      <4> QED
        BY <3>1, <4>3 DEF OnDisk
    <3> QED
      BY <2>3, <3>1
  <2>5. \A g \in Files : \A y \in OnDisk(g) :
           /\ y.session = g[1] /\ y.life <= life
           /\ (y.session = x.session /\ y.life = life) => g = h
    BY <2>1 DEF FileInv
  <2>6. OneFilePerLife'
    BY <2>1, <2>4, <2>5 DEF FileInv, OneFilePerLife
  <2>7. life <= life
    BY LoggerAssumption DEF TypeOK
  <2>8. \A g \in Files : \A y \in OnDisk(g)' :
           /\ y.session = g[1] /\ y.life <= life
           /\ (y.life = life /\ ~closed) => files[g[1]] = g
    BY <2>1, <2>4, <2>7 DEF FileInv
  <2> QED
    BY <2>2, <2>6, <2>8 DEF FileInv, TypeOK
<1>6. CASE Close
  <2>1. \A f \in Files : OnDisk(f)' = OnDisk(f)
    BY <1>6 DEF Close, world, OnDisk
  <2> QED
    BY <1>6, <2>1 DEF Close, call, world, FileInv, OneFilePerLife
<1>7. CASE Restart \/ FatalRace
  <2>1. Restart
    BY <1>7 DEF FatalRace
  <2>2. \A f \in Files : OnDisk(f)' = OnDisk(f)
    BY <2>1 DEF Restart, OnDisk
  <2>3. life \in Nat /\ life' = life + 1
    BY <2>1, LoggerAssumption DEF Restart, TypeOK
  <2>4. \A f \in Files : \A x \in OnDisk(f) : x.life \in Nat /\ x.life <= life
    <3>1. ASSUME NEW f \in Files, NEW x \in OnDisk(f)
          PROVE  x.life \in Nat
      <4>1. disk[f] \in Seq(Lines)
        BY DEF TypeOK
      <4>2. PICK i \in DOMAIN disk[f] : x = disk[f][i]
        BY DEF OnDisk
      <4>3. x \in Lines
        BY <4>1, <4>2, ElementOfSeq, LenProperties
      <4> QED
        BY <4>3 DEF Lines
    <3> QED
      BY <3>1 DEF FileInv
  <2>5. \A f \in Files : \A x \in OnDisk(f) : x.life <= life' /\ x.life # life'
    BY <2>3, <2>4
  <2> QED
    BY <2>1, <2>2, <2>5 DEF Restart, FileInv, OneFilePerLife
<1>8. CASE Midnight \/ UNCHANGED vars
  BY <1>8, SameFilesStep DEF Midnight, vars, maps, call, world, SameFiles
<1> QED
  BY <1>1, <1>2, <1>3, <1>4, <1>5, <1>6, <1>7, <1>8 DEF Next, Step, GetFile, WriteEntry

LEMMA FileInvHolds == Spec => []FileInv
<1>1. Init => FileInv
  <2> SUFFICES ASSUME Init PROVE FileInv
    OBVIOUS
  <2>1. \A f \in Files : OnDisk(f) = {}
    BY EmptySeq DEF Init, OnDisk
  <2> QED
    BY <2>1 DEF Init, FileInv, OneFilePerLife
<1> QED
  BY <1>1, FileStep, TypeCorrect, PTL DEF Spec

(* Midnight never splits a conversation (logger.go, getFile): the lines a  *)
(* process writes for a session are in one file of the session's own.      *)
THEOREM OneFilePerLifeHolds == Spec => []OneFilePerLife
<1>1. FileInv => OneFilePerLife
  BY DEF FileInv
<1> QED
  BY <1>1, FileInvHolds, PTL

(* Nothing is written once Close has returned (logger.go, Close): a        *)
(* handler that has its file already gets an error.                        *)
THEOREM QuietAfterCloseHolds == Spec => QuietAfterClose
<1>1. TypeOK /\ [Next]_vars => [closed => disk' = disk]_vars
  BY DEF Next, Step, Call, LockUpstreams, RegisterUpstream, BeginLookup, Lookup, GetFile,
         UseFile, OpenFile, NoFileFor, WriteEntry, WriteLine, WriteFails, Return, Close,
         Restart, FatalRace, Midnight, maps, call, world
<1> QED
  BY <1>1, TypeCorrect, PTL DEF Spec, QuietAfterClose

-----------------------------------------------------------------------------
(* The call is under way or has failed: its line is on no disk.            *)
Unwritten(c) == at[c] # "idle" /\ ~(at[c] = "returned" /\ result[c] = "ok")

(* What makes CallsInOrder inductive: no line on disk is ahead of its      *)
(* goroutine, a line not yet written is ahead of all of its goroutine, and *)
(* the open file of a session is the latest it has written.                *)
OrderInv ==
    /\ \A c \in Callers : line[c].call[1] = c
    /\ \A f \in Files : \A x \in OnDisk(f) :
         /\ x.call[2] <= line[x.call[1]].call[2]
         /\ Unwritten(x.call[1]) => x.call[2] # line[x.call[1]].call[2]
         /\ f[2] <= today
         /\ files[f[1]] # NoFile => f[2] <= files[f[1]][2]
    /\ \A c \in Callers : at[c] = "returned" =>
         /\ result[c] \in {"ok", "error"}
         /\ result[c] = "ok" => \E f \in Files : line[c] \in OnDisk(f)
    /\ \A s \in Sessions : files[s] # NoFile => files[s][2] <= today
    /\ CallsInOrder

\* What is on disk are lines.
LEMMA DiskLines ==
    ASSUME TypeOK, NEW f \in Files, NEW x \in OnDisk(f)
    PROVE  x \in Lines /\ x.call[1] \in Callers /\ x.call[2] \in Nat
<1>1. disk[f] \in Seq(Lines)
  BY DEF TypeOK
<1>2. PICK i \in DOMAIN disk[f] : x = disk[f][i]
  BY DEF OnDisk
<1>3. x \in Lines
  BY <1>1, <1>2, ElementOfSeq, LenProperties
<1>4. x.call \in Callers \X Nat
  BY <1>3 DEF Lines
<1> QED
  BY <1>3, <1>4

(* The steps that write nothing, open nothing and begin no call.           *)
SameOrder ==
    /\ UNCHANGED disk /\ (today' = today \/ today' = today + 1)
    /\ files' = files \/ \A s \in Sessions : files'[s] = NoFile
    /\ \A c \in Callers :
         /\ line'[c].call = line[c].call
         /\ Unwritten(c)' => Unwritten(c)
         /\ at'[c] = "returned" =>
              \/ result'[c] = "error"
              \/ at[c] = "returned" /\ result'[c] = result[c] /\ line'[c] = line[c]

LEMMA SameOrderStep ==
    ASSUME TypeOK, OrderInv, SameOrder
    PROVE  OrderInv'
<1>1. \A f \in Files : OnDisk(f)' = OnDisk(f)
  BY DEF SameOrder, OnDisk
<1>2. CallsInOrder'
  BY DEF OrderInv, CallsInOrder, SameOrder
<1>3. ASSUME NEW f \in Files, NEW x \in OnDisk(f)
      PROVE  /\ x.call[2] <= line'[x.call[1]].call[2]
             /\ Unwritten(x.call[1])' => x.call[2] # line'[x.call[1]].call[2]
             /\ f[2] <= today'
             /\ files'[f[1]] # NoFile => f[2] <= files'[f[1]][2]
  <2>1. x.call[1] \in Callers
    BY <1>3, DiskLines
  <2>2. f[1] \in Sessions /\ f[2] \in Int /\ today \in Int
    BY DEF Files, Days, TypeOK
  <2>3. /\ x.call[2] <= line[x.call[1]].call[2]
        /\ Unwritten(x.call[1]) => x.call[2] # line[x.call[1]].call[2]
        /\ f[2] <= today
        /\ files[f[1]] # NoFile => f[2] <= files[f[1]][2]
    BY <1>3 DEF OrderInv
  <2>4. f[2] <= today'
    BY <2>2, <2>3 DEF SameOrder
  <2>5. files'[f[1]] # NoFile => f[2] <= files'[f[1]][2]
    BY <2>2, <2>3 DEF SameOrder
  <2> QED
    BY <2>1, <2>3, <2>4, <2>5 DEF SameOrder
<1>4. ASSUME NEW c \in Callers, at'[c] = "returned"
      PROVE  /\ result'[c] \in {"ok", "error"}
             /\ result'[c] = "ok" => \E f \in Files : line'[c] \in OnDisk(f)
  BY <1>4 DEF OrderInv, SameOrder
<1>5. \A c \in Callers : line'[c].call[1] = c
  BY DEF OrderInv, SameOrder
<1>6. ASSUME NEW s \in Sessions, files'[s] # NoFile
      PROVE  files'[s][2] <= today'
  <2>1. files[s] \in Files /\ files'[s] = files[s] /\ files[s][2] <= today
    BY <1>6 DEF SameOrder, OrderInv, TypeOK
  <2>2. files[s][2] \in Int /\ today \in Int
    BY <2>1 DEF Files, Days, TypeOK
  <2> QED
    BY <2>1, <2>2 DEF SameOrder
<1> QED
  BY <1>1, <1>2, <1>3, <1>4, <1>5, <1>6 DEF OrderInv

LEMMA OrderStep ==
    ASSUME TypeOK, FileInv, OrderInv, [Next]_vars
    PROVE  OrderInv'
<1>1. ASSUME NEW c \in Callers, NEW k \in Kinds, NEW s \in Sessions, Call(c, k, s)
      PROVE  OrderInv'
  <2>1. line[c].call \in Callers \X Nat
    BY DEF TypeOK, Lines
  <2>2. line' = [line EXCEPT ![c] = [call |-> <<c, @.call[2] + 1>>, kind |-> k, session |-> s,
                                     host |-> k = "session_start", life |-> life]]
    BY <1>1 DEF Call
  <2>3. line'[c].call[1] = c /\ line'[c].call[2] = line[c].call[2] + 1
    BY <2>2 DEF TypeOK
  <2>4. /\ \A d \in Callers \ {c} : line'[d] = line[d] /\ at'[d] = at[d]
        /\ at'[c] # "returned"
    BY <1>1, <2>2 DEF Call, TypeOK
  <2>5. UNCHANGED <<disk, files, today, result>>
    BY <1>1 DEF Call, maps, world
  <2>6. \A f \in Files : OnDisk(f)' = OnDisk(f)
    BY <2>5 DEF OnDisk
  <2>7. ASSUME NEW f \in Files, NEW x \in OnDisk(f)
        PROVE  /\ x.call[2] <= line'[x.call[1]].call[2]
               /\ Unwritten(x.call[1])' => x.call[2] # line'[x.call[1]].call[2]
    <3>1. x.call[1] \in Callers /\ x.call[2] \in Nat
      BY <2>7, DiskLines
    <3>2. /\ x.call[2] <= line[x.call[1]].call[2]
          /\ Unwritten(x.call[1]) => x.call[2] # line[x.call[1]].call[2]
      BY <2>7 DEF OrderInv
    <3>3. CASE x.call[1] = c
      <4>1. \A m, n \in Nat : m <= n => m <= n + 1 /\ m # n + 1
        OBVIOUS
      <4> QED
        BY <2>1, <2>3, <3>1, <3>2, <3>3, <4>1
    <3>4. CASE x.call[1] # c
      BY <2>4, <2>5, <3>1, <3>2, <3>4 DEF Unwritten
    <3> QED
      BY <3>3, <3>4
  <2>8. CallsInOrder'
    BY <2>5 DEF OrderInv, CallsInOrder
  <2>9. /\ \A d \in Callers : line'[d].call[1] = d
        /\ \A d \in Callers : at'[d] = "returned" =>
             /\ result'[d] \in {"ok", "error"}
             /\ result'[d] = "ok" => \E f \in Files : line'[d] \in OnDisk(f)
    BY <2>3, <2>4, <2>5 DEF OrderInv
  <2>10. /\ \A f \in Files : \A x \in OnDisk(f) :
              f[2] <= today /\ (files[f[1]] # NoFile => f[2] <= files[f[1]][2])
         /\ \A t \in Sessions : files[t] # NoFile => files[t][2] <= today
    BY DEF OrderInv
  <2> QED
    BY <2>5, <2>6, <2>7, <2>8, <2>9, <2>10 DEF OrderInv
<1>2. ASSUME NEW c \in Callers,
             LockUpstreams(c) \/ RegisterUpstream(c) \/ BeginLookup(c) \/ Lookup(c)
                 \/ UseFile(c) \/ NoFileFor(c) \/ WriteFails(c) \/ Return(c)
      PROVE  OrderInv'
  <2>1. CASE LockUpstreams(c) \/ BeginLookup(c) \/ UseFile(c)
    BY <2>1, SameOrderStep
       DEF LockUpstreams, BeginLookup, UseFile, Moves, maps, call, world, SameOrder, TypeOK, Unwritten
  <2>2. CASE RegisterUpstream(c)
    BY <2>2, SameOrderStep DEF RegisterUpstream, Moves, call, world, SameOrder, TypeOK, Unwritten
  <2>3. CASE Lookup(c)
    <3>1. /\ UNCHANGED <<disk, today, files, result>>
          /\ at' = [at EXCEPT ![c] = "open"] /\ at[c] = "reading"
      BY <2>3 DEF Lookup, Moves, maps, world
    <3>2. PICK found \in BOOLEAN : line' = [line EXCEPT ![c].host = found]
      BY <2>3 DEF Lookup
    <3>3. /\ \A d \in Callers : line'[d].call = line[d].call
          /\ \A d \in Callers \ {c} : line'[d] = line[d]
      BY <3>2 DEF TypeOK, Lines
    <3> QED
      BY <3>1, <3>3, SameOrderStep DEF SameOrder, TypeOK, Unwritten
  <2>4. CASE NoFileFor(c) \/ WriteFails(c)
    BY <2>4, SameOrderStep
       DEF NoFileFor, WriteFails, Moves, Returns, maps, world, SameOrder, TypeOK, Unwritten
  <2>5. CASE Return(c)
    BY <2>5, SameOrderStep DEF Return, Moves, maps, world, SameOrder, TypeOK, Unwritten
  <2> QED
    BY <1>2, <2>1, <2>2, <2>3, <2>4, <2>5
<1>3. ASSUME NEW c \in Callers, OpenFile(c)
      PROVE  OrderInv'
  <2> DEFINE s == line[c].session
  <2>1. s \in Sessions
    BY DEF TypeOK, Lines
  <2>2. /\ UNCHANGED <<disk, line, today, result>>
        /\ files' = [files EXCEPT ![s] = <<s, today>>]
        /\ at' = [at EXCEPT ![c] = "write"] /\ at[c] = "open"
    BY <1>3 DEF OpenFile, Moves, call, world
  <2>3. \A f \in Files : OnDisk(f)' = OnDisk(f)
    BY <2>2 DEF OnDisk
  <2>4. CallsInOrder'
    BY <2>2 DEF OrderInv, CallsInOrder
  <2>5. files'[s][2] = today /\ \A t \in Sessions \ {s} : files'[t] = files[t]
    BY <2>1, <2>2 DEF TypeOK
  <2>6. \A d \in Callers : Unwritten(d)' => Unwritten(d)
    BY <2>2 DEF Unwritten, TypeOK
  <2>7. \A d \in Callers : at'[d] = "returned" => at[d] = "returned"
    BY <2>2 DEF TypeOK
  <2> HIDE DEF s
  <2>8. ASSUME NEW f \in Files, NEW x \in OnDisk(f)
        PROVE  /\ x.call[2] <= line[x.call[1]].call[2]
               /\ Unwritten(x.call[1])' => x.call[2] # line[x.call[1]].call[2]
               /\ f[2] <= today
               /\ files'[f[1]] # NoFile => f[2] <= files'[f[1]][2]
    <3>1. f[1] \in Sessions
      BY DEF Files
    <3>2. x.call[1] \in Callers
      BY <2>8, DiskLines
    <3> QED
      BY <2>5, <2>6, <2>8, <3>1, <3>2 DEF OrderInv
  <2>9. \A t \in Sessions : files'[t] # NoFile => files'[t][2] <= today
    <3>1. today <= today
      BY DEF TypeOK, Days
    <3> QED
      BY <2>5, <3>1 DEF OrderInv
  <2> QED
    BY <2>2, <2>3, <2>4, <2>7, <2>8, <2>9 DEF OrderInv
<1>4. ASSUME NEW c \in Callers, WriteLine(c)
      PROVE  OrderInv'
  <2>1. PICK h \in Files, x \in Lines :
           /\ h = handle[c] /\ x = line[c]
           /\ h[1] = x.session /\ h # NoFile /\ files[h[1]] = h /\ ~closed
    BY <1>4 DEF WriteLine, Moves, FileInv, TypeOK
  <2>2. /\ UNCHANGED <<files, handle, line, today>>
        /\ at' = [at EXCEPT ![c] = "returned"] /\ at[c] = "write"
        /\ result' = [result EXCEPT ![c] = "ok"]
        /\ disk' = [disk EXCEPT ![h] = Append(@, x)]
    BY <1>4, <2>1 DEF WriteLine, Moves, Returns, maps
  <2> DEFINE n == Len(disk[h])
  <2>3. x.call[1] = c /\ x.call[2] \in Nat
    <3>1. x.call \in Callers \X Nat
      BY <2>1 DEF Lines
    <3> QED
      BY <2>1, <3>1 DEF OrderInv
  <2>4. /\ disk[h] \in Seq(Lines) /\ disk'[h] = Append(disk[h], x)
        /\ \A g \in Files \ {h} : disk'[g] = disk[g]
    BY <2>1, <2>2 DEF TypeOK
  <2>5. /\ n \in Nat /\ DOMAIN disk[h] = 1..n /\ DOMAIN disk'[h] = 1..(n + 1)
        /\ \A i \in 1..n : disk'[h][i] = disk[h][i]
        /\ disk'[h][n + 1] = x
    BY <2>1, <2>4, AppendProperties, LenProperties
  <2> HIDE DEF n
  <2>6. \A g \in Files \ {h} : OnDisk(g)' = OnDisk(g)
    BY <2>4 DEF OnDisk
  <2>7. OnDisk(h)' = OnDisk(h) \cup {x}
    <3>1. {Append(disk[h], x)[i] : i \in DOMAIN Append(disk[h], x)}
            = {disk[h][i] : i \in DOMAIN disk[h]} \cup {x}
      BY <2>1, <2>4, LinesAfterAppend
    <3> QED
      BY <2>4, <3>1 DEF OnDisk
  <2>8. Unwritten(c)
    BY <2>2 DEF Unwritten
  <2>9. ASSUME NEW g \in Files, NEW y \in OnDisk(g), y.call[1] = c
        PROVE  y.call[2] < x.call[2]
    <3>1. y.call[2] \in Nat
      BY <2>9, DiskLines
    <3>2. y.call[2] <= x.call[2] /\ y.call[2] # x.call[2]
      BY <2>1, <2>8, <2>9 DEF OrderInv
    <3> QED
      BY <2>3, <3>1, <3>2
  <2>10. ASSUME NEW g \in Files, NEW y \in OnDisk(g), g[1] = h[1]
         PROVE  g[2] <= h[2]
    BY <2>1, <2>10 DEF OrderInv
  <2>11. ASSUME NEW s \in Sessions, NEW d \in Days, NEW e \in Days,
                NEW i \in DOMAIN disk'[<<s, d>>], NEW j \in DOMAIN disk'[<<s, e>>],
                disk'[<<s, d>>][i].call[1] = disk'[<<s, e>>][j].call[1],
                d < e \/ (d = e /\ i < j)
         PROVE  disk'[<<s, d>>][i].call[2] < disk'[<<s, e>>][j].call[2]
    <3> DEFINE f == <<s, d>>
               g == <<s, e>>
    <3>1. f \in Files /\ g \in Files /\ f[1] = s /\ g[1] = s /\ f[2] = d /\ g[2] = e
      BY DEF Files
    <3>2. \A k \in Files : \A m \in DOMAIN disk'[k] :
             (k # h \/ m # n + 1) => m \in DOMAIN disk[k] /\ disk'[k][m] = disk[k][m]
      <4>1. \A m \in 1..(n + 1) : m # n + 1 => m \in 1..n
        BY <2>5
      <4> QED
        BY <2>4, <2>5, <4>1
    <3>3. CASE (f # h \/ i # n + 1) /\ (g # h \/ j # n + 1)
      <4>1. i \in DOMAIN disk[f] /\ j \in DOMAIN disk[g]
            /\ disk'[f][i] = disk[f][i] /\ disk'[g][j] = disk[g][j]
        BY <2>11, <3>1, <3>2, <3>3
      <4> QED
        BY <2>11, <4>1 DEF OrderInv, CallsInOrder
    <3>4. CASE g = h /\ j = n + 1
      <4>1. f # h \/ i # n + 1
        <5>1. \A m \in Int : ~(m < m)
          OBVIOUS
        <5> QED
          BY <2>5, <2>11, <3>1, <3>4, <5>1 DEF Days
      <4>2. i \in DOMAIN disk[f] /\ disk'[f][i] = disk[f][i]
        BY <2>11, <3>1, <3>2, <4>1
      <4>3. disk[f][i] \in OnDisk(f)
        BY <4>2 DEF OnDisk
      <4>4. disk'[g][j] = x
        BY <2>5, <3>4
      <4> QED
        BY <2>3, <2>9, <2>11, <3>1, <4>2, <4>3, <4>4
    <3>5. CASE f = h /\ i = n + 1
      <4>1. d # e \/ j # n + 1
        BY <2>5, <2>11, <3>5 DEF Days
      <4>2. d < e
        <5>1. ~(d = e /\ i < j)
          BY <2>5, <2>11, <3>5
        <5> QED
          BY <2>11, <5>1
      <4>3. g # h
        BY <3>1, <3>5, <4>2 DEF Days
      <4>4. j \in DOMAIN disk[g] /\ disk[g][j] \in OnDisk(g)
        BY <2>11, <3>1, <3>2, <4>3 DEF OnDisk
      <4>5. e <= d
        BY <2>10, <3>1, <3>5, <4>4
      <4> QED
        BY <4>2, <4>5 DEF Days
    <3> QED
      BY <3>3, <3>4, <3>5
  <2>12. CallsInOrder'
    BY <2>11 DEF CallsInOrder
  <2>13. ASSUME NEW g \in Files, NEW y \in OnDisk(g)'
         PROVE  /\ y.call[2] <= line[y.call[1]].call[2]
                /\ Unwritten(y.call[1])' => y.call[2] # line[y.call[1]].call[2]
                /\ g[2] <= today
                /\ files[g[1]] # NoFile => g[2] <= files[g[1]][2]
    <3>1. CASE y \in OnDisk(g)
      <4>1. y.call[1] \in Callers
        BY <3>1, DiskLines
      <4>2. Unwritten(y.call[1])' => Unwritten(y.call[1])
        BY <2>2, <4>1 DEF Unwritten, TypeOK
      <4> QED
        BY <3>1, <4>2 DEF OrderInv
    <3>2. CASE g = h /\ y = x
      <4>1. line[c] = x
        BY <2>1
      <4>2. ~Unwritten(c)'
        BY <2>2 DEF Unwritten, TypeOK
      <4>3. h[2] <= today
        <5>1. h[1] \in Sessions
          BY <2>1 DEF Files
        <5> QED
          BY <2>1, <5>1 DEF OrderInv
      <4>4. h[2] <= h[2]
        BY <2>1 DEF Files, Days
      <4>5. x.call[2] <= x.call[2]
        BY <2>3
      <4> QED
        BY <2>1, <2>3, <3>2, <4>1, <4>2, <4>3, <4>4, <4>5
    <3> QED
      BY <2>6, <2>7, <2>13, <3>1, <3>2
  <2>14. ASSUME NEW d \in Callers, at'[d] = "returned"
         PROVE  /\ result'[d] \in {"ok", "error"}
                /\ result'[d] = "ok" => \E f \in Files : line[d] \in OnDisk(f)'
    <3>1. CASE d = c
      <4>1. x \in OnDisk(h)' /\ x = line[d]
        BY <2>1, <2>7, <3>1
      <4>2. result'[d] = "ok"
        BY <2>2, <3>1 DEF TypeOK
      <4> QED
        BY <2>1, <4>1, <4>2
    <3>2. CASE d # c
      <4>1. at[d] = "returned" /\ result'[d] = result[d]
        BY <2>2, <2>14, <3>2 DEF TypeOK
      <4>2. \A g \in Files : OnDisk(g) \subseteq OnDisk(g)'
        BY <2>6, <2>7
      <4>3. /\ result[d] \in {"ok", "error"}
            /\ result[d] = "ok" => \E f \in Files : line[d] \in OnDisk(f)
        BY <4>1 DEF OrderInv
      <4> QED
        BY <4>1, <4>2, <4>3
    <3> QED
      BY <3>1, <3>2
  <2> QED
    BY <2>2, <2>12, <2>13, <2>14 DEF OrderInv
<1>5. CASE Close \/ Restart \/ FatalRace
  BY <1>5, SameOrderStep DEF Close, Restart, FatalRace, call, world, SameOrder, Unwritten
<1>6. CASE Midnight \/ UNCHANGED vars
  BY <1>6, SameOrderStep DEF Midnight, vars, maps, call, world, SameOrder, Unwritten, OrderInv
<1> QED
  BY <1>1, <1>2, <1>3, <1>4, <1>5, <1>6 DEF Next, Step, GetFile, WriteEntry

LEMMA OrderInvHolds == Spec => []OrderInv
<1>1. Init => OrderInv
  <2> SUFFICES ASSUME Init PROVE OrderInv
    OBVIOUS
  <2>1. \A f \in Files : DOMAIN disk[f] = {}
    BY EmptySeq DEF Init
  <2>2. \A f \in Files : OnDisk(f) = {}
    BY <2>1 DEF OnDisk
  <2>3. CallsInOrder
    BY <2>1 DEF CallsInOrder, Files
  <2>4. \A c \in Callers : line[c].call[1] = c
    BY DEF Init
  <2> QED
    BY <2>2, <2>3, <2>4 DEF Init, OrderInv
<1> QED
  BY <1>1, OrderStep, TypeCorrect, FileInvHolds, PTL DEF Spec

(* A request is never behind its response in the files of its session, and *)
(* no line is there twice, across midnight and restarts (logger.go).       *)
THEOREM CallsInOrderHolds == Spec => []CallsInOrder
<1>1. OrderInv => CallsInOrder
  BY DEF OrderInv
<1> QED
  BY <1>1, OrderInvHolds, PTL

(* A logging call returns nil if and only if its line is on disk           *)
(* (logger.go, writeEntry).                                                *)
THEOREM ResultsAreTrueHolds == Spec => []ResultsAreTrue
<1>1. OrderInv => ResultsAreTrue
  <2> SUFFICES ASSUME OrderInv, NEW c \in Callers, at[c] = "returned"
               PROVE  result[c] = "ok" <=> \E f \in Files : line[c] \in OnDisk(f)
    BY DEF ResultsAreTrue
  <2>1. CASE result[c] = "ok"
    BY <2>1 DEF OrderInv
  <2>2. CASE result[c] # "ok"
    BY <2>2 DEF OrderInv, Unwritten
  <2> QED
    BY <2>1, <2>2
<1> QED
  BY <1>1, OrderInvHolds, PTL

=============================================================================
