---------------------------- MODULE BedrockProxy ----------------------------
(***************************************************************************)
(* The pass-through for Bedrock requests (bedrock.go): a semaphore of      *)
(* concurrent requests, the request's metadata in MultiWriter, and the     *)
(* copy of a streamed response that is decoded for the log once the client *)
(* has it.                                                                 *)
(*                                                                         *)
(* The session half of serveBedrock is that of ServeHTTP, which            *)
(* SessionTracking models; here it is the step LogRequest.  A stream is a  *)
(* sequence of frames, each read in one piece, with a size and a kind:     *)
(*   data       an event of the model                                      *)
(*   exception  a frame without an event, which the decoder passes over    *)
(*   garbled    an event whose base64 text cannot be decoded               *)
(*   torn       cut short or corrupt: the decoder can go no further        *)
(***************************************************************************)
EXTENDS Integers, Sequences, FiniteSets, SequencesExt

CONSTANTS
    Requests,         \* Bedrock requests, each made once
    MaxConcurrent,    \* bedrockMaxConcurrent
    MaxBuffer,        \* bedrockMaxBuffer, in units of size
    Frames,           \* frames [size, kind] a stream can have
    MaxFrames         \* bound of the model: frames of a stream

ASSUME BedrockAssumption ==
    /\ IsFiniteSet(Requests)
    /\ MaxConcurrent \in Nat \ {0} /\ MaxBuffer \in Nat /\ MaxFrames \in Nat
    /\ Frames \subseteq [size : Nat \ {0}, kind : {"data", "exception", "garbled", "torn"}]

VARIABLES
    at,             \* where the handler of each request is
    semaphore,      \* values in the channel semaphore
    contexts,       \* bedrockContexts: requests with metadata
    stream,         \* frames read from a response
    delivered,      \* how many of them the client was sent
    gone,           \* requests whose client could not be written to
    buffer,         \* observeBuf
    overflow,       \* LimitedWriter.Overflow
    offered,        \* entries pushed to the exporter: kind, request, labelled as Bedrock's
    decodeErrors,   \* counter reported by the health endpoint
    incomplete      \* history: requests whose logged response lacks events of the stream

local == <<stream, delivered, gone, buffer, overflow>>
log == <<offered, decodeErrors, incomplete>>
vars == <<at, semaphore, contexts, local, log>>

Init ==
    /\ at = [r \in Requests |-> "new"]
    /\ semaphore = 0 /\ contexts = {}
    /\ stream = [r \in Requests |-> <<>>] /\ delivered = [r \in Requests |-> 0]
    /\ gone = {}
    /\ buffer = [r \in Requests |-> <<>>] /\ overflow = [r \in Requests |-> FALSE]
    /\ offered = {} /\ decodeErrors = 0 /\ incomplete = {}

Goes(r, from, to) == at[r] = from /\ at' = [at EXCEPT ![r] = to]

(* A request with a valid model ID arrives.                                *)
Arrive(r) ==
    /\ Goes(r, "new", "waiting")
    /\ UNCHANGED <<semaphore, contexts, local, log>>

\* Mutant of Acquire: one request too many.
AcquireOneMore(r) ==
    /\ Goes(r, "waiting", "admitted")
    /\ semaphore <= MaxConcurrent
    /\ semaphore' = semaphore + 1
    /\ UNCHANGED <<contexts, local, log>>

(* It waits for the semaphore, or until its client gives up.               *)
Acquire(r) ==
    /\ Goes(r, "waiting", "admitted")
    /\ semaphore < MaxConcurrent
    /\ semaphore' = semaphore + 1
    /\ UNCHANGED <<contexts, local, log>>

Cancel(r) ==
    /\ Goes(r, "waiting", "end")
    /\ UNCHANGED <<semaphore, contexts, local, log>>

(* The body cannot be read: the handler returns.                           *)
ReadFails(r) ==
    /\ Goes(r, "admitted", "return")
    /\ UNCHANGED <<semaphore, contexts, local, log>>

Offer(kind, r, bedrock) == offered' = offered \cup {<<kind, r, bedrock>>}

(* The body is read; the metadata is stored under the request's ID before  *)
(* anything is logged.                                                     *)
SetContext(r) ==
    /\ Goes(r, "admitted", "log")
    /\ contexts' = contexts \cup {r}
    /\ UNCHANGED <<semaphore, local, log>>

(* LogRequest takes its labels from the path.                              *)
LogRequest(r) ==
    /\ Goes(r, "log", "send")
    /\ Offer("request", r, TRUE)
    /\ UNCHANGED <<semaphore, contexts, local, decodeErrors, incomplete>>

\* Mutants of SendFails: a return that does not release the semaphore; one that
\* releases it although a deferred call will.
SendFailsHolding(r) ==
    /\ Goes(r, "send", "end")
    /\ UNCHANGED <<semaphore, contexts, local, log>>

SendFailsReleasing(r) ==
    /\ Goes(r, "send", "return")
    /\ semaphore' = semaphore - 1
    /\ UNCHANGED <<contexts, local, log>>

(* No credentials, no signature, no connection, or a buffered body that    *)
(* breaks off.                                                             *)
SendFails(r) ==
    /\ Goes(r, "send", "return")
    /\ UNCHANGED <<semaphore, contexts, local, log>>

(* An answer that is buffered is logged as it is, labelled by the metadata.*)
(* If its status is not 200 that is all, and it goes to the client.        *)
LogBuffered(r) ==
    /\ \E next \in {"emit", "return"} : Goes(r, "send", next)
    /\ Offer("response", r, r \in contexts)
    /\ UNCHANGED <<semaphore, contexts, local, decodeErrors, incomplete>>

StartStream(r) ==
    /\ Goes(r, "send", "stream")
    /\ UNCHANGED <<semaphore, contexts, local, log>>

Size(frames) ==
    LET upto[n \in 0..Len(frames)] == IF n = 0 THEN 0 ELSE upto[n - 1] + frames[n].size
    IN upto[Len(frames)]

\* Mutant of Observe: an overflow is not remembered.
ObserveOften(r, f) ==
    LET fits == f.size <= MaxBuffer - Size(buffer[r]) IN
    /\ buffer' = IF fits THEN [buffer EXCEPT ![r] = Append(@, f)] ELSE buffer
    /\ overflow' = [overflow EXCEPT ![r] = ~fits]

(* LimitedWriter.Write: what does not fit sets Overflow, after which       *)
(* nothing is kept.  It reports success in every case.                     *)
Observe(r, f) ==
    LET fits == ~overflow[r] /\ f.size <= MaxBuffer - Size(buffer[r]) IN
    /\ buffer' = IF fits THEN [buffer EXCEPT ![r] = Append(@, f)] ELSE buffer
    /\ overflow' = [overflow EXCEPT ![r] = ~fits]

(* io.Copy through the TeeReader: a frame is read, observed, and written   *)
(* to the client,                                                          *)
CopyFrame(r, f) ==
    /\ at[r] = "stream" /\ Len(stream[r]) < MaxFrames
    /\ stream' = [stream EXCEPT ![r] = Append(@, f)]
    /\ Observe(r, f)

Relay(r, f) ==
    /\ CopyFrame(r, f)
    /\ delivered' = [delivered EXCEPT ![r] = @ + 1]
    /\ UNCHANGED <<at, semaphore, contexts, gone, log>>

(* whose connection may be broken by then.                                 *)
ClientGone(r, f) ==
    /\ CopyFrame(r, f)
    /\ at' = [at EXCEPT ![r] = "decode"]
    /\ gone' = gone \cup {r}
    /\ UNCHANGED <<semaphore, contexts, delivered, log>>

(* The stream ends, or breaks off.                                         *)
StreamEnds(r) ==
    /\ Goes(r, "stream", "decode")
    /\ UNCHANGED <<semaphore, contexts, local, log>>

Events(frames) == {i \in DOMAIN frames : frames[i].kind \in {"data", "garbled"}}

(* decodeBedrockEventstream: what can be decoded before the first frame    *)
(* that is torn.  (A chunk is known by the place of its frame.)            *)
Decode(frames) == {i \in DOMAIN frames :
                      frames[i].kind = "data" /\ \A j \in 1..i : frames[j].kind # "torn"}

(* Whether it reports an error.                                            *)
DecodeFails(frames) == \E i \in DOMAIN frames : frames[i].kind \in {"torn", "garbled"}

\* Mutant of LogStream: an overflow is not counted.
LogStreamUncounted(r) ==
    LET chunks == IF overflow[r] THEN {} ELSE Decode(buffer[r]) IN
    /\ at[r] = "decode"
    /\ at' = [at EXCEPT ![r] = IF chunks = {} THEN "return" ELSE "emit"]
    /\ decodeErrors' = IF ~overflow[r] /\ DecodeFails(buffer[r])
                       THEN decodeErrors + 1 ELSE decodeErrors
    /\ Offer("response", r, r \in contexts)
    /\ incomplete' = IF chunks = Events(stream[r]) THEN incomplete ELSE incomplete \cup {r}
    /\ UNCHANGED <<semaphore, contexts, local>>

(* The copy is decoded, unless it overflowed, and the response logged with *)
(* the events.  Without events there is no turn_end.                       *)
LogStream(r) ==
    LET chunks == IF overflow[r] THEN {} ELSE Decode(buffer[r]) IN
    /\ at[r] = "decode"
    /\ at' = [at EXCEPT ![r] = IF chunks = {} THEN "return" ELSE "emit"]
    /\ decodeErrors' = IF overflow[r] \/ DecodeFails(buffer[r])
                       THEN decodeErrors + 1 ELSE decodeErrors
    /\ Offer("response", r, r \in contexts)
    /\ incomplete' = IF chunks = Events(stream[r]) THEN incomplete ELSE incomplete \cup {r}
    /\ UNCHANGED <<semaphore, contexts, local>>

EmitEvents(r) ==
    /\ Goes(r, "emit", "return")
    /\ Offer("turn_end", r, FALSE)
    /\ UNCHANGED <<semaphore, contexts, local, decodeErrors, incomplete>>

\* Mutant of ClearContext: it never happens.
KeepContext(r) ==
    /\ Goes(r, "return", "release")
    /\ UNCHANGED <<semaphore, contexts, local, log>>

(* The deferred calls, the last one first: ClearBedrockContext,            *)
ClearContext(r) ==
    /\ Goes(r, "return", "release")
    /\ contexts' = contexts \ {r}
    /\ UNCHANGED <<semaphore, local, log>>

(* and a value is taken from the semaphore.                                *)
Release(r) ==
    /\ Goes(r, "release", "end")
    /\ semaphore' = semaphore - 1
    /\ UNCHANGED <<contexts, local, log>>

\* What the handler does by itself, and what its client and Bedrock make it do.
Handle(r) ==
    \/ Acquire(r) \/ LogRequest(r)
    \/ LogStream(r) \/ EmitEvents(r) \/ ClearContext(r) \/ Release(r)

Client(r) == Arrive(r) \/ Cancel(r) \/ ReadFails(r) \/ SetContext(r)

Bedrock(r) ==
    \/ SendFails(r) \/ LogBuffered(r) \/ StartStream(r) \/ StreamEnds(r)
    \/ \E f \in Frames : Relay(r, f) \/ ClientGone(r, f)

Next == \E r \in Requests : Client(r) \/ Handle(r) \/ Bedrock(r)

(* Handlers are scheduled, and a value in the channel goes to one that     *)
(* waits.  Nothing is assumed of Bedrock or of the clients.                *)
Spec == Init /\ [][Next]_vars
FairSpec == Spec /\ \A r \in Requests : WF_vars(Handle(r))

-----------------------------------------------------------------------------
(* Properties                                                              *)

(* Type invariant: handlers, semaphore, streams and entries in range.      *)
TypeOK ==
    /\ at \in [Requests -> {"new", "waiting", "admitted", "log", "send", "stream", "decode",
                            "emit", "return", "release", "end"}]
    /\ semaphore \in Nat /\ decodeErrors \in Nat
    /\ contexts \subseteq Requests /\ gone \subseteq Requests /\ incomplete \subseteq Requests
    /\ stream \in [Requests -> Seq(Frames)] /\ buffer \in [Requests -> Seq(Frames)]
    /\ delivered \in [Requests -> Nat] /\ overflow \in [Requests -> BOOLEAN]
    /\ offered \subseteq {"request", "response", "turn_end"} \X Requests \X BOOLEAN

Admitted == {r \in Requests : at[r] \notin {"new", "waiting", "end"}}

(* At most MaxConcurrent requests are past the semaphore, and it has one   *)
(* value for each of them: no return path keeps or gives back too much.    *)
SlotsHeld == semaphore = Cardinality(Admitted) /\ semaphore <= MaxConcurrent

(* Every response is labelled as Bedrock's, whichever path it took, and no *)
(* metadata outlives its request.                                          *)
ResponsesLabelled ==
    /\ \A r \in Requests : <<"response", r, FALSE>> \notin offered
    /\ contexts \subseteq Admitted

(* Observing never harms the stream nor invents anything: the client has   *)
(* every frame that was read, up to the one on which it broke; what is     *)
(* observed is a prefix of that, within MaxBuffer, all of it unless the    *)
(* overflow is recorded.                                                   *)
ObserverHarmless ==
    \A r \in Requests :
        /\ delivered[r] = Len(stream[r]) - (IF r \in gone THEN 1 ELSE 0)
        /\ IsPrefix(buffer[r], stream[r]) /\ Size(buffer[r]) <= MaxBuffer
        /\ ~overflow[r] => buffer[r] = stream[r]

(* A response that is logged without all events of its stream is visible   *)
(* to the operator: each one is counted in decodeErrors.                   *)
NoSilentLoss == Cardinality(incomplete) <= decodeErrors

(* A request waits for the semaphore no longer than it must: it is         *)
(* admitted, or gives up, unless every slot is held by a request that      *)
(* itself waits for its client's body or for Bedrock.                      *)
WaitersAdmitted ==
    \A r \in Requests :
        at[r] = "waiting" ~>
            \/ at[r] # "waiting"
            \/ Cardinality({q \in Requests : at[q] \in {"admitted", "send", "stream"}}) = MaxConcurrent
=============================================================================
