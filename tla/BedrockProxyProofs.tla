------------------------- MODULE BedrockProxyProofs -------------------------
(***************************************************************************)
(* Proofs about the Bedrock pass-through, for any finite set of requests,  *)
(* any number of slots, any buffer and any frames.                         *)
(***************************************************************************)
EXTENDS BedrockProxy, FiniteSetTheorems, SequenceTheorems, WellFoundedInduction, TLAPS

Outside == {"new", "waiting", "end"}

\* Every step moves at most one handler, copies at most one frame, or does
\* neither.
LEMMA Moved ==
    ASSUME TypeOK, NEW r \in Requests, NEW from, NEW to, Goes(r, from, to)
    PROVE  /\ at[r] = from /\ at'[r] = to
           /\ \A q \in Requests \ {r} : at'[q] = at[q]
BY DEF Goes, TypeOK

\* A handler that stays on its side of the semaphore leaves the others there.
LEMMA Stays ==
    ASSUME TypeOK, NEW r \in Requests, at'[r] \in Outside <=> at[r] \in Outside,
           \A q \in Requests \ {r} : at'[q] = at[q]
    PROVE  Admitted' = Admitted
BY DEF Admitted, Outside

\* The frames of a stream and what is observed of them remain frames.
LEMMA CopyType ==
    ASSUME TypeOK, NEW r \in Requests, NEW f \in Frames, CopyFrame(r, f)
    PROVE  /\ stream' \in [Requests -> Seq(Frames)]
           /\ buffer' \in [Requests -> Seq(Frames)]
           /\ overflow' \in [Requests -> BOOLEAN]
<1>1. Append(stream[r], f) \in Seq(Frames) /\ Append(buffer[r], f) \in Seq(Frames)
  BY AppendProperties DEF TypeOK
<1>2. stream' = [stream EXCEPT ![r] = Append(stream[r], f)]
  BY DEF CopyFrame
<1>3. buffer' = [buffer EXCEPT ![r] = Append(buffer[r], f)] \/ buffer' = buffer
  BY DEF CopyFrame, Observe
<1>4. \E b \in BOOLEAN : overflow' = [overflow EXCEPT ![r] = b]
  BY DEF CopyFrame, Observe
<1> QED
  BY <1>1, <1>2, <1>3, <1>4 DEF TypeOK

\* An entry that is offered is an entry.
LEMMA OfferType ==
    ASSUME TypeOK, NEW kind \in {"request", "response", "turn_end"},
           NEW r \in Requests, NEW b \in BOOLEAN, Offer(kind, r, b)
    PROVE  offered' \subseteq {"request", "response", "turn_end"} \X Requests \X BOOLEAN
BY DEF TypeOK, Offer

-----------------------------------------------------------------------------
(* Type correctness: handlers, semaphore, streams and entries keep their   *)
(* ranges; the semaphore is never taken from while it is empty, which      *)
(* needs SlotsHeld, so the two are proved together.                        *)

LEMMA InitInv == Init => TypeOK /\ SlotsHeld
<1> SUFFICES ASSUME Init PROVE TypeOK /\ SlotsHeld
  OBVIOUS
<1>1. Admitted = {}
  BY DEF Init, Admitted
<1>2. SlotsHeld
  BY <1>1, FS_EmptySet, BedrockAssumption DEF SlotsHeld, Init
<1>3. <<>> \in Seq(Frames)
  BY EmptySeq
<1>4. TypeOK
  BY <1>3 DEF Init, TypeOK
<1> QED
  BY <1>2, <1>4

\* Passing the semaphore adds one handler and one value.
LEMMA AcquireHolds ==
    ASSUME TypeOK, SlotsHeld, NEW r \in Requests, Acquire(r)
    PROVE  SlotsHeld'
<1>1. IsFiniteSet(Admitted)
  BY BedrockAssumption, FS_Subset DEF Admitted
<1>2. /\ at[r] = "waiting" /\ at'[r] = "admitted"
      /\ \A q \in Requests \ {r} : at'[q] = at[q]
  BY Moved DEF Acquire
<1>3. r \notin Admitted /\ Admitted' = Admitted \cup {r}
  BY <1>2 DEF Admitted
<1>4. Cardinality(Admitted') = Cardinality(Admitted) + 1
  BY <1>1, <1>3, FS_AddElement
<1> QED
  BY <1>4, BedrockAssumption DEF SlotsHeld, Acquire, TypeOK

\* Releasing it removes both.
LEMMA ReleaseHolds ==
    ASSUME TypeOK, SlotsHeld, NEW r \in Requests, Release(r)
    PROVE  SlotsHeld' /\ semaphore' \in Nat
<1>1. IsFiniteSet(Admitted)
  BY BedrockAssumption, FS_Subset DEF Admitted
<1>2. /\ at[r] = "release" /\ at'[r] = "end"
      /\ \A q \in Requests \ {r} : at'[q] = at[q]
  BY Moved DEF Release
<1>3. r \in Admitted /\ Admitted' = Admitted \ {r}
  BY <1>2 DEF Admitted
<1>4. Cardinality(Admitted') = Cardinality(Admitted) - 1
  BY <1>1, <1>3, FS_RemoveElement
<1>5. Cardinality(Admitted') \in Nat
  BY <1>1, <1>3, FS_RemoveElement, FS_CardinalityType
<1> QED
  BY <1>4, <1>5, BedrockAssumption DEF SlotsHeld, Release, TypeOK

Inv == TypeOK /\ SlotsHeld

\* Steps on one side of the semaphore.
LEMMA SlotsKept ==
    ASSUME TypeOK, SlotsHeld, NEW r \in Requests, UNCHANGED semaphore,
           at'[r] \in Outside <=> at[r] \in Outside,
           \A q \in Requests \ {r} : at'[q] = at[q]
    PROVE  SlotsHeld'
BY Stays DEF SlotsHeld

LEMMA ClientInv == ASSUME Inv, NEW r \in Requests, Client(r) PROVE Inv'
<1> USE DEF Inv
<1>1. CASE Arrive(r)
  <2>1. SlotsHeld'
    BY <1>1, Moved, SlotsKept DEF Arrive, Outside
  <2> QED
    BY <1>1, <2>1 DEF Arrive, Goes, TypeOK, local, log
<1>2. CASE Cancel(r)
  <2>1. SlotsHeld'
    BY <1>2, Moved, SlotsKept DEF Cancel, Outside
  <2> QED
    BY <1>2, <2>1 DEF Cancel, Goes, TypeOK, local, log
<1>3. CASE ReadFails(r)
  <2>1. SlotsHeld'
    BY <1>3, Moved, SlotsKept DEF ReadFails, Outside
  <2> QED
    BY <1>3, <2>1 DEF ReadFails, Goes, TypeOK, local, log
<1>4. CASE SetContext(r)
  <2>1. SlotsHeld'
    BY <1>4, Moved, SlotsKept DEF SetContext, Outside
  <2> QED
    BY <1>4, <2>1 DEF SetContext, Goes, TypeOK, local, log
<1> QED
  BY <1>1, <1>2, <1>3, <1>4 DEF Client

LEMMA HandleInv == ASSUME Inv, NEW r \in Requests, Handle(r) PROVE Inv'
<1> USE DEF Inv
<1>1. CASE Acquire(r)
  <2>1. SlotsHeld'
    BY <1>1, AcquireHolds
  <2>2. at' = [at EXCEPT ![r] = "admitted"] /\ semaphore' \in Nat
    BY <1>1 DEF Acquire, Goes, TypeOK
  <2>3. UNCHANGED <<contexts, local, log>>
    BY <1>1 DEF Acquire
  <2> QED
    BY <2>1, <2>2, <2>3 DEF TypeOK, local, log
<1>2. CASE LogRequest(r)
  <2>1. SlotsHeld'
    BY <1>2, Moved, SlotsKept DEF LogRequest, Outside
  <2>2. Offer("request", r, TRUE)
    BY <1>2 DEF LogRequest
  <2>3. offered' \subseteq {"request", "response", "turn_end"} \X Requests \X BOOLEAN
    BY <2>2, OfferType
  <2> QED
    BY <1>2, <2>1, <2>3 DEF LogRequest, Goes, TypeOK, local
<1>3. CASE LogStream(r)
  <2>1. /\ at[r] = "decode" /\ at'[r] \in {"return", "emit"}
        /\ \A q \in Requests \ {r} : at'[q] = at[q]
    BY <1>3 DEF LogStream, TypeOK
  <2>2. UNCHANGED semaphore
    BY <1>3 DEF LogStream
  <2>3. SlotsHeld'
    BY <2>1, <2>2, SlotsKept DEF Outside
  <2>4. /\ at' \in [Requests -> {"new", "waiting", "admitted", "log", "send", "stream",
                              "decode", "emit", "return", "release", "end"}]
        /\ decodeErrors' \in Nat /\ incomplete' \subseteq Requests
    BY <1>3 DEF LogStream, TypeOK
  <2>5. offered' \subseteq {"request", "response", "turn_end"} \X Requests \X BOOLEAN
    <3>1. Offer("response", r, r \in contexts)
      BY <1>3 DEF LogStream
    <3>2. (r \in contexts) \in BOOLEAN
      OBVIOUS
    <3> QED
      BY <3>1, <3>2, OfferType
  <2>6. UNCHANGED <<semaphore, contexts, stream, delivered, gone, buffer, overflow>>
    BY <1>3 DEF LogStream, local
  <2> QED
    BY <2>3, <2>4, <2>5, <2>6 DEF TypeOK
<1>4. CASE EmitEvents(r)
  <2>1. SlotsHeld'
    BY <1>4, Moved, SlotsKept DEF EmitEvents, Outside
  <2>2. Offer("turn_end", r, FALSE)
    BY <1>4 DEF EmitEvents
  <2>3. offered' \subseteq {"request", "response", "turn_end"} \X Requests \X BOOLEAN
    BY <2>2, OfferType
  <2> QED
    BY <1>4, <2>1, <2>3 DEF EmitEvents, Goes, TypeOK, local
<1>5. CASE ClearContext(r)
  <2>1. SlotsHeld'
    BY <1>5, Moved, SlotsKept DEF ClearContext, Outside
  <2> QED
    BY <1>5, <2>1 DEF ClearContext, Goes, TypeOK, local, log
<1>6. CASE Release(r)
  BY <1>6, ReleaseHolds DEF Release, Goes, TypeOK, local, log
<1> QED
  BY <1>1, <1>2, <1>3, <1>4, <1>5, <1>6 DEF Handle

LEMMA BedrockInv == ASSUME Inv, NEW r \in Requests, Bedrock(r) PROVE Inv'
<1> USE DEF Inv
<1>1. CASE SendFails(r)
  <2>1. SlotsHeld'
    BY <1>1, Moved, SlotsKept DEF SendFails, Outside
  <2> QED
    BY <1>1, <2>1 DEF SendFails, Goes, TypeOK, local, log
<1>2. CASE LogBuffered(r)
  <2>1. PICK next \in {"emit", "return"} : Goes(r, "send", next)
    BY <1>2 DEF LogBuffered
  <2>2. UNCHANGED semaphore
    BY <1>2 DEF LogBuffered
  <2>3. SlotsHeld'
    BY <2>1, <2>2, Moved, SlotsKept DEF Outside
  <2>4. offered' \subseteq {"request", "response", "turn_end"} \X Requests \X BOOLEAN
    <3>1. Offer("response", r, r \in contexts)
      BY <1>2 DEF LogBuffered
    <3>2. (r \in contexts) \in BOOLEAN
      OBVIOUS
    <3> QED
      BY <3>1, <3>2, OfferType
  <2> QED
    BY <1>2, <2>1, <2>3, <2>4 DEF LogBuffered, Goes, TypeOK, local
<1>3. CASE StartStream(r)
  <2>1. SlotsHeld'
    BY <1>3, Moved, SlotsKept DEF StartStream, Outside
  <2> QED
    BY <1>3, <2>1 DEF StartStream, Goes, TypeOK, local, log
<1>4. CASE StreamEnds(r)
  <2>1. SlotsHeld'
    BY <1>4, Moved, SlotsKept DEF StreamEnds, Outside
  <2> QED
    BY <1>4, <2>1 DEF StreamEnds, Goes, TypeOK, local, log
<1>5. ASSUME NEW f \in Frames, Relay(r, f) PROVE Inv'
  <2>1. SlotsHeld'
    BY <1>5, SlotsKept DEF Relay
  <2>2. delivered' \in [Requests -> Nat]
    BY <1>5 DEF Relay, TypeOK
  <2> QED
    BY <1>5, <2>1, <2>2, CopyType DEF Relay, TypeOK, log
<1>6. ASSUME NEW f \in Frames, ClientGone(r, f) PROVE Inv'
  <2>1. /\ at[r] = "stream" /\ at'[r] = "decode"
        /\ \A q \in Requests \ {r} : at'[q] = at[q]
    BY <1>6 DEF ClientGone, CopyFrame, TypeOK
  <2>2. SlotsHeld'
    BY <1>6, <2>1, SlotsKept DEF ClientGone, Outside
  <2> QED
    BY <1>6, <2>2, CopyType DEF ClientGone, TypeOK, log
<1> QED
  BY <1>1, <1>2, <1>3, <1>4, <1>5, <1>6 DEF Bedrock

LEMMA InvHolds == Spec => []Inv
<1>1. Init => Inv
  BY InitInv DEF Inv
<1>2. Inv /\ [Next]_vars => Inv'
  <2> SUFFICES ASSUME Inv, [Next]_vars PROVE Inv'
    OBVIOUS
  <2>1. CASE UNCHANGED vars
    BY <2>1 DEF Inv, vars, local, log, TypeOK, SlotsHeld, Admitted
  <2>2. CASE Next
    BY <2>2, ClientInv, HandleInv, BedrockInv DEF Next
  <2> QED
    BY <2>1, <2>2
<1> QED
  BY <1>1, <1>2, PTL DEF Spec

(* Handlers, semaphore, streams and entries keep their ranges.             *)
THEOREM TypeCorrect == Spec => []TypeOK
<1>1. Inv => TypeOK
  BY DEF Inv
<1> QED
  BY <1>1, InvHolds, PTL

(* No more requests than slots are past the semaphore, which holds exactly *)
(* one value for each of them, whichever way each of them returns.         *)
THEOREM SlotsHeldHolds == Spec => []SlotsHeld
<1>1. Inv => SlotsHeld
  BY DEF Inv
<1> QED
  BY <1>1, InvHolds, PTL

-----------------------------------------------------------------------------
(* Labels.  A response is labelled because its handler has metadata from   *)
(* before its first log call to its deferred calls; one that could not     *)
(* read its body returns without.                                          *)

Logging == {"log", "send", "stream", "decode", "emit"}

LabelInv ==
    /\ \A r \in Requests : at[r] \in Logging => r \in contexts
    /\ \A r \in contexts : at[r] \in Logging \cup {"return"}
    /\ \A r \in Requests : <<"response", r, FALSE>> \notin offered

\* A step that offers nothing, or anything else than an unlabelled response.
LEMMA LabelsKept ==
    ASSUME TypeOK, LabelInv, NEW r \in Requests, UNCHANGED contexts,
           at'[r] \in Logging => r \in contexts,
           r \in contexts => at'[r] \in Logging \cup {"return"},
           \A q \in Requests \ {r} : at'[q] = at[q],
           \/ UNCHANGED offered
           \/ Offer("request", r, TRUE)
           \/ Offer("turn_end", r, FALSE)
           \/ at[r] \in Logging /\ Offer("response", r, r \in contexts)
    PROVE  LabelInv'
<1>1. /\ \A q \in Requests : at'[q] \in Logging => q \in contexts'
      /\ \A q \in contexts' : at'[q] \in Logging \cup {"return"}
  BY DEF LabelInv, TypeOK
<1>2. ASSUME NEW q \in Requests PROVE <<"response", q, FALSE>> \notin offered'
  <2>1. CASE UNCHANGED offered
    BY <2>1 DEF LabelInv
  <2>2. CASE Offer("request", r, TRUE)
    BY <2>2 DEF LabelInv, Offer
  <2>3. CASE Offer("turn_end", r, FALSE)
    BY <2>3 DEF LabelInv, Offer
  <2>4. CASE at[r] \in Logging /\ Offer("response", r, r \in contexts)
    <3>1. (r \in contexts) = TRUE
      BY <2>4 DEF LabelInv
    <3>2. offered' = offered \cup {<<"response", r, TRUE>>}
      BY <2>4, <3>1 DEF Offer
    <3> QED
      BY <3>2 DEF LabelInv
  <2> QED
    BY <2>1, <2>2, <2>3, <2>4
<1> QED
  BY <1>1, <1>2 DEF LabelInv

LEMMA LabelStep == ASSUME TypeOK, LabelInv, Next PROVE LabelInv'
<1> PICK r \in Requests : Client(r) \/ Handle(r) \/ Bedrock(r)
  BY DEF Next
<1> USE DEF Logging
<1>1. CASE SetContext(r)
  <2>1. /\ at[r] = "admitted" /\ at'[r] = "log"
        /\ \A q \in Requests \ {r} : at'[q] = at[q]
    BY <1>1, Moved DEF SetContext
  <2> QED
    BY <1>1, <2>1 DEF SetContext, LabelInv, log, TypeOK
<1>2. CASE ClearContext(r)
  <2>1. /\ at[r] = "return" /\ at'[r] = "release"
        /\ \A q \in Requests \ {r} : at'[q] = at[q]
    BY <1>2, Moved DEF ClearContext
  <2> QED
    BY <1>2, <2>1 DEF ClearContext, LabelInv, log, TypeOK
<1>3. CASE Arrive(r) \/ Cancel(r) \/ ReadFails(r)
  <2>1. /\ at[r] \in {"new", "waiting", "admitted"} /\ at'[r] \in {"waiting", "end", "return"}
        /\ \A q \in Requests \ {r} : at'[q] = at[q]
    BY <1>3, Moved DEF Arrive, Cancel, ReadFails
  <2>2. r \notin contexts
    BY <2>1 DEF LabelInv
  <2>3. UNCHANGED contexts /\ UNCHANGED offered
    BY <1>3 DEF Arrive, Cancel, ReadFails, log
  <2> QED
    BY <2>1, <2>2, <2>3, LabelsKept
<1>4. CASE Acquire(r) \/ Release(r)
  <2>1. /\ at[r] \in {"waiting", "release"} /\ at'[r] \in {"admitted", "end"}
        /\ \A q \in Requests \ {r} : at'[q] = at[q]
    BY <1>4, Moved DEF Acquire, Release
  <2>2. r \notin contexts
    BY <2>1 DEF LabelInv
  <2>3. UNCHANGED contexts /\ UNCHANGED offered
    BY <1>4 DEF Acquire, Release, log
  <2> QED
    BY <2>1, <2>2, <2>3, LabelsKept
<1>5. CASE LogRequest(r) \/ EmitEvents(r)
  <2>1. /\ at[r] \in {"log", "emit"} /\ at'[r] \in {"send", "return"}
        /\ \A q \in Requests \ {r} : at'[q] = at[q]
    BY <1>5, Moved DEF LogRequest, EmitEvents
  <2>2. r \in contexts
    BY <2>1 DEF LabelInv
  <2>3. /\ UNCHANGED contexts
        /\ Offer("request", r, TRUE) \/ Offer("turn_end", r, FALSE)
    BY <1>5 DEF LogRequest, EmitEvents
  <2> QED
    BY <2>1, <2>2, <2>3, LabelsKept
<1>6. CASE LogBuffered(r) \/ LogStream(r)
  <2>1. /\ at[r] \in {"send", "decode"} /\ at'[r] \in {"emit", "return"}
        /\ \A q \in Requests \ {r} : at'[q] = at[q]
    BY <1>6 DEF LogBuffered, LogStream, Goes, TypeOK
  <2>2. r \in contexts
    BY <2>1 DEF LabelInv
  <2>3. UNCHANGED contexts /\ Offer("response", r, r \in contexts)
    BY <1>6 DEF LogBuffered, LogStream
  <2> QED
    BY <2>1, <2>2, <2>3, LabelsKept
<1>7. CASE SendFails(r) \/ StartStream(r) \/ StreamEnds(r)
  <2>1. /\ at[r] \in {"send", "stream"} /\ at'[r] \in {"return", "stream", "decode"}
        /\ \A q \in Requests \ {r} : at'[q] = at[q]
    BY <1>7, Moved DEF SendFails, StartStream, StreamEnds
  <2>2. r \in contexts
    BY <2>1 DEF LabelInv
  <2>3. UNCHANGED contexts /\ UNCHANGED offered
    BY <1>7 DEF SendFails, StartStream, StreamEnds, log
  <2> QED
    BY <2>1, <2>2, <2>3, LabelsKept
<1>8. ASSUME NEW f \in Frames, Relay(r, f) \/ ClientGone(r, f) PROVE LabelInv'
  <2>1. /\ at[r] = "stream" /\ at'[r] \in {"stream", "decode"}
        /\ \A q \in Requests \ {r} : at'[q] = at[q]
    BY <1>8 DEF Relay, ClientGone, CopyFrame, TypeOK
  <2>2. r \in contexts
    BY <2>1 DEF LabelInv
  <2>3. UNCHANGED contexts /\ UNCHANGED offered
    BY <1>8 DEF Relay, ClientGone, log
  <2> QED
    BY <2>1, <2>2, <2>3, LabelsKept
<1> QED
  BY <1>1, <1>2, <1>3, <1>4, <1>5, <1>6, <1>7, <1>8 DEF Client, Handle, Bedrock

(* Every response is labelled as Bedrock's, whichever path its handler     *)
(* took, and no metadata outlives its request.                             *)
THEOREM ResponsesLabelledHolds == Spec => []ResponsesLabelled
<1>1. Init => LabelInv
  BY DEF Init, LabelInv, Logging
<1>2. TypeOK /\ LabelInv /\ [Next]_vars => LabelInv'
  <2>1. TypeOK /\ LabelInv /\ UNCHANGED vars => LabelInv'
    BY DEF LabelInv, vars, log
  <2> QED
    BY <2>1, LabelStep
<1>3. TypeOK /\ LabelInv => ResponsesLabelled
  BY DEF TypeOK, LabelInv, Logging, ResponsesLabelled, Admitted
<1> QED
  BY <1>1, <1>2, <1>3, TypeCorrect, PTL DEF Spec

-----------------------------------------------------------------------------
(* Losses.  A copy that has not overflowed is the whole stream, and what   *)
(* can be decoded of a whole stream lacks an event only if there is one    *)
(* that is garbled or a frame that is torn, which is an error.             *)

Logged == {"emit", "return", "release", "end"}

LossInv ==
    /\ \A r \in Requests : ~overflow[r] => buffer[r] = stream[r]
    /\ \A r \in incomplete : at[r] \in Logged
    /\ NoSilentLoss

\* Decoding without an error finds every event.
LEMMA DecodedWhole ==
    ASSUME NEW frames \in Seq(Frames), ~DecodeFails(frames)
    PROVE  Decode(frames) = Events(frames)
<1>1. \A i \in DOMAIN frames : frames[i].kind \notin {"torn", "garbled"}
  BY DEF DecodeFails
<1>2. \A i \in DOMAIN frames : \A j \in 1..i : j \in DOMAIN frames
  BY LenProperties
<1> QED
  BY <1>1, <1>2 DEF Decode, Events

\* A step that logs no stream.
LEMMA LossKept ==
    ASSUME TypeOK, LossInv, UNCHANGED <<decodeErrors, incomplete>>,
           \A r \in Requests : ~overflow'[r] => buffer'[r] = stream'[r],
           \A r \in Requests : at[r] \in Logged => at'[r] \in Logged
    PROVE  LossInv'
BY DEF TypeOK, LossInv, NoSilentLoss

\* A frame that fits goes into both, one that does not sets the overflow.
LEMMA CopyWhole ==
    ASSUME TypeOK, LossInv, NEW r \in Requests, NEW f \in Frames, CopyFrame(r, f)
    PROVE  \A q \in Requests : ~overflow'[q] => buffer'[q] = stream'[q]
<1>1. PICK fits \in BOOLEAN :
         /\ fits => ~overflow[r]
         /\ buffer' = IF fits THEN [buffer EXCEPT ![r] = Append(buffer[r], f)] ELSE buffer
         /\ overflow' = [overflow EXCEPT ![r] = ~fits]
  BY DEF CopyFrame, Observe
<1>2. stream' = [stream EXCEPT ![r] = Append(stream[r], f)]
  BY DEF CopyFrame
<1> QED
  BY <1>1, <1>2 DEF TypeOK, LossInv

LEMMA LossStep == ASSUME TypeOK, LossInv, Next PROVE LossInv'
<1> PICK r \in Requests : Client(r) \/ Handle(r) \/ Bedrock(r)
  BY DEF Next
<1> USE DEF Logged
<1>1. CASE \/ Arrive(r) \/ Cancel(r) \/ ReadFails(r) \/ SetContext(r) \/ Acquire(r)
           \/ ClearContext(r) \/ Release(r) \/ SendFails(r) \/ StartStream(r) \/ StreamEnds(r)
  <2>1. PICK from, to : Goes(r, from, to) /\ (from \in Logged => to \in Logged)
    BY <1>1 DEF Arrive, Cancel, ReadFails, SetContext, Acquire, ClearContext, Release,
                SendFails, StartStream, StreamEnds
  <2>2. UNCHANGED <<buffer, overflow, stream, decodeErrors, incomplete>>
    BY <1>1 DEF Arrive, Cancel, ReadFails, SetContext, Acquire, ClearContext, Release,
                SendFails, StartStream, StreamEnds, local, log
  <2> QED
    BY <2>1, <2>2, LossKept DEF Goes, TypeOK, LossInv
<1>2. CASE LogRequest(r) \/ LogBuffered(r) \/ EmitEvents(r)
  <2>1. at[r] \notin Logged \/ at'[r] \in Logged
    BY <1>2 DEF LogRequest, LogBuffered, EmitEvents, Goes, TypeOK
  <2>2. \A q \in Requests \ {r} : at'[q] = at[q]
    BY <1>2, Moved DEF LogRequest, LogBuffered, EmitEvents
  <2>3. UNCHANGED <<buffer, overflow, stream, decodeErrors, incomplete>>
    BY <1>2 DEF LogRequest, LogBuffered, EmitEvents, local
  <2> QED
    BY <2>1, <2>2, <2>3, LossKept DEF LossInv
<1>3. ASSUME NEW f \in Frames, Relay(r, f) \/ ClientGone(r, f)
      PROVE  LossInv'
  <2>1. CopyFrame(r, f) /\ UNCHANGED <<decodeErrors, incomplete>>
    BY <1>3 DEF Relay, ClientGone, log
  <2>2. \A q \in Requests : ~overflow'[q] => buffer'[q] = stream'[q]
    BY <2>1, CopyWhole
  <2>3. at[r] = "stream" /\ \A q \in Requests \ {r} : at'[q] = at[q]
    BY <1>3 DEF Relay, ClientGone, CopyFrame, TypeOK
  <2> QED
    BY <2>1, <2>2, <2>3, LossKept
<1>4. CASE LogStream(r)
  <2>1. /\ at[r] = "decode" /\ at'[r] \in Logged
        /\ \A q \in Requests \ {r} : at'[q] = at[q]
    BY <1>4 DEF LogStream, TypeOK
  <2>2. UNCHANGED <<buffer, overflow, stream>>
    BY <1>4 DEF LogStream, local
  <2>3. r \notin incomplete
    BY <2>1 DEF LossInv
  <2>4. /\ IsFiniteSet(incomplete)
        /\ Cardinality(incomplete) <= decodeErrors
        /\ Cardinality(incomplete) \in Nat /\ decodeErrors \in Nat
    <3>1. IsFiniteSet(incomplete)
      BY BedrockAssumption, FS_Subset DEF TypeOK
    <3> QED
      BY <3>1, FS_CardinalityType DEF LossInv, NoSilentLoss, TypeOK
  <2>5. CASE overflow[r] \/ DecodeFails(buffer[r])
    <3>1. decodeErrors' = decodeErrors + 1
      BY <1>4, <2>5 DEF LogStream
    <3>2. incomplete' = incomplete \/ incomplete' = incomplete \cup {r}
      BY <1>4 DEF LogStream
    <3>3. Cardinality(incomplete') <= decodeErrors'
      <4>1. Cardinality(incomplete \cup {r}) = Cardinality(incomplete) + 1
        BY <2>3, <2>4, FS_AddElement
      <4>2. \A m, n \in Nat : m <= n => m <= n + 1 /\ m + 1 <= n + 1
        OBVIOUS
      <4>3. CASE incomplete' = incomplete
        BY <2>4, <3>1, <4>2, <4>3
      <4>4. CASE incomplete' = incomplete \cup {r}
        <5>1. Cardinality(incomplete') = Cardinality(incomplete) + 1
          BY <4>1, <4>4
        <5> QED
          BY <2>4, <3>1, <4>2, <5>1
      <4> QED
        BY <3>2, <4>3, <4>4
    <3> QED
      BY <2>1, <2>2, <3>2, <3>3 DEF LossInv, NoSilentLoss, TypeOK
  <2>6. CASE ~overflow[r] /\ ~DecodeFails(buffer[r])
    <3>1. buffer[r] = stream[r]
      BY <2>6 DEF LossInv
    <3>2. Decode(buffer[r]) = Events(stream[r])
      BY <2>6, <3>1, DecodedWhole DEF TypeOK
    <3>3. incomplete' = incomplete /\ decodeErrors' = decodeErrors
      BY <1>4, <2>6, <3>2 DEF LogStream
    <3> QED
      BY <2>1, <2>2, <3>3 DEF LossInv, NoSilentLoss, TypeOK
  <2> QED
    BY <2>5, <2>6
<1> QED
  BY <1>1, <1>2, <1>3, <1>4 DEF Client, Handle, Bedrock

(* Every response logged without all events of its stream is counted as a  *)
(* decoding error (bedrock.go, the tail of serveBedrock).                  *)
THEOREM NoSilentLossHolds == Spec => []NoSilentLoss
<1>1. Init => LossInv
  BY FS_EmptySet DEF Init, LossInv, NoSilentLoss
<1>2. TypeOK /\ LossInv /\ [Next]_vars => LossInv'
  <2>1. TypeOK /\ LossInv /\ UNCHANGED vars => LossInv'
    BY DEF LossInv, NoSilentLoss, vars, local, log
  <2> QED
    BY <2>1, LossStep
<1>3. LossInv => NoSilentLoss
  BY DEF LossInv
<1> QED
  BY <1>1, <1>2, <1>3, TypeCorrect, PTL DEF Spec
-----------------------------------------------------------------------------
(* Sizes.  Size is a recursive function; that it is what it should be is   *)
(* proved by looking at the least number for which it would not be.        *)

LEMMA LeastElement ==
    ASSUME NEW T \in SUBSET Nat, T # {}
    PROVE  \E m \in T : \A k \in T : m <= k
<1>1. PICK m \in T : \A k \in T : ~(<<k, m>> \in OpToRel(<, Nat))
  BY NatLessThanWellFounded, WFMin
<1>2. \A k \in T : ~(k < m)
  BY <1>1 DEF OpToRel
<1> QED
  BY <1>2

\* g has the sizes of the first frames, up to the n-th.
Sums(g, frames, n) == g = [k \in 0..n |-> IF k = 0 THEN 0 ELSE g[k - 1] + frames[k].size]

LEMMA SumsNext ==
    ASSUME NEW frames \in Seq(Frames), NEW n \in 0..(Len(frames) - 1),
           NEW g \in [0..n -> Nat], Sums(g, frames, n)
    PROVE  \E h \in [0..(n + 1) -> Nat] :
              Sums(h, frames, n + 1) /\ h[n + 1] = g[n] + frames[n + 1].size
<1> DEFINE last == g[n] + frames[n + 1].size
           h == [k \in 0..(n + 1) |-> IF k = n + 1 THEN last ELSE g[k]]
<1>1. n \in Nat /\ n + 1 \in 1..Len(frames)
  BY LenProperties
<1>2. frames[n + 1].size \in Nat
  BY <1>1, ElementOfSeq, BedrockAssumption
<1>3. g[n] \in Nat /\ last \in Nat
  BY <1>1, <1>2
<1> HIDE DEF last
<1>4. h \in [0..(n + 1) -> Nat] /\ h[n + 1] = last
  BY <1>1, <1>3
<1>5. \A k \in 0..(n + 1) : h[k] = IF k = 0 THEN 0 ELSE h[k - 1] + frames[k].size
  <2>1. ASSUME NEW k \in 0..n
        PROVE  g[k] = IF k = 0 THEN 0 ELSE g[k - 1] + frames[k].size
    BY DEF Sums
  <2>2. h[n + 1] = h[n] + frames[n + 1].size
    BY <1>1 DEF last
  <2>3. ASSUME NEW k \in 0..n
        PROVE  h[k] = IF k = 0 THEN 0 ELSE h[k - 1] + frames[k].size
    BY <1>1, <2>1
  <2>4. \A k \in 0..(n + 1) : k \in 0..n \/ (k = n + 1 /\ k # 0 /\ k - 1 = n)
    BY <1>1
  <2> HIDE DEF h
  <2> QED
    BY <2>2, <2>3, <2>4
<1>6. Sums(h, frames, n + 1)
  BY <1>5 DEF Sums
<1> QED
  BY <1>4, <1>6 DEF last

LEMMA SumsExist ==
    ASSUME NEW frames \in Seq(Frames), NEW n \in 0..Len(frames)
    PROVE  \E g \in [0..n -> Nat] : Sums(g, frames, n)
<1> DEFINE T == {k \in 0..Len(frames) : ~\E g \in [0..k -> Nat] : Sums(g, frames, k)}
<1>0. Len(frames) \in Nat
  BY LenProperties
<1>1. SUFFICES ASSUME T # {} PROVE FALSE
  OBVIOUS
<1>2. T \subseteq Nat
  BY <1>0
<1> HIDE DEF T
<1>3. PICK m \in T : \A k \in T : m <= k
  BY <1>1, <1>2, LeastElement
<1>4. m \in 0..Len(frames) /\ ~\E g \in [0..m -> Nat] : Sums(g, frames, m)
  BY <1>3 DEF T
<1>5. CASE m = 0
  <2>1. [k \in 0..0 |-> 0] \in [0..0 -> Nat] /\ Sums([k \in 0..0 |-> 0], frames, 0)
    BY DEF Sums
  <2> QED
    BY <1>4, <1>5, <2>1
<1>6. CASE m # 0
  <2>1. m - 1 \in 0..(Len(frames) - 1) /\ (m - 1) + 1 = m /\ ~(m <= m - 1)
    BY <1>0, <1>4, <1>6
  <2>2. m - 1 \notin T
    BY <1>3, <2>1
  <2>3. PICK g \in [0..(m - 1) -> Nat] : Sums(g, frames, m - 1)
    BY <1>0, <2>1, <2>2 DEF T
  <2>4. \E h \in [0..((m - 1) + 1) -> Nat] : Sums(h, frames, (m - 1) + 1)
    BY <2>1, <2>3, SumsNext
  <2> QED
    BY <1>4, <2>1, <2>4
<1> QED
  BY <1>5, <1>6

LEMMA SumsUnique ==
    ASSUME NEW frames \in Seq(Frames), NEW n \in 0..Len(frames),
           NEW g, Sums(g, frames, n), NEW h, Sums(h, frames, n)
    PROVE  g[n] = h[n]
<1> DEFINE T == {k \in 0..n : g[k] # h[k]}
<1>0. n \in Nat
  BY LenProperties
<1>1. SUFFICES ASSUME T # {} PROVE FALSE
  BY <1>0
<1>2. T \subseteq Nat
  BY <1>0
<1> HIDE DEF T
<1>3. PICK m \in T : \A k \in T : m <= k
  BY <1>1, <1>2, LeastElement
<1>4. m \in 0..n /\ g[m] # h[m]
  BY <1>3 DEF T
<1>5. \A k \in 0..n : /\ g[k] = IF k = 0 THEN 0 ELSE g[k - 1] + frames[k].size
                      /\ h[k] = IF k = 0 THEN 0 ELSE h[k - 1] + frames[k].size
  BY DEF Sums
<1>6. m # 0 /\ m - 1 \in 0..n /\ ~(m <= m - 1)
  BY <1>0, <1>4, <1>5
<1>7. g[m - 1] = h[m - 1]
  BY <1>3, <1>6 DEF T
<1> QED
  BY <1>4, <1>5, <1>6, <1>7

LEMMA SizeIs ==
    ASSUME NEW frames \in Seq(Frames), NEW g, Sums(g, frames, Len(frames))
    PROVE  Size(frames) = g[Len(frames)]
<1> DEFINE upto == CHOOSE u : Sums(u, frames, Len(frames))
<1>1. Sums(upto, frames, Len(frames))
  OBVIOUS
<1>2. Size(frames) = upto[Len(frames)]
  BY DEF Size, Sums
<1> HIDE DEF upto
<1>3. Len(frames) \in 0..Len(frames)
  BY LenProperties
<1> QED
  BY <1>1, <1>2, <1>3, SumsUnique

(* What LimitedWriter keeps is counted frame by frame.                     *)
LEMMA SizeProperties ==
    /\ Size(<<>>) = 0
    /\ \A frames \in Seq(Frames) : Size(frames) \in Nat
    /\ \A frames \in Seq(Frames), f \in Frames : Size(Append(frames, f)) = Size(frames) + f.size
<1>1. Size(<<>>) = 0
  <2>1. <<>> \in Seq(Frames) /\ Len(<<>>) = 0
    BY EmptySeq
  <2>2. Sums([k \in 0..0 |-> 0], <<>>, Len(<<>>))
    BY <2>1 DEF Sums
  <2> QED
    BY <2>1, <2>2, SizeIs
<1>2. ASSUME NEW frames \in Seq(Frames)
      PROVE  Size(frames) \in Nat
  <2>1. Len(frames) \in 0..Len(frames)
    BY LenProperties
  <2>2. PICK g \in [0..Len(frames) -> Nat] : Sums(g, frames, Len(frames))
    BY <2>1, SumsExist
  <2> QED
    BY <2>1, <2>2, SizeIs
<1>3. ASSUME NEW frames \in Seq(Frames), NEW f \in Frames
      PROVE  Size(Append(frames, f)) = Size(frames) + f.size
  <2> DEFINE n == Len(frames)
             longer == Append(frames, f)
  <2>1. /\ longer \in Seq(Frames) /\ Len(longer) = n + 1 /\ longer[n + 1] = f
        /\ \A i \in 1..n : longer[i] = frames[i]
    BY AppendProperties
  <2>2. n \in Nat /\ n \in 0..n /\ n \in 0..(Len(longer) - 1)
    BY <2>1, LenProperties
  <2>3. PICK g \in [0..n -> Nat] : Sums(g, frames, n)
    BY <2>2, SumsExist
  <2> HIDE DEF n, longer
  <2>4. Sums(g, longer, n)
    BY <2>1, <2>2, <2>3 DEF Sums
  <2>5. PICK h \in [0..(n + 1) -> Nat] : Sums(h, longer, n + 1) /\ h[n + 1] = g[n] + f.size
    BY <2>1, <2>2, <2>3, <2>4, SumsNext
  <2>6. Size(longer) = h[n + 1]
    BY <2>1, <2>5, SizeIs
  <2>7. Size(frames) = g[n]
    BY <2>3, SizeIs DEF n
  <2> QED
    BY <2>5, <2>6, <2>7 DEF longer
<1> QED
  BY <1>1, <1>2, <1>3

-----------------------------------------------------------------------------
(* The observer.  Nothing was lost to the client but the frame on which it *)
(* went, and what was observed stopped being the stream only when the      *)
(* overflow was set, after which it is not touched.                        *)

Observed(r) ==
    /\ delivered[r] = Len(stream[r]) - (IF r \in gone THEN 1 ELSE 0)
    /\ r \in gone => at[r] \in {"decode"} \cup Logged
    /\ IsPrefix(buffer[r], stream[r]) /\ Size(buffer[r]) <= MaxBuffer
    /\ ~overflow[r] => buffer[r] = stream[r]

ObserverInv == \A r \in Requests : Observed(r)

LEMMA PrefixSelf == ASSUME NEW S, NEW s \in Seq(S) PROVE IsPrefix(s, s)
BY LenProperties DEF IsPrefix

LEMMA PrefixLonger ==
    ASSUME NEW S, NEW s \in Seq(S), NEW t \in Seq(S), NEW e \in S, IsPrefix(s, t)
    PROVE  IsPrefix(s, Append(t, e))
<1>1. /\ Len(s) \in Nat /\ Len(t) \in Nat
      /\ Len(s) <= Len(t) /\ SubSeq(s, 1, Len(s)) = SubSeq(t, 1, Len(s))
  BY LenProperties DEF IsPrefix
<1>2. /\ Append(t, e) \in Seq(S) /\ Len(Append(t, e)) = Len(t) + 1
      /\ \A i \in 1..Len(t) : Append(t, e)[i] = t[i]
  BY AppendProperties
<1> DEFINE longer == Append(t, e)
<1> HIDE DEF longer
<1>3. \A i \in 1..Len(s) : t[i] \in S /\ longer[i] = t[i]
  BY <1>1, <1>2, ElementOfSeq DEF longer
<1>4. /\ SubSeq(t, 1, Len(s)) \in Seq(S) /\ SubSeq(longer, 1, Len(s)) \in Seq(S)
      /\ Len(SubSeq(t, 1, Len(s))) = Len(SubSeq(longer, 1, Len(s)))
      /\ \A i \in 1..Len(s) : SubSeq(t, 1, Len(s))[i] = t[i]
      /\ \A i \in 1..Len(s) : SubSeq(longer, 1, Len(s))[i] = longer[i]
      /\ Len(SubSeq(t, 1, Len(s))) = Len(s)
  BY <1>1, <1>3, SubSeqProperties
<1>5. SubSeq(t, 1, Len(s)) = SubSeq(longer, 1, Len(s))
  BY <1>3, <1>4, SeqEqual
<1> QED
  BY <1>1, <1>2, <1>5 DEF IsPrefix, longer

\* A step that does not touch what is kept of r's stream.
LEMMA ObservedKept ==
    ASSUME NEW r \in Requests, Observed(r), r \in gone' <=> r \in gone,
           r \in gone => at'[r] \in {"decode"} \cup Logged,
           buffer'[r] = buffer[r], stream'[r] = stream[r],
           overflow'[r] = overflow[r], delivered'[r] = delivered[r]
    PROVE  Observed(r)'
BY DEF Observed

LEMMA CopyObserved ==
    ASSUME TypeOK, ObserverInv, NEW r \in Requests, NEW f \in Frames, CopyFrame(r, f)
    PROVE  /\ stream'[r] = Append(stream[r], f) /\ Len(stream'[r]) = Len(stream[r]) + 1
           /\ Len(stream[r]) \in Nat
           /\ IsPrefix(buffer[r], stream[r])' /\ Size(buffer[r])' <= MaxBuffer
           /\ (~overflow[r] => buffer[r] = stream[r])'
           /\ \A q \in Requests \ {r} :
                 buffer'[q] = buffer[q] /\ stream'[q] = stream[q] /\ overflow'[q] = overflow[q]
<1> DEFINE fits == ~overflow[r] /\ f.size <= MaxBuffer - Size(buffer[r])
<1>1. /\ stream' = [stream EXCEPT ![r] = Append(stream[r], f)]
      /\ buffer' = IF fits THEN [buffer EXCEPT ![r] = Append(buffer[r], f)] ELSE buffer
      /\ overflow' = [overflow EXCEPT ![r] = ~fits]
  BY DEF CopyFrame, Observe
<1>2. stream[r] \in Seq(Frames) /\ buffer[r] \in Seq(Frames)
  BY DEF TypeOK
<1>3. stream'[r] = Append(stream[r], f) /\ overflow'[r] = ~fits
  BY <1>1 DEF TypeOK
<1>4. \A q \in Requests \ {r} :
         buffer'[q] = buffer[q] /\ stream'[q] = stream[q] /\ overflow'[q] = overflow[q]
  BY <1>1 DEF TypeOK
<1>5. /\ Append(stream[r], f) \in Seq(Frames)
      /\ Len(Append(stream[r], f)) = Len(stream[r]) + 1 /\ Len(stream[r]) \in Nat
  BY <1>2, AppendProperties, LenProperties
<1>6. CASE fits
  <2>1. buffer'[r] = Append(buffer[r], f) /\ buffer[r] = stream[r]
    BY <1>1, <1>6 DEF TypeOK, ObserverInv, Observed
  <2>2. Size(buffer'[r]) <= MaxBuffer
    <3>1. /\ Size(Append(buffer[r], f)) = Size(buffer[r]) + f.size
          /\ Size(buffer[r]) \in Nat /\ f.size \in Nat /\ MaxBuffer \in Nat
      BY <1>2, SizeProperties, BedrockAssumption
    <3> QED
      BY <1>6, <2>1, <3>1
  <2> QED
    BY <1>3, <1>4, <1>5, <2>1, <2>2, PrefixSelf
<1>7. CASE ~fits
  <2>1. buffer'[r] = buffer[r] /\ overflow'[r]
    BY <1>1, <1>3, <1>7
  <2>2. IsPrefix(buffer[r], Append(stream[r], f))
    BY <1>2, PrefixLonger DEF ObserverInv, Observed
  <2>3. Size(buffer[r]) <= MaxBuffer
    BY DEF ObserverInv, Observed
  <2> QED
    BY <1>3, <1>4, <1>5, <2>1, <2>2, <2>3
<1> QED
  BY <1>6, <1>7

LEMMA ObserverStep == ASSUME TypeOK, ObserverInv, Next PROVE ObserverInv'
<1> PICK r \in Requests : Client(r) \/ Handle(r) \/ Bedrock(r)
  BY DEF Next
<1>1. ASSUME NEW f \in Frames, Relay(r, f)
      PROVE  ObserverInv'
  <2>1. CopyFrame(r, f) /\ at[r] = "stream" /\ UNCHANGED <<at, gone>>
    BY <1>1 DEF Relay, CopyFrame
  <2>2. /\ delivered'[r] = delivered[r] + 1 /\ delivered[r] \in Nat
        /\ \A q \in Requests \ {r} : delivered'[q] = delivered[q]
    BY <1>1 DEF Relay, TypeOK
  <2>3. r \notin gone
    BY <2>1 DEF ObserverInv, Observed, Logged
  <2>4. Observed(r)'
    <3>0. /\ Len(stream[r]) \in Nat /\ Len(stream'[r]) = Len(stream[r]) + 1
          /\ IsPrefix(buffer[r], stream[r])' /\ Size(buffer[r])' <= MaxBuffer
          /\ (~overflow[r] => buffer[r] = stream[r])'
      BY <2>1, CopyObserved
    <3>1. delivered[r] = Len(stream[r]) - 0
      BY <2>3 DEF ObserverInv, Observed
    <3>2. delivered'[r] = Len(stream'[r]) - 0 /\ r \notin gone'
      BY <2>1, <2>2, <2>3, <3>0, <3>1
    <3> QED
      BY <3>0, <3>2 DEF Observed
  <2>5. ASSUME NEW q \in Requests \ {r} PROVE Observed(q)'
    BY <2>1, <2>2, CopyObserved, ObservedKept DEF ObserverInv, Observed
  <2> QED
    BY <2>4, <2>5 DEF ObserverInv
<1>2. ASSUME NEW f \in Frames, ClientGone(r, f)
      PROVE  ObserverInv'
  <2>1. CopyFrame(r, f) /\ at[r] = "stream" /\ delivered' = delivered /\ gone' = gone \cup {r}
    BY <1>2 DEF ClientGone, CopyFrame
  <2>2. at'[r] = "decode" /\ \A q \in Requests \ {r} : at'[q] = at[q]
    BY <1>2 DEF ClientGone, TypeOK
  <2>3. r \notin gone /\ delivered[r] \in Nat
    BY <2>1 DEF ObserverInv, Observed, Logged, TypeOK
  <2>4. Observed(r)'
    <3>0. /\ Len(stream[r]) \in Nat /\ Len(stream'[r]) = Len(stream[r]) + 1
          /\ IsPrefix(buffer[r], stream[r])' /\ Size(buffer[r])' <= MaxBuffer
          /\ (~overflow[r] => buffer[r] = stream[r])'
      BY <2>1, CopyObserved
    <3>1. delivered[r] = Len(stream[r]) - 0
      BY <2>3 DEF ObserverInv, Observed
    <3>2. delivered'[r] = Len(stream'[r]) - 1 /\ r \in gone'
      BY <2>1, <2>3, <3>0, <3>1
    <3> QED
      BY <2>2, <3>0, <3>2 DEF Observed
  <2>5. ASSUME NEW q \in Requests \ {r} PROVE Observed(q)'
    BY <2>1, <2>2, CopyObserved, ObservedKept DEF ObserverInv, Observed
  <2> QED
    BY <2>4, <2>5 DEF ObserverInv
<1>3. CASE LogStream(r)
  <2>1. UNCHANGED <<stream, delivered, gone, buffer, overflow>>
    BY <1>3 DEF LogStream, local
  <2>2. at'[r] \in Logged /\ \A q \in Requests \ {r} : at'[q] = at[q]
    BY <1>3 DEF LogStream, TypeOK, Logged
  <2> QED
    BY <2>1, <2>2, ObservedKept DEF ObserverInv, Observed
<1>4. CASE \/ Client(r) \/ Acquire(r) \/ LogRequest(r) \/ EmitEvents(r) \/ ClearContext(r)
           \/ Release(r) \/ SendFails(r) \/ LogBuffered(r) \/ StartStream(r) \/ StreamEnds(r)
  <2>1. UNCHANGED <<stream, delivered, gone, buffer, overflow>>
    BY <1>4 DEF Client, Arrive, Cancel, ReadFails, SetContext, Acquire, LogRequest, EmitEvents,
                ClearContext, Release, SendFails, LogBuffered, StartStream, StreamEnds, local
  <2>2. /\ at[r] \in {"decode"} \cup Logged => at'[r] \in {"decode"} \cup Logged
        /\ \A q \in Requests \ {r} : at'[q] = at[q]
    <3>1. CASE LogBuffered(r)
      BY <3>1, Moved DEF LogBuffered, Logged
    <3>2. CASE ~LogBuffered(r)
      <4>1. \/ Goes(r, "new", "waiting") \/ Goes(r, "waiting", "end")
            \/ Goes(r, "admitted", "return") \/ Goes(r, "admitted", "log")
            \/ Goes(r, "waiting", "admitted") \/ Goes(r, "log", "send")
            \/ Goes(r, "emit", "return") \/ Goes(r, "return", "release")
            \/ Goes(r, "release", "end") \/ Goes(r, "send", "return")
            \/ Goes(r, "send", "stream") \/ Goes(r, "stream", "decode")
        BY <1>4, <3>2 DEF Client, Arrive, Cancel, ReadFails, SetContext, Acquire, LogRequest,
                  EmitEvents, ClearContext, Release, SendFails, StartStream, StreamEnds
      <4> QED
        BY <4>1, Moved DEF Logged
    <3> QED
      BY <3>1, <3>2
  <2>3. ASSUME NEW q \in Requests PROVE Observed(q)'
    <3>1. q \in gone => at'[q] \in {"decode"} \cup Logged
      BY <2>2 DEF ObserverInv, Observed
    <3> QED
      BY <2>1, <3>1, ObservedKept DEF ObserverInv
  <2> QED
    BY <2>3 DEF ObserverInv
<1> QED
  BY <1>1, <1>2, <1>3, <1>4 DEF Handle, Bedrock

(* The tee of a stream neither disturbs nor exceeds nor invents: the       *)
(* client has all that was read, the copy is a prefix within the buffer    *)
(* (bedrock.go, LimitedWriter and the io.Copy of serveBedrockStreaming).   *)
THEOREM ObserverHarmlessHolds == Spec => []ObserverHarmless
<1>1. Init => ObserverInv
  <2>1. <<>> \in Seq(Frames) /\ Len(<<>>) = 0
    BY EmptySeq
  <2>2. IsPrefix(<<>>, <<>>)
    BY <2>1, PrefixSelf
  <2>3. Size(<<>>) = 0 /\ MaxBuffer \in Nat
    BY SizeProperties, BedrockAssumption
  <2> QED
    BY <2>1, <2>2, <2>3 DEF Init, ObserverInv, Observed
<1>2. TypeOK /\ ObserverInv /\ [Next]_vars => ObserverInv'
  <2>1. TypeOK /\ ObserverInv /\ UNCHANGED vars => ObserverInv'
    BY ObservedKept DEF ObserverInv, Observed, vars, local
  <2> QED
    BY <2>1, ObserverStep
<1>3. ObserverInv => ObserverHarmless
  BY DEF ObserverInv, Observed, ObserverHarmless
<1> QED
  BY <1>1, <1>2, <1>3, TypeCorrect, PTL DEF Spec
=============================================================================
