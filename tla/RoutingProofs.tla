---------------------------- MODULE RoutingProofs ---------------------------
(***************************************************************************)
(* What clients may rely on for their requests to be put into one session, *)
(* for any segments of paths and any values of fields and headers.         *)
(***************************************************************************)
EXTENDS Routing, SequenceTheorems, TLAPS

\* What request.says is: a value for each of the six sources.
LEMMA SourcesDomain == DOMAIN Sources = 1..6
BY DEF Sources

\* Some source is the first of those whose value is valid.
LEMMA FirstExists ==
    ASSUME NEW says, DOMAIN says = 1..6, NEW k \in 1..6, Valid(says[k])
    PROVE  \E i \in 1..6 : Valid(says[i]) /\ \A j \in 1..(i - 1) : ~Valid(says[j])
<1>1. CASE Valid(says[1])
  <2>1. \A j \in 1..(1 - 1) : ~Valid(says[j])
    OBVIOUS
  <2> QED
    BY <1>1, <2>1
<1>2. CASE ~Valid(says[1]) /\ Valid(says[2])
  <2>1. \A j \in 1..(2 - 1) : j = 1
    OBVIOUS
  <2> QED
    BY <1>2, <2>1
<1>3. CASE ~Valid(says[1]) /\ ~Valid(says[2]) /\ Valid(says[3])
  <2>1. \A j \in 1..(3 - 1) : j = 1 \/ j = 2
    OBVIOUS
  <2> QED
    BY <1>3, <2>1
<1>4. CASE ~Valid(says[1]) /\ ~Valid(says[2]) /\ ~Valid(says[3]) /\ Valid(says[4])
  <2>1. \A j \in 1..(4 - 1) : j = 1 \/ j = 2 \/ j = 3
    OBVIOUS
  <2> QED
    BY <1>4, <2>1
<1>5. CASE /\ ~Valid(says[1]) /\ ~Valid(says[2]) /\ ~Valid(says[3]) /\ ~Valid(says[4])
           /\ Valid(says[5])
  <2>1. \A j \in 1..(5 - 1) : j = 1 \/ j = 2 \/ j = 3 \/ j = 4
    OBVIOUS
  <2> QED
    BY <1>5, <2>1
<1>6. CASE \A i \in 1..5 : ~Valid(says[i])
  <2>1. k = 6
    BY <1>6
  <2> QED
    BY <1>6, <2>1
<1> QED
  BY <1>1, <1>2, <1>3, <1>4, <1>5, <1>6

LEMMA FirstValidIsFirst ==
    ASSUME NEW says, DOMAIN says = 1..6, NEW i \in 1..6, Valid(says[i]),
           \A j \in 1..(i - 1) : ~Valid(says[j])
    PROVE  FirstValid(says) = says[i]
<1> DEFINE First(n) == Valid(says[n]) /\ \A j \in 1..(n - 1) : ~Valid(says[j])
<1>1. \A n \in DOMAIN says : First(n) => n = i
  OBVIOUS
<1>2. (CHOOSE n \in DOMAIN says : First(n)) = i
  BY <1>1
<1> QED
  BY <1>2 DEF FirstValid

(* A client session ID is one that isValidSessionID accepts, or there is   *)
(* none: no other text reaches the database.                               *)
THEOREM IdentityIsValid ==
    ASSUME NEW Segments, NEW Values, NEW request \in HTTPRequests(Segments, Values)
    PROVE  ExtractClientSessionID(request) \in Clients \cup {NoClient}
<1>1. \A v : ValidOrNone(v) \in Clients \cup {NoClient}
  BY DEF ValidOrNone, Valid
<1>2. DOMAIN request.says = 1..6
  BY SourcesDomain DEF HTTPRequests
<1>3. FirstValid(request.says) \in Clients \cup {NoClient}
  <2>1. CASE \E k \in 1..6 : Valid(request.says[k])
    <3>1. PICK i \in 1..6 : Valid(request.says[i])
                            /\ \A j \in 1..(i - 1) : ~Valid(request.says[j])
      BY <1>2, <2>1, FirstExists
    <3> QED
      BY <1>2, <3>1, FirstValidIsFirst DEF Valid
  <2>2. CASE \A k \in 1..6 : ~Valid(request.says[k])
    BY <1>2, <2>2 DEF FirstValid
  <2> QED
    BY <2>1, <2>2
<1>4. ExtractThreadIDFromPath(UpstreamPath(request)) \in Clients \cup {NoClient}
  BY <1>1 DEF ExtractThreadIDFromPath
<1> QED
  BY <1>1, <1>3, <1>4 DEF ExtractClientSessionID

(* Requests to OpenAI, not to a thread, whose first valid source is the    *)
(* same and says the same belong to one client, whatever the sources after *)
(* it and the invalid ones before it say.                                  *)
THEOREM SameSourceSameSession ==
    ASSUME NEW Segments, NEW Values, NEW i \in 1..6,
           NEW r1 \in HTTPRequests(Segments, Values), NEW r2 \in HTTPRequests(Segments, Values),
           \A r \in {r1, r2} :
              /\ r.path[1] = "openai" /\ r.json
              /\ ExtractThreadIDFromPath(UpstreamPath(r)) = NoClient
              /\ \A j \in 1..(i - 1) : ~Valid(r.says[j]),
           r1.says[i] = r2.says[i], Valid(r1.says[i])
    PROVE  /\ ExtractClientSessionID(r1) = ExtractClientSessionID(r2)
           /\ ExtractClientSessionID(r1) = r1.says[i]
<1>1. DOMAIN r1.says = 1..6 /\ DOMAIN r2.says = 1..6
  BY SourcesDomain DEF HTTPRequests
<1>2. FirstValid(r1.says) = r1.says[i] /\ FirstValid(r2.says) = r1.says[i]
  BY <1>1, FirstValidIsFirst
<1>3. "openai" # "anthropic"
  OBVIOUS
<1> QED
  BY <1>2, <1>3 DEF ExtractClientSessionID

\* What is left of a path without provider and upstream.
LEMMA RestOfPath ==
    ASSUME NEW Segments, NEW path \in Seq(Segments), Len(path) >= 6,
           NEW rest, rest = SubSeq(path, 3, Len(path))
    PROVE  /\ Len(rest) >= 4
           /\ rest[1] = path[3] /\ rest[2] = path[4] /\ rest[3] = path[5] /\ rest[4] = path[6]
<1>1. \A i \in 3..Len(path) : path[i] \in Segments
  BY ElementOfSeq, LenProperties
<1>2. Len(path) \in Int /\ 3 \in Int
  BY LenProperties
<1>3. /\ Len(rest) = Len(path) - 3 + 1
      /\ \A i \in 1..(Len(path) - 3 + 1) : rest[i] = path[3 + i - 1]
  BY <1>1, <1>2, SubSeqProperties
<1> QED
  BY <1>2, <1>3

LEMMA ProxiedPath ==
    ASSUME NEW path, NEW n \in Nat, Len(path) = n, n >= 6, path[1] = "openai", path[2] # NoClient
    PROVE  Proxied(path)
BY DEF Proxied, Health, Bedrock, ParseProxyURL

(* The messages and runs of a thread are logged, in the session of that    *)
(* thread, whatever fields, headers and body say, and even if the body is  *)
(* not JSON.                                                               *)
THEOREM ThreadsByPath ==
    ASSUME NEW Segments, NEW Values, NEW request \in HTTPRequests(Segments, Values),
           NoClient \notin Clients, ~ToChatGPT(request),
           Len(request.path) >= 6,
           request.path[1] = "openai", request.path[2] # NoClient,
           request.path[3] = "v1", request.path[4] = "threads",
           request.path[5] \in Clients, request.path[6] \in {"messages", "runs"}
    PROVE  shouldLog(request) /\ ExtractClientSessionID(request) = request.path[5]
<1> DEFINE path == SubSeq(request.path, 3, Len(request.path))
<1>1. request.path \in Seq(Segments) /\ Len(request.path) \in Nat
  BY LenProperties DEF HTTPRequests
<1>2. UpstreamPath(request) = path
  BY DEF UpstreamPath
<1>3. path = SubSeq(request.path, 3, Len(request.path))
  OBVIOUS
<1> HIDE DEF path
<1>4. /\ Len(path) >= 4
      /\ path[1] = request.path[3] /\ path[2] = request.path[4]
      /\ path[3] = request.path[5] /\ path[4] = request.path[6]
  BY <1>1, <1>3, RestOfPath
<1>5. OfThreads(path)
  BY <1>4 DEF OfThreads
<1>6. ExtractClientSessionID(request) = request.path[5]
  BY <1>2, <1>4, <1>5 DEF ExtractClientSessionID, ExtractThreadIDFromPath, ValidOrNone, Valid
<1>7. isConversationEndpoint(path)
  BY <1>4, <1>5 DEF isConversationEndpoint
<1>8. Proxied(request.path)
  BY <1>1, ProxiedPath
<1> QED
  BY <1>2, <1>6, <1>7, <1>8 DEF shouldLog

(* With a ChatGPT token no request belongs to a thread: the path is        *)
(* rewritten before the thread is looked for.                              *)
THEOREM NoThreadsOnChatGPT ==
    ASSUME NEW Segments, NEW Values, NEW request \in HTTPRequests(Segments, Values),
           ToChatGPT(request), Len(request.path) >= 3
    PROVE  ExtractThreadIDFromPath(UpstreamPath(request)) = NoClient
<1> DEFINE path == SubSeq(request.path, 3, Len(request.path))
<1>1. path \in Seq(Segments)
  BY DEF HTTPRequests
<1>2. UpstreamPath(request) = <<"backend-api", "codex">> \o path
  BY DEF UpstreamPath
<1>3. (<<"backend-api", "codex">> \o path)[1] = "backend-api"
  BY <1>1
<1>4. ~OfThreads(UpstreamPath(request))
  BY <1>2, <1>3 DEF OfThreads
<1> QED
  BY <1>4 DEF ExtractThreadIDFromPath
=============================================================================
