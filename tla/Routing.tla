------------------------------- MODULE Routing ------------------------------
(***************************************************************************)
(* Where a request goes and whose conversation it is: Server.ServeHTTP,    *)
(* ParseProxyURL, the rewriting for ChatGPT tokens, isConversationEndpoint *)
(* and ExtractClientSessionID.  Its result is the client that              *)
(* SessionTracking!Arrive takes.                                           *)
(*                                                                         *)
(* A path is the sequence of its segments.  What a field or a header says  *)
(* is one of Clients if isValidSessionID accepts it; NoClient is the empty *)
(* string.                                                                 *)
(***************************************************************************)
EXTENDS Integers, Sequences

CONSTANTS Clients, NoClient

Valid(v) == v \in Clients
ValidOrNone(v) == IF Valid(v) THEN v ELSE NoClient

\* The fields and headers of an OpenAI request, in the order they are tried.
Sources == <<"conversation", "previous_response_id", "metadata.session_id", "X-Session-ID",
             "X-Client-Request-Id", "user">>

\* path, the kind of token, whether the body is JSON, what the sources say,
\* and for Anthropic what follows the last "_session_" of metadata.user_id.
HTTPRequests(Segments, Values) ==
    [path : Seq(Segments), jwt : BOOLEAN, json : BOOLEAN,
     says : [DOMAIN Sources -> Values], user_id : Values]

-----------------------------------------------------------------------------
(* Server.ServeHTTP: health, Bedrock, or /{provider}/{upstream}/{path}.    *)
Health(path) ==
    path[1] = "health" /\ (Len(path) = 1 \/ (Len(path) = 2 /\ path[2] \in {"loki", "bedrock"}))

Bedrock(path) == path[1] = "model" /\ Len(path) > 1

ParseProxyURL(path) ==
    Len(path) >= 3 /\ path[1] \in {"anthropic", "openai"} /\ path[2] # NoClient

Proxied(path) == ~Health(path) /\ ~Bedrock(path) /\ ParseProxyURL(path)

\* A ChatGPT token is sent to the ChatGPT backend.
ToChatGPT(request) ==
    request.jwt /\ request.path[1] = "openai" /\ request.path[2] = "api.openai.com"

UpstreamPath(request) ==
    LET path == SubSeq(request.path, 3, Len(request.path))
    IN IF ToChatGPT(request) THEN <<"backend-api", "codex">> \o path ELSE path

OfThreads(path) == Len(path) >= 4 /\ path[1] = "v1" /\ path[2] = "threads"

isConversationEndpoint(path) ==
    \/ Bedrock(path)
    \/ path \in {<<"v1", "messages">>, <<"v1", "chat", "completions">>,
                 <<"v1", "completions">>, <<"v1", "responses">>}
    \/ OfThreads(path) /\ path[4] \in {"messages", "runs"}
    \/ path[1] = "backend-api" /\ Len(path) > 1 /\ path[Len(path)] = "responses"

shouldLog(request) == Proxied(request.path) /\ isConversationEndpoint(UpstreamPath(request))

-----------------------------------------------------------------------------
(* ExtractClientSessionID.  A source that is absent or not valid is passed *)
(* over; a thread in the path counts although the body is not JSON.        *)
ExtractThreadIDFromPath(path) ==
    IF OfThreads(path) THEN ValidOrNone(path[3]) ELSE NoClient

FirstValid(says) ==
    IF \E i \in DOMAIN says : Valid(says[i])
    THEN says[CHOOSE i \in DOMAIN says : Valid(says[i]) /\ \A j \in 1..(i - 1) : ~Valid(says[j])]
    ELSE NoClient

ExtractClientSessionID(request) ==
    LET thread == ExtractThreadIDFromPath(UpstreamPath(request))
    IN IF request.path[1] = "openai" /\ thread # NoClient THEN thread
       ELSE IF ~request.json THEN NoClient
       ELSE IF request.path[1] = "anthropic" THEN ValidOrNone(request.user_id)
       ELSE FirstValid(request.says)
=============================================================================
