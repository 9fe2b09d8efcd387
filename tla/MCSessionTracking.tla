-------------------------- MODULE MCSessionTracking -------------------------
(* Instance of SessionTracking for TLC: responses that call one of two      *)
(* tools or none.  Every request can come first, so requests are            *)
(* interchangeable.                                                         *)
EXTENDS SessionTracking, TLC, SequencesExt

MCTools == {"A", "B"}
MCResponses == {<<>>, <<"A">>, <<"B">>}
\* Two calls in a response.
MCManyCalls == {<<>>, <<"B", "A">>}

MCSymmetry == Permutations(Requests)

\* Where a request's client comes from, for two valid IDs, none and an invalid one.
R == INSTANCE Routing WITH Clients <- {"id1", "id2"}, NoClient <- ""

MCValues == {"id1", "id2", "", "a b"}
MCPaths == {<<"openai", "api.openai.com", "v1", "responses">>,
            <<"openai", "api.openai.com", "v1", "threads", "id1", "messages">>,
            <<"openai", "api.openai.com", "v1", "threads", "a b", "runs", "x">>,
            <<"openai", "api.openai.com", "v1", "threads", "id2">>,
            <<"anthropic", "api.anthropic.com", "v1", "messages">>}
MCBodies == [path : MCPaths, jwt : BOOLEAN, json : BOOLEAN, user_id : MCValues,
             says : [1..6 -> {"id1", "id2", "a b"}]]

(* The client of a request is what the cascade of ifs in                   *)
(* extractOpenAISessionID finds, from the last source to the first.        *)
ASSUME CascadeFindsFirstValid ==
    \A says \in [1..6 -> MCValues] :
        R!FirstValid(says) =
            FoldRight(LAMBDA v, rest : IF v \in {"id1", "id2"} THEN v ELSE rest, says, "")

(* Threads are found by path, unless the request goes to ChatGPT, and the  *)
(* rest by metadata.user_id or by the sources, if the body is JSON.        *)
ASSUME ClientOfRequest ==
    \A r \in MCBodies :
        R!ExtractClientSessionID(r) =
            CASE r.path[1] = "anthropic" -> IF r.json THEN R!ValidOrNone(r.user_id) ELSE ""
              [] r.path[1] # "anthropic" /\ ~r.jwt /\ Len(r.path) = 6 -> "id1"
              [] OTHER -> IF r.json THEN R!FirstValid(r.says) ELSE ""

(* What is logged: messages, responses and runs of threads, not the thread *)
(* itself, and responses with a ChatGPT token too.                         *)
ASSUME LoggedRequests ==
    {<<r.path, r.jwt>> : r \in {q \in MCBodies : R!shouldLog(q)}} =
        {<<p, jwt>> \in MCPaths \X BOOLEAN :
            p[4] \in {"responses", "messages"} \/ (p[4] = "threads" /\ Len(p) > 5 /\ ~jwt)}
=============================================================================
