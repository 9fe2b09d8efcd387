---------------------------- MODULE ToolPatterns ----------------------------
(***************************************************************************)
(* The pattern state of a session (db.go, PatternState) and the functions  *)
(* that update it: what a request does to it (proxy.go, ServeHTTP and      *)
(* processToolResultsAndEmitEvents) and what a response does to it         *)
(* (proxy.go, emitResponseEvents; session.go, ComputePatterns).            *)
(*                                                                         *)
(* A tool call is a record [id, tool], a tool result a record [id, error]. *)
(* The names and arguments of tools are abstracted to members of a set.    *)
(***************************************************************************)
EXTENDS Integers, Sequences, FiniteSets

\* The empty name, the value of LastToolName before any tool was called.
NoTool == ""

\* The state of a new session, and of one the database does not know.
FreshState ==
    [TurnCount |-> 0, LastToolName |-> NoTool, ToolStreak |-> 0, RetryCount |-> 0,
     SessionToolCount |-> 0, LastWasError |-> FALSE, PendingToolIDs |-> {}]

\* Mutant of AfterRequest: an error is never forgotten.
AfterRequestSticky(state, results) ==
    [state EXCEPT
        !.PendingToolIDs = {p \in @ : \A r \in results : r.id # p.id},
        !.LastWasError   = @ \/ \E r \in results : r.error,
        !.TurnCount      = @ + 1]

\* Tool results remove their calls from the pending ones; the turn begins.
AfterRequest(state, results) ==
    [state EXCEPT
        !.PendingToolIDs = {p \in @ : \A r \in results : r.id # p.id},
        !.LastWasError   = \E r \in results : r.error,
        !.TurnCount      = @ + 1]

\* Whether a response that begins with tool first repeats a failed call.
IsRetry(state, first) == first = state.LastToolName /\ state.LastWasError

ComputePatterns(state, first) ==
    IF first = NoTool
    THEN [state EXCEPT !.ToolStreak = 0, !.RetryCount = 0]
    ELSE [state EXCEPT
            !.ToolStreak   = IF first = state.LastToolName THEN @ + 1 ELSE 1,
            !.RetryCount   = IF IsRetry(state, first) THEN @ + 1 ELSE 0,
            !.LastToolName = first]

\* The first tool of a response, a sequence of tool calls.
FirstTool(calls) == IF calls = <<>> THEN NoTool ELSE calls[1].tool

\* A map assignment replaces an entry of the same id.
AddPending(pending, calls) ==
    {p \in pending : \A i \in DOMAIN calls : calls[i].id # p.id}
        \cup {calls[i] : i \in DOMAIN calls}

\* Mutant of AfterResponse: the turn is counted again.
AfterResponseTwice(state, calls) ==
    ComputePatterns(
        [state EXCEPT !.PendingToolIDs   = AddPending(@, calls),
                      !.SessionToolCount = @ + Len(calls),
                      !.TurnCount        = @ + 1],
        FirstTool(calls))

AfterResponse(state, calls) ==
    ComputePatterns(
        [state EXCEPT !.PendingToolIDs   = AddPending(@, calls),
                      !.SessionToolCount = @ + Len(calls)],
        FirstTool(calls))

-----------------------------------------------------------------------------
(* The same figures defined from the history of a session, a sequence of   *)
(* turns [results, calls], in the words of PatternState's comments.        *)

First(turns, i) == FirstTool(turns[i].calls)

\* The greatest of a set of lengths.
Longest(lengths) == CHOOSE n \in lengths : \A m \in lengths : m <= n

\* The last i turns begin with the same tool.
SameTool(turns, i) ==
    \A j \in Len(turns) - i + 1 .. Len(turns) :
        First(turns, j) # NoTool /\ First(turns, j) = First(turns, Len(turns))

\* "Consecutive turns where first tool is the same"
Streak(turns) == Longest({n \in 0..Len(turns) : SameTool(turns, n)})

\* "Previous turn's tool resulted in error"
PreviousFailed(turns, i) ==
    i > 1 /\ \E r \in turns[i].results, k \in DOMAIN turns[i-1].calls :
                r.id = turns[i-1].calls[k].id /\ r.error

\* "Consecutive retry attempts (same tool after error)"
Retried(turns, i) == PreviousFailed(turns, i) /\ First(turns, i) = First(turns, i-1)

Retries(turns) ==
    Longest({n \in 0..Len(turns) : \A i \in Len(turns) - n + 1 .. Len(turns) : Retried(turns, i)})

Calls(turns) == UNION {{turns[i].calls[k] : k \in DOMAIN turns[i].calls} : i \in DOMAIN turns}

\* Calls no later turn brought a result for.
Unanswered(turns) ==
    UNION {{c \in {turns[i].calls[k] : k \in DOMAIN turns[i].calls} :
              \A j \in i+1..Len(turns) : \A r \in turns[j].results : r.id # c.id}
           : i \in DOMAIN turns}

\* Turn i brings results of the turn before it and of no other.
OwnResults(turns, i) ==
    \A r \in turns[i].results :
        i > 1 /\ \E k \in DOMAIN turns[i-1].calls : r.id = turns[i-1].calls[k].id

(* The state is what the history says.  LastToolName is compared where the *)
(* last turn called a tool; errors and retries where turns brought results *)
(* of the turn before and of no other.  Where they brought older ones too, *)
(* the code charges the turn with those as well (SessionTracking,          *)
(* ResultsOfPreviousTurn), and the two may be too many, never too few.     *)
MatchesHistory(state, turns) ==
    LET n == Len(turns)
    IN  /\ state.TurnCount = n
        /\ state.ToolStreak = Streak(turns)
        /\ state.SessionToolCount = Cardinality(Calls(turns))
        /\ state.PendingToolIDs = Unanswered(turns)
        /\ Retries(turns) <= state.RetryCount
        /\ (\A i \in 1..n : OwnResults(turns, i)) => state.RetryCount = Retries(turns)
        /\ n > 0 =>
             /\ First(turns, n) # NoTool => state.LastToolName = First(turns, n)
             /\ PreviousFailed(turns, n) => state.LastWasError
             /\ OwnResults(turns, n) /\ state.LastWasError => PreviousFailed(turns, n)

-----------------------------------------------------------------------------
(* What the code keeps, whatever results a turn brings: every error in the *)
(* body counts, and LastToolName outlasts a turn without tools ("keep      *)
(* other state", session.go).  Each step of the code preserves it.         *)

CountedRetry(turns, i) ==
    /\ First(turns, i) # NoTool
    /\ \E r \in turns[i].results : r.error
    /\ \E j \in 1..i-1 : /\ First(turns, j) = First(turns, i)
                         /\ \A k \in j+1..i-1 : First(turns, k) = NoTool

CountedRetries(turns) ==
    Longest({n \in 0..Len(turns) :
                \A i \in Len(turns) - n + 1 .. Len(turns) : CountedRetry(turns, i)})

\* The tool of the last turn that called one.
LastNamed(turns, tool) ==
    \/ tool = NoTool /\ \A j \in 1..Len(turns) : First(turns, j) = NoTool
    \/ tool # NoTool /\ \E j \in 1..Len(turns) :
          First(turns, j) = tool /\ \A k \in j+1..Len(turns) : First(turns, k) = NoTool

Tracks(state, turns) ==
    /\ state.TurnCount = Len(turns)
    /\ LastNamed(turns, state.LastToolName)
    /\ state.ToolStreak = Streak(turns)
    /\ state.RetryCount = CountedRetries(turns)
    /\ state.SessionToolCount = Cardinality(Calls(turns))
    /\ state.LastWasError =
         (turns # <<>> /\ \E r \in turns[Len(turns)].results : r.error)
    /\ state.PendingToolIDs = Unanswered(turns)
=============================================================================
