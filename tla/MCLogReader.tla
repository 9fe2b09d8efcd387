---------------------------- MODULE MCLogReader -----------------------------
EXTENDS LogReader

\* An answer with text and a tool call whose input comes in two pieces.
MCMessage == <<[kind |-> "tool_use", parts |-> 2], [kind |-> "text", parts |-> 1]>>
=============================================================================
