--------------------------- MODULE MCBedrockProxy ---------------------------
EXTENDS BedrockProxy

\* One frame of each kind, and a large one that fills the buffer.
MCFrames ==
    {[size |-> 1, kind |-> k] : k \in {"data", "exception", "garbled", "torn"}}
        \cup {[size |-> 2, kind |-> "data"]}
=============================================================================
