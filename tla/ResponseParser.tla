--------------------------- MODULE ResponseParser ---------------------------
(***************************************************************************)
(* ParseStreamingResponse (parser.go): content blocks assembled from the   *)
(* events of a stream, one iteration of the loop a step.  The proxy runs   *)
(* it on the answer it has passed on, the explorer on the chunks of a log  *)
(* line.                                                                   *)
(*                                                                         *)
(* The provider sends message_start, for each block content_block_start,   *)
(* deltas and content_block_stop, and then message_delta.  Any of them may *)
(* be missing: frames that cannot be decoded are passed over, and what     *)
(* follows a torn one is gone (decodeBedrockEventstream).  A fragment of a *)
(* block's text, thinking or tool input is <<its block, its number>>.  The *)
(* type of a block stands for what comes with it: tool name and tool ID.   *)
(***************************************************************************)
EXTENDS Integers, Sequences

CONSTANT Message      \* the blocks of the answer: kind, number of fragments

Messages == Seq([kind : {"text", "thinking", "tool_use"}, parts : Nat])

VARIABLES
    blk, part,   \* the event that comes next: of which block (0 and one past
                 \* the last: of the message), and in it 0 for the start, n
                 \* for fragment n, one past the last for the stop
    blocks,      \* currentBlocks
    builder,     \* the maps of builders: the fragments of each block so far
    usage,       \* the figures of usage that were found
    lost         \* history: the blocks of which an event was missing

parserVars == <<blk, part, blocks, builder, usage, lost>>

Indices == 1..Len(Message)
Kind(i) == Message[i].kind
Parts(i) == Message[i].parts
Fragments == Indices \X Nat
NoType == "none"      \* the empty string
Blocks == [type : {NoType, "text", "thinking", "tool_use"}, body : Seq(Fragments)]

\* The first n fragments of block i.
Whole(i, n) == [k \in 1..n |-> <<i, k>>]

Init ==
    /\ blk = 0 /\ part = 0
    /\ blocks = <<>> /\ builder = [i \in Indices |-> <<>>] /\ usage = {}
    /\ lost = {}

(* The function is called for another stream.                              *)
Reset ==
    /\ blk' = 0 /\ part' = 0
    /\ blocks' = <<>> /\ builder' = [i \in Indices |-> <<>>] /\ usage' = {}
    /\ lost' = {}

Done == blk = Len(Message) + 2

Advance ==
    IF blk \in Indices /\ part <= Parts(blk)
    THEN blk' = blk /\ part' = part + 1
    ELSE blk' = blk + 1 /\ part' = 0

\* The event does not reach the parser.
Missing ==
    /\ ~Done /\ Advance
    /\ lost' = lost \cup ({blk} \cap Indices)
    /\ UNCHANGED <<blocks, builder, usage>>

MessageStart ==
    /\ blk = 0 /\ Advance
    /\ usage' = usage \cup {"input"}
    /\ UNCHANGED <<blocks, builder, lost>>

MessageDelta ==
    /\ blk = Len(Message) + 1 /\ Advance
    /\ usage' = usage \cup {"output", "stop_reason"}
    /\ UNCHANGED <<blocks, builder, lost>>

\* Mutant of BlockStart: the block is appended, whatever its index.
BlockStartAppends ==
    /\ blk \in Indices /\ part = 0 /\ Advance
    /\ blocks' = Append(blocks, [type |-> Kind(blk), body |-> <<>>])
    /\ UNCHANGED <<builder, usage, lost>>

\* A block that is not there yet is made empty.
BlockAt(i) == IF i \in DOMAIN blocks THEN blocks[i] ELSE [type |-> NoType, body |-> <<>>]

(* The block gets its type; missing blocks before it stay empty.           *)
BlockStart ==
    /\ blk \in Indices /\ part = 0 /\ Advance
    /\ blocks' = [i \in (DOMAIN blocks) \cup 1..blk |->
                    IF i = blk THEN [BlockAt(i) EXCEPT !.type = Kind(i)] ELSE BlockAt(i)]
    /\ UNCHANGED <<builder, usage, lost>>

BlockDelta ==
    /\ blk \in Indices /\ part \in 1..Parts(blk) /\ Advance
    /\ builder' = [builder EXCEPT ![blk] = Append(@, <<blk, part>>)]
    /\ UNCHANGED <<blocks, usage, lost>>

(* The block is finished with what its builder has.  Tool input must be    *)
(* JSON: all its fragments are, some of them hardly ever.                  *)
BlockStop ==
    /\ blk \in Indices /\ part = Parts(blk) + 1 /\ Advance
    /\ \E parses \in {TRUE} \cup IF Kind(blk) = "tool_use" /\ builder[blk] # Whole(blk, Parts(blk))
                                 THEN {FALSE} ELSE {} :
        IF blk <= Len(blocks) /\ builder[blk] # <<>> /\ parses
        THEN blocks' = [blocks EXCEPT ![blk].body = builder[blk]]
        ELSE UNCHANGED blocks
    /\ UNCHANGED <<builder, usage, lost>>

Chunk == MessageStart \/ MessageDelta \/ BlockStart \/ BlockDelta \/ BlockStop

Next == Chunk \/ Missing
Spec == Init /\ [][Next]_parserVars

-----------------------------------------------------------------------------
(* Properties                                                              *)

(* Type invariant.                                                         *)
TypeOK ==
    /\ blk \in 0..(Len(Message) + 2) /\ part \in Nat
    /\ blocks \in Seq(Blocks) /\ Len(blocks) <= Len(Message)
    /\ builder \in [Indices -> Seq(Fragments)]
    /\ usage \subseteq {"input", "output", "stop_reason"}
    /\ lost \subseteq Indices

\* q holds fragments of block i, in their order, none twice.
FragmentsOf(i, q) ==
    /\ \A k \in DOMAIN q : q[k][1] = i
    /\ \A k, l \in DOMAIN q : k < l => q[k][2] < q[l][2]

(* A block has the type the provider gave it, or none, and fragments of    *)
(* its own in their order, whatever of the stream is missing: a tool call  *)
(* is never invented, text never put into another block.  A block of which *)
(* nothing is missing is complete as soon as its stop has been read,       *)
(* whatever is missing of the blocks around it.                            *)
BlocksExact ==
    /\ \A i \in DOMAIN blocks :
          blocks[i].type \in {NoType, Kind(i)} /\ FragmentsOf(i, blocks[i].body)
    /\ \A i \in Indices \ lost : i < blk =>
          /\ i \in DOMAIN blocks
          /\ blocks[i] = [type |-> Kind(i), body |-> Whole(i, Parts(i))]
=============================================================================
