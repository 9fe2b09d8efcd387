--------------------------- MODULE LogReaderProofs --------------------------
(***************************************************************************)
(* Proofs about the explorer's reading of a log, for any number of         *)
(* exchanges, any answers and any bound of the clock.                      *)
(***************************************************************************)
EXTENDS LogReader, SequenceTheorems, TLAPS

-----------------------------------------------------------------------------
(* The parser of streams                                                   *)

LEMMA MessageFacts ==
    /\ Len(Message) \in Nat
    /\ \A i \in P!Indices : i \in Nat /\ i >= 1 /\ i <= Len(Message) /\ P!Parts(i) \in Nat
                            /\ P!Kind(i) \in {"text", "thinking", "tool_use"}
<1>1. /\ Len(Message) \in Nat
      /\ \A i \in 1..Len(Message) : Message[i] \in [kind : {"text", "thinking", "tool_use"}, parts : Nat]
  BY ReaderAssumption, LenProperties, ElementOfSeq DEF P!Messages
<1> QED
  BY <1>1 DEF P!Indices, P!Parts, P!Kind

\* The fragments of block i so far, when the next event is <<b, n>>.
Sorted(i, q, b, n) ==
    /\ P!FragmentsOf(i, q)
    /\ \A k \in DOMAIN q : i < b \/ (i = b /\ q[k][2] < n)

(* What makes BlocksExact inductive: no block was started that is not due, *)
(* its fragments are those that came before the next event, and of a block *)
(* of which nothing is missing they are all of these.                      *)
ParserInv ==
    /\ P!TypeOK
    /\ blk \in P!Indices => part <= P!Parts(blk) + 1
    /\ blk \notin P!Indices => part = 0
    /\ Len(blocks) <= blk /\ (part = 0 /\ blk # 0 => Len(blocks) < blk)
    /\ \A i \in P!Indices : Sorted(i, builder[i], blk, part)
    /\ blk \in P!Indices /\ blk \notin lost =>
          /\ builder[blk] = P!Whole(blk, IF part = 0 THEN 0 ELSE part - 1)
          /\ part > 0 => /\ blk \in DOMAIN blocks
                         /\ blocks[blk] = [type |-> P!Kind(blk), body |-> <<>>]
    /\ P!BlocksExact

LEMMA WholeEmpty == \A i : P!Whole(i, 0) = <<>>
<1>1. \A i : P!Whole(i, 0) = [k \in 1..0 |-> <<i, k>>]
  BY DEF P!Whole
<1>2. \A i : DOMAIN [k \in 1..0 |-> <<i, k>>] = {}
  OBVIOUS
<1> QED
  BY <1>1, <1>2

LEMMA WholeSeq ==
    ASSUME NEW i \in P!Indices, NEW n \in Nat
    PROVE  /\ P!Whole(i, n) \in Seq(P!Fragments) /\ Len(P!Whole(i, n)) = n
           /\ \A k \in 1..n : P!Whole(i, n)[k] = <<i, k>>
<1>1. P!Whole(i, n) = [k \in 1..n |-> <<i, k>>]
  BY DEF P!Whole
<1>2. \A k \in 1..n : <<i, k>> \in P!Fragments
  BY DEF P!Fragments
<1>3. [k \in 1..n |-> <<i, k>>] \in [1..n -> P!Fragments]
  BY <1>2
<1>4. [k \in 1..n |-> <<i, k>>] \in Seq(P!Fragments)
  BY <1>3
<1> QED
  BY <1>1, <1>4

LEMMA WholeNext ==
    ASSUME NEW i \in P!Indices, NEW n \in Nat
    PROVE  Append(P!Whole(i, n), <<i, n + 1>>) = P!Whole(i, n + 1)
<1>1. <<i, n + 1>> \in P!Fragments /\ n + 1 \in Nat
  BY DEF P!Fragments
<1>2. PICK w \in Seq(P!Fragments) : w = P!Whole(i, n)
  BY WholeSeq
<1>3. Len(w) = n /\ \A k \in 1..n : w[k] = <<i, k>>
  BY <1>2, WholeSeq
<1>4. PICK b \in Seq(P!Fragments) : b = P!Whole(i, n + 1)
  BY <1>1, WholeSeq
<1>5. Len(b) = n + 1 /\ \A k \in 1..(n + 1) : b[k] = <<i, k>>
  BY <1>1, <1>4, WholeSeq
<1>6. PICK x \in P!Fragments : x = <<i, n + 1>>
  BY <1>1
<1>7. PICK a \in Seq(P!Fragments) : a = Append(w, x)
  BY AppendProperties
<1>8. Len(a) = n + 1 /\ a[n + 1] = x /\ \A k \in 1..n : a[k] = w[k]
  BY <1>3, <1>7, AppendProperties
<1>9. \A k \in 1..(n + 1) : k \in 1..n \/ k = n + 1
  OBVIOUS
<1>10. \A k \in 1..Len(a) : a[k] = b[k]
  BY <1>3, <1>5, <1>6, <1>8, <1>9
<1>11. a = b
  BY <1>5, <1>8, <1>10, SeqEqual
<1> QED
  BY <1>2, <1>4, <1>6, <1>7, <1>11

LEMMA WholeSorted ==
    ASSUME NEW i \in P!Indices, NEW n \in Nat
    PROVE  P!FragmentsOf(i, P!Whole(i, n))
<1>1. DOMAIN P!Whole(i, n) = 1..n
  BY DEF P!Whole
<1>2. \A k \in 1..n : P!Whole(i, n)[k] = <<i, k>>
  BY WholeSeq
<1> QED
  BY <1>1, <1>2 DEF P!FragmentsOf

\* Nothing has come yet of a block that is not due.
LEMMA NotDue ==
    ASSUME ParserInv, NEW i \in P!Indices, i > blk
    PROVE  builder[i] = P!Whole(i, 0)
<1>1. builder[i] \in Seq(P!Fragments) /\ blk \in Nat
  BY MessageFacts DEF ParserInv, P!TypeOK
<1>2. DOMAIN builder[i] = {}
  <2>1. ~(i < blk) /\ i # blk
    BY <1>1, MessageFacts
  <2>2. Sorted(i, builder[i], blk, part)
    BY DEF ParserInv
  <2> QED
    BY <2>1, <2>2 DEF Sorted
<1>3. Len(builder[i]) = 0
  <2>1. 1..Len(builder[i]) = {} /\ Len(builder[i]) \in Nat
    BY <1>1, <1>2, LenProperties
  <2> QED
    BY <2>1
<1>4. builder[i] = <<>>
  BY <1>1, <1>3, EmptySeq
<1> QED
  BY <1>4, WholeEmpty

\* The next event is one of the same block or of the next.
LEMMA AdvanceFacts ==
    ASSUME ParserInv, ~P!Done, P!Advance
    PROVE  \/ /\ blk \in P!Indices /\ part <= P!Parts(blk)
              /\ blk' = blk /\ part' = part + 1
           \/ /\ blk \in P!Indices => part = P!Parts(blk) + 1
              /\ blk' = blk + 1 /\ part' = 0 /\ blk' <= Len(Message) + 2
<1>1. blk \in 0..(Len(Message) + 2) /\ part \in Nat
  BY DEF ParserInv, P!TypeOK
<1>2. CASE blk \in P!Indices /\ part <= P!Parts(blk)
  BY <1>2 DEF P!Advance
<1>3. CASE ~(blk \in P!Indices /\ part <= P!Parts(blk))
  <2>1. blk' = blk + 1 /\ part' = 0
    BY <1>3 DEF P!Advance
  <2>2. blk \in P!Indices => part = P!Parts(blk) + 1
    BY <1>1, <1>3, MessageFacts DEF ParserInv
  <2> QED
    BY <1>1, <2>1, <2>2, MessageFacts DEF P!Done
<1> QED
  BY <1>2, <1>3

\* The parser passes over the event, or it is of no block.
LEMMA PassParser ==
    ASSUME ParserInv, ~P!Done, P!Advance, UNCHANGED <<blocks, builder>>,
           usage' \subseteq {"input", "output", "stop_reason"},
           lost' = lost \cup ({blk} \cap P!Indices)
    PROVE  ParserInv'
<1>1. /\ blk \in 0..(Len(Message) + 2) /\ part \in Nat /\ Len(Message) \in Nat
      /\ Len(blocks) \in Nat /\ lost' \subseteq P!Indices
  BY MessageFacts, LenProperties DEF ParserInv, P!TypeOK
<1>2. CASE /\ blk \in P!Indices /\ part <= P!Parts(blk)
           /\ blk' = blk /\ part' = part + 1
  <2>1. P!TypeOK'
    BY <1>1, <1>2 DEF ParserInv, P!TypeOK
  <2>2. \A i \in P!Indices : Sorted(i, builder'[i], blk', part')
    <3>1. \A i \in P!Indices : \A k \in DOMAIN builder[i] : builder[i][k][2] \in Nat
      BY LenProperties, ElementOfSeq DEF ParserInv, P!TypeOK, P!Fragments
    <3> QED
      BY <1>1, <1>2, <3>1 DEF ParserInv, Sorted
  <2>3. P!BlocksExact'
    BY <1>2 DEF ParserInv, P!BlocksExact
  <2> QED
    BY <1>1, <1>2, <2>1, <2>2, <2>3, MessageFacts DEF ParserInv
<1>3. CASE /\ blk \in P!Indices => part = P!Parts(blk) + 1
           /\ blk' = blk + 1 /\ part' = 0 /\ blk' <= Len(Message) + 2
  <2>1. P!TypeOK'
    BY <1>1, <1>3 DEF ParserInv, P!TypeOK
  <2>2. \A i \in P!Indices : Sorted(i, builder'[i], blk', part')
    <3>1. \A i \in P!Indices : i < blk \/ i = blk => i < blk + 1
      BY <1>1, MessageFacts
    <3> QED
      BY <1>3, <3>1 DEF ParserInv, Sorted
  <2>3. P!BlocksExact'
    <3>1. ASSUME NEW i \in P!Indices \ lost', i < blk'
          PROVE  i < blk /\ i \in P!Indices \ lost
      BY <1>1, <1>3, <3>1, MessageFacts
    <3> QED
      BY <3>1 DEF ParserInv, P!BlocksExact
  <2>4. blk' \in P!Indices => builder'[blk'] = P!Whole(blk', 0)
    <3>1. blk' > blk
      BY <1>1, <1>3
    <3> QED
      BY <3>1, NotDue
  <2> QED
    BY <1>1, <1>3, <2>1, <2>2, <2>3, <2>4, MessageFacts DEF ParserInv
<1> QED
  BY <1>2, <1>3, AdvanceFacts

LEMMA StartParser ==
    ASSUME ParserInv, P!BlockStart
    PROVE  ParserInv'
<1>1. /\ blk \in P!Indices /\ part = 0 /\ P!Advance
      /\ UNCHANGED <<builder, usage, lost>>
  BY DEF P!BlockStart
<1>2. /\ blk \in Nat /\ blk >= 1 /\ blk <= Len(Message) /\ P!Parts(blk) \in Nat
      /\ P!Kind(blk) \in {"text", "thinking", "tool_use"} /\ Len(Message) \in Nat
  BY <1>1, MessageFacts
<1>3. blk' = blk /\ part' = 1
  BY <1>1, <1>2 DEF P!Advance
<1>4. blocks \in Seq(P!Blocks) /\ Len(blocks) \in Nat /\ Len(blocks) < blk
      /\ DOMAIN blocks = 1..Len(blocks)
  BY <1>1, <1>2, LenProperties DEF ParserInv, P!TypeOK
<1>5. /\ (DOMAIN blocks) \cup 1..blk = 1..blk
      /\ blocks' = [i \in 1..blk |-> IF i = blk THEN [P!BlockAt(i) EXCEPT !.type = P!Kind(i)]
                                    ELSE P!BlockAt(i)]
  <2>1. (DOMAIN blocks) \cup 1..blk = 1..blk
    BY <1>2, <1>4
  <2> QED
    BY <2>1 DEF P!BlockStart
<1>6. /\ \A i \in 1..Len(blocks) : blocks[i] \in P!Blocks /\ blocks'[i] = blocks[i]
      /\ \A i \in 1..(blk - 1) : i > Len(blocks) => blocks'[i] = [type |-> P!NoType, body |-> <<>>]
      /\ blocks'[blk] = [type |-> P!Kind(blk), body |-> <<>>]
  <2>1. ASSUME NEW i \in 1..Len(blocks)
        PROVE  blocks[i] \in P!Blocks /\ blocks'[i] = blocks[i]
    <3>1. i \in 1..blk /\ i # blk /\ i \in DOMAIN blocks
      BY <1>2, <1>4
    <3> QED
      BY <1>4, <1>5, <3>1, ElementOfSeq DEF P!BlockAt
  <2>2. ASSUME NEW i \in 1..(blk - 1), i > Len(blocks)
        PROVE  blocks'[i] = [type |-> P!NoType, body |-> <<>>]
    <3>1. i \in 1..blk /\ i # blk /\ i \notin DOMAIN blocks
      BY <1>2, <1>4, <2>2
    <3> QED
      BY <1>5, <3>1 DEF P!BlockAt
  <2>3. blocks'[blk] = [type |-> P!Kind(blk), body |-> <<>>]
    <3>1. blk \in 1..blk /\ blk \notin DOMAIN blocks
      BY <1>2, <1>4
    <3>2. P!BlockAt(blk) = [type |-> P!NoType, body |-> <<>>]
      BY <3>1 DEF P!BlockAt
    <3>3. blocks'[blk] = [P!BlockAt(blk) EXCEPT !.type = P!Kind(blk)]
      BY <1>5, <3>1
    <3> QED
      BY <3>2, <3>3
  <2> QED
    BY <2>1, <2>2, <2>3
<1>7. <<>> \in Seq(P!Fragments)
  BY EmptySeq
<1>8. ASSUME NEW i \in 1..blk
      PROVE  \/ i \in 1..Len(blocks)
             \/ i \in 1..(blk - 1) /\ i > Len(blocks)
             \/ i = blk
  BY <1>2, <1>4
<1>81. \A i \in 1..blk : blocks'[i] \in P!Blocks
  <2>1. [type |-> P!NoType, body |-> <<>>] \in P!Blocks
    BY <1>7 DEF P!Blocks
  <2>2. [type |-> P!Kind(blk), body |-> <<>>] \in P!Blocks
    BY <1>2, <1>7 DEF P!Blocks
  <2> QED
    BY <1>6, <1>8, <2>1, <2>2
<1>9. blocks' \in Seq(P!Blocks) /\ Len(blocks') = blk /\ DOMAIN blocks' = 1..blk
  <2>1. DOMAIN blocks' = 1..blk /\ blocks' \in [1..blk -> P!Blocks]
    BY <1>5, <1>81
  <2>2. blocks' \in Seq(P!Blocks)
    BY <1>2, <2>1
  <2> QED
    BY <1>2, <2>1, <2>2, LenProperties
<1>10. P!TypeOK'
  BY <1>1, <1>2, <1>3, <1>9 DEF ParserInv, P!TypeOK
<1>11. \A i \in P!Indices : Sorted(i, builder'[i], blk', part')
  <2>1. Sorted(blk, builder[blk], blk, 1)
    BY <1>1, <1>2, MessageFacts, LenProperties, ElementOfSeq
    DEF ParserInv, Sorted, P!TypeOK, P!Fragments
  <2>2. \A i \in P!Indices : i # blk => Sorted(i, builder[i], blk, 1)
    BY DEF ParserInv, Sorted
  <2> QED
    BY <1>1, <1>3, <2>1, <2>2
<1>12. /\ blk \notin lost => builder[blk] = P!Whole(blk, 0)
       /\ blocks'[blk] = [type |-> P!Kind(blk), body |-> <<>>]
  <2>1. blk \notin lost => builder[blk] = P!Whole(blk, 0)
    BY <1>1 DEF ParserInv
  <2> QED
    BY <1>6, <2>1
<1>13. P!BlocksExact'
  <2>1. \A i \in DOMAIN blocks' : blocks'[i].type \in {P!NoType, P!Kind(i)}
                                  /\ P!FragmentsOf(i, blocks'[i].body)
    <3>1. \A i : P!FragmentsOf(i, <<>>)
      BY DEF P!FragmentsOf
    <3>2. ASSUME NEW i \in 1..Len(blocks)
          PROVE  blocks'[i].type \in {P!NoType, P!Kind(i)} /\ P!FragmentsOf(i, blocks'[i].body)
      BY <1>4, <1>6, <3>2 DEF ParserInv, P!BlocksExact
    <3>3. \A t, i : [type |-> t, body |-> <<>>].type = t /\ [type |-> t, body |-> <<>>].body = <<>>
      OBVIOUS
    <3>4. ASSUME NEW i \in 1..blk, i \in 1..(blk - 1), i > Len(blocks)
          PROVE  blocks'[i].type \in {P!NoType, P!Kind(i)} /\ P!FragmentsOf(i, blocks'[i].body)
      BY <1>6, <3>1, <3>3, <3>4
    <3>5. blocks'[blk].type \in {P!NoType, P!Kind(blk)} /\ P!FragmentsOf(blk, blocks'[blk].body)
      BY <1>6, <3>1, <3>3
    <3> QED
      BY <1>8, <1>9, <3>2, <3>4, <3>5
  <2>2. ASSUME NEW i \in P!Indices \ lost', i < blk'
        PROVE  i \in DOMAIN blocks'
               /\ blocks'[i] = [type |-> P!Kind(i), body |-> P!Whole(i, P!Parts(i))]
    <3>1. i \in DOMAIN blocks /\ blocks[i] = [type |-> P!Kind(i), body |-> P!Whole(i, P!Parts(i))]
      BY <1>1, <1>3, <2>2 DEF ParserInv, P!BlocksExact
    <3>2. i \in 1..Len(blocks) /\ i \in 1..blk
      BY <1>2, <1>4, <3>1
    <3> QED
      BY <1>6, <1>9, <3>1, <3>2
  <2> QED
    BY <2>1, <2>2 DEF P!BlocksExact
<1> QED
  BY <1>1, <1>2, <1>3, <1>9, <1>10, <1>11, <1>12, <1>13 DEF ParserInv

LEMMA DeltaParser ==
    ASSUME ParserInv, P!BlockDelta
    PROVE  ParserInv'
<1>1. /\ blk \in P!Indices /\ part \in 1..P!Parts(blk) /\ P!Advance
      /\ builder' = [builder EXCEPT ![blk] = Append(@, <<blk, part>>)]
      /\ UNCHANGED <<blocks, usage, lost>>
  BY DEF P!BlockDelta
<1>2. /\ blk \in Nat /\ blk >= 1 /\ blk <= Len(Message) /\ P!Parts(blk) \in Nat
      /\ part \in Nat /\ part >= 1 /\ part <= P!Parts(blk) /\ Len(Message) \in Nat
  BY <1>1, MessageFacts
<1>3. blk' = blk /\ part' = part + 1
  BY <1>1, <1>2 DEF P!Advance
<1>4. PICK x \in P!Fragments : x = <<blk, part>>
  BY <1>1, <1>2 DEF P!Fragments
<1>5. PICK q \in Seq(P!Fragments) : q = builder[blk]
  BY <1>1 DEF ParserInv, P!TypeOK
<1>6. PICK a \in Seq(P!Fragments) : a = Append(q, x)
  BY AppendProperties
<1>7. /\ Len(q) \in Nat /\ Len(a) = Len(q) + 1 /\ DOMAIN q = 1..Len(q)
      /\ DOMAIN a = 1..(Len(q) + 1)
      /\ a[Len(q) + 1] = x /\ \A k \in 1..Len(q) : a[k] = q[k]
  BY <1>6, AppendProperties, LenProperties
<1>8. /\ builder'[blk] = a /\ builder' \in [P!Indices -> Seq(P!Fragments)]
      /\ \A i \in P!Indices : i # blk => builder'[i] = builder[i]
  BY <1>1, <1>4, <1>5, <1>6 DEF ParserInv, P!TypeOK
<1>9. P!TypeOK'
  BY <1>1, <1>2, <1>3, <1>8 DEF ParserInv, P!TypeOK
<1>10. \A i \in P!Indices : Sorted(i, builder'[i], blk', part')
  <2>1. Sorted(blk, q, blk, part)
    BY <1>1, <1>5 DEF ParserInv
  <2>2. \A k \in 1..Len(q) : q[k][1] = blk /\ q[k][2] < part /\ q[k][2] \in Nat
    <3>1. \A k \in 1..Len(q) : q[k][1] = blk /\ q[k][2] < part
      BY <1>2, <1>7, <2>1 DEF Sorted, P!FragmentsOf
    <3>2. \A k \in 1..Len(q) : q[k] \in P!Fragments
      BY ElementOfSeq
    <3> QED
      BY <3>1, <3>2 DEF P!Fragments
  <2>3. \A k, l \in 1..Len(q) : k < l => q[k][2] < q[l][2]
    BY <1>7, <2>1 DEF Sorted, P!FragmentsOf
  <2>4. x[1] = blk /\ x[2] = part
    BY <1>4
  <2>5. \A k \in 1..(Len(q) + 1) : k \in 1..Len(q) \/ k = Len(q) + 1
    BY <1>7
  <2>6. \A k \in DOMAIN a : a[k][1] = blk /\ a[k][2] < part + 1
    BY <1>2, <1>7, <2>2, <2>4, <2>5
  <2>7. ASSUME NEW k \in DOMAIN a, NEW l \in DOMAIN a, k < l
        PROVE  a[k][2] < a[l][2]
    <3>1. k \in 1..Len(q)
      BY <1>7, <2>7
    <3>2. CASE l \in 1..Len(q)
      BY <1>7, <2>3, <2>7, <3>1, <3>2
    <3>3. CASE l = Len(q) + 1
      BY <1>7, <2>2, <2>4, <3>1, <3>3
    <3> QED
      BY <1>7, <2>5, <3>2, <3>3
  <2>8. Sorted(blk, a, blk, part + 1)
    BY <2>6, <2>7 DEF Sorted, P!FragmentsOf
  <2>9. ASSUME NEW i \in P!Indices, i # blk
        PROVE  Sorted(i, builder'[i], blk', part')
    BY <1>3, <1>8, <2>9 DEF ParserInv, Sorted
  <2> QED
    BY <1>3, <1>8, <2>8, <2>9
<1>11. blk \notin lost =>
          /\ a = P!Whole(blk, part)
          /\ blk \in DOMAIN blocks /\ blocks[blk] = [type |-> P!Kind(blk), body |-> <<>>]
  <2> HAVE blk \notin lost
  <2>1. /\ q = P!Whole(blk, part - 1)
        /\ blk \in DOMAIN blocks /\ blocks[blk] = [type |-> P!Kind(blk), body |-> <<>>]
    BY <1>1, <1>2, <1>5 DEF ParserInv
  <2>2. part - 1 \in Nat /\ (part - 1) + 1 = part
    BY <1>2
  <2>3. Append(P!Whole(blk, part - 1), <<blk, (part - 1) + 1>>) = P!Whole(blk, (part - 1) + 1)
    BY <1>1, <2>2, WholeNext
  <2> QED
    BY <1>4, <1>6, <2>1, <2>2, <2>3
<1>12. P!BlocksExact'
  BY <1>1, <1>3 DEF ParserInv, P!BlocksExact
<1>13. part' # 0 /\ (IF part' = 0 THEN 0 ELSE part' - 1) = part /\ part' <= P!Parts(blk) + 1
  BY <1>2, <1>3
<1> QED
  BY <1>1, <1>2, <1>3, <1>8, <1>9, <1>10, <1>11, <1>12, <1>13 DEF ParserInv

LEMMA StopParser ==
    ASSUME ParserInv, P!BlockStop
    PROVE  ParserInv'
<1>1. /\ blk \in P!Indices /\ part = P!Parts(blk) + 1 /\ P!Advance
      /\ UNCHANGED <<builder, usage, lost>>
  BY DEF P!BlockStop
<1>2. /\ blk \in Nat /\ blk >= 1 /\ blk <= Len(Message) /\ P!Parts(blk) \in Nat
      /\ part \in Nat /\ part >= 1 /\ Len(Message) \in Nat
  BY <1>1, MessageFacts
<1>3. blk' = blk + 1 /\ part' = 0
  BY <1>1, <1>2 DEF P!Advance
<1>4. /\ blocks \in Seq(P!Blocks) /\ Len(blocks) \in Nat /\ Len(blocks) <= blk
      /\ DOMAIN blocks = 1..Len(blocks) /\ Len(blocks) <= Len(Message)
  BY <1>1, <1>2, LenProperties DEF ParserInv, P!TypeOK
<1>5. PICK q \in Seq(P!Fragments) : q = builder[blk]
  BY <1>1 DEF ParserInv, P!TypeOK
<1>6. P!FragmentsOf(blk, q)
  BY <1>1, <1>5 DEF ParserInv, Sorted
<1>7. blk \notin lost =>
          /\ q = P!Whole(blk, P!Parts(blk))
          /\ blk \in DOMAIN blocks /\ blocks[blk] = [type |-> P!Kind(blk), body |-> <<>>]
  <2>1. part > 0 /\ (IF part = 0 THEN 0 ELSE part - 1) = P!Parts(blk)
    BY <1>1, <1>2
  <2> QED
    BY <1>1, <1>5, <2>1 DEF ParserInv
\* Either the block is finished, or nothing is done: then there was nothing
\* to put in, or an event of it is missing.
<1>8. \/ blk <= Len(blocks) /\ blocks' = [blocks EXCEPT ![blk].body = q]
      \/ blocks' = blocks /\ (blk \in lost \/ q = <<>>)
  <2>1. PICK parses \in {TRUE} \cup (IF P!Kind(blk) = "tool_use" /\ q # P!Whole(blk, P!Parts(blk))
                                     THEN {FALSE} ELSE {}) :
          IF blk <= Len(blocks) /\ q # <<>> /\ parses
          THEN blocks' = [blocks EXCEPT ![blk].body = q]
          ELSE UNCHANGED blocks
    BY <1>5 DEF P!BlockStop
  <2>2. blk \notin lost => parses /\ blk <= Len(blocks)
    BY <1>4, <1>7, <2>1
  <2> QED
    BY <2>1, <2>2
<1>9. /\ DOMAIN blocks' = 1..Len(blocks) /\ blocks' \in Seq(P!Blocks) /\ Len(blocks') = Len(blocks)
      /\ \A i \in 1..Len(blocks) : i # blk => blocks'[i] = blocks[i]
      /\ blk \in 1..Len(blocks) => /\ blocks'[blk].type \in {P!NoType, P!Kind(blk)}
                                   /\ P!FragmentsOf(blk, blocks'[blk].body)
  <2>1. ASSUME blk <= Len(blocks), blocks' = [blocks EXCEPT ![blk].body = q]
        PROVE  <1>9!:
    <3>1. blk \in 1..Len(blocks)
      BY <1>2, <1>4, <2>1
    <3>2. PICK b \in P!Blocks : b = blocks[blk]
      BY <1>4, <3>1, ElementOfSeq
    <3>3. [b EXCEPT !.body = q] \in P!Blocks /\ [b EXCEPT !.body = q].body = q
          /\ [b EXCEPT !.body = q].type = b.type
      BY <3>2 DEF P!Blocks
    <3>4. PICK c \in P!Blocks : c = [b EXCEPT !.body = q]
      BY <3>3
    <3>5. blocks' = [blocks EXCEPT ![blk] = c]
      BY <2>1, <3>2, <3>4
    <3>6. /\ blocks' \in Seq(P!Blocks) /\ Len(blocks') = Len(blocks)
          /\ blocks'[blk] = c /\ \A i \in 1..Len(blocks) : i # blk => blocks'[i] = blocks[i]
      BY <1>4, <3>1, <3>5, ExceptSeq
    <3>7. b.type \in {P!NoType, P!Kind(blk)}
      BY <1>4, <3>1, <3>2 DEF ParserInv, P!BlocksExact
    <3> QED
      BY <1>4, <1>6, <3>3, <3>4, <3>6, <3>7, LenProperties
  <2>2. ASSUME blocks' = blocks
        PROVE  <1>9!:
    BY <1>4, <2>2 DEF ParserInv, P!BlocksExact
  <2> QED
    BY <1>8, <2>1, <2>2
<1>10. blk \notin lost => blk \in 1..Len(blocks)
          /\ blocks'[blk] = [type |-> P!Kind(blk), body |-> P!Whole(blk, P!Parts(blk))]
  <2> HAVE blk \notin lost
  <2>1. blk \in 1..Len(blocks)
    BY <1>4, <1>7
  <2>2. CASE blocks' = [blocks EXCEPT ![blk].body = q]
    <3>1. blocks'[blk] = [blocks[blk] EXCEPT !.body = q]
      BY <1>4, <2>1, <2>2
    <3> QED
      BY <1>7, <2>1, <3>1
  <2>3. CASE blocks' = blocks /\ q = <<>>
    BY <1>7, <2>1, <2>3
  <2> QED
    BY <1>8, <2>1, <2>2, <2>3
<1>11. P!TypeOK'
  BY <1>1, <1>2, <1>3, <1>4, <1>9 DEF ParserInv, P!TypeOK
<1>12. \A i \in P!Indices : Sorted(i, builder'[i], blk', part')
  <2>1. \A i \in P!Indices : i < blk \/ i = blk => i < blk + 1
    BY <1>2, MessageFacts
  <2> QED
    BY <1>1, <1>3, <2>1 DEF ParserInv, Sorted
<1>13. P!BlocksExact'
  <2>1. ASSUME NEW i \in DOMAIN blocks'
        PROVE  blocks'[i].type \in {P!NoType, P!Kind(i)} /\ P!FragmentsOf(i, blocks'[i].body)
    <3>1. CASE i = blk
      BY <1>9, <2>1, <3>1
    <3>2. CASE i # blk
      BY <1>4, <1>9, <2>1, <3>2 DEF ParserInv, P!BlocksExact
    <3> QED
      BY <3>1, <3>2
  <2>2. ASSUME NEW i \in P!Indices \ lost', i < blk'
        PROVE  i \in DOMAIN blocks'
               /\ blocks'[i] = [type |-> P!Kind(i), body |-> P!Whole(i, P!Parts(i))]
    <3>1. CASE i = blk
      BY <1>1, <1>9, <1>10, <2>2, <3>1
    <3>2. CASE i # blk
      <4>1. i < blk /\ i \in P!Indices \ lost
        BY <1>1, <1>2, <1>3, <2>2, <3>2, MessageFacts
      <4> QED
        BY <1>4, <1>9, <3>2, <4>1 DEF ParserInv, P!BlocksExact
    <3> QED
      BY <3>1, <3>2
  <2> QED
    BY <2>1, <2>2 DEF P!BlocksExact
<1>14. blk' \in P!Indices => builder'[blk'] = P!Whole(blk', 0)
  <2>1. blk' > blk
    BY <1>2, <1>3
  <2> QED
    BY <1>1, <2>1, NotDue
<1> QED
  BY <1>1, <1>2, <1>3, <1>4, <1>9, <1>11, <1>12, <1>13, <1>14, MessageFacts DEF ParserInv

LEMMA ParserStart ==
    ASSUME blk = 0, part = 0, blocks = <<>>, builder = [i \in P!Indices |-> <<>>], usage = {}, lost = {}
    PROVE  ParserInv
<1>1. Len(Message) \in Nat /\ \A i \in P!Indices : i \in Nat /\ i >= 1
  BY MessageFacts
<1>2. blocks \in Seq(P!Blocks) /\ <<>> \in Seq(P!Fragments) /\ Len(blocks) = 0 /\ DOMAIN blocks = {}
  BY EmptySeq
<1>3. P!TypeOK
  BY <1>1, <1>2 DEF P!TypeOK
<1>4. \A i, b, n : Sorted(i, <<>>, b, n)
  BY DEF Sorted, P!FragmentsOf
<1>5. P!BlocksExact
  BY <1>1, <1>2 DEF P!BlocksExact
<1>6. blk \notin P!Indices
  BY <1>1
<1> QED
  BY <1>1, <1>2, <1>3, <1>4, <1>5, <1>6 DEF ParserInv

LEMMA ParserStep ==
    ASSUME ParserInv, P!Next
    PROVE  ParserInv'
<1>1. CASE P!Missing
  BY <1>1, PassParser DEF P!Missing, ParserInv, P!TypeOK
<1>2. CASE P!MessageStart \/ P!MessageDelta
  <2>1. blk \notin P!Indices /\ ~P!Done
    BY <1>2, MessageFacts DEF P!MessageStart, P!MessageDelta, P!Done
  <2>2. P!Advance /\ UNCHANGED <<blocks, builder>> /\ lost' = lost \cup ({blk} \cap P!Indices)
    BY <1>2, <2>1 DEF P!MessageStart, P!MessageDelta
  <2>3. usage' \subseteq {"input", "output", "stop_reason"}
    BY <1>2 DEF P!MessageStart, P!MessageDelta, ParserInv, P!TypeOK
  <2> QED
    BY <2>1, <2>2, <2>3, PassParser
<1>3. CASE P!BlockStart
  BY <1>3, StartParser
<1>4. CASE P!BlockDelta
  BY <1>4, DeltaParser
<1>5. CASE P!BlockStop
  BY <1>5, StopParser
<1> QED
  BY <1>1, <1>2, <1>3, <1>4, <1>5 DEF P!Next, P!Chunk

-----------------------------------------------------------------------------
(* Types                                                                   *)

TurnSet == [request : Lines, response : Lines \cup {NoLine}, content : Contents]

\* Before the file is read there is nothing; a line that is being parsed is
\* there, and it is a response to one of the turns.
PhaseOK ==
    /\ reader = "closed" => pos = 0 /\ Len(turns) = 0 /\ byID = {} /\ bySeq = {}
    /\ reader = "parsing" => /\ pos < Len(seen) /\ line.type = "response"
                             /\ Matched /\ line.of \in Streamed

\* TypeOK is inductive together with what the parser and the reader rely on.
TypeInv == TypeOK /\ ParserInv /\ PhaseOK

LEMMA NoLineIsNone == NoLine \notin Lines /\ \A l \in Lines : l # NoLine
  BY DEF NoLine, Started, Lines

LEMMA LineTypes ==
    ASSUME TypeOK, NEW kind \in {"request", "response"}, NEW e \in Exchanges, NEW t \in Times
    PROVE  Line(kind, e, t) \in Lines
  BY DEF TypeOK, Line, Lines, NoID

\* What the parser's variables do in a step of the reader.
LEMMA ParserKept ==
    ASSUME ParserInv, [Next]_vars
    PROVE  ParserInv'
<1>1. ASSUME UNCHANGED parser
      PROVE  ParserInv'
  BY <1>1 DEF parser, ParserInv, P!TypeOK, P!BlocksExact
<1>2. ASSUME P!Reset
      PROVE  ParserInv'
  <2>1. ASSUME TRUE PROVE Len(Message)' = Len(Message) /\ \A i \in P!Indices : i \in Nat /\ i >= 1
    BY MessageFacts
  <2>2. blocks' \in Seq(P!Blocks) /\ <<>> \in Seq(P!Fragments) /\ Len(blocks') = 0 /\ DOMAIN blocks' = {}
    BY <1>2, EmptySeq DEF P!Reset
  <2>3. \A i, b, n : Sorted(i, <<>>, b, n)
    BY DEF Sorted, P!FragmentsOf
  <2>4. P!TypeOK'
    BY <1>2, <2>1, <2>2, MessageFacts DEF P!TypeOK, P!Reset
  <2>5. P!BlocksExact'
    BY <1>2, <2>1, <2>2 DEF P!BlocksExact, P!Reset
  <2>6. blk' \notin P!Indices
    BY <1>2, <2>1 DEF P!Reset
  <2> QED
    BY <1>2, <2>2, <2>3, <2>4, <2>5, <2>6 DEF ParserInv, P!Reset
<1>3. ASSUME Next
      PROVE  UNCHANGED parser \/ P!Reset \/ P!Next
  BY <1>3 DEF Next, NoteRequest, WriteRequest, NoteResponse, WriteResponse, Tick, ByProxy,
              Open, ReadRequest, ReadBuffered, ReadStreamed, Parse, Parsed, PassOver, Show
<1>4. CASE UNCHANGED vars
  BY <1>1, <1>4 DEF vars
<1> QED
  BY <1>1, <1>2, <1>3, <1>4, ParserStep

\* Place keeps the slice and puts the line and its content into one element.
LEMMA PlaceTypes ==
    ASSUME TypeOK, line \in Lines, NEW c \in Contents, Place(c)
    PROVE  turns' \in Seq(TurnSet) /\ Len(turns') = Len(turns)
<1>1. turns \in Seq(TurnSet) /\ Len(turns) \in Nat /\ DOMAIN turns = 1..Len(turns)
      /\ \A j \in 1..Len(turns) : turns[j] \in TurnSet
  BY LenProperties, ElementOfSeq DEF TypeOK, TurnSet
<1>2. \A t \in TurnSet : [t EXCEPT !.response = line, !.content = c] \in TurnSet
  BY DEF TurnSet
<1>3. DOMAIN turns' = 1..Len(turns) /\ \A j \in 1..Len(turns) : turns'[j] \in TurnSet
  BY <1>1, <1>2 DEF Place
<1>4. turns' \in [1..Len(turns) -> TurnSet]
  <2>1. turns' = [j \in DOMAIN turns' |-> turns'[j]]
    BY DEF Place
  <2> QED
    BY <1>3, <2>1
<1>5. turns' \in Seq(TurnSet)
  BY <1>1, <1>4
<1> QED
  BY <1>1, <1>3, <1>5, LenProperties

LEMMA TypeInit == ASSUME Init PROVE TypeInv
<1>1. ParserInv
  BY ParserStart DEF Init, P!Init
<1>2. file \in Seq(Lines)
  <2>1. <<>> \in Seq(Lines)
    BY EmptySeq
  <2>2. Started \in Lines
    BY ReaderAssumption DEF Lines, Times, NoID, Started
  <2>3. <<Started>> \in Seq(Lines)
    BY <2>2
  <2> QED
    BY <2>1, <2>3 DEF Init
<1>3. seen \in Seq(Lines) /\ turns \in Seq(TurnSet) /\ Len(seen) = 0
  BY EmptySeq DEF Init
<1>30. number \in [Exchanges -> Exchanges]
  BY DEF Init
<1>4. TypeOK
  BY <1>1, <1>2, <1>3, <1>30, ReaderAssumption DEF Init, TypeOK, TurnSet, Times, ParserInv
<1> QED
  BY <1>1, <1>4 DEF TypeInv, PhaseOK, Init

LEMMA TypeStep == ASSUME TypeInv, [Next]_vars PROVE TypeInv'
<1>1. /\ withIDs \in BOOLEAN /\ number \in [Exchanges -> Exchanges] /\ now \in Times
      /\ at \in [Exchanges -> {"new", "request", "open", "response", "done"}]
      /\ asked \in [Exchanges -> Times] /\ answered \in [Exchanges -> Times]
      /\ file \in Seq(Lines) /\ seen \in Seq(Lines)
      /\ reader \in {"closed", "walking", "parsing", "shown"}
      /\ pos \in 0..Len(seen) /\ pos \in Nat
      /\ byID \subseteq Exchanges /\ bySeq \subseteq Exchanges
      /\ turns \in Seq(TurnSet) /\ P!TypeOK
      /\ Len(seen) \in Nat
  BY LenProperties DEF TypeInv, TypeOK, TurnSet
<1>2. ParserInv'
  BY ParserKept DEF TypeInv
<1>3. P!TypeOK'
  BY <1>2 DEF ParserInv
<1>4. ASSUME pos < Len(seen)
      PROVE  line \in Lines /\ pos + 1 \in 0..Len(seen)
  BY <1>1, <1>4, ElementOfSeq DEF line
<1>5. NoContent \in Contents
  <2>1. <<>> \in Seq(P!Blocks)
    BY EmptySeq
  <2> QED
    BY <2>1 DEF NoContent, Contents
<1>6. ASSUME Tick \/ \E e \in Exchanges : NoteRequest(e) \/ WriteRequest(e) \/ NoteResponse(e) \/ WriteResponse(e)
      PROVE  TypeOK' /\ PhaseOK'
  <2>1. UNCHANGED <<withIDs, number, reader, seen, pos, byID, bySeq, turns>>
    BY <1>6 DEF Tick, NoteRequest, WriteRequest, NoteResponse, WriteResponse, ByProxy, maps
  <2>2. PhaseOK'
    BY <2>1 DEF TypeInv, PhaseOK, Matched, line
  <2>3. /\ now' \in Times /\ at' \in [Exchanges -> {"new", "request", "open", "response", "done"}]
        /\ asked' \in [Exchanges -> Times] /\ answered' \in [Exchanges -> Times]
    BY <1>1, <1>6, ReaderAssumption
    DEF Tick, NoteRequest, WriteRequest, NoteResponse, WriteResponse, Goes, Writes, Times
  <2>4. file' \in Seq(Lines)
    <3>1. \A e \in Exchanges : Line("request", e, asked[e]) \in Lines
                               /\ Line("response", e, answered[e]) \in Lines
      BY <1>1, LineTypes DEF TypeInv
    <3>2. file' = file \/ \E l \in Lines : file' = Append(file, l)
      BY <1>6, <3>1 DEF Tick, NoteRequest, WriteRequest, NoteResponse, WriteResponse, Writes
    <3>3. file \in Seq(Lines)
      BY <1>1
    <3> QED
      BY <3>2, <3>3, AppendProperties
  <2> QED
    BY <1>1, <1>3, <2>1, <2>2, <2>3, <2>4 DEF TypeOK, TurnSet
<1>7. CASE Open
  BY <1>1, <1>2, <1>3, <1>7, LenProperties DEF Open, TypeOK, TurnSet, PhaseOK, writer, maps, TypeInv
<1>8. CASE ReadRequest
  <2>1. pos < Len(seen) /\ pos' = pos + 1 /\ reader' = "walking"
        /\ UNCHANGED <<withIDs, number, now, at, asked, answered, file, seen>>
    BY <1>8 DEF ReadRequest, Walks, writer
  <2>2. line \in Lines /\ pos' \in 0..Len(seen) /\ line.type = "request"
    BY <1>4, <1>8, <2>1 DEF ReadRequest
  <2>3. [request |-> line, response |-> NoLine, content |-> NoContent] \in TurnSet
    BY <1>5, <2>2 DEF TurnSet
  <2>4. turns' \in Seq(TurnSet)
    BY <1>1, <1>8, <2>3, AppendProperties DEF ReadRequest
  <2>5. byID' \subseteq Exchanges /\ bySeq' \subseteq Exchanges
    BY <1>1, <1>8, <2>2 DEF ReadRequest, Lines, NoID
  <2> QED
    BY <1>1, <1>2, <1>3, <2>1, <2>2, <2>4, <2>5 DEF TypeInv, TypeOK, TurnSet, PhaseOK
<1>9. CASE ReadBuffered \/ PassOver
  <2>1. pos < Len(seen) /\ pos' = pos + 1 /\ reader' = "walking"
        /\ UNCHANGED <<withIDs, number, now, at, asked, answered, file, seen, byID, bySeq>>
    BY <1>9 DEF ReadBuffered, PassOver, Walks, writer, maps
  <2>2. line \in Lines /\ pos' \in 0..Len(seen)
    BY <1>4, <2>1
  <2>3. turns' \in Seq(TurnSet)
    BY <1>1, <1>5, <1>9, <2>2, PlaceTypes DEF ReadBuffered, PassOver, TypeInv
  <2> QED
    BY <1>1, <1>2, <1>3, <2>1, <2>2, <2>3 DEF TypeInv, TypeOK, TurnSet, PhaseOK
<1>10. CASE ReadStreamed
  BY <1>1, <1>2, <1>3, <1>10
  DEF ReadStreamed, Walks, writer, maps, TypeInv, TypeOK, TurnSet, PhaseOK, line, Matched
<1>11. CASE Parse
  BY <1>1, <1>2, <1>3, <1>11 DEF Parse, writer, maps, TypeInv, TypeOK, TurnSet, PhaseOK, line, Matched
<1>12. CASE Parsed
  <2>1. pos < Len(seen) /\ pos' = pos + 1 /\ reader' = "walking"
        /\ UNCHANGED <<withIDs, number, now, at, asked, answered, file, seen, byID, bySeq>>
    BY <1>12 DEF Parsed, writer, maps, TypeInv, PhaseOK
  <2>2. line \in Lines /\ pos' \in 0..Len(seen)
    BY <1>4, <2>1
  <2>3. [blocks |-> blocks, lost |-> lost] \in Contents
    BY <1>1 DEF Contents, P!TypeOK
  <2>4. turns' \in Seq(TurnSet)
    BY <1>12, <2>2, <2>3, PlaceTypes DEF Parsed, TypeInv
  <2> QED
    BY <1>1, <1>2, <1>3, <2>1, <2>2, <2>4 DEF TypeInv, TypeOK, TurnSet, PhaseOK
<1>13. CASE Show
  <2>1. PICK p \in Bijection(DOMAIN turns, DOMAIN turns) :
          turns' = [i \in DOMAIN turns |-> turns[p[i]]]
    BY <1>13 DEF Show
  <2>2. p \in [DOMAIN turns -> DOMAIN turns]
    BY DEF Bijection, Injection, Surjection
  <2>3. DOMAIN turns = 1..Len(turns) /\ Len(turns) \in Nat /\ \A i \in 1..Len(turns) : turns[i] \in TurnSet
    BY <1>1, LenProperties, ElementOfSeq
  <2>4. turns' \in [1..Len(turns) -> TurnSet]
    BY <2>1, <2>2, <2>3
  <2>5. turns' \in Seq(TurnSet)
    BY <2>3, <2>4
  <2> QED
    BY <1>1, <1>2, <1>3, <1>13, <2>5 DEF Show, writer, maps, TypeInv, TypeOK, TurnSet, PhaseOK
<1>14. CASE UNCHANGED vars
  BY <1>1, <1>2, <1>3, <1>14
  DEF vars, writer, maps, TypeInv, TypeOK, TurnSet, PhaseOK, line, Matched
<1> QED
  BY <1>2, <1>6, <1>7, <1>8, <1>9, <1>10, <1>11, <1>12, <1>13, <1>14 DEF Next, TypeInv

LEMMA TypeInvHolds == Spec => []TypeInv
<1>1. Init => TypeInv
  BY TypeInit
<1>2. TypeInv /\ [Next]_vars => TypeInv'
  BY TypeStep
<1> QED
  BY <1>1, <1>2, PTL DEF Spec

(* Type correctness.                                                       *)
THEOREM TypeCorrect == Spec => []TypeOK
<1>1. TypeInv => TypeOK
  BY DEF TypeInv
<1> QED
  BY <1>1, TypeInvHolds, PTL

(* Whatever frames of a stream are missing, each block holds fragments of  *)
(* its own, in order, under its own type, and a block of which none is     *)
(* missing is complete (ParseStreamingResponse).                           *)
THEOREM BlocksExactHolds == Spec => []BlocksExact
<1>1. TypeInv => BlocksExact
  BY DEF TypeInv, ParserInv, BlocksExact
<1> QED
  BY <1>1, TypeInvHolds, PTL

-----------------------------------------------------------------------------
(* Pairing and order                                                       *)

\* Lines as the proxy writes them: of what has happened, with its time.
TrueLines == {l \in Lines :
    /\ l.type # "session_start" => l.seq = number[l.of] /\ l.id = IF withIDs THEN l.of ELSE NoID
    /\ l.type = "request" => at[l.of] \in {"open", "response", "done"} /\ l.ts = asked[l.of]
    /\ l.type = "response" => at[l.of] = "done" /\ l.ts = answered[l.of]}

\* Of each exchange at most its request and then its response.
InTurn(q) ==
    \A i, j \in DOMAIN q :
        i < j /\ q[i].type # "session_start" /\ q[j].type # "session_start" /\ q[i].of = q[j].of
        => q[i].type = "request" /\ q[j].type = "response"

LogOK ==
    /\ \A i \in 1..Len(file) : file[i] \in TrueLines
    /\ InTurn(file)
    /\ \A i \in 1..Len(seen) : seen[i] \in TrueLines
    /\ InTurn(seen)

ClockOK ==
    \A e \in Exchanges :
        /\ asked[e] <= now /\ answered[e] <= now
        /\ at[e] \in {"response", "done"} => asked[e] <= answered[e]

AllBlocks == [b \in P!Indices |-> [type |-> P!Kind(b), body |-> P!Whole(b, P!Parts(b))]]

\* What the explorer knows an exchange by.
KeyOf(e) == IF withIDs THEN e ELSE number[e]

TrueTurns == {t \in TurnSet :
    /\ t.request \in TrueLines /\ t.request.type = "request"
    /\ t.response # NoLine =>
          /\ t.response \in TrueLines /\ t.response.type = "response"
          /\ KeyOf(t.response.of) = KeyOf(t.request.of)
          /\ t.response.of \in Streamed /\ t.content.lost = {} => t.content.blocks = AllBlocks}

\* The turns are the requests that have been read, each with its response if
\* that has been read too and can be told from those of other exchanges.
TurnsOK ==
    /\ \A j \in 1..Len(turns) : turns[j] \in TrueTurns
    /\ \A j, k \in 1..Len(turns) : j # k => turns[j].request.of # turns[k].request.of
    /\ \A j \in 1..Len(turns) : \E i \in 1..pos : seen[i] = turns[j].request
    /\ \A i \in 1..pos : seen[i].type = "request" => \E j \in 1..Len(turns) : turns[j].request = seen[i]
    /\ \A j \in 1..Len(turns) : turns[j].response # NoLine => \E i \in 1..pos : seen[i] = turns[j].response
    /\ \A j \in 1..Len(turns) : \A i \in 1..pos :
          seen[i].type = "response" /\ Told(seen[i].of) /\ seen[i].of = turns[j].request.of => turns[j].response # NoLine

\* The maps know the turns, each by one key.
MapsOK ==
    /\ \A k \in Exchanges :
          k \in byID \cup bySeq <=> \E j \in 1..Len(turns) : KeyOf(turns[j].request.of) = k
    /\ IF withIDs THEN bySeq = {} ELSE byID = {}

\* Also an exchange whose answer has come but is not written keeps its place.
ShownOK ==
    reader = "shown" =>
        /\ pos = Len(seen)
        /\ \A i, j \in 1..Len(turns) :
              LET e == turns[i].request.of
                  f == turns[j].request.of
              IN (Told(e) /\ Told(f) /\ at[e] \in {"response", "done"} /\ answered[e] < asked[f]) => i < j

PairInv == TypeInv /\ ClockOK /\ LogOK /\ TurnsOK /\ MapsOK /\ ShownOK

\* What an exchange is known by does not change.
LEMMA KeysKept == ASSUME Next PROVE UNCHANGED <<withIDs, number>>
BY DEF Next, NoteRequest, WriteRequest, NoteResponse, WriteResponse, Tick, ByProxy, Open, ReadRequest,
       ReadBuffered, ReadStreamed, Parse, Parsed, PassOver, Show, Walks, writer

\* What the writer does leaves true lines true,
LEMMA LinesStayTrue ==
    ASSUME TypeInv, Next
    PROVE  TrueLines \subseteq TrueLines'
<1> SUFFICES ASSUME NEW l \in Lines, l \in TrueLines
             PROVE  l \in TrueLines'
  BY DEF TrueLines
<1>1. l.type \in {"request", "response"} => l.of \in Exchanges
  BY DEF Lines
<1>2. /\ at \in [Exchanges -> {"new", "request", "open", "response", "done"}]
      /\ asked \in [Exchanges -> Times] /\ answered \in [Exchanges -> Times]
  BY DEF TypeInv, TypeOK
<1>3. CASE \E e \in Exchanges : NoteRequest(e) \/ WriteRequest(e) \/ NoteResponse(e) \/ WriteResponse(e)
  <2>1. PICK e \in Exchanges : NoteRequest(e) \/ WriteRequest(e) \/ NoteResponse(e) \/ WriteResponse(e)
    BY <1>3
  <2>2. CASE NoteRequest(e)
    BY <1>1, <1>2, <2>2 DEF NoteRequest, Goes, ByProxy, TrueLines
  <2>3. CASE WriteRequest(e)
    BY <1>1, <1>2, <2>3 DEF WriteRequest, Goes, Writes, ByProxy, TrueLines
  <2>4. CASE NoteResponse(e)
    BY <1>1, <1>2, <2>4 DEF NoteResponse, Goes, ByProxy, TrueLines
  <2>5. CASE WriteResponse(e)
    BY <1>1, <1>2, <2>5 DEF WriteResponse, Goes, Writes, ByProxy, TrueLines
  <2> QED
    BY <2>1, <2>2, <2>3, <2>4, <2>5
<1>4. CASE UNCHANGED <<withIDs, number, at, asked, answered>>
  BY <1>4 DEF TrueLines
<1>5. \/ \E e \in Exchanges : NoteRequest(e) \/ WriteRequest(e) \/ NoteResponse(e) \/ WriteResponse(e)
      \/ UNCHANGED <<withIDs, number, at, asked, answered>>
  BY DEF Next, Tick, ByProxy, Open, ReadRequest, ReadBuffered, ReadStreamed, Parse, Parsed, PassOver,
         Show, Walks, writer
<1> QED
  BY <1>3, <1>4, <1>5

\* and so the turns that consist of them.
LEMMA TurnsStayTrue ==
    ASSUME TypeInv, Next
    PROVE  TrueTurns \subseteq TrueTurns'
<1>1. UNCHANGED <<withIDs, number>>
  BY KeysKept
<1>2. TrueLines \subseteq TrueLines'
  BY LinesStayTrue
<1> QED
  BY <1>1, <1>2 DEF TrueTurns, KeyOf

LEMMA ClockStep ==
    ASSUME TypeInv, ClockOK, Next
    PROVE  ClockOK'
<1>1. /\ at \in [Exchanges -> {"new", "request", "open", "response", "done"}]
      /\ asked \in [Exchanges -> Times] /\ answered \in [Exchanges -> Times] /\ now \in Times
      /\ Times \subseteq Int
  BY DEF TypeInv, TypeOK, Times
<1>2. CASE \E e \in Exchanges : NoteRequest(e) \/ WriteRequest(e) \/ NoteResponse(e) \/ WriteResponse(e)
  <2>1. PICK e \in Exchanges : NoteRequest(e) \/ WriteRequest(e) \/ NoteResponse(e) \/ WriteResponse(e)
    BY <1>2
  <2> QED
    BY <1>1, <2>1 DEF NoteRequest, WriteRequest, NoteResponse, WriteResponse, Goes, Writes, ClockOK
<1>3. CASE Tick
  <2>1. now \in Int /\ \A e \in Exchanges : asked[e] \in Int /\ answered[e] \in Int
    BY <1>1
  <2>2. now' = now + 1 /\ UNCHANGED <<at, asked, answered>>
    BY <1>3 DEF Tick
  <2> QED
    BY <2>1, <2>2 DEF ClockOK
<1>4. CASE UNCHANGED <<now, at, asked, answered>>
  BY <1>4 DEF ClockOK
<1>5. \/ \E e \in Exchanges : NoteRequest(e) \/ WriteRequest(e) \/ NoteResponse(e) \/ WriteResponse(e)
      \/ Tick \/ UNCHANGED <<now, at, asked, answered>>
  BY DEF Next, Open, ReadRequest, ReadBuffered, ReadStreamed, Parse, Parsed, PassOver,
         Show, Walks, writer
<1> QED
  BY <1>2, <1>3, <1>4, <1>5

\* A line is appended that follows those there are of its exchange.
LEMMA InTurnAppend ==
    ASSUME NEW q \in Seq(Lines), NEW l \in Lines, InTurn(q), l.type # "session_start",
           \A i \in 1..Len(q) : q[i].type # "session_start" /\ q[i].of = l.of
                                => q[i].type = "request" /\ l.type = "response"
    PROVE  InTurn(Append(q, l))
<1>1. PICK a \in Seq(Lines) : a = Append(q, l)
  BY AppendProperties
<1>2. /\ Len(q) \in Nat /\ DOMAIN q = 1..Len(q) /\ DOMAIN a = 1..(Len(q) + 1)
      /\ a[Len(q) + 1] = l /\ \A i \in 1..Len(q) : a[i] = q[i]
  BY <1>1, AppendProperties, LenProperties
<1>3. ASSUME NEW i \in DOMAIN a, NEW j \in DOMAIN a, i < j,
             a[i].type # "session_start", a[j].type # "session_start", a[i].of = a[j].of
      PROVE  a[i].type = "request" /\ a[j].type = "response"
  <2>1. i \in 1..Len(q)
    BY <1>2, <1>3
  <2>2. j \in 1..Len(q) \/ j = Len(q) + 1
    BY <1>2
  <2>3. CASE j \in 1..Len(q)
    BY <1>2, <1>3, <2>1, <2>3 DEF InTurn
  <2>4. CASE j = Len(q) + 1
    BY <1>2, <1>3, <2>1, <2>4
  <2> QED
    BY <2>2, <2>3, <2>4
<1> QED
  BY <1>1, <1>3 DEF InTurn

LEMMA LogStep ==
    ASSUME TypeInv, LogOK, Next
    PROVE  LogOK'
<1>1. /\ at \in [Exchanges -> {"new", "request", "open", "response", "done"}]
      /\ asked \in [Exchanges -> Times] /\ answered \in [Exchanges -> Times]
      /\ file \in Seq(Lines) /\ seen \in Seq(Lines)
      /\ Len(file) \in Nat /\ \A i \in 1..Len(file) : file[i] \in Lines
  BY LenProperties, ElementOfSeq DEF TypeInv, TypeOK
<1>2. TrueLines \subseteq TrueLines'
  BY LinesStayTrue
\* A request is written where there is no line of its exchange, a response
\* where there is none but the request.
<1>3. ASSUME NEW e \in Exchanges, NEW kind \in {"request", "response"}, NEW time \in Times,
             at[e] = kind, kind = "request" => time = asked[e], kind = "response" => time = answered[e],
             at' = [at EXCEPT ![e] = IF kind = "request" THEN "open" ELSE "done"],
             Writes(Line(kind, e, time)), ByProxy
      PROVE  LogOK'
  <2>1. PICK l \in Lines : l = Line(kind, e, time)
    BY LineTypes DEF TypeInv
  <2>2. l.type = kind /\ l.of = e /\ l.seq = number[e] /\ l.ts = time
        /\ l.id = IF withIDs THEN e ELSE NoID
    BY <2>1 DEF Line
  <2>3. l \in TrueLines'
    BY <1>1, <1>3, <2>2 DEF TrueLines, Writes, ByProxy
  <2>4. \A i \in 1..Len(file) : file[i].type # "session_start" /\ file[i].of = l.of
                                => file[i].type = "request" /\ l.type = "response"
    <3>1. \A i \in 1..Len(file) : file[i] \in TrueLines /\ file[i] \in Lines
      BY <1>1 DEF LogOK
    <3> QED
      BY <1>3, <2>2, <3>1 DEF TrueLines, Lines
  <2>5. InTurn(Append(file, l))
    BY <1>1, <1>3, <2>2, <2>4, InTurnAppend DEF LogOK
  <2>6. PICK a \in Seq(Lines) : a = Append(file, l)
    BY <1>1, AppendProperties
  <2>7. /\ Len(a) = Len(file) + 1 /\ a[Len(file) + 1] = l /\ \A i \in 1..Len(file) : a[i] = file[i]
    BY <1>1, <2>6, AppendProperties
  <2>8. \A i \in 1..Len(a) : i \in 1..Len(file) \/ i = Len(file) + 1
    BY <1>1, <2>7
  <2>9. \A i \in 1..Len(a) : a[i] \in TrueLines'
    BY <1>2, <2>3, <2>7, <2>8 DEF LogOK
  <2>10. file' = file \/ file' = a
    BY <1>3, <2>1, <2>6 DEF Writes
  <2>11. seen' = seen
    BY <1>3 DEF ByProxy
  <2>12. \A i \in 1..Len(file') : file'[i] \in TrueLines'
    BY <1>2, <2>9, <2>10 DEF LogOK
  <2>13. InTurn(file')
    BY <2>5, <2>6, <2>10 DEF LogOK
  <2> QED
    BY <1>2, <2>11, <2>12, <2>13 DEF LogOK
<1>4. CASE \E e \in Exchanges : WriteRequest(e) \/ WriteResponse(e)
  <2>1. PICK e \in Exchanges : WriteRequest(e) \/ WriteResponse(e)
    BY <1>4
  <2>2. asked[e] \in Times /\ answered[e] \in Times
    BY <1>1
  <2>3. CASE WriteRequest(e)
    BY <1>3, <2>2, <2>3 DEF WriteRequest, Goes
  <2>4. CASE WriteResponse(e)
    BY <1>3, <2>2, <2>4 DEF WriteResponse, Goes
  <2> QED
    BY <2>1, <2>3, <2>4
<1>5. CASE file' = file /\ (seen' = seen \/ seen' = file)
  BY <1>2, <1>5 DEF LogOK
<1>6. \/ \E e \in Exchanges : WriteRequest(e) \/ WriteResponse(e)
      \/ file' = file /\ (seen' = seen \/ seen' = file)
  BY DEF Next, NoteRequest, NoteResponse, Tick, ByProxy, Open, ReadRequest, ReadBuffered, ReadStreamed,
         Parse, Parsed, PassOver, Show, Walks, writer
<1> QED
  BY <1>4, <1>5, <1>6

\* The line at which the reader is, among those it has read.
LEMMA LineFacts ==
    ASSUME PairInv, pos < Len(seen)
    PROVE  /\ line \in Lines /\ line \in TrueLines /\ pos \in Nat /\ line = seen[pos + 1]
           /\ \A i \in 1..(pos + 1) : i \in 1..pos \/ i = pos + 1
           /\ \A i \in 1..pos : i \in 1..(pos + 1) /\ seen[i] \in Lines /\ seen[i] \in TrueLines
           /\ \A i \in 1..pos :
                seen[i].type # "session_start" /\ line.type # "session_start" /\ seen[i].of = line.of
                => seen[i].type = "request" /\ line.type = "response"
<1>1. seen \in Seq(Lines) /\ pos \in Nat /\ Len(seen) \in Nat /\ DOMAIN seen = 1..Len(seen)
      /\ \A i \in 1..Len(seen) : seen[i] \in Lines
  BY LenProperties, ElementOfSeq DEF PairInv, TypeInv, TypeOK
<1>2. pos + 1 \in 1..Len(seen) /\ \A i \in 1..pos : i \in 1..Len(seen) /\ i < pos + 1
  BY <1>1
<1> QED
  BY <1>1, <1>2 DEF PairInv, LogOK, InTurn, line

LEMMA TurnFacts ==
    ASSUME PairInv
    PROVE  /\ turns \in Seq(TurnSet) /\ Len(turns) \in Nat /\ DOMAIN turns = 1..Len(turns)
           /\ \A j \in 1..Len(turns) :
                /\ turns[j] \in TurnSet /\ turns[j] \in TrueTurns
                /\ turns[j].request \in Lines /\ turns[j].request \in TrueLines
                /\ turns[j].request.type = "request"
                /\ turns[j].request.of \in Exchanges
                /\ turns[j].request.id = IF withIDs THEN turns[j].request.of ELSE NoID
                /\ turns[j].request.seq = number[turns[j].request.of]
<1>1. turns \in Seq(TurnSet) /\ Len(turns) \in Nat /\ DOMAIN turns = 1..Len(turns)
      /\ \A j \in 1..Len(turns) : turns[j] \in TurnSet
  BY LenProperties, ElementOfSeq DEF PairInv, TypeInv, TypeOK, TurnSet
<1>2. ASSUME NEW j \in 1..Len(turns)
      PROVE  /\ turns[j] \in TrueTurns /\ turns[j].request \in Lines /\ turns[j].request \in TrueLines
             /\ turns[j].request.type = "request"
  BY <1>1, <1>2 DEF PairInv, TurnsOK, TrueTurns, TurnSet
<1>3. \A l \in Lines : l.type = "request" => l.of \in Exchanges
  BY DEF Lines
<1>4. \A l \in TrueLines : l.type = "request" => /\ l.id = IF withIDs THEN l.of ELSE NoID
                                               /\ l.seq = number[l.of]
  BY DEF TrueLines
<1> QED
  BY <1>1, <1>2, <1>3, <1>4

\* Exchanges that can be told from the others are known by a key of their own.
LEMMA KeyFacts ==
    ASSUME TypeOK
    PROVE  /\ \A e \in Exchanges : KeyOf(e) \in Exchanges /\ number[e] \in Exchanges
           /\ \A e, f \in Exchanges : Told(e) /\ KeyOf(e) = KeyOf(f) => e = f
           /\ \A e, f \in Exchanges : KeyOf(e) = KeyOf(f) => number[e] = number[f]
<1>1. number \in [Exchanges -> Exchanges]
  BY DEF TypeOK
<1> QED
  BY <1>1 DEF KeyOf, Told

\* A response is matched if there is a turn of its key, and it fits the turns
\* of its key and no other.
LEMMA MatchFacts ==
    ASSUME PairInv, pos < Len(seen), line.type = "response"
    PROVE  /\ line.of \in Exchanges
           /\ Matched <=> \E j \in 1..Len(turns) : KeyOf(turns[j].request.of) = KeyOf(line.of)
           /\ \A j \in 1..Len(turns) : Fits(turns[j]) <=> KeyOf(turns[j].request.of) = KeyOf(line.of)
<1>1. /\ line.of \in Exchanges /\ line.id = IF withIDs THEN line.of ELSE NoID
      /\ line.seq = number[line.of]
  BY LineFacts DEF TrueLines, Lines
<1>2. NoID \notin Exchanges /\ byID \subseteq Exchanges /\ withIDs \in BOOLEAN
      /\ number[line.of] \in Exchanges
  BY <1>1, ReaderAssumption, KeyFacts DEF NoID, PairInv, TypeInv, TypeOK
<1>3. Matched <=> KeyOf(line.of) \in byID \cup bySeq
  BY <1>1, <1>2 DEF Matched, PairInv, MapsOK, KeyOf
<1>4. \A j \in 1..Len(turns) : Fits(turns[j]) <=> KeyOf(turns[j].request.of) = KeyOf(line.of)
  BY <1>1, <1>2, TurnFacts DEF Fits, KeyOf
<1>5. KeyOf(line.of) \in Exchanges
  BY <1>1, <1>2 DEF KeyOf
<1> QED
  BY <1>1, <1>3, <1>4, <1>5 DEF PairInv, MapsOK

LEMMA PlaceStep ==
    ASSUME PairInv, pos < Len(seen), line.type = "response", NEW c \in Contents, Matched, Place(c),
           line.of \in Streamed /\ c.lost = {} => c.blocks = AllBlocks,
           pos' = pos + 1, UNCHANGED <<withIDs, number, at, asked, answered, seen, byID, bySeq>>
    PROVE  TurnsOK' /\ MapsOK'
<1>1. /\ Len(turns) \in Nat /\ DOMAIN turns = 1..Len(turns)
      /\ \A j \in 1..Len(turns) : turns[j] \in TurnSet /\ turns[j] \in TrueTurns
                                  /\ turns[j].request.of \in Exchanges
  BY TurnFacts
<1>2. /\ line.of \in Exchanges
      /\ \A j \in 1..Len(turns) : Fits(turns[j]) <=> KeyOf(turns[j].request.of) = KeyOf(line.of)
  BY MatchFacts
<1>3. /\ line \in Lines /\ line \in TrueLines /\ line # NoLine /\ pos \in Nat /\ line = seen[pos + 1]
      /\ \A i \in 1..(pos + 1) : i \in 1..pos \/ i = pos + 1
      /\ \A i \in 1..pos : i \in 1..(pos + 1)
  BY LineFacts, NoLineIsNone
<1>4. Len(turns') = Len(turns)
  BY <1>3, PlaceTypes DEF PairInv, TypeInv
\* A turn stays as it is, or it fits the line and is given it;
<1>5. ASSUME NEW j \in 1..Len(turns)
      PROVE  \/ turns'[j] = turns[j]
             \/ Fits(turns[j]) /\ turns'[j] = [turns[j] EXCEPT !.response = line, !.content = c]
  BY <1>1 DEF Place
\* of an exchange that can be told from the others it is given it.
<1>6. ASSUME NEW j \in 1..Len(turns), Told(line.of), turns[j].request.of = line.of
      PROVE  turns'[j] = [turns[j] EXCEPT !.response = line, !.content = c]
  <2>1. ASSUME NEW k \in 1..Len(turns), Fits(turns[k]) PROVE k = j
    <3>1. turns[k].request.of = line.of
      BY <1>1, <1>2, <1>6, <2>1, KeyFacts DEF PairInv, TypeInv
    <3> QED
      BY <1>6, <3>1 DEF PairInv, TurnsOK
  <2>2. \A k \in 1..(j - 1) : k \in 1..Len(turns) /\ k # j
    BY <1>1
  <2>3. Fits(turns[j])
    BY <1>2, <1>6
  <2> QED
    BY <1>1, <2>1, <2>2, <2>3 DEF Place
<1>7. ASSUME NEW j \in 1..Len(turns),
             turns'[j] = [turns[j] EXCEPT !.response = line, !.content = c]
      PROVE  /\ turns'[j] \in TurnSet /\ turns'[j].response = line /\ turns'[j].content = c
             /\ turns'[j].request = turns[j].request
  <2>1. PICK t \in TurnSet : t = turns[j]
    BY <1>1
  <2>2. turns'[j] = [t EXCEPT !.response = line, !.content = c]
    BY <1>7, <2>1
  <2> QED
    BY <1>3, <2>1, <2>2 DEF TurnSet
<1>8. \A j \in 1..Len(turns) : turns'[j].request = turns[j].request
  BY <1>1, <1>5, <1>7
<1>9. TrueLines' = TrueLines /\ TrueTurns' = TrueTurns
  BY DEF TrueLines, TrueTurns, KeyOf
<1>10. \A j \in 1..Len(turns') : turns'[j] \in TrueTurns'
  <2>1. ASSUME NEW j \in 1..Len(turns), Fits(turns[j]),
               turns'[j] = [turns[j] EXCEPT !.response = line, !.content = c]
        PROVE  turns'[j] \in TrueTurns
    <3>1. turns[j].request \in TrueLines /\ turns[j].request.type = "request"
      BY <1>1 DEF TrueTurns
    <3>2. KeyOf(turns[j].request.of) = KeyOf(line.of)
      BY <1>2, <2>1
    <3>3. /\ turns'[j] \in TurnSet /\ turns'[j].response = line /\ turns'[j].content = c
          /\ turns'[j].request = turns[j].request
      BY <1>1, <1>7, <2>1
    <3> QED
      BY <1>3, <3>1, <3>2, <3>3 DEF TrueTurns
  <2> QED
    BY <1>1, <1>4, <1>5, <1>9, <2>1
<1>11. \A j, k \in 1..Len(turns') : j # k => turns'[j].request.of # turns'[k].request.of
  BY <1>4, <1>8 DEF PairInv, TurnsOK
<1>12. \A j \in 1..Len(turns') : \E i \in 1..pos' : seen'[i] = turns'[j].request
  <2>1. \A j \in 1..Len(turns) : \E i \in 1..pos : seen[i] = turns[j].request
    BY DEF PairInv, TurnsOK
  <2> QED
    BY <1>3, <1>4, <1>8, <2>1
<1>13. \A i \in 1..pos' : seen'[i].type = "request" => \E j \in 1..Len(turns') : turns'[j].request = seen'[i]
  BY <1>3, <1>4, <1>8 DEF PairInv, TurnsOK
<1>14. \A j \in 1..Len(turns') : turns'[j].response # NoLine => \E i \in 1..pos' : seen'[i] = turns'[j].response
  <2>1. ASSUME NEW j \in 1..Len(turns), turns'[j].response # NoLine
        PROVE  \E i \in 1..(pos + 1) : seen[i] = turns'[j].response
    <3>1. CASE turns'[j] = turns[j]
      BY <1>3, <2>1, <3>1 DEF PairInv, TurnsOK
    <3>2. CASE turns'[j] = [turns[j] EXCEPT !.response = line, !.content = c]
      <4>1. turns'[j].response = line
        BY <1>1, <1>7, <3>2
      <4> QED
        BY <1>3, <4>1
    <3> QED
      BY <1>5, <3>1, <3>2
  <2> QED
    BY <1>4, <2>1
<1>15. \A j \in 1..Len(turns') : \A i \in 1..pos' :
          seen'[i].type = "response" /\ Told(seen[i].of)' /\ seen'[i].of = turns'[j].request.of
          => turns'[j].response # NoLine
  <2>1. ASSUME NEW j \in 1..Len(turns), NEW i \in 1..(pos + 1),
               seen[i].type = "response", Told(seen[i].of), seen[i].of = turns[j].request.of
        PROVE  turns'[j].response # NoLine
    <3>1. CASE i = pos + 1
      <4>1. turns'[j] = [turns[j] EXCEPT !.response = line, !.content = c]
        BY <1>3, <1>6, <2>1, <3>1
      <4> QED
        BY <1>1, <1>3, <1>7, <4>1
    <3>2. CASE i \in 1..pos
      <4>1. turns[j].response # NoLine
        BY <2>1, <3>2 DEF PairInv, TurnsOK
      <4> QED
        BY <1>1, <1>3, <1>5, <1>7, <4>1
    <3> QED
      BY <1>3, <3>1, <3>2
  <2> QED
    BY <1>4, <1>8, <2>1 DEF Told
<1>16. MapsOK'
  BY <1>4, <1>8 DEF PairInv, MapsOK, KeyOf
<1> QED
  BY <1>10, <1>11, <1>12, <1>13, <1>14, <1>15, <1>16 DEF TurnsOK

LEMMA RequestStep ==
    ASSUME PairInv, ReadRequest
    PROVE  TurnsOK' /\ MapsOK'
<1>1. /\ pos < Len(seen) /\ pos' = pos + 1 /\ line.type = "request"
      /\ UNCHANGED <<withIDs, number, at, asked, answered, seen>>
      /\ turns' = Append(turns, [request |-> line, response |-> NoLine, content |-> NoContent])
      /\ byID' = byID \cup ({line.id} \ {NoID})
      /\ bySeq' = bySeq \cup (IF line.id = NoID THEN {line.seq} ELSE {})
  BY DEF ReadRequest, Walks, writer
<1>2. /\ line \in Lines /\ line \in TrueLines /\ pos \in Nat /\ line = seen[pos + 1]
      /\ \A i \in 1..(pos + 1) : i \in 1..pos \/ i = pos + 1
      /\ \A i \in 1..pos : i \in 1..(pos + 1) /\ seen[i] \in Lines
      /\ \A i \in 1..pos : seen[i].type # "session_start" => seen[i].of # line.of
  BY <1>1, LineFacts
<1>3. /\ line.of \in Exchanges /\ line.id = IF withIDs THEN line.of ELSE NoID
      /\ line.seq = number[line.of]
  BY <1>1, <1>2 DEF TrueLines, Lines
<1>4. NoContent \in Contents
  <2>1. <<>> \in Seq(P!Blocks)
    BY EmptySeq
  <2> QED
    BY <2>1 DEF NoContent, Contents
<1>5. PICK t \in TurnSet : t = [request |-> line, response |-> NoLine, content |-> NoContent]
  BY <1>2, <1>4 DEF TurnSet
<1>6. t.request = line /\ t.response = NoLine /\ t \in TrueTurns
  BY <1>1, <1>2, <1>5 DEF TrueTurns
<1>7. turns \in Seq(TurnSet) /\ Len(turns) \in Nat
  BY TurnFacts
<1>8. /\ Len(turns') = Len(turns) + 1 /\ turns'[Len(turns) + 1] = t
      /\ \A j \in 1..Len(turns) : turns'[j] = turns[j]
      /\ \A j \in 1..Len(turns') : j \in 1..Len(turns) \/ j = Len(turns) + 1
      /\ \A j \in 1..Len(turns) : j \in 1..Len(turns') /\ j # Len(turns) + 1
      /\ Len(turns) + 1 \in 1..Len(turns')
  <2>1. PICK a \in Seq(TurnSet) : a = Append(turns, t)
    BY <1>7, AppendProperties
  <2>2. Len(a) = Len(turns) + 1 /\ a[Len(turns) + 1] = t /\ \A j \in 1..Len(turns) : a[j] = turns[j]
    BY <1>7, <2>1, AppendProperties
  <2>3. turns' = a
    BY <1>1, <1>5, <2>1
  <2> QED
    BY <1>7, <2>2, <2>3
<1>9. TrueLines' = TrueLines /\ TrueTurns' = TrueTurns
  BY <1>1 DEF TrueLines, TrueTurns, KeyOf
\* No turn was of the exchange of the line, nor was any line.
<1>10. \A j \in 1..Len(turns) : turns[j].request.of # line.of
  <2>1. \A j \in 1..Len(turns) : \E i \in 1..pos : seen[i] = turns[j].request
    BY DEF PairInv, TurnsOK
  <2>2. \A j \in 1..Len(turns) : turns[j].request.type = "request"
    BY TurnFacts
  <2> QED
    BY <1>2, <2>1, <2>2
<1>11. \A j \in 1..Len(turns') : turns'[j] \in TrueTurns'
  BY <1>6, <1>8, <1>9 DEF PairInv, TurnsOK
<1>12. \A j, k \in 1..Len(turns') : j # k => turns'[j].request.of # turns'[k].request.of
  <2>1. \A j, k \in 1..Len(turns) : j # k => turns[j].request.of # turns[k].request.of
    BY DEF PairInv, TurnsOK
  <2> QED
    BY <1>6, <1>8, <1>10, <2>1
<1>13. \A j \in 1..Len(turns') : \E i \in 1..pos' : seen'[i] = turns'[j].request
  <2>1. \A j \in 1..Len(turns) : \E i \in 1..(pos + 1) : seen[i] = turns[j].request
    BY <1>2 DEF PairInv, TurnsOK
  <2>2. pos + 1 \in 1..(pos + 1) /\ seen[pos + 1] = t.request
    BY <1>2, <1>6
  <2> QED
    BY <1>1, <1>8, <2>1, <2>2
<1>14. \A i \in 1..pos' : seen'[i].type = "request" => \E j \in 1..Len(turns') : turns'[j].request = seen'[i]
  <2>1. ASSUME NEW i \in 1..pos, seen[i].type = "request"
        PROVE  \E j \in 1..Len(turns') : turns'[j].request = seen[i]
    <3>1. PICK j \in 1..Len(turns) : turns[j].request = seen[i]
      BY <2>1 DEF PairInv, TurnsOK
    <3> QED
      BY <1>8, <3>1
  <2>2. turns'[Len(turns) + 1].request = seen[pos + 1]
    BY <1>2, <1>6, <1>8
  <2> QED
    BY <1>1, <1>2, <1>8, <2>1, <2>2
<1>15. \A j \in 1..Len(turns') : turns'[j].response # NoLine => \E i \in 1..pos' : seen'[i] = turns'[j].response
  <2>1. \A j \in 1..Len(turns) : turns[j].response # NoLine
                                 => \E i \in 1..(pos + 1) : seen[i] = turns[j].response
    BY <1>2 DEF PairInv, TurnsOK
  <2> QED
    BY <1>1, <1>6, <1>8, <2>1
<1>16. \A j \in 1..Len(turns') : \A i \in 1..pos' :
          seen'[i].type = "response" /\ Told(seen[i].of)' /\ seen'[i].of = turns'[j].request.of
          => turns'[j].response # NoLine
  <2>1. ASSUME NEW j \in 1..Len(turns), NEW i \in 1..(pos + 1),
               seen[i].type = "response", Told(seen[i].of), seen[i].of = turns[j].request.of
        PROVE  turns[j].response # NoLine
    <3>1. i \in 1..pos
      BY <1>1, <1>2, <2>1
    <3> QED
      BY <2>1, <3>1 DEF PairInv, TurnsOK
  <2>2. ASSUME NEW i \in 1..(pos + 1), seen[i].type = "response", seen[i].of = line.of
        PROVE  FALSE
    BY <1>1, <1>2, <2>2
  <2> QED
    BY <1>1, <1>6, <1>8, <2>1, <2>2 DEF Told
<1>17. MapsOK'
  <2>1. NoID \notin Exchanges
    BY ReaderAssumption DEF NoID
  <2>2. byID' \cup bySeq' = (byID \cup bySeq) \cup {KeyOf(line.of)}
    BY <1>1, <1>3, <2>1 DEF KeyOf
  <2>3. IF withIDs THEN bySeq' = {} ELSE byID' = {}
    BY <1>1, <1>3, <2>1 DEF PairInv, MapsOK
  <2>4. ASSUME NEW k \in Exchanges
        PROVE  k \in byID' \cup bySeq' <=> \E j \in 1..Len(turns') : KeyOf(turns'[j].request.of) = k
    <3>1. k \in byID \cup bySeq <=> \E j \in 1..Len(turns) : KeyOf(turns[j].request.of) = k
      BY DEF PairInv, MapsOK
    <3> QED
      BY <1>6, <1>8, <2>2, <3>1
  <2> QED
    BY <1>1, <2>3, <2>4 DEF MapsOK, KeyOf
<1> QED
  BY <1>11, <1>12, <1>13, <1>14, <1>15, <1>16, <1>17 DEF TurnsOK

\* A line is passed over that is of no turn.
LEMMA PassOverStep ==
    ASSUME PairInv, PassOver
    PROVE  TurnsOK' /\ MapsOK'
<1>1. /\ pos < Len(seen) /\ pos' = pos + 1
      /\ UNCHANGED <<withIDs, number, at, asked, answered, seen, byID, bySeq, turns>>
      /\ line.type = "session_start" \/ (line.type = "response" /\ ~Matched)
  BY DEF PassOver, Walks, writer, maps
<1>2. /\ pos \in Nat /\ line = seen[pos + 1]
      /\ \A i \in 1..(pos + 1) : i \in 1..pos \/ i = pos + 1
      /\ \A i \in 1..pos : i \in 1..(pos + 1)
  BY <1>1, LineFacts
<1>3. line.type # "request"
      /\ (line.type = "response" => \A j \in 1..Len(turns) : turns[j].request.of # line.of)
  BY <1>1, MatchFacts
<1>4. TrueTurns' = TrueTurns
  BY <1>1 DEF TrueLines, TrueTurns, KeyOf
<1>5. /\ \A j \in 1..Len(turns) : \E i \in 1..(pos + 1) : seen[i] = turns[j].request
      /\ \A j \in 1..Len(turns) : turns[j].response # NoLine
                                  => \E i \in 1..(pos + 1) : seen[i] = turns[j].response
  BY <1>2 DEF PairInv, TurnsOK
<1>6. \A i \in 1..(pos + 1) : seen[i].type = "request" => \E j \in 1..Len(turns) : turns[j].request = seen[i]
  BY <1>2, <1>3 DEF PairInv, TurnsOK
<1>7. \A j \in 1..Len(turns) : \A i \in 1..(pos + 1) :
          seen[i].type = "response" /\ Told(seen[i].of) /\ seen[i].of = turns[j].request.of
          => turns[j].response # NoLine
  BY <1>2, <1>3 DEF PairInv, TurnsOK
<1>8. TurnsOK'
  BY <1>1, <1>4, <1>5, <1>6, <1>7 DEF PairInv, TurnsOK, Told
<1>9. MapsOK'
  BY <1>1 DEF PairInv, MapsOK, KeyOf
<1> QED
  BY <1>8, <1>9

\* The time by which a turn is sorted lies within its exchange.
LEMMA KeyWithin ==
    ASSUME PairInv, NEW j \in 1..Len(turns), Told(turns[j].request.of)
    PROVE  LET e == turns[j].request.of
           IN  /\ e \in Exchanges /\ Key(turns[j]) \in Int /\ asked[e] \in Int /\ answered[e] \in Int
               /\ asked[e] <= Key(turns[j])
               /\ at[e] \in {"response", "done"} => Key(turns[j]) <= answered[e]
<1> DEFINE e == turns[j].request.of
<1>1. e \in Exchanges /\ turns[j] \in TrueTurns /\ turns[j].request \in TrueLines
      /\ turns[j].request.type = "request"
  BY TurnFacts
<1>2. asked[e] \in Int /\ answered[e] \in Int
  <2>1. asked \in [Exchanges -> Times] /\ answered \in [Exchanges -> Times] /\ Times \subseteq Int
    BY DEF PairInv, TypeInv, TypeOK, Times
  <2> QED
    BY <1>1, <2>1
<1>3. turns[j].request.ts = asked[e]
  BY <1>1 DEF TrueLines
<1>4. turns[j].response # NoLine => turns[j].response.ts = answered[e] /\ at[e] = "done"
  <2>1. turns[j].response # NoLine =>
           /\ turns[j].response \in TrueLines /\ turns[j].response.type = "response"
           /\ turns[j].response.of \in Exchanges /\ KeyOf(turns[j].response.of) = KeyOf(e)
    BY <1>1 DEF TrueTurns, TrueLines, Lines
  <2>2. turns[j].response # NoLine => turns[j].response.of = e
    BY <1>1, <2>1, KeyFacts DEF PairInv, TypeInv
  <2> QED
    BY <2>1, <2>2 DEF TrueLines
<1>5. at[e] \in {"response", "done"} => asked[e] <= answered[e]
  BY <1>1 DEF PairInv, ClockOK
<1>6. Key(turns[j]) = IF turns[j].response # NoLine THEN answered[e] ELSE asked[e]
  BY <1>3, <1>4 DEF Key
<1> HIDE DEF e
<1>7. /\ e \in Exchanges /\ Key(turns[j]) \in Int /\ asked[e] \in Int /\ answered[e] \in Int
      /\ asked[e] <= Key(turns[j])
      /\ at[e] \in {"response", "done"} => Key(turns[j]) <= answered[e]
  BY <1>1, <1>2, <1>4, <1>5, <1>6
<1> QED
  BY <1>7 DEF e

LEMMA ShowStep ==
    ASSUME PairInv, Show
    PROVE  TurnsOK' /\ MapsOK' /\ ShownOK'
<1>1. /\ pos = Len(seen)
      /\ UNCHANGED <<withIDs, number, at, asked, answered, seen, pos, byID, bySeq>>
  BY DEF Show, writer, maps
<1>2. PICK p \in Bijection(DOMAIN turns, DOMAIN turns) :
        /\ \A i, j \in DOMAIN turns : i < j => Key(turns[p[i]]) <= Key(turns[p[j]])
        /\ turns' = [i \in DOMAIN turns |-> turns[p[i]]]
  BY DEF Show
<1>3. /\ turns \in Seq(TurnSet) /\ DOMAIN turns = 1..Len(turns) /\ Len(turns) \in Nat
      /\ \A i \in 1..Len(turns) : turns[i] \in TurnSet
  BY TurnFacts
<1>4. /\ p \in [1..Len(turns) -> 1..Len(turns)]
      /\ \A i, j \in 1..Len(turns) : i # j => p[i] # p[j]
      /\ \A k \in 1..Len(turns) : \E i \in 1..Len(turns) : p[i] = k
  BY <1>2, <1>3 DEF Bijection, Injection, Surjection, IsInjective
<1>5. Len(turns') = Len(turns) /\ \A i \in 1..Len(turns) : turns'[i] = turns[p[i]] /\ p[i] \in 1..Len(turns)
  <2>1. turns' \in [1..Len(turns) -> TurnSet]
    BY <1>2, <1>3, <1>4
  <2>2. turns' \in Seq(TurnSet) /\ DOMAIN turns' = 1..Len(turns)
    BY <1>3, <2>1
  <2>3. Len(turns') = Len(turns)
    BY <1>3, <2>2, LenProperties
  <2> QED
    BY <1>2, <1>3, <1>4, <2>3
<1>6. TrueTurns' = TrueTurns
  BY <1>1 DEF TrueLines, TrueTurns, KeyOf
<1>7. TurnsOK'
  <2>1. \A j \in 1..Len(turns') : turns'[j] \in TrueTurns'
    BY <1>5, <1>6 DEF PairInv, TurnsOK
  <2>2. ASSUME NEW j \in 1..Len(turns), NEW k \in 1..Len(turns), j # k
        PROVE  turns'[j].request.of # turns'[k].request.of
    <3>1. p[j] # p[k] /\ p[j] \in 1..Len(turns) /\ p[k] \in 1..Len(turns)
      BY <1>4, <1>5, <2>2
    <3>2. turns[p[j]].request.of # turns[p[k]].request.of
      BY <3>1 DEF PairInv, TurnsOK
    <3> QED
      BY <1>5, <3>2
  <2>3. \A j \in 1..Len(turns') : \E i \in 1..pos' : seen'[i] = turns'[j].request
    <3>1. \A j \in 1..Len(turns) : \E i \in 1..pos : seen[i] = turns[j].request
      BY DEF PairInv, TurnsOK
    <3>2. ASSUME NEW j \in 1..Len(turns)
          PROVE  \E i \in 1..pos : seen[i] = turns'[j].request
      <4>1. PICK k \in 1..Len(turns) : turns'[j] = turns[k]
        BY <1>5
      <4> QED
        BY <3>1, <4>1
    <3> QED
      BY <1>1, <1>5, <3>2
  <2>4. ASSUME NEW i \in 1..pos, seen[i].type = "request"
        PROVE  \E j \in 1..Len(turns') : turns'[j].request = seen[i]
    <3>1. PICK k \in 1..Len(turns) : turns[k].request = seen[i]
      BY <2>4 DEF PairInv, TurnsOK
    <3>2. PICK j \in 1..Len(turns) : p[j] = k
      BY <1>4
    <3> QED
      BY <1>5, <3>1, <3>2
  <2>5. ASSUME NEW j \in 1..Len(turns), turns'[j].response # NoLine
        PROVE  \E i \in 1..pos : seen[i] = turns'[j].response
    <3>1. p[j] \in 1..Len(turns) /\ turns'[j] = turns[p[j]]
      BY <1>5
    <3>2. \E i \in 1..pos : seen[i] = turns[p[j]].response
      BY <2>5, <3>1 DEF PairInv, TurnsOK
    <3> QED
      BY <3>1, <3>2
  <2>6. \A j \in 1..Len(turns') : \A i \in 1..pos' :
          seen'[i].type = "response" /\ Told(seen[i].of)' /\ seen'[i].of = turns'[j].request.of
          => turns'[j].response # NoLine
    <3>1. ASSUME NEW j \in 1..Len(turns), NEW i \in 1..pos,
                 seen[i].type = "response", Told(seen[i].of), seen[i].of = turns[p[j]].request.of
          PROVE  turns[p[j]].response # NoLine
      BY <1>5, <3>1 DEF PairInv, TurnsOK
    <3> QED
      BY <1>1, <1>5, <3>1 DEF Told
  <2> QED
    BY <1>1, <1>5, <2>1, <2>2, <2>3, <2>4, <2>5, <2>6 DEF TurnsOK
<1>8. MapsOK'
  <2>1. ASSUME NEW e \in Exchanges
        PROVE  (\E j \in 1..Len(turns') : KeyOf(turns'[j].request.of) = e)
               <=> (\E j \in 1..Len(turns) : KeyOf(turns[j].request.of) = e)
    <3>1. ASSUME NEW j \in 1..Len(turns)
          PROVE  p[j] \in 1..Len(turns) /\ turns'[j].request = turns[p[j]].request
      BY <1>5
    <3>2. ASSUME NEW k \in 1..Len(turns)
          PROVE  \E j \in 1..Len(turns) : turns'[j].request = turns[k].request
      <4>1. PICK j \in 1..Len(turns) : p[j] = k
        BY <1>4
      <4> QED
        BY <3>1, <4>1
    <3>3. Len(turns') = Len(turns)
      BY <1>5
    <3>4. ASSUME NEW j \in 1..Len(turns), KeyOf(turns'[j].request.of) = e
          PROVE  \E k \in 1..Len(turns) : KeyOf(turns[k].request.of) = e
      <4>1. PICK k \in 1..Len(turns) : k = p[j]
        BY <3>1
      <4>2. KeyOf(turns[k].request.of) = e
        BY <3>1, <3>4, <4>1
      <4> QED
        BY <4>2
    <3>5. ASSUME NEW k \in 1..Len(turns), KeyOf(turns[k].request.of) = e
          PROVE  \E j \in 1..Len(turns) : KeyOf(turns'[j].request.of) = e
      BY <3>2, <3>5
    <3> QED
      BY <3>3, <3>4, <3>5
  <2> QED
    BY <1>1, <2>1 DEF PairInv, MapsOK, KeyOf
<1>9. ASSUME NEW i \in 1..Len(turns), NEW j \in 1..Len(turns),
             Told(turns[p[i]].request.of), Told(turns[p[j]].request.of),
             at[turns[p[i]].request.of] \in {"response", "done"},
             answered[turns[p[i]].request.of] < asked[turns[p[j]].request.of]
      PROVE  i < j
  <2>1. PICK a \in 1..Len(turns), b \in 1..Len(turns) : a = p[i] /\ b = p[j]
    BY <1>5
  <2>2. Key(turns[a]) <= answered[turns[a].request.of] /\ asked[turns[b].request.of] <= Key(turns[b])
        /\ answered[turns[a].request.of] < asked[turns[b].request.of]
        /\ Key(turns[a]) \in Int /\ Key(turns[b]) \in Int
        /\ answered[turns[a].request.of] \in Int /\ asked[turns[b].request.of] \in Int
    BY <1>9, <2>1, KeyWithin
  <2>3. Key(turns[a]) < Key(turns[b])
    BY <2>2
  <2>4. j < i => Key(turns[b]) <= Key(turns[a])
    BY <1>2, <1>3, <2>1
  <2>5. i = j => a = b
    BY <2>1
  <2>6. ~(j < i) /\ i # j
    BY <2>2, <2>3, <2>4, <2>5
  <2> QED
    BY <2>6
<1>10. ShownOK'
  <2>1. \A i, j \in 1..Len(turns') :
           LET e == turns'[i].request.of
               f == turns'[j].request.of
           IN (Told(e) /\ Told(f) /\ at[e] \in {"response", "done"} /\ answered[e] < asked[f]) => i < j
    BY <1>5, <1>9
  <2> QED
    BY <1>1, <2>1 DEF ShownOK, Told
<1> QED
  BY <1>7, <1>8, <1>10

\* The proxy leaves the reader alone.
LEMMA ProxyStep ==
    ASSUME PairInv, Next, UNCHANGED <<withIDs, number, reader, seen, pos, byID, bySeq, turns>>
    PROVE  TurnsOK' /\ MapsOK'
<1>1. TrueTurns \subseteq TrueTurns'
  BY TurnsStayTrue DEF PairInv
<1>2. \A j \in 1..Len(turns') : turns'[j] \in TrueTurns'
  BY <1>1 DEF PairInv, TurnsOK
<1>3. \A j \in 1..Len(turns') : \A i \in 1..pos' :
          seen'[i].type = "response" /\ Told(seen[i].of)' /\ seen'[i].of = turns'[j].request.of
          => turns'[j].response # NoLine
  BY DEF PairInv, TurnsOK, Told
<1>4. MapsOK'
  BY DEF PairInv, MapsOK, KeyOf
<1> QED
  BY <1>2, <1>3, <1>4 DEF PairInv, TurnsOK

\* An exchange that ends while the view is shown ended after all of its
\* requests had begun.
LEMMA ShownStep ==
    ASSUME PairInv, Next, ~Show
    PROVE  ShownOK'
<1>1. CASE reader' = "shown"
  <2>1. /\ UNCHANGED <<seen, pos, turns>> /\ reader = "shown"
    BY <1>1 DEF Next, NoteRequest, WriteRequest, NoteResponse, WriteResponse, Tick, ByProxy, maps,
                Open, ReadRequest, ReadBuffered, ReadStreamed, Parse, Parsed, PassOver, Walks, writer
  <2>2. \A e \in Exchanges : asked[e] \in Int /\ answered[e] \in Int /\ now \in Int
    <3>1. asked \in [Exchanges -> Times] /\ answered \in [Exchanges -> Times] /\ now \in Times
          /\ Times \subseteq Int
      BY DEF PairInv, TypeInv, TypeOK, Times
    <3> QED
      BY <3>1
  <2>3. \A j \in 1..Len(turns) :
          /\ turns[j].request.of \in Exchanges
          /\ at[turns[j].request.of] \in {"open", "response", "done"}
    BY TurnFacts DEF TrueLines
  <2>4. ASSUME NEW e \in Exchanges
        PROVE  /\ at[e] \in {"open", "response", "done"} => asked'[e] = asked[e]
               /\ at'[e] \in {"response", "done"} =>
                    \/ at[e] \in {"response", "done"} /\ answered'[e] = answered[e]
                    \/ answered'[e] = now
    <3>1. at \in [Exchanges -> {"new", "request", "open", "response", "done"}]
          /\ asked \in [Exchanges -> Times] /\ answered \in [Exchanges -> Times]
      BY DEF PairInv, TypeInv, TypeOK
    <3>2. CASE \E f \in Exchanges : NoteRequest(f) \/ WriteRequest(f) \/ NoteResponse(f) \/ WriteResponse(f)
      <4>1. PICK f \in Exchanges : NoteRequest(f) \/ WriteRequest(f) \/ NoteResponse(f) \/ WriteResponse(f)
        BY <3>2
      <4> QED
        BY <3>1, <4>1 DEF NoteRequest, WriteRequest, NoteResponse, WriteResponse, Goes, Writes
    <3>3. CASE UNCHANGED <<at, asked, answered>>
      BY <3>3
    <3>4. \/ \E f \in Exchanges : NoteRequest(f) \/ WriteRequest(f) \/ NoteResponse(f) \/ WriteResponse(f)
          \/ UNCHANGED <<at, asked, answered>>
      BY DEF Next, Tick, Open, ReadRequest, ReadBuffered, ReadStreamed, Parse, Parsed, PassOver, Show,
             Walks, writer
    <3> QED
      BY <3>2, <3>3, <3>4
  <2>5. ASSUME NEW i \in 1..Len(turns), NEW j \in 1..Len(turns),
               Told(turns[i].request.of), Told(turns[j].request.of),
               at'[turns[i].request.of] \in {"response", "done"},
               answered'[turns[i].request.of] < asked'[turns[j].request.of]
        PROVE  i < j
    <3>1. PICK e \in Exchanges, f \in Exchanges : e = turns[i].request.of /\ f = turns[j].request.of
      BY <2>3
    <3>2. asked'[f] = asked[f] /\ asked[f] <= now
      BY <2>3, <2>4, <3>1 DEF PairInv, ClockOK
    <3>3. at[e] \in {"response", "done"} /\ answered'[e] = answered[e]
      BY <2>2, <2>4, <2>5, <3>1, <3>2
    <3>4. Told(e) /\ Told(f) /\ at[e] \in {"response", "done"} /\ answered[e] < asked[f]
      BY <2>5, <3>1, <3>2, <3>3
    <3> QED
      BY <2>1, <3>1, <3>4 DEF PairInv, ShownOK
  <2>6. UNCHANGED <<withIDs, number>>
    BY KeysKept
  <2> QED
    BY <2>1, <2>5, <2>6 DEF PairInv, ShownOK, Told
<1> QED
  BY <1>1 DEF ShownOK

\* A stream of which no frame is missing has all its blocks at the end.
LEMMA StreamEnds ==
    ASSUME ParserInv, P!Done, lost = {}
    PROVE  blocks = AllBlocks
<1>1. blocks \in Seq(P!Blocks) /\ Len(blocks) <= Len(Message) /\ Len(Message) \in Nat
      /\ Len(blocks) \in Nat /\ DOMAIN blocks = 1..Len(blocks)
  BY MessageFacts, LenProperties DEF ParserInv, P!TypeOK
<1>2. ASSUME NEW i \in P!Indices
      PROVE  i \in DOMAIN blocks
             /\ blocks[i] = [type |-> P!Kind(i), body |-> P!Whole(i, P!Parts(i))]
  <2>1. i < blk
    BY <1>1, MessageFacts DEF P!Done
  <2> QED
    BY <2>1 DEF ParserInv, P!BlocksExact
<1>3. DOMAIN blocks = P!Indices
  <2>1. P!Indices = 1..Len(Message)
    BY DEF P!Indices
  <2>2. DOMAIN blocks \subseteq P!Indices
    BY <1>1, <2>1
  <2> QED
    BY <1>2, <2>2
<1>4. blocks = [b \in P!Indices |-> blocks[b]]
  <2>1. blocks = [b \in 1..Len(blocks) |-> blocks[b]]
    BY <1>1
  <2> QED
    BY <1>1, <1>3, <2>1
<1> QED
  BY <1>2, <1>4 DEF AllBlocks

LEMMA PairInit == ASSUME Init PROVE PairInv
<1>1. TypeInv
  BY TypeInit
<1>2. ClockOK
  BY DEF Init, ClockOK
<1>3. Len(seen) = 0 /\ seen \in Seq(Lines) /\ Len(turns) = 0 /\ pos = 0
  <2>1. <<>> \in Seq(Lines) /\ <<>> \in Seq(TurnSet)
    BY EmptySeq
  <2> QED
    BY <2>1, EmptySeq DEF Init
<1>4. LogOK
  <2>1. file \in Seq(Lines) /\ DOMAIN file = 1..Len(file) /\ Len(file) \in Nat
        /\ \A i \in 1..Len(file) : file[i] \in Lines
    BY <1>1, LenProperties, ElementOfSeq DEF TypeInv, TypeOK
  <2>2. \A i \in 1..Len(file) : file[i].type = "session_start"
    BY <2>1, EmptySeq DEF Init, Started
  <2>3. \A i \in 1..Len(file) : file[i] \in TrueLines
    BY <2>1, <2>2 DEF TrueLines
  <2>4. InTurn(file)
    BY <2>1, <2>2 DEF InTurn
  <2>5. DOMAIN seen = {}
    BY <1>3, LenProperties
  <2>6. InTurn(seen)
    BY <2>5 DEF InTurn
  <2> QED
    BY <1>3, <2>3, <2>4, <2>6 DEF LogOK
<1>5. TurnsOK
  BY <1>3 DEF TurnsOK
<1>6. MapsOK
  BY <1>3 DEF MapsOK, Init
<1>7. ShownOK
  BY DEF ShownOK, Init
<1> QED
  BY <1>1, <1>2, <1>4, <1>5, <1>6, <1>7 DEF PairInv

LEMMA PairStep == ASSUME PairInv, [Next]_vars PROVE PairInv'
<1>1. TypeInv'
  BY TypeStep DEF PairInv
<1>2. ASSUME Next PROVE ClockOK' /\ LogOK'
  BY <1>2, ClockStep, LogStep DEF PairInv
<1>3. ASSUME Next PROVE TurnsOK' /\ MapsOK'
  <2>1. CASE Tick \/ \E e \in Exchanges : NoteRequest(e) \/ WriteRequest(e) \/ NoteResponse(e) \/ WriteResponse(e)
    <3>1. UNCHANGED <<withIDs, number, reader, seen, pos, byID, bySeq, turns>>
      BY <2>1 DEF Tick, NoteRequest, WriteRequest, NoteResponse, WriteResponse, ByProxy, maps
    <3> QED
      BY <1>3, <3>1, ProxyStep
  <2>2. CASE Open
    <3>1. pos = 0 /\ Len(turns) = 0 /\ UNCHANGED <<withIDs, number, byID, bySeq, pos, turns>>
      BY <2>2 DEF Open, PairInv, TypeInv, PhaseOK, writer, maps
    <3> QED
      BY <3>1 DEF TurnsOK, PairInv, MapsOK, Told, KeyOf
  <2>3. CASE ReadRequest
    BY <2>3, RequestStep
  <2>4. CASE ReadBuffered
    <3>1. /\ pos < Len(seen) /\ pos' = pos + 1 /\ line.type = "response" /\ Matched
          /\ line.of \notin Streamed /\ Place(NoContent)
          /\ UNCHANGED <<withIDs, number, at, asked, answered, seen, byID, bySeq>>
      BY <2>4 DEF ReadBuffered, Walks, writer, maps
    <3>2. NoContent \in Contents
      <4>1. <<>> \in Seq(P!Blocks)
        BY EmptySeq
      <4> QED
        BY <4>1 DEF NoContent, Contents
    <3> QED
      BY <3>1, <3>2, PlaceStep
  <2>5. CASE ReadStreamed \/ Parse
    <3>1. UNCHANGED <<withIDs, number, at, asked, answered, seen, pos, byID, bySeq, turns>>
      BY <2>5 DEF ReadStreamed, Parse, Walks, writer, maps
    <3>2. TrueTurns' = TrueTurns
      BY <3>1 DEF TrueLines, TrueTurns, KeyOf
    <3> QED
      BY <3>1, <3>2 DEF PairInv, TurnsOK, MapsOK, Told, KeyOf
  <2>6. CASE Parsed
    <3>1. /\ pos < Len(seen) /\ pos' = pos + 1 /\ line.type = "response" /\ Matched /\ P!Done
          /\ Place([blocks |-> blocks, lost |-> lost])
          /\ UNCHANGED <<withIDs, number, at, asked, answered, seen, byID, bySeq>>
      BY <2>6 DEF Parsed, writer, maps, PairInv, TypeInv, PhaseOK
    <3>2. PICK c \in Contents : c = [blocks |-> blocks, lost |-> lost]
      BY DEF PairInv, TypeInv, TypeOK, P!TypeOK, Contents
    <3>3. c.lost = {} => c.blocks = AllBlocks
      BY <3>1, <3>2, StreamEnds DEF PairInv, TypeInv
    <3> QED
      BY <3>1, <3>2, <3>3, PlaceStep
  <2>7. CASE PassOver
    BY <2>7, PassOverStep
  <2>8. CASE Show
    BY <2>8, ShowStep
  <2> QED
    BY <1>3, <2>1, <2>2, <2>3, <2>4, <2>5, <2>6, <2>7, <2>8 DEF Next
<1>4. ASSUME Next PROVE ShownOK'
  BY <1>4, ShowStep, ShownStep
<1>5. ASSUME UNCHANGED vars PROVE PairInv'
  <2>1. UNCHANGED <<withIDs, number, now, at, asked, answered, file, reader, seen, pos, byID, bySeq, turns>>
    BY <1>5 DEF vars, writer, maps
  <2>2. TrueLines' = TrueLines /\ TrueTurns' = TrueTurns
    BY <2>1 DEF TrueLines, TrueTurns, KeyOf
  <2>3. ClockOK' /\ LogOK' /\ ShownOK'
    BY <2>1, <2>2 DEF PairInv, ClockOK, LogOK, ShownOK, Told
  <2>4. TurnsOK' /\ MapsOK'
    BY <2>1, <2>2 DEF PairInv, TurnsOK, MapsOK, Told, KeyOf
  <2> QED
    BY <1>1, <2>3, <2>4 DEF PairInv
<1> QED
  BY <1>1, <1>2, <1>3, <1>4, <1>5 DEF PairInv

LEMMA PairInvHolds == Spec => []PairInv
<1>1. Init => PairInv
  BY PairInit
<1>2. PairInv /\ [Next]_vars => PairInv'
  BY PairStep
<1> QED
  BY <1>1, <1>2, PTL DEF Spec

(* The view shows each request that was read once; with the response of    *)
(* its own exchange if that was read and with no other where the lines     *)
(* have IDs or the number is not repeated, with one of the same number     *)
(* where it is; and all blocks of a stream that was logged without a gap   *)
(* (groupAndParseTurns, ParseStreamingResponse).                           *)
THEOREM TurnsPairedHolds == Spec => []TurnsPaired
<1>1. ASSUME PairInv, reader = "shown"
      PROVE  TurnsPaired
  <2>1. /\ pos = Len(seen) /\ DOMAIN turns = 1..Len(turns) /\ DOMAIN seen = 1..pos
        /\ \A i \in 1..pos : seen[i] \in Lines
    <3>1. seen \in Seq(Lines)
      BY <1>1 DEF PairInv, TypeInv, TypeOK
    <3> QED
      BY <1>1, <3>1, TurnFacts, LenProperties, ElementOfSeq DEF PairInv, ShownOK
  <2>2. {turns[i].request.of : i \in DOMAIN turns} = Read("request")
    <3>1. ASSUME NEW j \in 1..Len(turns)
          PROVE  turns[j].request.of \in Read("request")
      <4>1. PICK i \in 1..pos : seen[i] = turns[j].request
        BY <1>1 DEF PairInv, TurnsOK
      <4>2. seen[i].type = "request"
        BY <1>1, <4>1, TurnFacts
      <4> QED
        BY <2>1, <4>1, <4>2 DEF Read
    <3>2. ASSUME NEW i \in 1..pos, seen[i].type = "request"
          PROVE  \E j \in 1..Len(turns) : turns[j].request.of = seen[i].of
      BY <1>1, <3>2 DEF PairInv, TurnsOK
    <3> QED
      BY <2>1, <3>1, <3>2 DEF Read
  <2>3. \A i, j \in DOMAIN turns : i # j => turns[i].request.of # turns[j].request.of
    BY <1>1, <2>1 DEF PairInv, TurnsOK
  <2>4. ASSUME NEW j \in 1..Len(turns)
        PROVE  /\ Told(turns[j].request.of) =>
                    (turns[j].response # NoLine <=> turns[j].request.of \in Read("response"))
               /\ turns[j].response # NoLine =>
                    /\ turns[j].response.type = "response"
                    /\ turns[j].response.seq = turns[j].request.seq
                    /\ Told(turns[j].request.of) => turns[j].response.of = turns[j].request.of
                    /\ turns[j].response.of \in Streamed /\ turns[j].content.lost = {} =>
                          turns[j].content.blocks = AllBlocks
    <3>1. /\ turns[j] \in TrueTurns /\ turns[j].request.of \in Exchanges
          /\ turns[j].request.seq = number[turns[j].request.of]
      BY <1>1, TurnFacts
    <3>2. turns[j].response # NoLine =>
             /\ turns[j].response.type = "response" /\ turns[j].response.of \in Exchanges
             /\ turns[j].response.seq = number[turns[j].response.of]
             /\ KeyOf(turns[j].response.of) = KeyOf(turns[j].request.of)
             /\ turns[j].response.of \in Streamed /\ turns[j].content.lost = {} =>
                   turns[j].content.blocks = AllBlocks
      BY <3>1 DEF TrueTurns, TrueLines, Lines
    <3>3. turns[j].response # NoLine =>
             /\ turns[j].response.seq = turns[j].request.seq
             /\ Told(turns[j].request.of) => turns[j].response.of = turns[j].request.of
      BY <1>1, <3>1, <3>2, KeyFacts DEF PairInv, TypeInv
    <3>4. Told(turns[j].request.of) /\ turns[j].response # NoLine
          => turns[j].request.of \in Read("response")
      <4> HAVE Told(turns[j].request.of) /\ turns[j].response # NoLine
      <4>1. PICK i \in 1..pos : seen[i] = turns[j].response
        BY <1>1 DEF PairInv, TurnsOK
      <4> QED
        BY <2>1, <3>2, <3>3, <4>1 DEF Read
    <3>5. Told(turns[j].request.of) /\ turns[j].request.of \in Read("response")
          => turns[j].response # NoLine
      BY <1>1, <2>1 DEF PairInv, TurnsOK, Read
    <3> QED
      BY <3>2, <3>3, <3>4, <3>5
  <2> QED
    BY <1>1, <2>1, <2>2, <2>3, <2>4 DEF TurnsPaired, AllBlocks
<1>2. PairInv => TurnsPaired
  BY <1>1 DEF TurnsPaired
<1> QED
  BY <1>2, PairInvHolds, PTL

(* The view runs forward in time: of exchanges that can be told from the   *)
(* others one that was over before another began is above it, however many ran at once and in whatever order their *)
(* lines are in the file (the sort of groupAndParseTurns).                 *)
THEOREM TimelineForwardHolds == Spec => []TimelineForward
<1>1. ASSUME PairInv
      PROVE  TimelineForward
  <2>1. DOMAIN turns = 1..Len(turns)
    BY <1>1, TurnFacts
  <2> QED
    BY <1>1, <2>1 DEF PairInv, ShownOK, TimelineForward
<1> QED
  BY <1>1, PairInvHolds, PTL
=============================================================================
