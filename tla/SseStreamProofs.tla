-------------------------- MODULE SseStreamProofs --------------------------
(***************************************************************************)
(* What SseStream sends is well formed for every upstream: any number of    *)
(* events, any texts, tools and ids.                                        *)
(*                                                                          *)
(* The events of a message that has not ended, S, and the blocks that the   *)
(* state manager knows, B, belong together (Running): every block was       *)
(* started once, and is open until it is stopped.  Every method of          *)
(* StreamContext keeps this; those that go past the state manager need that *)
(* the thinking block of an open tag is open (TagIsOpen).                   *)
(***************************************************************************)
EXTENDS SseStream, FiniteSetTheorems, SequenceTheorems, TLAPS

-----------------------------------------------------------------------------
(* Sequences.                                                               *)

IsSeq(S) == S \in Seq({S[i] : i \in DOMAIN S})

LEMMA SeqIsSeq ==
    ASSUME NEW V, NEW S \in Seq(V)
    PROVE  IsSeq(S)
<1>1. S \in [1 .. Len(S) -> V] /\ Len(S) \in Nat /\ DOMAIN S = 1 .. Len(S)
  BY LenProperties
<1>2. S \in [1 .. Len(S) -> {S[i] : i \in DOMAIN S}]
  BY <1>1
<1> QED
  BY <1>1, <1>2, SeqDef DEF IsSeq

LEMMA SeqLength ==
    ASSUME NEW S, IsSeq(S)
    PROVE  Len(S) \in Nat /\ DOMAIN S = 1 .. Len(S)
<1> DEFINE V == {S[i] : i \in DOMAIN S}
<1>1. S \in Seq(V)
  BY DEF IsSeq
<1> HIDE DEF V
<1> QED
  BY <1>1, LenProperties

LEMMA Appended ==
    ASSUME NEW S, IsSeq(S), NEW e
    PROVE  /\ IsSeq(Append(S, e))
           /\ Len(Append(S, e)) = Len(S) + 1
           /\ \A i \in 1 .. Len(S) : Append(S, e)[i] = S[i]
           /\ Append(S, e)[Len(S) + 1] = e
<1> DEFINE V == {S[i] : i \in DOMAIN S} \cup {e}
<1>1. S \in Seq({S[i] : i \in DOMAIN S}) /\ {S[i] : i \in DOMAIN S} \subseteq V
  BY DEF IsSeq
<1>2. S \in Seq(V) /\ e \in V
  BY <1>1, SeqMonotonic
<1> HIDE DEF V
<1>3. /\ Append(S, e) \in Seq(V)
      /\ Len(Append(S, e)) = Len(S) + 1
      /\ \A i \in 1 .. Len(S) : Append(S, e)[i] = S[i]
      /\ Append(S, e)[Len(S) + 1] = e
  BY <1>2, AppendProperties
<1>4. IsSeq(Append(S, e))
  BY <1>3, SeqIsSeq
<1> QED
  BY <1>3, <1>4

LEMMA Joined ==
    ASSUME NEW S, IsSeq(S), NEW W, IsSeq(W)
    PROVE  /\ IsSeq(S \o W)
           /\ Len(S \o W) = Len(S) + Len(W)
           /\ \A i \in 1 .. Len(S) : (S \o W)[i] = S[i]
           /\ \A i \in 1 .. Len(W) : (S \o W)[Len(S) + i] = W[i]
<1> DEFINE V == {S[i] : i \in DOMAIN S} \cup {W[i] : i \in DOMAIN W}
<1>1. S \in Seq({S[i] : i \in DOMAIN S}) /\ {S[i] : i \in DOMAIN S} \subseteq V
  BY DEF IsSeq
<1>2. W \in Seq({W[i] : i \in DOMAIN W}) /\ {W[i] : i \in DOMAIN W} \subseteq V
  BY DEF IsSeq
<1>3. S \in Seq(V)
  BY <1>1, SeqMonotonic
<1>4. W \in Seq(V)
  BY <1>2, SeqMonotonic
<1> HIDE DEF V
<1>5. Len(S) \in Nat /\ Len(W) \in Nat
  BY <1>3, <1>4, LenProperties
<1>6. /\ S \o W \in Seq(V)
      /\ Len(S \o W) = Len(S) + Len(W)
      /\ \A i \in 1 .. Len(S) + Len(W) :
            (S \o W)[i] = IF i <= Len(S) THEN S[i] ELSE W[i - Len(S)]
  BY <1>3, <1>4, ConcatProperties
<1>7. \A i \in 1 .. Len(S) : (S \o W)[i] = S[i]
  BY <1>5, <1>6
<1>8. ASSUME NEW i \in 1 .. Len(W) PROVE (S \o W)[Len(S) + i] = W[i]
  <2>1. Len(S) + i \in 1 .. Len(S) + Len(W) /\ ~(Len(S) + i <= Len(S)) /\ (Len(S) + i) - Len(S) = i
    BY <1>5
  <2> QED
    BY <2>1, <1>6
<1> QED
  BY <1>6, <1>7, <1>8, SeqIsSeq

\* A finite set has the order that SetToSeq gives it.
LEMMA InOrder ==
    ASSUME NEW n \in Nat, NEW O, O \subseteq 1 .. n
    PROVE  /\ Len(SetToSeq(O)) \in Nat
           /\ DOMAIN SetToSeq(O) = 1 .. Len(SetToSeq(O))
           /\ \A k \in DOMAIN SetToSeq(O) : SetToSeq(O)[k] \in O
           /\ \A j, k \in DOMAIN SetToSeq(O) : SetToSeq(O)[j] = SetToSeq(O)[k] => j = k
           /\ \A i \in O : \E k \in DOMAIN SetToSeq(O) : SetToSeq(O)[k] = i
<1> DEFINE c == Cardinality(O)
           f == SetToSeq(O)
<1>1. IsFiniteSet(O)
  <2>1. IsFiniteSet(1 .. n) /\ O \in SUBSET (1 .. n)
    BY FS_Interval
  <2> QED
    BY <2>1, FS_Subset
<1>2. c \in Nat /\ \E g : g \in Bijection(1 .. c, O)
  BY <1>1, FS_CardinalityType DEF ExistsBijection
<1>3. \E g \in [1 .. c -> O] : IsInjective(g)
  BY <1>2 DEF Bijection, Injection
<1>4. f \in [1 .. c -> O] /\ IsInjective(f)
  BY <1>3 DEF SetToSeq
<1>5. \A j, k \in DOMAIN f : f[j] = f[k] => j = k
  BY <1>4 DEF IsInjective
<1>6. \A i \in O : \E k \in 1 .. c : f[k] = i
  <2>1. f \in Injection(1 .. c, O)
    BY <1>4 DEF Injection
  <2>2. Cardinality(1 .. c) = c
    BY <1>2, FS_Interval
  <2>3. f \in Surjection(1 .. c, O)
    BY <1>1, <2>1, <2>2, FS_Injection
  <2> QED
    BY <2>3 DEF Surjection
<1>7. DOMAIN f = 1 .. c /\ f \in Seq(O)
  BY <1>2, <1>4, SeqDef
<1>8. Len(f) = c
  BY <1>2, <1>7
<1> QED
  BY <1>2, <1>4, <1>5, <1>6, <1>7, <1>8

-----------------------------------------------------------------------------
(* The events of a running message and its blocks.                          *)

Block == [type : BlockType, open : BOOLEAN]

IsStartOf(e, i) == e.ev = "start" /\ e.index = i
IsStopOf(e, i) == e.ev = "stop" /\ e.index = i
OfBlock(e) == e.ev \in {"start", "delta", "stop"}

\* message_start and then events of blocks.
Opening(S) ==
    /\ Len(S) >= 1
    /\ \A k \in 1 .. Len(S) : S[k].ev = "message_start" <=> k = 1
    /\ \A k \in 2 .. Len(S) : OfBlock(S[k])

StartedOnce(S) ==
    \A j, k \in 1 .. Len(S) :
        S[j].ev = "start" /\ S[k].ev = "start" /\ j # k => S[j].index # S[k].index

\* A delta or a stop has the start before it and no stop.
InsideItsBlock(S, k) ==
    /\ \E j \in 1 .. k - 1 : IsStartOf(S[j], S[k].index)
    /\ \A j \in 1 .. k - 1 : ~IsStopOf(S[j], S[k].index)

AllInside(S) == \A k \in 1 .. Len(S) : S[k].ev \in {"delta", "stop"} => InsideItsBlock(S, k)

KnownBlocks(S, B) == \A k \in 1 .. Len(S) : OfBlock(S[k]) => S[k].index \in 1 .. Len(B)

AllStarted(S, B) == \A i \in 1 .. Len(B) : \E k \in 1 .. Len(S) : IsStartOf(S[k], i)

OpenUntilStopped(S, B) ==
    \A i \in 1 .. Len(B) : B[i].open <=> \A k \in 1 .. Len(S) : ~IsStopOf(S[k], i)

Running(S, B) ==
    /\ IsSeq(S) /\ B \in Seq(Block)
    /\ Opening(S) /\ StartedOnce(S) /\ AllInside(S)
    /\ KnownBlocks(S, B) /\ AllStarted(S, B) /\ OpenUntilStopped(S, B)

\* A delta for an open block.
LEMMA DeltaRuns ==
    ASSUME NEW S, NEW B, Running(S, B), NEW i \in 1 .. Len(B), B[i].open,
           NEW e, e.ev = "delta", e.index = i
    PROVE  Running(Append(S, e), B)
<1> DEFINE T == Append(S, e)
<1>1. /\ IsSeq(T) /\ Len(S) \in Nat /\ Len(T) = Len(S) + 1
      /\ \A k \in 1 .. Len(S) : T[k] = S[k]
      /\ T[Len(S) + 1] = e
  BY Appended, SeqLength DEF Running
<1>2. Len(B) \in Nat
  BY LenProperties DEF Running
<1> HIDE DEF T
<1>3. Opening(T)
  BY <1>1 DEF Running, Opening, OfBlock
<1>4. StartedOnce(T)
  BY <1>1 DEF Running, StartedOnce
<1>5. AllInside(T)
  <2> SUFFICES ASSUME NEW k \in 1 .. Len(T), T[k].ev \in {"delta", "stop"}
               PROVE  InsideItsBlock(T, k)
    BY DEF AllInside
  <2>1. CASE k \in 1 .. Len(S)
    <3>1. InsideItsBlock(S, k) /\ \A j \in 1 .. k : T[j] = S[j]
      BY <1>1, <2>1 DEF Running, AllInside
    <3> QED
      BY <1>1, <2>1, <3>1 DEF InsideItsBlock, IsStartOf, IsStopOf
  <2>2. CASE k = Len(S) + 1
    <3>1. \A j \in 1 .. Len(S) : ~IsStopOf(S[j], i)
      BY DEF Running, OpenUntilStopped
    <3>2. \E j \in 1 .. Len(S) : IsStartOf(S[j], i)
      BY DEF Running, AllStarted
    <3> QED
      BY <1>1, <2>2, <3>1, <3>2 DEF InsideItsBlock, IsStartOf, IsStopOf
  <2> QED
    BY <1>1, <2>1, <2>2
<1>6. KnownBlocks(T, B)
  BY <1>1 DEF Running, KnownBlocks, OfBlock
<1>7. AllStarted(T, B)
  BY <1>1 DEF Running, AllStarted, IsStartOf
<1>8. OpenUntilStopped(T, B)
  <2> SUFFICES ASSUME NEW j \in 1 .. Len(B)
               PROVE  B[j].open <=> \A k \in 1 .. Len(T) : ~IsStopOf(T[k], j)
    BY DEF OpenUntilStopped
  <2>1. ~IsStopOf(e, j)
    BY DEF IsStopOf
  <2>2. (\A k \in 1 .. Len(T) : ~IsStopOf(T[k], j)) <=> \A k \in 1 .. Len(S) : ~IsStopOf(S[k], j)
    BY <1>1, <2>1, SMTT(30)
  <2> QED
    BY <2>2 DEF Running, OpenUntilStopped
<1> QED
  BY <1>1, <1>3, <1>4, <1>5, <1>6, <1>7, <1>8 DEF Running, T

\* The start of the next block.
LEMMA StartRuns ==
    ASSUME NEW S, NEW B, Running(S, B), NEW b \in Block, b.open,
           NEW e, e.ev = "start", e.index = Len(B) + 1
    PROVE  Running(Append(S, e), Append(B, b))
<1> DEFINE T == Append(S, e)
           C == Append(B, b)
<1>1. /\ IsSeq(T) /\ Len(S) \in Nat /\ Len(T) = Len(S) + 1
      /\ \A k \in 1 .. Len(S) : T[k] = S[k]
      /\ T[Len(S) + 1] = e
  BY Appended, SeqLength DEF Running
<1>2. /\ C \in Seq(Block) /\ Len(B) \in Nat /\ Len(C) = Len(B) + 1
      /\ \A i \in 1 .. Len(B) : C[i] = B[i]
      /\ C[Len(B) + 1] = b
  BY AppendProperties, LenProperties DEF Running
<1> HIDE DEF T, C
<1>3. Opening(T)
  BY <1>1 DEF Running, Opening, OfBlock
<1>4. StartedOnce(T)
  <2>1. \A k \in 1 .. Len(S) : S[k].ev = "start" => S[k].index # Len(B) + 1
    BY <1>2 DEF Running, KnownBlocks, OfBlock
  <2> QED
    BY <1>1, <2>1 DEF Running, StartedOnce
<1>5. AllInside(T)
  <2> SUFFICES ASSUME NEW k \in 1 .. Len(T), T[k].ev \in {"delta", "stop"}
               PROVE  InsideItsBlock(T, k)
    BY DEF AllInside
  <2>1. k \in 1 .. Len(S)
    BY <1>1
  <2>2. InsideItsBlock(S, k) /\ \A j \in 1 .. k : T[j] = S[j]
    BY <1>1, <2>1 DEF Running, AllInside
  <2> QED
    BY <1>1, <2>1, <2>2 DEF InsideItsBlock, IsStartOf, IsStopOf
<1>6. KnownBlocks(T, C)
  BY <1>1, <1>2 DEF Running, KnownBlocks, OfBlock
<1>7. AllStarted(T, C)
  <2> SUFFICES ASSUME NEW i \in 1 .. Len(C)
               PROVE  \E k \in 1 .. Len(T) : IsStartOf(T[k], i)
    BY DEF AllStarted
  <2>1. CASE i \in 1 .. Len(B)
    BY <1>1, <2>1 DEF Running, AllStarted
  <2>2. CASE i = Len(B) + 1
    BY <1>1, <2>2 DEF IsStartOf
  <2> QED
    BY <1>2, <2>1, <2>2
<1>8. OpenUntilStopped(T, C)
  <2> SUFFICES ASSUME NEW i \in 1 .. Len(C)
               PROVE  C[i].open <=> \A k \in 1 .. Len(T) : ~IsStopOf(T[k], i)
    BY DEF OpenUntilStopped
  <2>1. ~IsStopOf(e, i)
    BY DEF IsStopOf
  <2>2. CASE i \in 1 .. Len(B)
    <3>1. C[i].open <=> \A k \in 1 .. Len(S) : ~IsStopOf(S[k], i)
      BY <1>2, <2>2 DEF Running, OpenUntilStopped
    <3>2. ASSUME NEW k \in 1 .. Len(T), IsStopOf(T[k], i)
          PROVE  k \in 1 .. Len(S) /\ IsStopOf(S[k], i)
      BY <1>1, <2>1, <3>2
    <3>3. ASSUME NEW k \in 1 .. Len(S), IsStopOf(S[k], i)
          PROVE  k \in 1 .. Len(T) /\ IsStopOf(T[k], i)
      BY <1>1, <3>3
    <3> QED
      BY <3>1, <3>2, <3>3
  <2>3. CASE i = Len(B) + 1
    <3>1. \A k \in 1 .. Len(S) : ~IsStopOf(S[k], i)
      BY <1>2, <2>3 DEF Running, KnownBlocks, OfBlock, IsStopOf
    <3> QED
      BY <1>1, <1>2, <2>1, <2>3, <3>1
  <2> QED
    BY <1>2, <2>2, <2>3
<1> QED
  BY <1>1, <1>2, <1>3, <1>4, <1>5, <1>6, <1>7, <1>8 DEF Running, T, C

\* Stops of open blocks, each once: what StopAll and StopBlock send.
StopsOf(W, O) ==
    /\ \A k \in 1 .. Len(W) : W[k].ev = "stop" /\ W[k].index \in O
    /\ \A j, k \in 1 .. Len(W) : W[j].index = W[k].index => j = k
    /\ \A i \in O : \E k \in 1 .. Len(W) : W[k].index = i

LEMMA StopsRun ==
    ASSUME NEW S, NEW B, Running(S, B), NEW C \in Seq(Block), Len(C) = Len(B),
           NEW O, \A i \in O : i \in 1 .. Len(B) /\ B[i].open,
           \A i \in 1 .. Len(B) : C[i].open <=> B[i].open /\ i \notin O,
           NEW W, IsSeq(W), StopsOf(W, O)
    PROVE  Running(S \o W, C)
<1> DEFINE T == S \o W
<1>1. /\ IsSeq(T) /\ Len(S) \in Nat /\ Len(W) \in Nat /\ Len(T) = Len(S) + Len(W)
      /\ \A k \in 1 .. Len(S) : T[k] = S[k]
      /\ \A k \in 1 .. Len(W) : T[Len(S) + k] = W[k]
  BY Joined, SeqLength DEF Running
<1>2. Len(B) \in Nat
  BY LenProperties DEF Running
<1> HIDE DEF T
<1>3. ASSUME NEW k \in 1 .. Len(T)
      PROVE  \/ k \in 1 .. Len(S) /\ T[k] = S[k]
             \/ k \notin 1 .. Len(S) /\ k - Len(S) \in 1 .. Len(W) /\ T[k] = W[k - Len(S)]
  <2>1. CASE k \in 1 .. Len(S)
    BY <1>1, <2>1
  <2>2. CASE k \notin 1 .. Len(S)
    <3>1. k - Len(S) \in 1 .. Len(W) /\ Len(S) + (k - Len(S)) = k
      BY <1>1, <2>2
    <3> QED
      BY <1>1, <2>2, <3>1
  <2> QED
    BY <2>1, <2>2
<1>4. \A k \in 1 .. Len(T) : k \notin 1 .. Len(S) => T[k].ev = "stop" /\ T[k].index \in O
  BY <1>3 DEF StopsOf
<1>5. Opening(T)
  <2>1. Len(T) >= 1
    BY <1>1 DEF Running, Opening
  <2>2. ASSUME NEW k \in 1 .. Len(T)
        PROVE  (T[k].ev = "message_start" <=> k = 1) /\ (k # 1 => OfBlock(T[k]))
    <3>1. CASE k \in 1 .. Len(S)
      BY <1>1, <3>1 DEF Running, Opening
    <3>2. CASE k \notin 1 .. Len(S)
      BY <1>1, <1>4, <3>2 DEF Running, Opening, OfBlock
    <3> QED
      BY <3>1, <3>2
  <2> QED
    BY <1>1, <2>1, <2>2 DEF Opening
<1>6. StartedOnce(T)
  <2>1. \A k \in 1 .. Len(T) : T[k].ev = "start" => k \in 1 .. Len(S)
    BY <1>4
  <2> QED
    BY <1>1, <2>1 DEF Running, StartedOnce
<1>7. AllInside(T)
  <2> SUFFICES ASSUME NEW k \in 1 .. Len(T), T[k].ev \in {"delta", "stop"}
               PROVE  InsideItsBlock(T, k)
    BY DEF AllInside
  <2>1. CASE k \in 1 .. Len(S)
    <3>1. InsideItsBlock(S, k) /\ \A j \in 1 .. k : T[j] = S[j]
      BY <1>1, <2>1 DEF Running, AllInside
    <3> QED
      BY <1>1, <2>1, <3>1 DEF InsideItsBlock, IsStartOf, IsStopOf
  <2>2. CASE k \notin 1 .. Len(S)
    <3>1. /\ k - Len(S) \in 1 .. Len(W) /\ T[k] = W[k - Len(S)]
          /\ T[k].index \in O /\ k > Len(S)
      BY <1>1, <1>3, <1>4, <2>2
    <3>2. PICK j \in 1 .. Len(S) : IsStartOf(S[j], T[k].index)
      BY <3>1 DEF Running, AllStarted
    <3>3. ASSUME NEW h \in 1 .. k - 1 PROVE ~IsStopOf(T[h], T[k].index)
      <4>1. h \in 1 .. Len(T) /\ h # k
        BY <1>1
      <4>2. CASE h \in 1 .. Len(S)
        BY <1>1, <3>1, <4>2 DEF Running, OpenUntilStopped
      <4>3. CASE h \notin 1 .. Len(S)
        <5>1. h - Len(S) \in 1 .. Len(W) /\ T[h] = W[h - Len(S)] /\ h - Len(S) # k - Len(S)
          BY <1>1, <1>3, <4>1, <4>3
        <5> QED
          BY <3>1, <5>1 DEF StopsOf, IsStopOf
      <4> QED
        BY <4>2, <4>3
    <3>4. j \in 1 .. k - 1 /\ IsStartOf(T[j], T[k].index)
      BY <1>1, <3>1, <3>2
    <3> QED
      BY <3>3, <3>4 DEF InsideItsBlock
  <2> QED
    BY <2>1, <2>2
<1>8. KnownBlocks(T, C)
  BY <1>3, <1>4 DEF Running, KnownBlocks, OfBlock
<1>9. AllStarted(T, C)
  BY <1>1 DEF Running, AllStarted
<1>10. OpenUntilStopped(T, C)
  <2> SUFFICES ASSUME NEW i \in 1 .. Len(B)
               PROVE  C[i].open <=> \A k \in 1 .. Len(T) : ~IsStopOf(T[k], i)
    BY DEF OpenUntilStopped
  <2>1. B[i].open <=> \A k \in 1 .. Len(S) : ~IsStopOf(S[k], i)
    BY DEF Running, OpenUntilStopped
  <2>2. CASE i \in O
    <3>1. PICK k \in 1 .. Len(W) : W[k].index = i /\ W[k].ev = "stop"
      BY <2>2 DEF StopsOf
    <3>2. Len(S) + k \in 1 .. Len(T) /\ IsStopOf(T[Len(S) + k], i)
      BY <1>1, <3>1 DEF IsStopOf
    <3> QED
      BY <2>2, <3>2
  <2>3. CASE i \notin O
    <3>1. \A k \in 1 .. Len(T) : k \notin 1 .. Len(S) => ~IsStopOf(T[k], i)
      BY <1>4, <2>3 DEF IsStopOf
    <3>2. (\A k \in 1 .. Len(T) : ~IsStopOf(T[k], i)) <=> \A k \in 1 .. Len(S) : ~IsStopOf(S[k], i)
      BY <1>1, <3>1
    <3> QED
      BY <2>1, <2>3, <3>2
  <2> QED
    BY <2>2, <2>3
<1> QED
  BY <1>1, <1>5, <1>6, <1>7, <1>8, <1>9, <1>10 DEF Running, T

-----------------------------------------------------------------------------
(* The context and what a method leaves of it.                              *)

Fields ==
    {"thinking_enabled", "thinking_format", "blocks", "sent", "thinking_buffer",
     "in_thinking_block", "thinking_extracted", "thinking_block_index", "text_block_index",
     "thinking_source", "drop_tag_thinking", "pending_tool_use", "has_tool_use",
     "emitted_call", "stop_reason", "ended", "aborted"}

\* The message runs: its end has not been sent.
Alive(s) == DOMAIN s = Fields /\ Running(s.sent, s.blocks) /\ ~s.ended

Prefix(S, T) == Len(S) <= Len(T) /\ \A k \in 1 .. Len(S) : T[k] = S[k]

\* t is s with more events, and other changes in the fields F only.
Leads(s, t, F) ==
    /\ Alive(t)
    /\ Prefix(s.sent, t.sent)
    /\ \A f \in Fields \ F : t[f] = s[f]

ThinkingStays(s, t) ==
    \A i : IsOpenOfType(s, i, "thinking") => IsOpenOfType(t, i, "thinking")

Output == {"sent", "blocks"}

LEMMA LeadsOn ==
    ASSUME NEW s, NEW t, NEW u, NEW F, NEW G, NEW H, Alive(s),
           Leads(s, t, F), Leads(t, u, G), F \subseteq H, G \subseteq H
    PROVE  Leads(s, u, H)
<1>1. Len(s.sent) \in Nat /\ Len(t.sent) \in Nat /\ Len(u.sent) \in Nat
  BY SeqLength DEF Leads, Alive, Running
<1>2. Prefix(s.sent, u.sent)
  BY <1>1 DEF Leads, Prefix
<1> QED
  BY <1>2 DEF Leads

LEMMA LeadsToItself ==
    ASSUME NEW s, Alive(s), NEW F
    PROVE  Leads(s, s, F) /\ ThinkingStays(s, s)
<1>1. Len(s.sent) \in Nat
  BY SeqLength DEF Alive, Running
<1> QED
  BY <1>1 DEF Leads, Prefix, ThinkingStays

\* Fields other than the output and the end.
LEMMA FieldsLead ==
    ASSUME NEW s, Alive(s), NEW F, NEW t, DOMAIN t = Fields,
           \A f \in Fields \ F : t[f] = s[f],
           "sent" \notin F, "blocks" \notin F, "ended" \notin F
    PROVE  Leads(s, t, F) /\ ThinkingStays(s, t)
<1>1. t.sent = s.sent /\ t.blocks = s.blocks /\ t.ended = s.ended
  BY DEF Fields
<1>2. Len(s.sent) \in Nat
  BY SeqLength DEF Alive, Running
<1> QED
  BY <1>1, <1>2 DEF Leads, Alive, Prefix, ThinkingStays, IsOpenOfType, IsOpen

LEMMA BlocksOf ==
    ASSUME NEW s, Alive(s)
    PROVE  /\ Len(s.blocks) \in Nat /\ DOMAIN s.blocks = 1 .. Len(s.blocks)
           /\ \A i \in 1 .. Len(s.blocks) : s.blocks[i] \in Block
           /\ Len(s.sent) \in Nat /\ DOMAIN s.sent = 1 .. Len(s.sent)
BY LenProperties, ElementOfSeq, SeqLength DEF Alive, Running

LEMMA AppendedIsPrefix ==
    ASSUME NEW S, IsSeq(S), NEW e
    PROVE  Prefix(S, Append(S, e))
BY Appended, SeqLength DEF Prefix

LEMMA JoinedIsPrefix ==
    ASSUME NEW S, IsSeq(S), NEW W, IsSeq(W)
    PROVE  Prefix(S, S \o W)
BY Joined, SeqLength DEF Prefix

-----------------------------------------------------------------------------
(* SseStateManager.                                                         *)

LEMMA EmitDelta ==
    ASSUME NEW s, Alive(s), NEW i, IsOpen(s, i),
           NEW e, e.ev = "delta", e.index = i, NEW t, t = Emit(s, e)
    PROVE  Leads(s, t, {"sent"}) /\ ThinkingStays(s, t) /\ t.blocks = s.blocks
<1>1. DOMAIN t = Fields /\ t.sent = Append(s.sent, e) /\ \A f \in Fields \ {"sent"} : t[f] = s[f]
  BY DEF Emit, Fields, Alive
<1>2. t.blocks = s.blocks /\ t.ended = s.ended
  BY <1>1 DEF Fields
<1>3. i \in 1 .. Len(s.blocks) /\ s.blocks[i].open
  BY BlocksOf DEF IsOpen
<1>4. Running(t.sent, t.blocks)
  BY <1>1, <1>2, <1>3, DeltaRuns DEF Alive
<1>5. Prefix(s.sent, t.sent)
  BY <1>1, AppendedIsPrefix DEF Alive, Running
<1> QED
  BY <1>1, <1>2, <1>4, <1>5 DEF Leads, Alive, ThinkingStays, IsOpenOfType, IsOpen

LEMMA DeltaFields ==
    \A i, kind, toks : Delta(i, kind, toks).ev = "delta" /\ Delta(i, kind, toks).index = i
BY DEF Delta

LEMMA SendDeltaLeads ==
    ASSUME NEW s, Alive(s), NEW i, NEW kind, NEW toks, NEW t, t = SendDelta(s, i, kind, toks)
    PROVE  Leads(s, t, {"sent"}) /\ ThinkingStays(s, t) /\ t.blocks = s.blocks
<1>1. CASE IsOpen(s, i)
  <2>1. t = Emit(s, Delta(i, kind, toks))
    BY <1>1 DEF SendDelta
  <2> QED
    BY <1>1, <2>1, DeltaFields, EmitDelta
<1>2. CASE ~IsOpen(s, i)
  BY <1>2, LeadsToItself DEF SendDelta
<1> QED
  BY <1>1, <1>2

LEMMA StopBlockLeads ==
    ASSUME NEW s, Alive(s), NEW i, NEW t, t = StopBlock(s, i)
    PROVE  /\ Leads(s, t, Output)
           /\ Len(t.blocks) = Len(s.blocks)
           /\ \A j \in 1 .. Len(s.blocks) :
                 t.blocks[j].type = s.blocks[j].type
                 /\ (j # i => t.blocks[j].open = s.blocks[j].open)
<1>1. CASE IsOpen(s, i)
  <2> DEFINE B == s.blocks
             C == [B EXCEPT ![i] = [B[i] EXCEPT !.open = FALSE]]
             W == <<Stop(i)>>
  <2>1. i \in 1 .. Len(B) /\ B[i].open
    BY <1>1, BlocksOf DEF IsOpen
  <2>2. /\ DOMAIN t = Fields /\ t.sent = Append(s.sent, Stop(i)) /\ t.blocks = C
        /\ \A f \in Fields \ Output : t[f] = s[f]
    BY <1>1 DEF StopBlock, Emit, Fields, Alive, Output
  <2>3. t.ended = s.ended
    BY <2>2 DEF Fields, Output
  <2>4. /\ B \in Seq(Block) /\ [B[i] EXCEPT !.open = FALSE] \in Block
        /\ [B[i] EXCEPT !.open = FALSE].type = B[i].type
        /\ [B[i] EXCEPT !.open = FALSE].open = FALSE
    BY <2>1, BlocksOf DEF Alive, Running, Block
  <2>5. /\ C \in Seq(Block) /\ Len(C) = Len(B)
        /\ \A j \in 1 .. Len(B) : C[j] = IF j = i THEN [B[i] EXCEPT !.open = FALSE] ELSE B[j]
    BY <2>1, <2>4, ExceptSeq
  <2>6. /\ \A j \in 1 .. Len(B) : C[j].type = B[j].type /\ (j # i => C[j].open = B[j].open)
        /\ \A j \in 1 .. Len(B) : C[j].open <=> B[j].open /\ j \notin {i}
    BY <2>4, <2>5
  <2> HIDE DEF C
  <2>7. W \in Seq({Stop(i)}) /\ Len(W) = 1 /\ W[1] = Stop(i)
    OBVIOUS
  <2>8. IsSeq(W) /\ StopsOf(W, {i})
    <3>1. IsSeq(W)
      BY <2>7, SeqIsSeq
    <3>2. W[1].ev = "stop" /\ W[1].index = i
      BY DEF Stop
    <3> HIDE DEF W
    <3> QED
      BY <2>7, <3>1, <3>2 DEF StopsOf
  <2>9. IsSeq(s.sent) /\ s.sent \o W = Append(s.sent, Stop(i))
    BY AppendIsConcat DEF Alive, Running
  <2>10. Running(s.sent \o W, C)
    BY <2>1, <2>5, <2>6, <2>8, StopsRun DEF Alive
  <2>11. Prefix(s.sent, t.sent)
    BY <2>2, <2>9, AppendedIsPrefix
  <2> QED
    BY <2>2, <2>3, <2>5, <2>6, <2>9, <2>10, <2>11 DEF Leads, Alive
<1>2. CASE ~IsOpen(s, i)
  BY <1>2, LeadsToItself DEF StopBlock
<1> QED
  BY <1>1, <1>2

LEMMA StopAllLeads ==
    ASSUME NEW s, Alive(s), NEW types, NEW t, t = StopAll(s, types)
    PROVE  /\ Leads(s, t, Output)
           /\ Len(t.blocks) = Len(s.blocks)
           /\ \A j \in 1 .. Len(s.blocks) :
                 /\ t.blocks[j].type = s.blocks[j].type
                 /\ t.blocks[j].open <=> s.blocks[j].open /\ s.blocks[j].type \notin types
<1> DEFINE B == s.blocks
           O == {i \in DOMAIN B : B[i].open /\ B[i].type \in types}
           order == SetToSeq(O)
           W == [k \in DOMAIN order |-> Stop(order[k])]
           C == [i \in DOMAIN B |-> [type |-> B[i].type, open |-> B[i].open /\ i \notin O]]
<1>1. /\ DOMAIN t = Fields /\ t.sent = s.sent \o W /\ t.blocks = C
      /\ \A f \in Fields \ Output : t[f] = s[f]
  BY DEF StopAll, Fields, Alive, Output
<1>2. t.ended = s.ended
  BY <1>1 DEF Fields, Output
<1>3. Len(B) \in Nat /\ DOMAIN B = 1 .. Len(B) /\ \A i \in 1 .. Len(B) : B[i] \in Block
  BY BlocksOf
<1>4. \A i \in 1 .. Len(B) : [type |-> B[i].type, open |-> B[i].open /\ i \notin O] \in Block
  BY <1>3 DEF Block
<1>5. C \in [1 .. Len(B) -> Block]
  BY <1>3, <1>4
<1>6. C \in Seq(Block) /\ Len(C) = Len(B)
  BY <1>3, <1>5, SeqDef
<1>7. \A i \in 1 .. Len(B) : C[i].type = B[i].type /\ (C[i].open <=> B[i].open /\ i \notin O)
  BY <1>3
<1>8. \A i \in 1 .. Len(B) : i \in O <=> B[i].open /\ B[i].type \in types
  BY <1>3
<1>9. O \subseteq 1 .. Len(B) /\ \A i \in O : B[i].open
  BY <1>3
<1> HIDE DEF O, C
<1>10. /\ Len(order) \in Nat /\ DOMAIN order = 1 .. Len(order)
       /\ \A k \in DOMAIN order : order[k] \in O
       /\ \A j, k \in DOMAIN order : order[j] = order[k] => j = k
       /\ \A i \in O : \E k \in DOMAIN order : order[k] = i
  BY <1>3, <1>9, InOrder, ZenonT(30)
<1> HIDE DEF order
<1>11. W \in [1 .. Len(order) -> {Stop(i) : i \in O}]
  BY <1>10
<1>12. W \in Seq({Stop(i) : i \in O}) /\ Len(W) = Len(order)
  BY <1>10, <1>11, SeqDef
<1>13. \A k \in 1 .. Len(W) : W[k].ev = "stop" /\ W[k].index = order[k]
  BY <1>10, <1>12 DEF Stop
<1> HIDE DEF W
<1>14. IsSeq(W) /\ StopsOf(W, O)
  <2>1. IsSeq(W)
    BY <1>12, SeqIsSeq
  <2>2. \A k \in 1 .. Len(W) : W[k].ev = "stop" /\ W[k].index \in O
    BY <1>10, <1>12, <1>13
  <2>3. \A j, k \in 1 .. Len(W) : W[j].index = W[k].index => j = k
    BY <1>10, <1>12, <1>13
  <2>4. \A i \in O : \E k \in 1 .. Len(W) : W[k].index = i
    BY <1>10, <1>12, <1>13
  <2> QED
    BY <2>1, <2>2, <2>3, <2>4 DEF StopsOf
<1>15. Running(s.sent \o W, C)
  BY <1>6, <1>7, <1>9, <1>14, StopsRun DEF Alive
<1>16. Prefix(s.sent, t.sent)
  BY <1>1, <1>14, JoinedIsPrefix DEF Alive, Running
<1> QED
  BY <1>1, <1>2, <1>6, <1>7, <1>8, <1>15, <1>16 DEF Leads, Alive

LEMMA StartBlockLeads ==
    ASSUME NEW s, Alive(s), NEW type \in BlockType, NEW call,
           NEW t, t = StartBlock(s, type, call)
    PROVE  /\ Leads(s, t, Output \cup {"has_tool_use"})
           /\ ThinkingStays(s, t)
           /\ Len(t.blocks) = Len(s.blocks) + 1
           /\ IsOpenOfType(t, Len(t.blocks), type)
           /\ Len(t.sent) > 1 /\ t.sent[Len(t.sent)] = Start(Len(t.blocks), type, call)
           /\ t.has_tool_use = IF type = "tool_use" THEN TRUE ELSE s.has_tool_use
<1> DEFINE stopped == StopAll(s, {"text"})
           a == IF type = "tool_use" THEN [stopped EXCEPT !.has_tool_use = TRUE] ELSE s
           b == [type |-> type, open |-> TRUE]
           e == Start(Len(a.blocks) + 1, type, call)
<1>1. /\ Leads(s, a, Output \cup {"has_tool_use"}) /\ Len(a.blocks) = Len(s.blocks)
      /\ ThinkingStays(s, a)
      /\ a.has_tool_use = IF type = "tool_use" THEN TRUE ELSE s.has_tool_use
  <2>1. CASE type = "tool_use"
    <3>1. /\ Leads(s, stopped, Output) /\ Len(stopped.blocks) = Len(s.blocks)
          /\ \A j \in 1 .. Len(s.blocks) :
                /\ stopped.blocks[j].type = s.blocks[j].type
                /\ stopped.blocks[j].open <=> s.blocks[j].open /\ s.blocks[j].type \notin {"text"}
      BY StopAllLeads
    <3>2. Alive(stopped)
      BY <3>1 DEF Leads
    <3> HIDE DEF stopped
    <3>3. /\ DOMAIN a = Fields /\ \A f \in Fields \ {"has_tool_use"} : a[f] = stopped[f]
          /\ a.has_tool_use = TRUE /\ a.blocks = stopped.blocks
      BY <2>1, <3>2 DEF Alive, Fields
    <3> HIDE DEF a
    <3>4. Leads(stopped, a, {"has_tool_use"})
      BY <3>2, <3>3, FieldsLead
    <3>5. Leads(s, a, Output \cup {"has_tool_use"})
      BY <3>1, <3>4, LeadsOn
    <3>6. ThinkingStays(s, a)
      BY <3>1, <3>2, <3>3, BlocksOf DEF ThinkingStays, IsOpenOfType, IsOpen
    <3> QED
      BY <2>1, <3>1, <3>3, <3>5, <3>6
  <2>2. CASE type # "tool_use"
    BY <2>2, LeadsToItself
  <2> QED
    BY <2>1, <2>2
<1>2. Alive(a)
  BY <1>1 DEF Leads
<1>3. t = Emit([a EXCEPT !.blocks = Append(@, b)], e)
  BY DEF StartBlock
<1> HIDE DEF a, e
<1>4. /\ DOMAIN t = Fields /\ t.sent = Append(a.sent, e) /\ t.blocks = Append(a.blocks, b)
      /\ \A f \in Fields \ Output : t[f] = a[f]
  BY <1>2, <1>3 DEF Emit, Alive, Fields, Output
<1>5. t.ended = a.ended /\ t.has_tool_use = a.has_tool_use
  BY <1>4 DEF Fields, Output
<1>6. e.ev = "start" /\ e.index = Len(a.blocks) + 1 /\ e = Start(Len(a.blocks) + 1, type, call)
  BY DEF e, Start
<1>7. b \in Block /\ b.open
  BY DEF Block
<1>8. Running(t.sent, t.blocks)
  BY <1>2, <1>4, <1>6, <1>7, StartRuns DEF Alive
<1>9. IsSeq(a.sent) /\ Len(a.sent) \in Nat /\ Len(a.sent) >= 1
  BY <1>2, SeqLength DEF Alive, Running, Opening
<1>10. Leads(a, t, Output)
  BY <1>2, <1>4, <1>5, <1>8, <1>9, AppendedIsPrefix DEF Leads, Alive
<1>11. /\ Len(a.blocks) \in Nat /\ Len(t.blocks) = Len(a.blocks) + 1
       /\ \A i \in 1 .. Len(a.blocks) : t.blocks[i] = a.blocks[i]
       /\ t.blocks[Len(a.blocks) + 1] = b
       /\ DOMAIN t.blocks = 1 .. Len(t.blocks) /\ DOMAIN a.blocks = 1 .. Len(a.blocks)
  BY <1>2, <1>4, <1>7, <1>10, AppendProperties, BlocksOf DEF Alive, Running, Leads
<1>12. Len(t.sent) = Len(a.sent) + 1 /\ t.sent[Len(a.sent) + 1] = e
  BY <1>4, <1>9, Appended
<1>13. Leads(s, t, Output \cup {"has_tool_use"})
  BY <1>1, <1>10, LeadsOn
<1>14. ThinkingStays(s, t)
  BY <1>1, <1>11 DEF ThinkingStays, IsOpenOfType, IsOpen
<1>15. IsOpenOfType(t, Len(t.blocks), type)
  BY <1>11 DEF IsOpenOfType, IsOpen
<1> QED
  BY <1>1, <1>5, <1>6, <1>9, <1>11, <1>12, <1>13, <1>14, <1>15

-----------------------------------------------------------------------------
(* StreamContext: text and thinking.                                        *)

LEMMA OpenThinkingLeads ==
    ASSUME NEW s, Alive(s), NEW t, t = OpenThinking(s)
    PROVE  /\ Leads(s, t, Output \cup {"thinking_block_index"})
           /\ t.thinking_block_index = Len(s.blocks) + 1
           /\ IsOpenOfType(t, t.thinking_block_index, "thinking")
<1> DEFINE a == StartBlock(s, "thinking", NoCall)
<1>1. /\ Leads(s, a, Output \cup {"has_tool_use"}) /\ Len(a.blocks) = Len(s.blocks) + 1
      /\ IsOpenOfType(a, Len(a.blocks), "thinking") /\ a.has_tool_use = s.has_tool_use
  BY StartBlockLeads DEF BlockType
<1>2. Alive(a)
  BY <1>1 DEF Leads
<1> HIDE DEF a
<1>3. /\ DOMAIN t = Fields /\ t.thinking_block_index = Len(s.blocks) + 1
      /\ \A f \in Fields \ {"thinking_block_index"} : t[f] = a[f]
  BY <1>2 DEF OpenThinking, a, Alive, Fields
<1>4. t.blocks = a.blocks
  BY <1>3 DEF Fields
<1>5. Leads(a, t, {"thinking_block_index"})
  BY <1>2, <1>3, FieldsLead
<1>6. Leads(s, t, Output \cup {"has_tool_use", "thinking_block_index"})
  BY <1>1, <1>5, LeadsOn
<1>7. t.has_tool_use = s.has_tool_use
  BY <1>1, <1>3 DEF Fields
<1>8. Leads(s, t, Output \cup {"thinking_block_index"})
  BY <1>6, <1>7 DEF Leads
<1> QED
  BY <1>1, <1>3, <1>4, <1>8 DEF IsOpenOfType, IsOpen

LEMMA ThinkingDeltaLeads ==
    ASSUME NEW s, Alive(s), IsOpen(s, s.thinking_block_index), NEW toks,
           NEW t, t = ThinkingDelta(s, toks)
    PROVE  Leads(s, t, {"sent"}) /\ ThinkingStays(s, t) /\ t.blocks = s.blocks
BY DeltaFields, EmitDelta DEF ThinkingDelta

LEMMA EndThinkingBlockLeads ==
    ASSUME NEW s, Alive(s), IsOpen(s, s.thinking_block_index),
           NEW t, t = EndThinkingBlock(s)
    PROVE  Leads(s, t, Output)
<1> DEFINE i == s.thinking_block_index
           a == ThinkingDelta(s, <<>>)
           b == Emit(a, Delta(i, "signature", <<>>))
<1>1. Leads(s, a, {"sent"}) /\ a.blocks = s.blocks
  BY ThinkingDeltaLeads
<1>2. Alive(a) /\ a.thinking_block_index = i /\ IsOpen(a, i)
  BY <1>1 DEF Leads, Fields, IsOpen
<1>3. t = StopBlock(b, i)
  BY DEF EndThinkingBlock
<1> HIDE DEF a
<1>4. Leads(a, b, {"sent"})
  BY <1>2, DeltaFields, EmitDelta
<1>5. Alive(b)
  BY <1>4 DEF Leads
<1> HIDE DEF b
<1>6. Leads(b, t, Output)
  BY <1>3, <1>5, StopBlockLeads
<1>7. Leads(s, b, Output)
  BY <1>1, <1>4, LeadsOn DEF Output
<1> QED
  BY <1>6, <1>7, LeadsOn

LEMMA CloseReasoningLeads ==
    ASSUME NEW s, Alive(s), NEW t, t = close_reasoning_thinking_block(s)
    PROVE  /\ Leads(s, t, Output \cup {"thinking_extracted"})
           /\ s.thinking_source # "Reasoning" => ThinkingStays(s, t)
<1> DEFINE a == EndThinkingBlock(s)
           closes == s.thinking_source = "Reasoning"
                        /\ IsOpenOfType(s, s.thinking_block_index, "thinking")
<1>1. CASE closes
  <2>1. Leads(s, a, Output)
    BY <1>1, EndThinkingBlockLeads DEF IsOpenOfType
  <2>2. Alive(a)
    BY <2>1 DEF Leads
  <2>3. t = [a EXCEPT !.thinking_extracted = TRUE]
    BY <1>1 DEF close_reasoning_thinking_block
  <2> HIDE DEF a
  <2>4. DOMAIN t = Fields /\ \A f \in Fields \ {"thinking_extracted"} : t[f] = a[f]
    BY <2>2, <2>3 DEF Alive, Fields
  <2>5. Leads(a, t, {"thinking_extracted"})
    BY <2>2, <2>4, FieldsLead
  <2> QED
    BY <1>1, <2>1, <2>5, LeadsOn
<1>2. CASE ~closes
  BY <1>2, LeadsToItself DEF close_reasoning_thinking_block
<1> QED
  BY <1>1, <1>2

\* The fields that text changes.
TextFields == Output \cup {"thinking_extracted", "text_block_index", "emitted_call"}

LEMMA TextLeads ==
    ASSUME NEW s, Alive(s), NEW toks, NEW t, t = create_text_delta_events(s, toks)
    PROVE  /\ Leads(s, t, TextFields)
           /\ s.thinking_source # "Reasoning" => ThinkingStays(s, t)
<1> DEFINE a == close_reasoning_thinking_block(s)
           new == StartBlock(a, "text", NoCall)
           b == IF IsOpenOfType(a, a.text_block_index, "text")
                  THEN a
                  ELSE [new EXCEPT !.text_block_index = Len(a.blocks) + 1]
           c == SendDelta(b, b.text_block_index, "text", toks)
<1>1. /\ Leads(s, a, Output \cup {"thinking_extracted"})
      /\ s.thinking_source # "Reasoning" => ThinkingStays(s, a)
  BY CloseReasoningLeads
<1>2. Alive(a)
  BY <1>1 DEF Leads
<1>3. t = [c EXCEPT !.emitted_call = @ \/ \E i \in DOMAIN toks : toks[i].k = "call"]
  BY DEF create_text_delta_events
<1> HIDE DEF a
<1>4. Leads(a, b, Output \cup {"text_block_index"}) /\ ThinkingStays(a, b)
  <2>1. CASE IsOpenOfType(a, a.text_block_index, "text")
    BY <1>2, <2>1, LeadsToItself
  <2>2. CASE ~IsOpenOfType(a, a.text_block_index, "text")
    <3>1. /\ Leads(a, new, Output \cup {"has_tool_use"}) /\ ThinkingStays(a, new)
          /\ new.has_tool_use = a.has_tool_use
      BY <1>2, StartBlockLeads DEF BlockType
    <3>2. Alive(new)
      BY <3>1 DEF Leads
    <3> HIDE DEF new
    <3>3. DOMAIN b = Fields /\ \A f \in Fields \ {"text_block_index"} : b[f] = new[f]
      BY <2>2, <3>2 DEF Alive, Fields
    <3> HIDE DEF b
    <3>4. b.has_tool_use = a.has_tool_use /\ b.blocks = new.blocks
      BY <3>1, <3>3 DEF Fields
    <3>5. Leads(new, b, {"text_block_index"})
      BY <3>2, <3>3, FieldsLead
    <3>6. Leads(a, b, Output \cup {"has_tool_use", "text_block_index"})
      BY <1>2, <3>1, <3>5, LeadsOn
    <3>7. Leads(a, b, Output \cup {"text_block_index"})
      BY <3>4, <3>6 DEF Leads
    <3> QED
      BY <3>1, <3>4, <3>7 DEF ThinkingStays, IsOpenOfType, IsOpen
  <2> QED
    BY <2>1, <2>2
<1>5. Alive(b)
  BY <1>4 DEF Leads
<1> HIDE DEF b
<1>6. Leads(b, c, {"sent"}) /\ ThinkingStays(b, c)
  BY <1>5, SendDeltaLeads
<1>7. Alive(c)
  BY <1>6 DEF Leads
<1> HIDE DEF c
<1>8. DOMAIN t = Fields /\ \A f \in Fields \ {"emitted_call"} : t[f] = c[f]
  BY <1>3, <1>7 DEF Alive, Fields
<1>9. Leads(c, t, {"emitted_call"}) /\ ThinkingStays(c, t)
  BY <1>7, <1>8, FieldsLead
<1>10. Leads(s, b, TextFields)
  BY <1>1, <1>4, LeadsOn DEF TextFields
<1>11. Leads(s, c, TextFields)
  BY <1>6, <1>10, LeadsOn DEF TextFields, Output
<1>12. Leads(s, t, TextFields)
  BY <1>9, <1>11, LeadsOn DEF TextFields
<1> QED
  BY <1>1, <1>4, <1>6, <1>9, <1>12 DEF ThinkingStays

-----------------------------------------------------------------------------
(* The thinking of tags.                                                    *)

\* Until its end tag comes, or the message ends, the thinking block of a tag
\* stays open; text would end a block of reasoning, but there is one source.
TagIsOpen(s) ==
    s.in_thinking_block /\ ~s.drop_tag_thinking =>
        s.thinking_source = "Tag" /\ IsOpenOfType(s, s.thinking_block_index, "thinking")

TagFields == {"in_thinking_block", "drop_tag_thinking", "thinking_block_index", "thinking_source"}

\* The fields that content changes.
ContentFields == TextFields \cup TagFields \cup {"thinking_buffer"}

LEMMA TagStaysOpen ==
    ASSUME NEW s, TagIsOpen(s), NEW F, NEW t, Leads(s, t, F), F \cap TagFields = {},
           s.thinking_source # "Reasoning" => ThinkingStays(s, t)
    PROVE  TagIsOpen(t)
<1>1. /\ t.in_thinking_block = s.in_thinking_block /\ t.drop_tag_thinking = s.drop_tag_thinking
      /\ t.thinking_block_index = s.thinking_block_index /\ t.thinking_source = s.thinking_source
  BY DEF Leads, TagFields, Fields
<1> QED
  BY <1>1 DEF TagIsOpen, ThinkingStays

LEMMA HoldBackLeads ==
    ASSUME NEW s, Alive(s), TagIsOpen(s), NEW t, t = HoldBack(s)
    PROVE  Leads(s, t, TextFields \cup {"thinking_buffer"}) /\ TagIsOpen(t)
<1> DEFINE safe == Upto(s.thinking_buffer, Len(s.thinking_buffer) - 1)
           a == create_text_delta_events(s, safe)
<1>1. CASE Blank(safe)
  BY <1>1, LeadsToItself DEF HoldBack
<1>2. CASE ~Blank(safe)
  <2>1. Leads(s, a, TextFields) /\ (s.thinking_source # "Reasoning" => ThinkingStays(s, a))
    BY TextLeads
  <2>2. Alive(a)
    BY <2>1 DEF Leads
  <2>3. t = [a EXCEPT !.thinking_buffer = From(@, Len(@))]
    BY <1>2 DEF HoldBack
  <2> HIDE DEF a
  <2>4. DOMAIN t = Fields /\ \A f \in Fields \ {"thinking_buffer"} : t[f] = a[f]
    BY <2>2, <2>3 DEF Alive, Fields
  <2>5. Leads(a, t, {"thinking_buffer"}) /\ ThinkingStays(a, t)
    BY <2>2, <2>4, FieldsLead
  <2>6. TagIsOpen(a)
    BY <2>1, TagStaysOpen DEF TextFields, Output, TagFields
  <2> QED
    BY <2>1, <2>5, <2>6, LeadsOn, TagStaysOpen DEF TagFields
<1> QED
  BY <1>1, <1>2

LEMMA AllowTag ==
    ASSUME NEW s, Alive(s), NEW t, t = allow_tag(s)
    PROVE  /\ Leads(s, t, {"drop_tag_thinking", "thinking_source"})
           /\ ~t.drop_tag_thinking => t.thinking_source = "Tag"
<1>1. /\ DOMAIN t = Fields
      /\ \A f \in Fields \ {"drop_tag_thinking", "thinking_source"} : t[f] = s[f]
      /\ ~t.drop_tag_thinking => t.thinking_source = "Tag"
  <2>1. CASE s.thinking_source = "Reasoning"
    BY <2>1 DEF allow_tag, Alive, Fields
  <2>2. CASE s.thinking_source # "Reasoning"
    BY <2>2 DEF allow_tag, Alive, Fields
  <2> QED
    BY <2>1, <2>2
<1> QED
  BY <1>1, FieldsLead

LEMMA EnterThinkingLeads ==
    ASSUME NEW s, Alive(s), NEW t, t = EnterThinking(s)
    PROVE  Leads(s, t, ContentFields) /\ TagIsOpen(t) /\ t.in_thinking_block
<1> DEFINE tag == Min(StartTags(s.thinking_buffer))
           before == Upto(s.thinking_buffer, tag - 1)
           a == IF Blank(before) THEN s ELSE create_text_delta_events(s, before)
           c == allow_tag(a)
           b == [c EXCEPT !.in_thinking_block = TRUE, !.thinking_buffer = From(@, tag + 2)]
           d == OpenThinking(b)
<1>1. Leads(s, a, TextFields)
  BY LeadsToItself, TextLeads
<1>2. Alive(a)
  BY <1>1 DEF Leads
<1>3. t = IF b.drop_tag_thinking THEN b ELSE d
  BY DEF EnterThinking
<1> HIDE DEF a
<1>4. /\ Leads(a, c, {"drop_tag_thinking", "thinking_source"})
      /\ ~c.drop_tag_thinking => c.thinking_source = "Tag"
  BY <1>2, AllowTag
<1>5. Alive(c)
  BY <1>4 DEF Leads
<1> HIDE DEF c
<1>6. /\ DOMAIN b = Fields /\ b.in_thinking_block = TRUE
      /\ \A f \in Fields \ {"in_thinking_block", "thinking_buffer"} : b[f] = c[f]
  BY <1>5 DEF Alive, Fields
<1> HIDE DEF b
<1>7. /\ Leads(c, b, {"in_thinking_block", "thinking_buffer"})
      /\ ~b.drop_tag_thinking => b.thinking_source = "Tag"
  BY <1>4, <1>5, <1>6, FieldsLead DEF Fields
<1>8. Alive(b)
  BY <1>7 DEF Leads
<1>9. Leads(s, c, ContentFields)
  BY <1>1, <1>4, LeadsOn DEF ContentFields, TagFields
<1>10. Leads(s, b, ContentFields)
  BY <1>7, <1>9, LeadsOn DEF ContentFields, TagFields
<1>11. CASE b.drop_tag_thinking
  BY <1>3, <1>6, <1>10, <1>11 DEF TagIsOpen
<1>12. CASE ~b.drop_tag_thinking
  <2>1. /\ Leads(b, t, Output \cup {"thinking_block_index"})
        /\ IsOpenOfType(t, t.thinking_block_index, "thinking")
    BY <1>3, <1>8, <1>12, OpenThinkingLeads
  <2>2. t.thinking_source = "Tag" /\ t.in_thinking_block
    BY <1>6, <1>7, <1>12, <2>1 DEF Leads, Output, Fields
  <2>3. Leads(s, t, ContentFields)
    BY <1>10, <2>1, LeadsOn DEF ContentFields, TextFields, TagFields
  <2> QED
    BY <2>1, <2>2, <2>3 DEF TagIsOpen
<1> QED
  BY <1>11, <1>12

LEMMA LeaveThinkingLeads ==
    ASSUME NEW s, Alive(s), TagIsOpen(s), s.in_thinking_block, NEW n,
           NEW t, t = LeaveThinking(s, n)
    PROVE  Leads(s, t, ContentFields) /\ TagIsOpen(t)
<1> DEFINE a == [s EXCEPT !.in_thinking_block = FALSE, !.thinking_extracted = TRUE,
                          !.drop_tag_thinking = FALSE]
           content == Upto(s.thinking_buffer, n)
           b == IF content = <<>> THEN a ELSE ThinkingDelta(a, content)
<1> DEFINE Ended == {"in_thinking_block", "thinking_extracted", "drop_tag_thinking"}
<1>1. t = IF s.drop_tag_thinking THEN a ELSE EndThinkingBlock(b)
  BY DEF LeaveThinking
<1>2. /\ DOMAIN a = Fields /\ a.in_thinking_block = FALSE
      /\ \A f \in Fields \ Ended : a[f] = s[f]
  BY DEF Alive, Fields
<1> HIDE DEF a
<1>3. Leads(s, a, Ended)
  BY <1>2, FieldsLead
<1>4. Alive(a)
  BY <1>3 DEF Leads
<1>5. Leads(s, a, ContentFields)
  BY <1>3 DEF Leads, ContentFields, TextFields, TagFields
<1>6. CASE s.drop_tag_thinking
  BY <1>1, <1>2, <1>5, <1>6 DEF TagIsOpen
<1>7. CASE ~s.drop_tag_thinking
  <2>1. IsOpen(a, a.thinking_block_index)
    <3>1. a.thinking_block_index = s.thinking_block_index /\ a.blocks = s.blocks
      BY <1>2 DEF Fields
    <3> QED
      BY <1>7, <3>1 DEF TagIsOpen, IsOpenOfType, IsOpen
  <2>2. Leads(a, b, {"sent"}) /\ b.blocks = a.blocks
    BY <1>4, <2>1, LeadsToItself, ThinkingDeltaLeads
  <2> HIDE DEF b
  <2>3. Alive(b) /\ b.thinking_block_index = a.thinking_block_index
    BY <2>2 DEF Leads, Fields
  <2>4. Leads(b, t, Output)
    BY <1>1, <1>7, <2>1, <2>2, <2>3, EndThinkingBlockLeads DEF IsOpen
  <2>5. Leads(a, t, Output)
    BY <1>4, <2>2, <2>4, LeadsOn DEF Output
  <2>6. Leads(s, t, ContentFields)
    BY <1>5, <2>5, LeadsOn DEF ContentFields, TextFields
  <2>7. t.in_thinking_block = FALSE
    BY <1>2, <2>5 DEF Leads, Output, Fields
  <2> QED
    BY <2>6, <2>7 DEF TagIsOpen
<1> QED
  BY <1>6, <1>7

\* What is left in the buffer does not matter.
LEMMA BufferLeads ==
    ASSUME NEW s, Alive(s), NEW x, NEW t, t = [s EXCEPT !.thinking_buffer = x]
    PROVE  /\ Leads(s, t, {"thinking_buffer"}) /\ ThinkingStays(s, t)
           /\ TagIsOpen(s) => TagIsOpen(t)
<1>1. DOMAIN t = Fields /\ \A f \in Fields \ {"thinking_buffer"} : t[f] = s[f]
  BY DEF Alive, Fields
<1>2. Leads(s, t, {"thinking_buffer"}) /\ ThinkingStays(s, t)
  BY <1>1, FieldsLead
<1> QED
  BY <1>2, TagStaysOpen DEF TagFields

LEMMA InsideThinkingLeads ==
    ASSUME NEW s, Alive(s), TagIsOpen(s), s.in_thinking_block,
           NEW t, t = InsideThinking(s)
    PROVE  Leads(s, t, ContentFields) /\ TagIsOpen(t)
<1> DEFINE ends == EndTags(s.thinking_buffer)
           last == Len(s.thinking_buffer)
           a == LeaveThinking(s, Min(ends) - 1)
           b == IF s.drop_tag_thinking THEN s
                ELSE ThinkingDelta(s, Upto(s.thinking_buffer, last - 1))
<1>1. CASE ends # {}
  <2>1. Leads(s, a, ContentFields) /\ TagIsOpen(a)
    BY LeaveThinkingLeads
  <2>2. t = [a EXCEPT !.thinking_buffer = From(@, Min(ends) + 2)]
    BY <1>1 DEF InsideThinking
  <2>3. Alive(a)
    BY <2>1 DEF Leads
  <2> HIDE DEF a
  <2>4. t = [a EXCEPT !.thinking_buffer = From(a.thinking_buffer, Min(ends) + 2)]
    BY <2>2
  <2>5. Leads(a, t, {"thinking_buffer"}) /\ TagIsOpen(t)
    BY <2>1, <2>3, <2>4, BufferLeads
  <2> QED
    BY <2>1, <2>5, LeadsOn DEF ContentFields
<1>2. CASE ends = {} /\ last < 2
  BY <1>2, LeadsToItself DEF InsideThinking
<1>3. CASE ends = {} /\ ~(last < 2)
  <2>1. Leads(s, b, {"sent"}) /\ ThinkingStays(s, b)
    <3>1. CASE s.drop_tag_thinking
      BY <3>1, LeadsToItself
    <3>2. CASE ~s.drop_tag_thinking
      BY <3>2, ThinkingDeltaLeads DEF TagIsOpen, IsOpenOfType
    <3> QED
      BY <3>1, <3>2
  <2>2. t = [b EXCEPT !.thinking_buffer = From(@, last)]
    BY <1>3 DEF InsideThinking
  <2> HIDE DEF b
  <2>3. Alive(b) /\ TagIsOpen(b)
    BY <2>1, TagStaysOpen DEF Leads, TagFields
  <2>4. t = [b EXCEPT !.thinking_buffer = From(b.thinking_buffer, last)]
    BY <2>2
  <2>5. Leads(b, t, {"thinking_buffer"}) /\ TagIsOpen(t)
    BY <2>3, <2>4, BufferLeads
  <2> QED
    BY <2>1, <2>5, LeadsOn DEF ContentFields, TextFields, Output
<1> QED
  BY <1>1, <1>2, <1>3

LEMMA AfterThinkingLeads ==
    ASSUME NEW s, Alive(s), TagIsOpen(s), NEW t, t = AfterThinking(s)
    PROVE  Leads(s, t, ContentFields) /\ TagIsOpen(t)
<1> DEFINE a == [s EXCEPT !.thinking_buffer = <<>>]
           stays == s.in_thinking_block \/ s.thinking_buffer = <<>>
<1>1. CASE stays
  BY <1>1, LeadsToItself DEF AfterThinking
<1>2. CASE ~stays
  <2>1. Leads(s, a, {"thinking_buffer"}) /\ TagIsOpen(a)
    BY BufferLeads
  <2>2. t = create_text_delta_events(a, s.thinking_buffer)
    BY <1>2 DEF AfterThinking
  <2> HIDE DEF a
  <2>3. Alive(a)
    BY <2>1 DEF Leads
  <2>4. Leads(a, t, TextFields) /\ (a.thinking_source # "Reasoning" => ThinkingStays(a, t))
    BY <2>2, <2>3, TextLeads
  <2>5. TagIsOpen(t)
    BY <2>1, <2>4, TagStaysOpen DEF TextFields, Output, TagFields
  <2> QED
    BY <2>1, <2>4, <2>5, LeadsOn DEF ContentFields
<1> QED
  BY <1>1, <1>2

LEMMA ContentLeads ==
    ASSUME NEW s, Alive(s), TagIsOpen(s), NEW toks,
           NEW t, t = process_content_with_thinking(s, toks)
    PROVE  Leads(s, t, ContentFields) /\ TagIsOpen(t)
<1> DEFINE a == [s EXCEPT !.thinking_buffer = @ \o toks]
           b == IF a.in_thinking_block THEN InsideThinking(a)
                ELSE IF a.thinking_extracted THEN a
                ELSE InsideThinking(EnterThinking(a))
<1> DEFINE x == s.thinking_buffer \o toks
<1>1. a = [s EXCEPT !.thinking_buffer = x]
  OBVIOUS
<1>4. \/ t = AfterThinking(b)
      \/ t = HoldBack(a)
  BY DEF process_content_with_thinking
<1> HIDE DEF a, x
<1>2. Leads(s, a, {"thinking_buffer"}) /\ TagIsOpen(a)
  BY <1>1, BufferLeads
<1>3. Alive(a)
  BY <1>2 DEF Leads
<1>5. Leads(s, a, ContentFields)
  BY <1>2 DEF Leads, ContentFields
<1>6. CASE t = HoldBack(a)
  <2>1. Leads(a, t, TextFields \cup {"thinking_buffer"}) /\ TagIsOpen(t)
    BY <1>2, <1>3, <1>6, HoldBackLeads
  <2> QED
    BY <1>5, <2>1, LeadsOn DEF ContentFields
<1>7. CASE t = AfterThinking(b)
  <2>1. Leads(a, b, ContentFields) /\ TagIsOpen(b)
    <3>1. CASE a.in_thinking_block
      BY <1>2, <1>3, <3>1, InsideThinkingLeads
    <3>2. CASE ~a.in_thinking_block /\ a.thinking_extracted
      BY <1>2, <1>3, <3>2, LeadsToItself
    <3>3. CASE ~a.in_thinking_block /\ ~a.thinking_extracted
      <4> DEFINE c == EnterThinking(a)
      <4>1. Leads(a, c, ContentFields) /\ TagIsOpen(c) /\ c.in_thinking_block
        BY <1>3, EnterThinkingLeads
      <4>2. b = InsideThinking(c) /\ Alive(c)
        BY <3>3, <4>1 DEF Leads
      <4> HIDE DEF c, b
      <4>3. Leads(c, b, ContentFields) /\ TagIsOpen(b)
        BY <4>1, <4>2, InsideThinkingLeads
      <4> QED
        BY <1>3, <4>1, <4>3, LeadsOn
    <3> QED
      BY <3>1, <3>2, <3>3
  <2>2. Alive(b)
    BY <2>1 DEF Leads
  <2> HIDE DEF b
  <2>3. Leads(b, t, ContentFields) /\ TagIsOpen(t)
    BY <1>7, <2>1, <2>2, AfterThinkingLeads
  <2>4. Leads(s, b, ContentFields)
    BY <1>5, <2>1, LeadsOn
  <2> QED
    BY <2>3, <2>4, LeadsOn
<1> QED
  BY <1>4, <1>6, <1>7

LEMMA AssistantResponseLeads ==
    ASSUME NEW s, Alive(s), TagIsOpen(s), NEW toks,
           NEW t, t = process_assistant_response(s, toks)
    PROVE  Leads(s, t, ContentFields) /\ TagIsOpen(t)
<1>1. CASE s.thinking_enabled
  BY <1>1, ContentLeads DEF process_assistant_response
<1>2. CASE ~s.thinking_enabled
  <2>1. Leads(s, t, TextFields) /\ (s.thinking_source # "Reasoning" => ThinkingStays(s, t))
    BY <1>2, TextLeads DEF process_assistant_response
  <2>2. TagIsOpen(t)
    BY <2>1, TagStaysOpen DEF TextFields, Output, TagFields
  <2> QED
    BY <2>1, <2>2 DEF Leads, ContentFields
<1> QED
  BY <1>1, <1>2

\* Reasoning is taken only if no tag came before it.
LEMMA ReasoningLeads ==
    ASSUME NEW s, Alive(s), TagIsOpen(s), NEW toks,
           NEW t, t = process_reasoning_content(s, toks)
    PROVE  Leads(s, t, ContentFields) /\ TagIsOpen(t)
<1> DEFINE a == [s EXCEPT !.thinking_source = "Reasoning"]
           b == IF a.thinking_block_index # None THEN a ELSE OpenThinking(a)
           ignored == ~s.thinking_enabled \/ s.thinking_source = "Tag"
<1>1. CASE ignored
  BY <1>1, LeadsToItself DEF process_reasoning_content
<1>2. CASE ~ignored
  <2>1. DOMAIN a = Fields /\ \A f \in Fields \ {"thinking_source"} : a[f] = s[f]
    BY DEF Alive, Fields
  <2>2. t = IF a.thinking_format = "think" THEN create_text_delta_events(a, toks)
            ELSE SendDelta(b, b.thinking_block_index, "thinking", toks)
    BY <1>2 DEF process_reasoning_content
  <2> HIDE DEF a
  <2>3. Leads(s, a, {"thinking_source"})
    BY <2>1, FieldsLead
  <2>4. Alive(a) /\ Leads(s, a, ContentFields)
    BY <2>3 DEF Leads, ContentFields, TagFields
  <2>5. s.in_thinking_block => s.drop_tag_thinking
    BY <1>2 DEF TagIsOpen
  <2>6. Leads(a, t, ContentFields \ {"in_thinking_block", "drop_tag_thinking"})
    <3>1. CASE a.thinking_format = "think"
      <4>1. Leads(a, t, TextFields)
        BY <2>2, <2>4, <3>1, TextLeads
      <4> QED
        BY <4>1 DEF Leads, ContentFields, TextFields, Output
    <3>2. CASE a.thinking_format # "think"
      <4>1. Leads(a, b, Output \cup {"thinking_block_index"})
        BY <2>4, LeadsToItself, OpenThinkingLeads
      <4>2. Alive(b)
        BY <4>1 DEF Leads
      <4> HIDE DEF b
      <4>3. Leads(b, t, {"sent"})
        BY <2>2, <3>2, <4>2, SendDeltaLeads
      <4>4. Leads(a, t, Output \cup {"thinking_block_index"})
        BY <2>4, <4>1, <4>3, LeadsOn DEF Output
      <4> QED
        BY <4>4 DEF Leads, ContentFields, TextFields, TagFields, Output
    <3> QED
      BY <3>1, <3>2
  <2>7. /\ t.in_thinking_block = s.in_thinking_block
        /\ t.drop_tag_thinking = s.drop_tag_thinking
    BY <2>1, <2>6 DEF Leads, Fields
  <2>8. Leads(s, t, ContentFields)
    BY <2>4, <2>6, LeadsOn
  <2> QED
    BY <2>5, <2>7, <2>8 DEF TagIsOpen
<1> QED
  BY <1>1, <1>2

-----------------------------------------------------------------------------
(* Tools.                                                                   *)

ToolStarts(S) == {k \in 1 .. Len(S) : S[k].ev = "start" /\ S[k].type = "tool_use"}

SentCalls(S) == {S[k].call : k \in ToolStarts(S)}

\* The calls that the client has, or will have before the end.
Calls(s) == SentCalls(s.sent) \cup
            (IF s.pending_tool_use = NoTool THEN {} ELSE {s.pending_tool_use})

IsToldIn(x, S) == \E c \in S : x = c.name \/ (x = c.id /\ x # NoId)
CallsKept(s, t) ==
    /\ \A x : IsToldIn(x, Calls(s)) => IsToldIn(x, Calls(t))
    /\ Calls(s) # {} => Calls(t) # {}

\* An end that tells the client to run a tool has one.
SaysWhatItHas(s) == s.has_tool_use \/ s.stop_reason = "tool_use" => Calls(s) # {}

\* An id, once known, is that of its tool.
PendingIsCall(s) ==
    LET p == s.pending_tool_use
    IN  \/ p = NoTool
        \/ /\ DOMAIN p = {"id", "name", "at"}
           /\ p.id \in ToolIds \cup {NoId} /\ p.name \in ToolNames
           /\ p.id # NoId => p.name = NameOf[p.id]

ToolFields == Output \cup {"has_tool_use", "pending_tool_use"}

LEMMA SentCallsStay ==
    ASSUME NEW S, NEW T, Prefix(S, T), Len(S) \in Nat, Len(T) \in Nat
    PROVE  SentCalls(S) \subseteq SentCalls(T)
<1>1. \A k \in ToolStarts(S) : k \in ToolStarts(T) /\ S[k] = T[k]
  BY DEF Prefix, ToolStarts
<1> QED
  BY <1>1 DEF SentCalls

LEMMA MoreCalls ==
    ASSUME NEW s, NEW t, Calls(s) \subseteq Calls(t)
    PROVE  CallsKept(s, t)
BY DEF CallsKept, IsToldIn

LEMMA CallsStay ==
    ASSUME NEW s, Alive(s), NEW F, NEW t, Leads(s, t, F), "pending_tool_use" \notin F
    PROVE  /\ Calls(s) \subseteq Calls(t) /\ CallsKept(s, t)
           /\ PendingIsCall(s) => PendingIsCall(t)
           /\ "has_tool_use" \notin F /\ "stop_reason" \notin F /\ SaysWhatItHas(s) =>
                 SaysWhatItHas(t)
<1>1. t.pending_tool_use = s.pending_tool_use
  BY DEF Leads, Fields
<1>2. Len(s.sent) \in Nat /\ Len(t.sent) \in Nat
  BY BlocksOf DEF Leads
<1>3. SentCalls(s.sent) \subseteq SentCalls(t.sent)
  BY <1>2, SentCallsStay DEF Leads
<1>4. Calls(s) \subseteq Calls(t)
  BY <1>1, <1>3 DEF Calls
<1>5. PendingIsCall(s) => PendingIsCall(t)
  BY <1>1 DEF PendingIsCall
<1>6. ASSUME "has_tool_use" \notin F, "stop_reason" \notin F, SaysWhatItHas(s)
      PROVE  SaysWhatItHas(t)
  <2>1. t.has_tool_use = s.has_tool_use /\ t.stop_reason = s.stop_reason
    BY <1>6 DEF Leads, Fields
  <2> QED
    BY <1>4, <1>6, <2>1 DEF SaysWhatItHas
<1> QED
  BY <1>4, <1>5, <1>6, MoreCalls

LEMMA FlushLeads ==
    ASSUME NEW s, Alive(s), NEW t, t = flush_pending_tool_use(s)
    PROVE  /\ Leads(s, t, ToolFields) /\ ThinkingStays(s, t)
           /\ t.pending_tool_use = NoTool
           /\ Calls(s) \subseteq Calls(t)
           /\ t.stop_reason = s.stop_reason
           /\ SaysWhatItHas(s) => SaysWhatItHas(t)
<1> DEFINE pending == s.pending_tool_use
           a == StartBlock(s, "tool_use", pending)
           i == Len(a.blocks)
           b == [a EXCEPT !.pending_tool_use = NoTool]
           c == SendDelta(b, i, "input", <<>>)
<1>1. CASE pending = NoTool
  <2>1. t = s
    BY <1>1 DEF flush_pending_tool_use
  <2> QED
    BY <1>1, <2>1, LeadsToItself
<1>2. CASE pending # NoTool
  <2>1. /\ Leads(s, a, Output \cup {"has_tool_use"}) /\ ThinkingStays(s, a)
        /\ Len(a.blocks) = Len(s.blocks) + 1
        /\ IsOpenOfType(a, i, "tool_use")
        /\ Len(a.sent) > 1 /\ a.sent[Len(a.sent)] = Start(i, "tool_use", pending)
    <3>1. "tool_use" \in BlockType
      BY DEF BlockType
    <3> HIDE DEF pending, a
    <3> QED
      BY <3>1, StartBlockLeads, ZenonT(30) DEF a
  <2>3. t = StopBlock(c, i)
    BY <1>2 DEF flush_pending_tool_use
  <2> HIDE DEF a
  <2>2. Alive(a)
    BY <2>1 DEF Leads
  <2>4. /\ DOMAIN b = Fields /\ b.pending_tool_use = NoTool
        /\ \A f \in Fields \ {"pending_tool_use"} : b[f] = a[f]
    BY <2>2 DEF Alive, Fields
  <2> HIDE DEF b
  <2>5. Leads(a, b, {"pending_tool_use"}) /\ ThinkingStays(a, b)
    BY <2>2, <2>4, FieldsLead
  <2>6. Alive(b)
    BY <2>5 DEF Leads
  <2>7. Leads(b, c, {"sent"}) /\ ThinkingStays(b, c) /\ c.blocks = b.blocks
    BY <2>6, SendDeltaLeads
  <2>8. Alive(c)
    BY <2>7 DEF Leads
  <2> HIDE DEF c
  <2>9. /\ Leads(c, t, Output) /\ Len(t.blocks) = Len(c.blocks)
        /\ \A j \in 1 .. Len(c.blocks) :
              t.blocks[j].type = c.blocks[j].type
              /\ (j # i => t.blocks[j].open = c.blocks[j].open)
    BY <2>3, <2>8, StopBlockLeads
  <2>10. Leads(s, b, ToolFields)
    BY <2>1, <2>5, LeadsOn DEF ToolFields
  <2>11. Leads(s, c, ToolFields)
    BY <2>7, <2>10, LeadsOn DEF ToolFields, Output
  <2>12. Leads(s, t, ToolFields)
    BY <2>9, <2>11, LeadsOn DEF ToolFields
  <2>13. ThinkingStays(s, t)
    <3>1. c.blocks = a.blocks
      BY <2>4, <2>7 DEF Fields
    <3>2. /\ DOMAIN c.blocks = 1 .. Len(c.blocks) /\ DOMAIN t.blocks = 1 .. Len(t.blocks)
      BY <2>8, <2>9, BlocksOf DEF Leads
    <3>3. \A j : IsOpenOfType(a, j, "thinking") => j # i
      BY <2>1 DEF IsOpenOfType
    <3>4. \A j : IsOpenOfType(a, j, "thinking") => IsOpenOfType(t, j, "thinking")
      BY <2>9, <3>1, <3>2, <3>3 DEF IsOpenOfType, IsOpen
    <3> QED
      BY <2>1, <3>4 DEF ThinkingStays
  <2>14. t.pending_tool_use = NoTool /\ t.stop_reason = s.stop_reason
    <3>1. t.pending_tool_use = b.pending_tool_use
      BY <2>7, <2>9 DEF Leads, Output, Fields
    <3>2. t.stop_reason = s.stop_reason
      BY <2>12 DEF Leads, ToolFields, Output, Fields
    <3> QED
      BY <2>4, <3>1, <3>2
  <2>15. SentCalls(s.sent) \subseteq SentCalls(t.sent)
    <3>1. Len(s.sent) \in Nat /\ Len(t.sent) \in Nat /\ Prefix(s.sent, t.sent)
      BY <2>12, BlocksOf DEF Leads
    <3> QED
      BY <3>1, SentCallsStay
  <2>16. pending \in SentCalls(t.sent)
    <3>1. Prefix(a.sent, t.sent) /\ Len(a.sent) \in Nat /\ Len(t.sent) \in Nat
      <4>1. Leads(a, c, ToolFields)
        BY <2>2, <2>5, <2>7, LeadsOn DEF ToolFields, Output
      <4>2. Leads(a, t, ToolFields)
        BY <2>2, <2>9, <4>1, LeadsOn DEF ToolFields
      <4> QED
        BY <2>2, <4>2, BlocksOf DEF Leads
    <3>2. Len(a.sent) \in 1 .. Len(t.sent) /\ t.sent[Len(a.sent)] = Start(i, "tool_use", pending)
      BY <2>1, <3>1 DEF Prefix
    <3> QED
      BY <3>2 DEF SentCalls, ToolStarts, Start
  <2>17. Calls(s) \subseteq Calls(t) /\ Calls(t) # {}
    BY <2>15, <2>16 DEF Calls
  <2> QED
    BY <2>12, <2>13, <2>14, <2>17 DEF SaysWhatItHas
<1> QED
  BY <1>1, <1>2

\* The call that an event is for is pending afterwards.
LEMMA SelectPendingLeads ==
    ASSUME NEW s, Alive(s), PendingIsCall(s), NEW e \in ToolUseEvent, NEW at,
           NEW t, t = SelectPending(s, e, at)
    PROVE  /\ Leads(s, t, ToolFields) /\ ThinkingStays(s, t)
           /\ PendingIsCall(t) /\ CallsKept(s, t)
           /\ t.pending_tool_use \in Calls(t)
           /\ t.pending_tool_use.name = e.name
           /\ e.id # NoId => t.pending_tool_use.id = e.id
           /\ t.stop_reason = s.stop_reason
<1> DEFINE pending == s.pending_tool_use
           fresh == [id |-> e.id, name |-> e.name, at |-> at]
           flushed == flush_pending_tool_use(s)
<1>1. /\ e.id \in ToolIds \cup {NoId} /\ e.name \in ToolNames
      /\ e.id # NoId => e.name = NameOf[e.id]
  BY DEF ToolUseEvent
<1>2. /\ fresh.id = e.id /\ fresh.name = e.name /\ DOMAIN fresh = {"id", "name", "at"}
      /\ fresh # NoTool
  BY DEF NoTool
<1> HIDE DEF fresh
<1>3. ASSUME NEW u, Alive(u), Leads(s, u, ToolFields), ThinkingStays(s, u), CallsKept(s, u),
             u.pending_tool_use = NoTool, u.stop_reason = s.stop_reason,
             t = [u EXCEPT !.pending_tool_use = fresh]
      PROVE  /\ Leads(s, t, ToolFields) /\ ThinkingStays(s, t)
             /\ PendingIsCall(t) /\ CallsKept(s, t)
             /\ t.pending_tool_use \in Calls(t)
             /\ t.pending_tool_use.name = e.name
             /\ e.id # NoId => t.pending_tool_use.id = e.id
             /\ t.stop_reason = s.stop_reason
  <2>1. /\ DOMAIN t = Fields /\ t.pending_tool_use = fresh
        /\ \A f \in Fields \ {"pending_tool_use"} : t[f] = u[f]
    BY <1>3 DEF Alive, Fields
  <2>2. t.sent = u.sent /\ t.stop_reason = u.stop_reason
    BY <2>1 DEF Fields
  <2>3. Leads(u, t, {"pending_tool_use"}) /\ ThinkingStays(u, t)
    BY <1>3, <2>1, FieldsLead
  <2>4. Leads(s, t, ToolFields)
    BY <1>3, <2>3, LeadsOn DEF ToolFields
  <2>5. PendingIsCall(t)
    BY <1>1, <1>2, <2>1 DEF PendingIsCall
  <2>6. Calls(u) \subseteq Calls(t) /\ t.pending_tool_use \in Calls(t)
    BY <1>2, <1>3, <2>1, <2>2 DEF Calls
  <2>7. CallsKept(s, t)
    BY <1>3, <2>6, MoreCalls DEF CallsKept
  <2> QED
    BY <1>2, <1>3, <2>1, <2>2, <2>3, <2>4, <2>5, <2>6, <2>7 DEF ThinkingStays
<1>4. /\ Leads(s, flushed, ToolFields) /\ ThinkingStays(s, flushed) /\ CallsKept(s, flushed)
      /\ flushed.pending_tool_use = NoTool /\ flushed.stop_reason = s.stop_reason
      /\ Alive(flushed)
  BY FlushLeads, MoreCalls DEF Leads
<1>5. /\ Leads(s, s, ToolFields) /\ ThinkingStays(s, s) /\ CallsKept(s, s)
  BY LeadsToItself, MoreCalls
<1>6. \/ pending = NoTool /\ t = [s EXCEPT !.pending_tool_use = fresh]
      \/ pending # NoTool /\ t = [flushed EXCEPT !.pending_tool_use = fresh]
      \/ pending # NoTool /\ e.id = NoId /\ pending.name = e.name /\ t = s
      \/ pending # NoTool /\ e.id # NoId /\ pending.id = e.id /\ t = s
      \/ /\ pending # NoTool /\ pending.id = NoId /\ pending.name = e.name
         /\ e.id # NoId /\ t = [s EXCEPT !.pending_tool_use.id = e.id]
  BY DEF SelectPending, fresh
<1> HIDE DEF flushed
<1>7. CASE pending = NoTool /\ t = [s EXCEPT !.pending_tool_use = fresh]
  BY <1>3, <1>5, <1>7
<1>8. CASE t = [flushed EXCEPT !.pending_tool_use = fresh]
  BY <1>3, <1>4, <1>8
<1>9. CASE pending # NoTool /\ e.id = NoId /\ pending.name = e.name /\ t = s
  BY <1>5, <1>9 DEF Calls
<1>10. CASE pending # NoTool /\ e.id # NoId /\ pending.id = e.id /\ t = s
  <2>1. pending.name = e.name
    BY <1>1, <1>10 DEF PendingIsCall
  <2> QED
    BY <1>5, <1>10, <2>1 DEF Calls
<1>11. CASE /\ pending # NoTool /\ pending.id = NoId /\ pending.name = e.name
            /\ e.id # NoId /\ t = [s EXCEPT !.pending_tool_use.id = e.id]
  <2> DEFINE p == [pending EXCEPT !.id = e.id]
  <2>1. t = [s EXCEPT !.pending_tool_use = p]
    BY <1>11
  <2>2. /\ p.id = e.id /\ p.name = e.name /\ DOMAIN p = {"id", "name", "at"} /\ p # NoTool
    BY <1>11 DEF PendingIsCall, NoTool
  <2> HIDE DEF p
  <2>3. /\ DOMAIN t = Fields /\ t.pending_tool_use = p
        /\ \A f \in Fields \ {"pending_tool_use"} : t[f] = s[f]
    BY <2>1 DEF Alive, Fields
  <2>4. t.sent = s.sent /\ t.stop_reason = s.stop_reason
    BY <2>3 DEF Fields
  <2>5. Leads(s, t, {"pending_tool_use"}) /\ ThinkingStays(s, t)
    BY <2>3, FieldsLead
  <2>6. Leads(s, t, ToolFields)
    BY <2>5 DEF Leads, ToolFields
  <2>7. PendingIsCall(t)
    BY <1>1, <2>2, <2>3 DEF PendingIsCall
  <2>8. Calls(t) = SentCalls(s.sent) \cup {p} /\ Calls(s) = SentCalls(s.sent) \cup {pending}
    BY <1>11, <2>2, <2>3, <2>4 DEF Calls
  <2>9. CallsKept(s, t)
    BY <1>11, <2>2, <2>8 DEF CallsKept, IsToldIn
  <2> QED
    BY <2>2, <2>3, <2>4, <2>5, <2>6, <2>7, <2>8, <2>9
<1> QED
  BY <1>6, <1>7, <1>8, <1>9, <1>10, <1>11

LEMMA ToolUseLeads ==
    ASSUME NEW s, Alive(s), TagIsOpen(s), PendingIsCall(s), NEW e \in ToolUseEvent, NEW at,
           NEW t, t = process_tool_use(s, e, at)
    PROVE  /\ Leads(s, t, ContentFields \cup ToolFields) /\ TagIsOpen(t)
           /\ PendingIsCall(t) /\ CallsKept(s, t)
           /\ IsToldIn(e.name, Calls(t))
           /\ e.id # NoId => IsToldIn(e.id, Calls(t))
<1> DEFINE All == ContentFields \cup ToolFields
           a == [s EXCEPT !.has_tool_use = TRUE]
           ends == EndTagsAtBufferEnd(a.thinking_buffer)
           left == LeaveThinking(a, Min(ends) - 1)
           b == IF a.thinking_enabled /\ a.in_thinking_block /\ ends # {}
                  THEN [left EXCEPT !.thinking_buffer = <<>>]
                  ELSE a
           held == /\ b.thinking_enabled /\ ~b.in_thinking_block /\ ~b.thinking_extracted
                   /\ b.thinking_buffer # <<>>
           emptied == [b EXCEPT !.thinking_buffer = <<>>]
           c == IF held THEN create_text_delta_events(emptied, b.thinking_buffer) ELSE b
           d == SelectPending(c, e, at)
<1>1. t = IF e.stop THEN flush_pending_tool_use(d) ELSE d
  BY DEF process_tool_use
<1>2. Leads(s, a, {"has_tool_use"}) /\ ThinkingStays(s, a)
  <2>1. DOMAIN a = Fields /\ \A f \in Fields \ {"has_tool_use"} : a[f] = s[f]
    BY DEF Alive, Fields
  <2> HIDE DEF a
  <2> QED
    BY <2>1, FieldsLead
<1> HIDE DEF a
<1>3. TagIsOpen(a) /\ Alive(a)
  BY <1>2, TagStaysOpen DEF TagFields, Leads
<1>4. Leads(a, b, ContentFields) /\ TagIsOpen(b)
  <2> DEFINE leaves == a.thinking_enabled /\ a.in_thinking_block /\ ends # {}
  <2>1. CASE leaves
    <3>1. Leads(a, left, ContentFields) /\ TagIsOpen(left)
      BY <1>3, <2>1, LeaveThinkingLeads
    <3>2. b = [left EXCEPT !.thinking_buffer = <<>>] /\ Alive(left)
      BY <2>1, <3>1 DEF Leads
    <3> HIDE DEF left, b
    <3>3. Leads(left, b, {"thinking_buffer"}) /\ TagIsOpen(b)
      BY <3>1, <3>2, BufferLeads
    <3> QED
      BY <1>3, <3>1, <3>3, LeadsOn DEF ContentFields
  <2>2. CASE ~leaves
    BY <1>3, <2>2, LeadsToItself
  <2> QED
    BY <2>1, <2>2
<1>5. Alive(b)
  BY <1>4 DEF Leads
<1> HIDE DEF b
<1>6. Leads(b, c, ContentFields) /\ TagIsOpen(c)
  <2>1. CASE held
    <3>1. Leads(b, emptied, {"thinking_buffer"}) /\ TagIsOpen(emptied) /\ Alive(emptied)
      <4> DEFINE x == <<>>
      <4>1. emptied = [b EXCEPT !.thinking_buffer = x]
        OBVIOUS
      <4> HIDE DEF emptied, x
      <4>2. Leads(b, emptied, {"thinking_buffer"}) /\ TagIsOpen(emptied)
        BY <1>4, <1>5, <4>1, BufferLeads
      <4> QED
        BY <4>2 DEF Leads
    <3>2. c = create_text_delta_events(emptied, b.thinking_buffer)
      BY <2>1
    <3> HIDE DEF emptied, c
    <3>3. Leads(emptied, c, TextFields) /\ (emptied.thinking_source # "Reasoning" => ThinkingStays(emptied, c))
      BY <3>1, <3>2, TextLeads
    <3>4. TagIsOpen(c)
      BY <3>1, <3>3, TagStaysOpen DEF TextFields, Output, TagFields
    <3> QED
      BY <1>5, <3>1, <3>3, <3>4, LeadsOn DEF ContentFields
  <2>2. CASE ~held
    BY <1>4, <1>5, <2>2, LeadsToItself
  <2> QED
    BY <2>1, <2>2
<1>7. Alive(c)
  BY <1>6 DEF Leads
<1> HIDE DEF c
<1>8. Leads(s, b, All)
  BY <1>2, <1>4, LeadsOn DEF ToolFields
<1>9. Leads(s, c, All)
  BY <1>6, <1>8, LeadsOn
<1>10. "pending_tool_use" \notin ContentFields
  BY DEF ContentFields, TextFields, TagFields, Output
<1>11. PendingIsCall(c) /\ CallsKept(s, c)
  <2>1. PendingIsCall(a) /\ Calls(s) \subseteq Calls(a)
    BY <1>2, CallsStay
  <2>2. PendingIsCall(b) /\ Calls(a) \subseteq Calls(b)
    BY <1>3, <1>4, <1>10, <2>1, CallsStay
  <2>3. PendingIsCall(c) /\ Calls(b) \subseteq Calls(c)
    BY <1>5, <1>6, <1>10, <2>2, CallsStay
  <2> QED
    BY <2>1, <2>2, <2>3, MoreCalls
<1>12. /\ Leads(c, d, ToolFields) /\ ThinkingStays(c, d)
       /\ PendingIsCall(d) /\ CallsKept(c, d)
       /\ d.pending_tool_use \in Calls(d)
       /\ d.pending_tool_use.name = e.name
       /\ e.id # NoId => d.pending_tool_use.id = e.id
  BY <1>7, <1>11, SelectPendingLeads
<1> HIDE DEF d
<1>13. Alive(d) /\ TagIsOpen(d)
  BY <1>6, <1>12, TagStaysOpen DEF Leads, ToolFields, Output, TagFields
<1>14. /\ Leads(d, t, ToolFields) /\ ThinkingStays(d, t)
       /\ PendingIsCall(t) /\ Calls(d) \subseteq Calls(t)
  <2>1. CASE e.stop
    BY <1>1, <1>13, <2>1, FlushLeads DEF PendingIsCall
  <2>2. CASE ~e.stop
    BY <1>1, <1>12, <1>13, <2>2, LeadsToItself
  <2> QED
    BY <2>1, <2>2
<1>15. TagIsOpen(t)
  BY <1>13, <1>14, TagStaysOpen DEF ToolFields, Output, TagFields
<1>16. Leads(s, d, All)
  BY <1>9, <1>12, LeadsOn
<1>17. Leads(s, t, All)
  BY <1>14, <1>16, LeadsOn
<1>18. CallsKept(s, t) /\ d.pending_tool_use \in Calls(t)
  BY <1>11, <1>12, <1>14 DEF CallsKept, IsToldIn
<1>19. IsToldIn(e.name, Calls(t)) /\ (e.id # NoId => IsToldIn(e.id, Calls(t)))
  BY <1>12, <1>18 DEF IsToldIn
<1> QED
  BY <1>14, <1>15, <1>17, <1>18, <1>19

-----------------------------------------------------------------------------
(* The end.                                                                 *)

LEMMA FlushBufferLeads ==
    ASSUME NEW s, Alive(s), TagIsOpen(s), NEW t, t = FlushBuffer(s)
    PROVE  Leads(s, t, ContentFields)
<1> DEFINE buffer == s.thinking_buffer
           ends == EndTagsAtBufferEnd(buffer)
           text == create_text_delta_events(s, buffer)
           left == LeaveThinking(s, Min(ends) - 1)
           last == ThinkingDelta(s, buffer)
           ended == IF s.drop_tag_thinking THEN s ELSE EndThinkingBlock(last)
<1>1. \/ t = s
      \/ t = [text EXCEPT !.thinking_buffer = <<>>]
      \/ s.in_thinking_block /\ t = [left EXCEPT !.thinking_buffer = <<>>]
      \/ s.in_thinking_block /\ t = [ended EXCEPT !.drop_tag_thinking = FALSE, !.thinking_buffer = <<>>]
  BY DEF FlushBuffer
<1>2. CASE t = s
  BY <1>2, LeadsToItself
<1>3. CASE t = [text EXCEPT !.thinking_buffer = <<>>]
  <2>1. Leads(s, text, TextFields)
    BY TextLeads
  <2>2. Alive(text)
    BY <2>1 DEF Leads
  <2> HIDE DEF text
  <2>3. Leads(text, t, {"thinking_buffer"})
    BY <1>3, <2>2, BufferLeads
  <2> QED
    BY <2>1, <2>3, LeadsOn DEF ContentFields
<1>4. CASE s.in_thinking_block /\ t = [left EXCEPT !.thinking_buffer = <<>>]
  <2>1. Leads(s, left, ContentFields)
    BY <1>4, LeaveThinkingLeads
  <2>2. Alive(left)
    BY <2>1 DEF Leads
  <2> HIDE DEF left
  <2>3. Leads(left, t, {"thinking_buffer"})
    BY <1>4, <2>2, BufferLeads
  <2> QED
    BY <2>1, <2>3, LeadsOn DEF ContentFields
<1>5. CASE /\ s.in_thinking_block
           /\ t = [ended EXCEPT !.drop_tag_thinking = FALSE, !.thinking_buffer = <<>>]
  <2>1. Leads(s, ended, Output)
    <3>1. CASE s.drop_tag_thinking
      BY <3>1, LeadsToItself
    <3>2. CASE ~s.drop_tag_thinking
      <4>1. IsOpen(s, s.thinking_block_index)
        BY <1>5, <3>2 DEF TagIsOpen, IsOpenOfType
      <4>2. Leads(s, last, {"sent"}) /\ last.blocks = s.blocks
        BY <4>1, ThinkingDeltaLeads
      <4>3. ended = EndThinkingBlock(last)
        BY <3>2
      <4> HIDE DEF last, ended
      <4>4. Alive(last) /\ IsOpen(last, last.thinking_block_index)
        BY <4>1, <4>2 DEF Leads, Fields, IsOpen
      <4>5. Leads(last, ended, Output)
        BY <4>3, <4>4, EndThinkingBlockLeads
      <4> QED
        BY <4>2, <4>5, LeadsOn DEF Output
    <3> QED
      BY <3>1, <3>2
  <2>2. Alive(ended)
    BY <2>1 DEF Leads
  <2> HIDE DEF ended
  <2>3. /\ DOMAIN t = Fields
        /\ \A f \in Fields \ {"drop_tag_thinking", "thinking_buffer"} : t[f] = ended[f]
    BY <1>5, <2>2 DEF Alive, Fields
  <2>4. Leads(ended, t, {"drop_tag_thinking", "thinking_buffer"})
    BY <2>2, <2>3, FieldsLead
  <2> QED
    BY <2>1, <2>4, LeadsOn DEF ContentFields, TextFields, TagFields
<1> QED
  BY <1>1, <1>2, <1>3, <1>4, <1>5

LEMMA InjectThinkingLeads ==
    ASSUME NEW s, Alive(s), NEW t, t = InjectThinking(s)
    PROVE  Leads(s, t, ContentFields)
<1> DEFINE opened == OpenThinking(s)
           a == [opened EXCEPT !.thinking_extracted = TRUE]
           i == a.thinking_block_index
           b == Emit(a, Delta(i, "signature", <<>>))
<1>1. t = s \/ t = StopBlock(b, i)
  BY DEF InjectThinking
<1>2. CASE t = s
  BY <1>2, LeadsToItself
<1>3. CASE t = StopBlock(b, i)
  <2>1. /\ Leads(s, opened, Output \cup {"thinking_block_index"})
        /\ IsOpenOfType(opened, opened.thinking_block_index, "thinking")
    BY OpenThinkingLeads
  <2>2. Alive(opened)
    BY <2>1 DEF Leads
  <2> HIDE DEF opened
  <2>3. DOMAIN a = Fields /\ \A f \in Fields \ {"thinking_extracted"} : a[f] = opened[f]
    BY <2>2 DEF Alive, Fields
  <2> HIDE DEF a
  <2>4. Leads(opened, a, {"thinking_extracted"})
    BY <2>2, <2>3, FieldsLead
  <2>5. Alive(a) /\ IsOpen(a, i)
    BY <2>1, <2>3, <2>4 DEF Leads, Fields, IsOpenOfType, IsOpen
  <2> HIDE DEF i
  <2>6. Leads(a, b, {"sent"})
    BY <2>5, DeltaFields, EmitDelta
  <2>7. Alive(b)
    BY <2>6 DEF Leads
  <2> HIDE DEF b
  <2>8. Leads(b, t, Output)
    BY <1>3, <2>7, StopBlockLeads
  <2>9. Leads(s, a, ContentFields)
    BY <2>1, <2>4, LeadsOn DEF ContentFields, TextFields, TagFields
  <2>10. Leads(s, b, ContentFields)
    BY <2>6, <2>9, LeadsOn DEF ContentFields, TextFields, Output
  <2> QED
    BY <2>8, <2>10, LeadsOn DEF ContentFields, TextFields
<1> QED
  BY <1>1, <1>2, <1>3

LEMMA AddTextLeads ==
    ASSUME NEW s, Alive(s), NEW t, t = AddText(s)
    PROVE  /\ Leads(s, t, ContentFields \cup {"stop_reason"})
           /\ t.stop_reason \in {s.stop_reason, "max_tokens"}
<1> DEFINE a == [s EXCEPT !.stop_reason = "max_tokens"]
           blank == <<[k |-> "gap", at |-> 0]>>
<1>1. t = s \/ t = create_text_delta_events(a, blank)
  BY DEF AddText
<1>2. CASE t = s
  BY <1>2, LeadsToItself
<1>3. CASE t = create_text_delta_events(a, blank)
  <2>1. /\ DOMAIN a = Fields /\ a.stop_reason = "max_tokens"
        /\ \A f \in Fields \ {"stop_reason"} : a[f] = s[f]
    BY DEF Alive, Fields
  <2> HIDE DEF a, blank
  <2>2. Leads(s, a, {"stop_reason"})
    BY <2>1, FieldsLead
  <2>3. Alive(a)
    BY <2>2 DEF Leads
  <2>4. Leads(a, t, TextFields)
    BY <1>3, <2>3, TextLeads
  <2>5. t.stop_reason = "max_tokens"
    BY <2>1, <2>4 DEF Leads, TextFields, Output, Fields
  <2> QED
    BY <2>2, <2>4, <2>5, LeadsOn DEF ContentFields
<1> QED
  BY <1>1, <1>2, <1>3

\* A tool written out in the text; nothing else tells the client to run one.
LEMMA BracketCallsLead ==
    ASSUME NEW s, Alive(s), SaysWhatItHas(s), NEW t, t = BracketCalls(s)
    PROVE  /\ Leads(s, t, Output \cup {"has_tool_use", "stop_reason", "text_block_index"})
           /\ SaysWhatItHas(t)
<1> DEFINE Changed == Output \cup {"has_tool_use", "stop_reason", "text_block_index"}
           stopped == StopBlock(s, s.text_block_index)
           a == [stopped EXCEPT !.has_tool_use = TRUE, !.stop_reason = "tool_use",
                                !.text_block_index = None]
           call == [NoCall EXCEPT !.at = now]
           b == StartBlock(a, "tool_use", call)
           i == Len(b.blocks)
           c == SendDelta(b, i, "input", <<>>)
<1>1. t = s \/ t = StopBlock(c, i)
  BY DEF BracketCalls
<1>2. CASE t = s
  BY <1>2, LeadsToItself
<1>3. CASE t = StopBlock(c, i)
  <2>1. Leads(s, stopped, Output)
    BY StopBlockLeads
  <2>2. Alive(stopped)
    BY <2>1 DEF Leads
  <2> HIDE DEF stopped
  <2>3. /\ DOMAIN a = Fields
        /\ \A f \in Fields \ {"has_tool_use", "stop_reason", "text_block_index"} : a[f] = stopped[f]
    BY <2>2 DEF Alive, Fields
  <2> HIDE DEF a, call
  <2>4. Leads(stopped, a, {"has_tool_use", "stop_reason", "text_block_index"})
    BY <2>2, <2>3, FieldsLead
  <2>5. Alive(a) /\ "tool_use" \in BlockType
    BY <2>4 DEF Leads, BlockType
  <2>6. /\ Leads(a, b, Output \cup {"has_tool_use"})
        /\ Len(b.sent) > 1 /\ b.sent[Len(b.sent)] = Start(i, "tool_use", call)
    <3>1. b = StartBlock(a, "tool_use", call)
      OBVIOUS
    <3> HIDE DEF b
    <3> QED
      BY <2>5, <3>1, StartBlockLeads, ZenonT(30)
  <2>7. Alive(b)
    BY <2>6 DEF Leads
  <2> HIDE DEF b
  <2>8. Leads(b, c, {"sent"})
    BY <2>7, SendDeltaLeads
  <2>9. Alive(c)
    BY <2>8 DEF Leads
  <2> HIDE DEF c
  <2>10. Leads(c, t, Output)
    BY <1>3, <2>9, StopBlockLeads
  <2>11. Leads(s, a, Changed)
    BY <2>1, <2>4, LeadsOn
  <2>12. Leads(s, b, Changed)
    BY <2>6, <2>11, LeadsOn
  <2>13. Leads(s, c, Changed)
    BY <2>8, <2>12, LeadsOn DEF Output
  <2>14. Leads(s, t, Changed)
    BY <2>10, <2>13, LeadsOn
  <2>15. Leads(b, t, Output)
    BY <2>7, <2>8, <2>10, LeadsOn DEF Output
  <2>16. call \in Calls(t)
    <3>1. Prefix(b.sent, t.sent) /\ Len(b.sent) \in Nat /\ Len(t.sent) \in Nat
      BY <2>7, <2>15, BlocksOf DEF Leads
    <3>2. Len(b.sent) \in 1 .. Len(t.sent) /\ t.sent[Len(b.sent)] = Start(i, "tool_use", call)
      BY <2>6, <3>1 DEF Prefix
    <3> QED
      BY <3>2 DEF Calls, SentCalls, ToolStarts, Start
  <2> QED
    BY <2>14, <2>16 DEF SaysWhatItHas
<1> QED
  BY <1>1, <1>2, <1>3

\* EventsWellFormed, of the events alone.
WellFormed(S) ==
    /\ \A k \in 1 .. Len(S) : S[k].ev = "message_start" <=> k = 1
    /\ StartedOnce(S) /\ AllInside(S)
    /\ \A k \in 1 .. Len(S) : S[k].ev = "message_delta" =>
          /\ \A j \in 1 .. k - 1 : S[j].ev = "start" => \E i \in j .. k - 1 : IsStopOf(S[i], S[j].index)
          /\ k + 1 = Len(S) /\ S[k + 1].ev = "message_stop"
    /\ \A k \in 1 .. Len(S) : S[k].ev \in {"message_stop", "error"} => k = Len(S)

LEMMA RunningIsWellFormed ==
    ASSUME NEW S, NEW B, Running(S, B)
    PROVE  WellFormed(S)
<1>1. Len(S) \in Nat
  BY SeqLength DEF Running
<1>2. \A k \in 1 .. Len(S) : S[k].ev \in {"message_start", "start", "delta", "stop"}
  BY <1>1 DEF Running, Opening, OfBlock
<1> QED
  BY <1>1, <1>2 DEF Running, Opening, WellFormed

\* One more event that does not belong to a block.
LEMMA EndIsInside ==
    ASSUME NEW S, IsSeq(S), Len(S) >= 1, NEW e, e.ev \notin {"message_start", "start", "delta", "stop"}
    PROVE  LET T == Append(S, e)
           IN  /\ IsSeq(T) /\ Len(T) = Len(S) + 1 /\ Len(T) >= 1
               /\ \A k \in 1 .. Len(S) : T[k] = S[k]
               /\ T[Len(S) + 1] = e
               /\ (\A k \in 1 .. Len(S) : S[k].ev = "message_start" <=> k = 1) =>
                     \A k \in 1 .. Len(T) : T[k].ev = "message_start" <=> k = 1
               /\ StartedOnce(S) => StartedOnce(T)
               /\ AllInside(S) => AllInside(T)
<1> DEFINE T == Append(S, e)
<1>1. /\ IsSeq(T) /\ Len(S) \in Nat /\ Len(T) = Len(S) + 1
      /\ \A k \in 1 .. Len(S) : T[k] = S[k]
      /\ T[Len(S) + 1] = e
  BY Appended, SeqLength
<1> HIDE DEF T
<1>2. ASSUME \A k \in 1 .. Len(S) : S[k].ev = "message_start" <=> k = 1
      PROVE  \A k \in 1 .. Len(T) : T[k].ev = "message_start" <=> k = 1
  BY <1>1, <1>2
<1>3. ASSUME StartedOnce(S) PROVE StartedOnce(T)
  BY <1>1, <1>3 DEF StartedOnce
<1>4. ASSUME AllInside(S) PROVE AllInside(T)
  <2> SUFFICES ASSUME NEW k \in 1 .. Len(T), T[k].ev \in {"delta", "stop"}
               PROVE  InsideItsBlock(T, k)
    BY DEF AllInside
  <2>1. k \in 1 .. Len(S)
    BY <1>1
  <2>2. InsideItsBlock(S, k) /\ \A j \in 1 .. k : T[j] = S[j]
    BY <1>1, <1>4, <2>1 DEF AllInside
  <2> QED
    BY <1>1, <2>1, <2>2 DEF InsideItsBlock, IsStartOf, IsStopOf
<1> QED
  BY <1>1, <1>2, <1>3, <1>4 DEF T

LEMMA ErrorIsWellFormed ==
    ASSUME NEW S, NEW B, Running(S, B), NEW e, e.ev = "error"
    PROVE  WellFormed(Append(S, e))
<1> DEFINE T == Append(S, e)
<1>1. WellFormed(S) /\ IsSeq(S) /\ Len(S) >= 1 /\ Len(S) \in Nat
  BY RunningIsWellFormed, SeqLength DEF Running, Opening
<1>2. \A k \in 1 .. Len(S) : S[k].ev \in {"message_start", "start", "delta", "stop"}
  BY <1>1 DEF Running, Opening, OfBlock
<1>3. /\ IsSeq(T) /\ Len(T) = Len(S) + 1
      /\ \A k \in 1 .. Len(S) : T[k] = S[k]
      /\ T[Len(S) + 1] = e
      /\ \A k \in 1 .. Len(T) : T[k].ev = "message_start" <=> k = 1
      /\ StartedOnce(T) /\ AllInside(T)
  BY <1>1, EndIsInside DEF WellFormed
<1> HIDE DEF T
<1>4. \A k \in 1 .. Len(T) : k = Len(T) \/ T[k].ev \in {"message_start", "start", "delta", "stop"}
  BY <1>1, <1>2, <1>3
<1> QED
  BY <1>1, <1>3, <1>4 DEF WellFormed, T

LEMMA EndIsWellFormed ==
    ASSUME NEW S, NEW B, Running(S, B), \A i \in 1 .. Len(B) : ~B[i].open,
           NEW d, d.ev = "message_delta", NEW e, e.ev = "message_stop"
    PROVE  WellFormed(Append(Append(S, d), e))
<1> DEFINE U == Append(S, d)
           T == Append(U, e)
<1>1. WellFormed(S) /\ IsSeq(S) /\ Len(S) >= 1 /\ Len(S) \in Nat
  BY RunningIsWellFormed, SeqLength DEF Running, Opening
<1>2. \A k \in 1 .. Len(S) : S[k].ev \in {"message_start", "start", "delta", "stop"}
  BY <1>1 DEF Running, Opening, OfBlock
<1>3. /\ IsSeq(U) /\ Len(U) = Len(S) + 1 /\ Len(U) >= 1
      /\ \A k \in 1 .. Len(S) : U[k] = S[k]
      /\ U[Len(S) + 1] = d
      /\ \A k \in 1 .. Len(U) : U[k].ev = "message_start" <=> k = 1
      /\ StartedOnce(U) /\ AllInside(U)
  BY <1>1, EndIsInside DEF WellFormed
<1> HIDE DEF U
<1>10. T = Append(U, e) /\ e.ev \notin {"message_start", "start", "delta", "stop"}
  OBVIOUS
<1> HIDE DEF T
<1>4. /\ Len(T) = Len(U) + 1
      /\ \A k \in 1 .. Len(U) : T[k] = U[k]
      /\ T[Len(U) + 1] = e
      /\ \A k \in 1 .. Len(T) : T[k].ev = "message_start" <=> k = 1
      /\ StartedOnce(T) /\ AllInside(T)
  BY <1>3, <1>10, EndIsInside
<1>5. /\ Len(T) = Len(S) + 2 /\ T[Len(S) + 1] = d /\ T[Len(S) + 2] = e
      /\ \A k \in 1 .. Len(S) : T[k] = S[k]
  BY <1>1, <1>3, <1>4
<1>6. ASSUME NEW j \in 1 .. Len(S), S[j].ev = "start"
      PROVE  \E i \in j .. Len(S) : IsStopOf(T[i], T[j].index)
  <2>1. S[j].index \in 1 .. Len(B)
    BY <1>6 DEF Running, KnownBlocks, OfBlock
  <2>2. PICK i \in 1 .. Len(S) : IsStopOf(S[i], S[j].index)
    BY <2>1 DEF Running, OpenUntilStopped
  <2>3. PICK h \in 1 .. i - 1 : IsStartOf(S[h], S[i].index)
    BY <2>2 DEF Running, AllInside, InsideItsBlock, IsStopOf
  <2>4. h \in 1 .. Len(S) /\ S[h].ev = "start" /\ S[h].index = S[j].index
    BY <1>1, <2>2, <2>3 DEF IsStartOf, IsStopOf
  <2>5. h = j
    BY <1>6, <2>4 DEF Running, StartedOnce
  <2> QED
    BY <1>1, <1>5, <2>2, <2>3, <2>5
<1>7. \A k \in 1 .. Len(T) : T[k].ev = "message_delta" => k = Len(S) + 1
  BY <1>1, <1>2, <1>5
<1>8. \A k \in 1 .. Len(T) : T[k].ev \in {"message_stop", "error"} => k = Len(T)
  BY <1>1, <1>2, <1>5
<1>9. ASSUME NEW k \in 1 .. Len(T), T[k].ev = "message_delta"
      PROVE  /\ \A j \in 1 .. k - 1 : T[j].ev = "start" =>
                   \E i \in j .. k - 1 : IsStopOf(T[i], T[j].index)
             /\ k + 1 = Len(T) /\ T[k + 1].ev = "message_stop"
  <2>1. k = Len(S) + 1 /\ k - 1 = Len(S) /\ k + 1 = Len(T) /\ k + 1 = Len(S) + 2
    BY <1>1, <1>5, <1>7, <1>9
  <2> QED
    BY <1>5, <1>6, <2>1
<1> QED
  BY <1>4, <1>8, <1>9 DEF WellFormed, T, U

LEMMA ConcludeEnds ==
    ASSUME NEW s, Alive(s), SaysWhatItHas(s), s.pending_tool_use = NoTool,
           NEW t, t = Conclude(s)
    PROVE  /\ t.ended = TRUE /\ WellFormed(t.sent) /\ IsSeq(t.sent)
           /\ SentCalls(s.sent) \subseteq SentCalls(t.sent)
           /\ \A k \in 1 .. Len(t.sent) :
                 t.sent[k].ev = "message_delta" /\ t.sent[k].reason = "tool_use" =>
                     SentCalls(t.sent) # {}
<1> DEFINE reason == IF s.stop_reason # "none" THEN s.stop_reason
                     ELSE IF s.has_tool_use THEN "tool_use" ELSE "end_turn"
           a == StopAll(s, BlockType)
           d == [ev |-> "message_delta", reason |-> reason]
           e == [ev |-> "message_stop"]
           S == a.sent
<1>1. /\ Leads(s, a, Output) /\ Len(a.blocks) = Len(s.blocks)
      /\ \A j \in 1 .. Len(s.blocks) :
            /\ a.blocks[j].type = s.blocks[j].type
            /\ a.blocks[j].open <=> s.blocks[j].open /\ s.blocks[j].type \notin BlockType
  BY StopAllLeads
<1>2. Alive(a)
  BY <1>1 DEF Leads
<1>3. \A j \in 1 .. Len(a.blocks) : ~a.blocks[j].open
  BY <1>1, BlocksOf DEF Block
<1>4. t = [a EXCEPT !.sent = @ \o <<d, e>>, !.ended = TRUE]
  BY DEF Conclude
<1> HIDE DEF a, reason
<1>5. t.sent = S \o <<d, e>> /\ t.ended = TRUE
  BY <1>2, <1>4 DEF Alive, Fields
<1>6. d.ev = "message_delta" /\ d.reason = reason /\ e.ev = "message_stop"
  OBVIOUS
<1> HIDE DEF d, e
<1>7. IsSeq(S) /\ Len(S) \in Nat
  BY <1>2, SeqLength DEF Alive, Running
<1>8. S \o <<d, e>> = Append(Append(S, d), e)
  <2> DEFINE V == {S[i] : i \in DOMAIN S} \cup {d, e}
  <2>1. S \in Seq({S[i] : i \in DOMAIN S}) /\ {S[i] : i \in DOMAIN S} \subseteq V
    BY <1>7 DEF IsSeq
  <2>2. S \in Seq(V) /\ d \in V /\ e \in V
    BY <2>1, SeqMonotonic
  <2> HIDE DEF V, S
  <2>3. <<d>> \in Seq(V) /\ <<e>> \in Seq(V) /\ Append(S, d) \in Seq(V)
    BY <2>2, AppendProperties
  <2>4. <<d, e>> = <<d>> \o <<e>>
    <3>1. /\ <<d>> \o <<e>> \in Seq(V) /\ Len(<<d>> \o <<e>>) = 2
          /\ (<<d>> \o <<e>>)[1] = d /\ (<<d>> \o <<e>>)[2] = e
      BY <2>3, ConcatProperties
    <3>2. <<d, e>> \in Seq(V) /\ Len(<<d, e>>) = 2 /\ <<d, e>>[1] = d /\ <<d, e>>[2] = e
      BY <2>2
    <3> DEFINE p == <<d, e>>
               q == <<d>> \o <<e>>
    <3>3. p \in Seq(V) /\ q \in Seq(V) /\ Len(p) = Len(q) /\ \A i \in 1 .. Len(p) : p[i] = q[i]
      BY <3>1, <3>2
    <3> HIDE DEF p, q
    <3>4. p = q
      BY <3>3, SeqEqual
    <3> QED
      BY <3>4 DEF p, q
  <2>5. S \o (<<d>> \o <<e>>) = (S \o <<d>>) \o <<e>>
    BY <2>2, <2>3, ConcatAssociative
  <2>6. S \o <<d>> = Append(S, d) /\ Append(S, d) \o <<e>> = Append(Append(S, d), e)
    BY <2>2, <2>3, AppendIsConcat
  <2> QED
    BY <2>4, <2>5, <2>6
<1>9. WellFormed(t.sent)
  BY <1>2, <1>3, <1>5, <1>6, <1>8, EndIsWellFormed DEF Alive
<1>10. /\ IsSeq(t.sent) /\ Len(t.sent) = Len(S) + 2 /\ Prefix(S, t.sent)
       /\ t.sent[Len(S) + 1] = d /\ t.sent[Len(S) + 2] = e
  <2> DEFINE U == Append(S, d)
  <2>1. IsSeq(U) /\ Len(U) = Len(S) + 1 /\ U[Len(S) + 1] = d /\ \A k \in 1 .. Len(S) : U[k] = S[k]
    BY <1>7, Appended
  <2>2. t.sent = Append(U, e)
    BY <1>5, <1>8
  <2> HIDE DEF U
  <2>3. /\ IsSeq(Append(U, e)) /\ Len(Append(U, e)) = Len(U) + 1
        /\ Append(U, e)[Len(U) + 1] = e /\ \A k \in 1 .. Len(U) : Append(U, e)[k] = U[k]
    BY <2>1, Appended
  <2> QED
    BY <1>7, <2>1, <2>2, <2>3 DEF Prefix
<1>11. SentCalls(s.sent) \subseteq SentCalls(t.sent)
  <2>1. Len(s.sent) \in Nat /\ Len(t.sent) \in Nat /\ Prefix(s.sent, S)
    BY <1>1, <1>7, <1>10, BlocksOf DEF Leads
  <2>2. Prefix(s.sent, t.sent)
    BY <1>7, <1>10, <2>1 DEF Prefix
  <2> QED
    BY <2>1, <2>2, SentCallsStay
<1>12. ASSUME NEW k \in 1 .. Len(t.sent), t.sent[k].ev = "message_delta",
              t.sent[k].reason = "tool_use"
       PROVE  SentCalls(t.sent) # {}
  <2>1. \A j \in 1 .. Len(S) : S[j].ev # "message_delta"
    BY <1>2, <1>7, SMTT(30) DEF Alive, Running, Opening, OfBlock
  <2>2. k = Len(S) + 1
    BY <1>6, <1>7, <1>10, <1>12, <2>1, SMTT(30) DEF Prefix
  <2>3. reason = "tool_use"
    BY <1>6, <1>10, <1>12, <2>2
  <2>4. s.has_tool_use \/ s.stop_reason = "tool_use"
    BY <2>3 DEF reason
  <2>5. SentCalls(s.sent) # {}
    BY <2>4 DEF SaysWhatItHas, Calls
  <2> QED
    BY <1>11, <2>5
<1> QED
  BY <1>5, <1>9, <1>10, <1>11, <1>12

LEMMA FinishEnds ==
    ASSUME NEW s, Alive(s), TagIsOpen(s), SaysWhatItHas(s),
           NEW t, t = generate_final_events(s)
    PROVE  /\ t.ended = TRUE /\ WellFormed(t.sent) /\ IsSeq(t.sent)
           /\ Calls(s) \subseteq SentCalls(t.sent)
           /\ \A k \in 1 .. Len(t.sent) :
                 t.sent[k].ev = "message_delta" /\ t.sent[k].reason = "tool_use" =>
                     SentCalls(t.sent) # {}
<1> DEFINE a == FlushBuffer(s)
           b == close_reasoning_thinking_block(a)
           c == InjectThinking(b)
           d == flush_pending_tool_use(c)
           e == AddText(d)
           f == BracketCalls(e)
<1>1. t = Conclude(f)
  BY DEF generate_final_events
<1>2. /\ {"pending_tool_use", "has_tool_use", "stop_reason"} \cap ContentFields = {}
      /\ Output \cup {"thinking_extracted"} \subseteq ContentFields
  BY DEF ContentFields, TextFields, TagFields, Output
<1>3. Leads(s, a, ContentFields)
  BY FlushBufferLeads
<1>4. Alive(a)
  BY <1>3 DEF Leads
<1> HIDE DEF a
<1>5. Leads(a, b, Output \cup {"thinking_extracted"})
  BY <1>4, CloseReasoningLeads
<1>6. Alive(b)
  BY <1>5 DEF Leads
<1> HIDE DEF b
<1>7. Leads(b, c, ContentFields)
  BY <1>6, InjectThinkingLeads
<1>8. Alive(c)
  BY <1>7 DEF Leads
<1> HIDE DEF c
<1>9. Leads(s, b, ContentFields)
  BY <1>2, <1>3, <1>5, LeadsOn
<1>10. Leads(s, c, ContentFields)
  BY <1>7, <1>9, LeadsOn
<1>11. Calls(s) \subseteq Calls(c) /\ SaysWhatItHas(c)
  BY <1>2, <1>10, CallsStay
<1>12. /\ Leads(c, d, ToolFields) /\ d.pending_tool_use = NoTool
       /\ Calls(c) \subseteq Calls(d) /\ SaysWhatItHas(d)
  BY <1>8, <1>11, FlushLeads
<1>13. Alive(d)
  BY <1>12 DEF Leads
<1> HIDE DEF d
<1>14. /\ Leads(d, e, ContentFields \cup {"stop_reason"})
       /\ e.stop_reason \in {d.stop_reason, "max_tokens"}
  BY <1>13, AddTextLeads
<1>15. Alive(e)
  BY <1>14 DEF Leads
<1> HIDE DEF e
<1>16. Calls(d) \subseteq Calls(e) /\ e.pending_tool_use = NoTool /\ SaysWhatItHas(e)
  <2>1. Calls(d) \subseteq Calls(e)
    BY <1>2, <1>13, <1>14, CallsStay
  <2>2. e.pending_tool_use = d.pending_tool_use /\ e.has_tool_use = d.has_tool_use
    BY <1>2, <1>14 DEF Leads, Fields
  <2> QED
    BY <1>12, <1>14, <2>1, <2>2 DEF SaysWhatItHas
<1>17. /\ Leads(e, f, Output \cup {"has_tool_use", "stop_reason", "text_block_index"})
       /\ SaysWhatItHas(f)
  BY <1>15, <1>16, BracketCallsLead
<1>18. Alive(f)
  BY <1>17 DEF Leads
<1> HIDE DEF f
<1>19. Calls(e) \subseteq Calls(f) /\ f.pending_tool_use = NoTool
  <2>1. "pending_tool_use" \notin Output \cup {"has_tool_use", "stop_reason", "text_block_index"}
    BY DEF Output
  <2>2. Calls(e) \subseteq Calls(f)
    BY <1>15, <1>17, <2>1, CallsStay
  <2> QED
    BY <1>16, <1>17, <2>1, <2>2 DEF Leads, Fields
<1>20. /\ t.ended = TRUE /\ WellFormed(t.sent) /\ IsSeq(t.sent)
       /\ SentCalls(f.sent) \subseteq SentCalls(t.sent)
       /\ \A k \in 1 .. Len(t.sent) :
             t.sent[k].ev = "message_delta" /\ t.sent[k].reason = "tool_use" =>
                 SentCalls(t.sent) # {}
  BY <1>1, <1>17, <1>18, <1>19, ConcludeEnds
<1>21. Calls(f) = SentCalls(f.sent)
  BY <1>19 DEF Calls
<1> QED
  BY <1>11, <1>12, <1>16, <1>19, <1>20, <1>21

-----------------------------------------------------------------------------
(* The stream.                                                              *)

RunsRight ==
    /\ Alive(ctx) /\ TagIsOpen(ctx) /\ PendingIsCall(ctx) /\ SaysWhatItHas(ctx)
    /\ ctx.stop_reason # "tool_use"
    /\ \A x \in called : IsToldIn(x, Calls(ctx))

EndedRight ==
    /\ ctx.ended /\ IsSeq(ctx.sent) /\ WellFormed(ctx.sent)
    /\ ~ctx.aborted =>
          /\ \A x \in called : IsToldIn(x, SentCalls(ctx.sent))
          /\ \A k \in 1 .. Len(ctx.sent) :
                ctx.sent[k].ev = "message_delta" /\ ctx.sent[k].reason = "tool_use" =>
                    SentCalls(ctx.sent) # {}

StreamInv == RunsRight \/ EndedRight

LEMMA StreamBegins == Init => StreamInv
<1> SUFFICES ASSUME Init PROVE RunsRight
  BY DEF StreamInv
<1>1. PICK enabled \in BOOLEAN : \E format \in {"thinking", "think"} :
          ctx = Emit(NewContext(enabled, format), [ev |-> "message_start"])
  BY DEF Init
<1>2. PICK format \in {"thinking", "think"} :
          ctx = Emit(NewContext(enabled, format), [ev |-> "message_start"])
  BY <1>1
<1> DEFINE s == NewContext(enabled, format)
           e == [ev |-> "message_start"]
<1>3. /\ DOMAIN s = Fields /\ s.sent = <<>> /\ s.blocks = <<>> /\ s.ended = FALSE
      /\ s.in_thinking_block = FALSE /\ s.pending_tool_use = NoTool
      /\ s.has_tool_use = FALSE /\ s.stop_reason = "none"
  BY DEF NewContext, Fields
<1> HIDE DEF s
<1>4. ctx = [s EXCEPT !.sent = Append(s.sent, e)]
  BY <1>2 DEF Emit, s
<1>5. /\ DOMAIN ctx = Fields /\ ctx.sent = Append(s.sent, e) /\ ctx.blocks = <<>>
      /\ ctx.ended = FALSE
      /\ ctx.in_thinking_block = FALSE /\ ctx.pending_tool_use = NoTool
      /\ ctx.has_tool_use = FALSE /\ ctx.stop_reason = "none"
  BY <1>3, <1>4 DEF Fields
<1>6. ctx.sent = <<e>>
  BY <1>3, <1>5
<1>7. <<e>> \in Seq({e}) /\ Len(<<e>>) = 1 /\ <<e>>[1] = e /\ e.ev = "message_start"
  OBVIOUS
<1>8. IsSeq(ctx.sent)
  BY <1>6, <1>7, SeqIsSeq
<1>9. ctx.blocks \in Seq(Block) /\ Len(ctx.blocks) = 0
  BY <1>5
<1>10. Running(ctx.sent, ctx.blocks)
  <2>1. /\ Len(ctx.sent) = 1 /\ ctx.sent[1].ev = "message_start"
    BY <1>6, <1>7
  <2> QED
    BY <1>8, <1>9, <2>1 DEF Running, Opening, StartedOnce, AllInside, KnownBlocks, AllStarted,
                            OpenUntilStopped, OfBlock
<1> QED
  BY <1>5, <1>10 DEF RunsRight, Alive, TagIsOpen, PendingIsCall, SaysWhatItHas, Init

LEMMA StreamGoesOn == StreamInv /\ [Next]_vars => StreamInv'
<1> SUFFICES ASSUME StreamInv, [Next]_vars PROVE StreamInv'
  OBVIOUS
<1> DEFINE s == ctx
           t == ctx'
<1>1. CASE UNCHANGED vars
  BY <1>1 DEF vars, StreamInv, RunsRight, EndedRight
<1>2. ASSUME Next PROVE RunsRight /\ ~ctx.ended
  BY <1>2 DEF StreamInv, RunsRight, EndedRight, Alive, Next, AssistantResponse, ReasoningContent,
              ToolUse, LimitReached, Finish, Fail, Upstream
\* What content leaves: the calls, the reason and, with its invariant, the tag.
<1>3. ASSUME RunsRight, Leads(s, t, ContentFields), TagIsOpen(t), UNCHANGED called
      PROVE  StreamInv'
  <2>1. {"pending_tool_use", "has_tool_use", "stop_reason"} \cap ContentFields = {}
    BY DEF ContentFields, TextFields, TagFields, Output
  <2>2. Alive(s) /\ PendingIsCall(s) /\ SaysWhatItHas(s)
    BY <1>3 DEF RunsRight
  <2>3. Calls(s) \subseteq Calls(t) /\ PendingIsCall(t) /\ SaysWhatItHas(t)
    BY <1>3, <2>1, <2>2, CallsStay
  <2>4. t.stop_reason = s.stop_reason
    BY <1>3, <2>1 DEF Leads, Fields
  <2>5. \A x \in called' : IsToldIn(x, Calls(t))
    BY <1>3, <2>3 DEF RunsRight, IsToldIn
  <2>6. Alive(t)
    BY <1>3 DEF Leads
  <2> QED
    BY <1>3, <2>3, <2>4, <2>5, <2>6 DEF StreamInv, RunsRight
<1>4. ASSUME NEW chunk \in Chunks, AssistantResponse(chunk) PROVE StreamInv'
  <2> DEFINE toks == [i \in DOMAIN chunk |-> [k |-> chunk[i], at |-> now + 1]]
  <2>1. t = process_assistant_response(s, toks) /\ UNCHANGED called
    BY <1>4 DEF AssistantResponse, Upstream
  <2>2. RunsRight
    BY <1>2, <1>4 DEF Next
  <2> HIDE DEF toks
  <2>3. Leads(s, t, ContentFields) /\ TagIsOpen(t)
    BY <2>1, <2>2, AssistantResponseLeads DEF RunsRight
  <2> QED
    BY <1>3, <2>1, <2>2, <2>3
<1>5. ASSUME ReasoningContent PROVE StreamInv'
  <2> DEFINE toks == <<[k |-> "reason", at |-> now + 1]>>
  <2>1. t = process_reasoning_content(s, toks) /\ UNCHANGED called
    BY <1>5 DEF ReasoningContent, Upstream
  <2>2. RunsRight
    BY <1>2, <1>5 DEF Next
  <2> HIDE DEF toks
  <2>3. Leads(s, t, ContentFields) /\ TagIsOpen(t)
    BY <2>1, <2>2, ReasoningLeads DEF RunsRight
  <2> QED
    BY <1>3, <2>1, <2>2, <2>3
<1>6. ASSUME NEW e \in ToolUseEvent, ToolUse(e) PROVE StreamInv'
  <2>1. t = process_tool_use(s, e, now + 1) /\ called' = called \cup {e.name} \cup ({e.id} \ {NoId})
    BY <1>6 DEF ToolUse, Upstream
  <2>2. RunsRight
    BY <1>2, <1>6 DEF Next
  <2>3. /\ Leads(s, t, ContentFields \cup ToolFields) /\ TagIsOpen(t)
        /\ PendingIsCall(t) /\ CallsKept(s, t)
        /\ IsToldIn(e.name, Calls(t))
        /\ e.id # NoId => IsToldIn(e.id, Calls(t))
    BY <2>1, <2>2, ToolUseLeads DEF RunsRight
  <2>4. t.stop_reason = s.stop_reason
    BY <2>3 DEF Leads, ContentFields, TextFields, TagFields, ToolFields, Output, Fields
  <2>5. \A x \in called' : IsToldIn(x, Calls(t))
    BY <2>1, <2>2, <2>3 DEF RunsRight, CallsKept
  <2>6. SaysWhatItHas(t) /\ Alive(t)
    BY <2>3 DEF SaysWhatItHas, IsToldIn, Leads
  <2> QED
    BY <2>2, <2>3, <2>4, <2>5, <2>6 DEF StreamInv, RunsRight
<1>7. ASSUME NEW reason \in {"max_tokens", "model_context_window_exceeded"}, LimitReached(reason)
      PROVE  StreamInv'
  <2>1. t = [s EXCEPT !.stop_reason = reason] /\ UNCHANGED called
    BY <1>7 DEF LimitReached, Upstream
  <2>2. RunsRight
    BY <1>2, <1>7 DEF Next
  <2>3. /\ DOMAIN t = Fields /\ t.stop_reason = reason
        /\ \A f \in Fields \ {"stop_reason"} : t[f] = s[f]
    BY <2>1, <2>2 DEF RunsRight, Alive, Fields
  <2>4. Leads(s, t, {"stop_reason"}) /\ ThinkingStays(s, t)
    BY <2>2, <2>3, FieldsLead DEF RunsRight
  <2>5. TagIsOpen(t)
    BY <2>2, <2>4, TagStaysOpen DEF RunsRight, TagFields
  <2>6. Calls(s) \subseteq Calls(t) /\ PendingIsCall(t)
    BY <2>2, <2>4, CallsStay DEF RunsRight
  <2>7. t.has_tool_use = s.has_tool_use
    BY <2>3 DEF Fields
  <2>8. SaysWhatItHas(t)
    BY <2>2, <2>3, <2>6, <2>7 DEF RunsRight, SaysWhatItHas
  <2>9. \A x \in called' : IsToldIn(x, Calls(t))
    BY <2>1, <2>2, <2>6 DEF RunsRight, IsToldIn
  <2>10. Alive(t)
    BY <2>4 DEF Leads
  <2> QED
    BY <2>3, <2>5, <2>6, <2>8, <2>9, <2>10 DEF StreamInv, RunsRight
<1>8. ASSUME Finish PROVE StreamInv'
  <2>1. t = generate_final_events(s) /\ UNCHANGED called
    BY <1>8 DEF Finish
  <2>2. RunsRight
    BY <1>2, <1>8 DEF Next
  <2>3. /\ t.ended = TRUE /\ WellFormed(t.sent) /\ IsSeq(t.sent)
        /\ Calls(s) \subseteq SentCalls(t.sent)
        /\ \A k \in 1 .. Len(t.sent) :
              t.sent[k].ev = "message_delta" /\ t.sent[k].reason = "tool_use" =>
                  SentCalls(t.sent) # {}
    BY <2>1, <2>2, FinishEnds DEF RunsRight
  <2>4. \A x \in called' : IsToldIn(x, SentCalls(t.sent))
    BY <2>1, <2>2, <2>3 DEF RunsRight, IsToldIn
  <2> QED
    BY <2>3, <2>4 DEF StreamInv, EndedRight
<1>9. ASSUME Fail PROVE StreamInv'
  <2> DEFINE e == [ev |-> "error"]
  <2>1. t = Emit([s EXCEPT !.aborted = TRUE, !.ended = TRUE], e)
    BY <1>9 DEF Fail, generate_error_events
  <2>2. RunsRight
    BY <1>2, <1>9 DEF Next
  <2>3. t.sent = Append(s.sent, e) /\ t.ended = TRUE /\ t.aborted = TRUE
    BY <2>1, <2>2 DEF RunsRight, Alive, Fields, Emit
  <2>4. e.ev = "error"
    OBVIOUS
  <2>5. WellFormed(t.sent)
    BY <2>2, <2>3, <2>4, ErrorIsWellFormed DEF RunsRight, Alive
  <2>6. IsSeq(t.sent)
    BY <2>2, <2>3, Appended DEF RunsRight, Alive, Running
  <2> QED
    BY <2>3, <2>5, <2>6 DEF StreamInv, EndedRight
<1> QED
  BY <1>1, <1>4, <1>5, <1>6, <1>7, <1>8, <1>9 DEF Next

\* The inductive invariant of the stream.
THEOREM StreamCorrect == Spec => []StreamInv
<1> QED
  BY StreamBegins, StreamGoesOn, PTL DEF Spec

\* stream.rs:117: for any number of upstream events, any texts, any tools and
\* any cut into chunks, the client gets every block started once, before its
\* deltas and its stop, and one end, after every block was stopped.
THEOREM EventsAreWellFormed == Spec => []EventsWellFormed
<1>1. ASSUME StreamInv PROVE EventsWellFormed
  <2>1. WellFormed(ctx.sent) /\ IsSeq(ctx.sent)
    BY <1>1, RunningIsWellFormed DEF StreamInv, RunsRight, EndedRight, Alive, Running
  <2>2. DOMAIN ctx.sent = 1 .. Len(ctx.sent)
    BY <2>1, SeqLength
  <2> DEFINE S == ctx.sent
  <2>3. /\ \A k \in 1 .. Len(S) : S[k].ev = "message_start" <=> k = 1
        /\ \A k \in 1 .. Len(S) : S[k].ev \in {"message_stop", "error"} => k = Len(S)
    BY <2>1 DEF WellFormed
  <2>4. \A j, k \in 1 .. Len(S) :
           S[j].ev = "start" /\ S[k].ev = "start" /\ j # k => S[j].index # S[k].index
    BY <2>1 DEF WellFormed, StartedOnce
  <2>5. \A k \in 1 .. Len(S) : S[k].ev \in {"delta", "stop"} =>
           /\ \E j \in 1 .. k - 1 : S[j].ev = "start" /\ S[j].index = S[k].index
           /\ \A j \in 1 .. k - 1 : ~(S[j].ev = "stop" /\ S[j].index = S[k].index)
    BY <2>1 DEF WellFormed, AllInside, InsideItsBlock, IsStartOf, IsStopOf
  <2>6. \A k \in 1 .. Len(S) : S[k].ev = "message_delta" =>
           /\ \A j \in 1 .. k - 1 : S[j].ev = "start" =>
                 \E i \in j .. k - 1 : S[i].ev = "stop" /\ S[i].index = S[j].index
           /\ k + 1 = Len(S) /\ S[k + 1].ev = "message_stop"
    BY <2>1 DEF WellFormed, IsStopOf
  <2> QED
    BY <2>2, <2>3, <2>4, <2>5, <2>6 DEF EventsWellFormed, Sent, Positions
<1> QED
  BY <1>1, StreamCorrect, PTL

\* stream.rs:1163: a finished message has a call with every id and of every tool
\* that the upstream named, however its events came, and the client is never told
\* to run a tool that is not there.
THEOREM ToolUseIsDelivered == Spec => []ToolUseDelivered
<1>1. ASSUME StreamInv PROVE ToolUseDelivered
  <2> DEFINE tools == {k \in Positions : IsStart(k, "tool_use")}
             told == UNION {{Sent(k).call.id, Sent(k).call.name} : k \in tools}
  <2> SUFFICES ASSUME ctx.ended, ~ctx.aborted
               PROVE  /\ called \subseteq told
                      /\ \A k \in Positions : Sent(k).ev = "message_delta" =>
                            (Sent(k).reason = "tool_use" => tools # {})
    BY DEF ToolUseDelivered
  <2>1. EndedRight
    BY <1>1 DEF StreamInv, RunsRight, Alive
  <2>2. DOMAIN ctx.sent = 1 .. Len(ctx.sent)
    BY <2>1, SeqLength DEF EndedRight
  <2>3. tools = ToolStarts(ctx.sent)
    BY <2>2 DEF ToolStarts, Positions, IsStart, Sent
  <2>4. ASSUME NEW x \in called PROVE x \in told
    <3>1. PICK c \in SentCalls(ctx.sent) : x = c.name \/ x = c.id
      BY <2>1, <2>4 DEF EndedRight, IsToldIn
    <3>2. PICK k \in ToolStarts(ctx.sent) : c = ctx.sent[k].call
      BY <3>1 DEF SentCalls
    <3>3. x \in {Sent(k).call.id, Sent(k).call.name} /\ k \in tools
      BY <2>3, <3>1, <3>2 DEF Sent
    <3> HIDE DEF tools
    <3> QED
      BY <3>3, Zenon
  <2>5. ASSUME NEW k \in Positions, Sent(k).ev = "message_delta", Sent(k).reason = "tool_use"
        PROVE  tools # {}
    <3>1. SentCalls(ctx.sent) # {}
      BY <2>1, <2>2, <2>5 DEF EndedRight, Positions, Sent
    <3> QED
      BY <2>3, <3>1 DEF SentCalls
  <2> QED
    BY <2>4, <2>5
<1> QED
  BY <1>1, StreamCorrect, PTL

=============================================================================
