-------------------------- MODULE ConversionProofs --------------------------
(***************************************************************************)
(* Proofs about RequestConversion, for any messages, any number of them,    *)
(* any tools and any limit of the body.                                     *)
(*                                                                          *)
(* Nothing here moves but the list of messages, so the invariant is only    *)
(* that they are messages; the work is in what is made of them.  The turns  *)
(* of a conversation are followed through the loop that builds them         *)
(* (BuildInv, Conversation), the cleaning (Tidy, KeptInv), which ends with  *)
(* a history that can be sent (Sendable), and the cutting (Shortens, Fits). *)
(* Each loop is a recursive function; that it exists and keeps its          *)
(* invariant follows from the well-ordering of the naturals.                *)
(***************************************************************************)
EXTENDS RequestConversion, FiniteSetTheorems, SequenceTheorems, WellFoundedInduction, TLAPS

\* Every set of naturals that is not empty has a least member.
LEMMA LeastOf ==
    ASSUME NEW S, S \subseteq Nat, S # {}
    PROVE  \E m \in S : \A n \in S : m <= n
<1>1. PICK m \in S : \A n \in S : <<n, m>> \notin OpToRel(<, Nat)
  BY NatLessThanWellFounded, WFMin
<1>2. \A n \in S : ~(n < m)
  BY <1>1 DEF OpToRel
<1> QED
  BY <1>2

-----------------------------------------------------------------------------
(* A function that is defined turn by turn exists. *)

\* g starts with x, and makes the k-th step from k - 1 to k.
TakesTurns(g, n, x, steps) == g[0] = x /\ \A k \in 1 .. n : g[k] = steps[k][g[k - 1]]

Turning(S, n, x, steps) == \E g \in [0 .. n -> S] : TakesTurns(g, n, x, steps)

LEMMA TurnByTurn ==
    ASSUME NEW S, NEW x \in S, NEW steps \in [Nat -> [S -> S]], NEW n \in Nat
    PROVE  Turning(S, n, x, steps)
<1> DEFINE Beyond == {m \in Nat : ~Turning(S, m, x, steps)}
<1> SUFFICES ASSUME Beyond # {} PROVE FALSE
  OBVIOUS
<1>1. PICK m \in Beyond : \A i \in Beyond : m <= i
  BY LeastOf
<1>2. m # 0
  <2> SUFFICES ASSUME m = 0 PROVE FALSE
    OBVIOUS
  <2>1. PICK g : g = [k \in 0 .. m |-> x]
    OBVIOUS
  <2>2. g \in [0 .. m -> S] /\ TakesTurns(g, m, x, steps)
    BY <2>1 DEF TakesTurns
  <2> QED
    BY <1>1, <2>2 DEF Turning
<1>3. m - 1 \in Nat /\ m - 1 \notin Beyond
  BY <1>1, <1>2
<1>4. PICK g \in [0 .. m - 1 -> S] : TakesTurns(g, m - 1, x, steps)
  BY <1>3 DEF Turning
<1>5. PICK h : h = [k \in 0 .. m |-> IF k = m THEN steps[m][g[m - 1]] ELSE g[k]]
  OBVIOUS
<1>6. h \in [0 .. m -> S]
  <2>1. \A k \in 0 .. m : k = m \/ k \in 0 .. m - 1
    BY <1>1
  <2>2. g[m - 1] \in S /\ steps[m] \in [S -> S]
    BY <1>3
  <2> QED
    BY <1>5, <2>1, <2>2
<1>7. TakesTurns(h, m, x, steps)
  <2>1. h[0] = x
    BY <1>1, <1>2, <1>4, <1>5 DEF TakesTurns
  <2>2. ASSUME NEW k \in 1 .. m PROVE h[k] = steps[k][h[k - 1]]
    <3>1. h[k - 1] = g[k - 1]
      BY <1>1, <1>5
    <3>2. CASE k = m
      BY <1>5, <3>1, <3>2
    <3>3. CASE k # m
      <4>1. k \in 1 .. m - 1
        BY <1>1, <3>3
      <4>2. h[k] = g[k]
        BY <1>1, <1>5, <3>3
      <4> QED
        BY <1>4, <3>1, <4>1, <4>2 DEF TakesTurns
    <3> QED
      BY <3>2, <3>3
  <2> QED
    BY <2>1, <2>2 DEF TakesTurns
<1> QED
  BY <1>1, <1>6, <1>7 DEF Turning

-----------------------------------------------------------------------------
\* A whole of parts: it is a sequence of the same, and has everything they have.
Joins(T, parts, whole) ==
    /\ whole \in Seq(T)
    /\ \A i \in 1 .. Len(parts) : ToSet(parts[i]) \subseteq ToSet(whole)
    /\ parts = <<>> => whole = <<>>

LEMMA HasBoth ==
    ASSUME NEW T, NEW a \in Seq(T), NEW b \in Seq(T)
    PROVE  /\ a \o b \in Seq(T) /\ Len(a \o b) = Len(a) + Len(b)
           /\ ToSet(a) \subseteq ToSet(a \o b) /\ ToSet(b) \subseteq ToSet(a \o b)
<1>1. a \o b \in Seq(T) /\ Len(a \o b) = Len(a) + Len(b)
  OBVIOUS
<1>2. DOMAIN a = 1 .. Len(a) /\ DOMAIN b = 1 .. Len(b) /\ DOMAIN (a \o b) = 1 .. Len(a) + Len(b)
  BY <1>1
<1>3. \A i \in 1 .. Len(a) : (a \o b)[i] = a[i]
  OBVIOUS
<1>4. \A i \in 1 .. Len(b) : (a \o b)[Len(a) + i] = b[i] /\ Len(a) + i \in 1 .. Len(a) + Len(b)
  OBVIOUS
<1>5. \A i \in 1 .. Len(a) : i \in 1 .. Len(a) + Len(b)
  OBVIOUS
<1> QED
  BY <1>1, <1>2, <1>3, <1>4, <1>5 DEF ToSet

LEMMA FlattenJoins ==
    ASSUME NEW T, NEW parts \in Seq(Seq(T))
    PROVE  Joins(T, parts, FlattenSeq(parts))
<1>1. PICK n \in Nat : n = Len(parts)
  OBVIOUS
<1>2. \A i \in 1 .. n : parts[i] \in Seq(T)
  BY <1>1
<1>3. CASE n = 0
  <2>1. parts = <<>>
    BY <1>1, <1>3, EmptySeq
  <2>2. FlattenSeq(parts) = parts
    BY <1>1, <1>3 DEF FlattenSeq
  <2>3. FlattenSeq(parts) \in Seq(T)
    BY <2>1, <2>2, EmptySeq
  <2>4. \A i : i \notin 1 .. Len(parts)
    BY <1>1, <1>3
  <2> QED
    BY <2>1, <2>2, <2>3, <2>4 DEF Joins
<1>4. CASE n # 0
  <2> DEFINE Computes(f) == f = [i \in 1 .. n |-> IF i = 1 THEN parts[i] ELSE f[i - 1] \o parts[i]]
  <2>1. \E f : Computes(f)
    <3>1. PICK steps : steps = [k \in Nat |-> [s \in Seq(T) |-> s \o (IF k \in 1 .. n THEN parts[k] ELSE <<>>)]]
      OBVIOUS
    <3>2. steps \in [Nat -> [Seq(T) -> Seq(T)]]
      BY <1>2, <3>1
    <3>3. <<>> \in Seq(T)
      OBVIOUS
    <3>4. PICK g \in [0 .. n -> Seq(T)] : TakesTurns(g, n, <<>>, steps)
      BY <3>2, <3>3, TurnByTurn DEF Turning
    <3>5. PICK f : f = [i \in 1 .. n |-> g[i]]
      OBVIOUS
    <3>6. ASSUME NEW i \in 1 .. n
          PROVE  f[i] = IF i = 1 THEN parts[i] ELSE f[i - 1] \o parts[i]
      <4>1. i \in Nat /\ i - 1 \in 0 .. n /\ g[i - 1] \in Seq(T)
        OBVIOUS
      <4>2. g[i] = g[i - 1] \o parts[i]
        BY <3>1, <3>4, <4>1 DEF TakesTurns
      <4>3. CASE i = 1
        <5>1. g[i - 1] = <<>>
          BY <3>4, <4>3 DEF TakesTurns
        <5>2. <<>> \o parts[i] = parts[i]
          BY <1>2, ConcatEmptySeq
        <5> QED
          BY <3>5, <4>2, <4>3, <5>1, <5>2
      <4>4. CASE i # 1
        <5>1. i - 1 \in 1 .. n
          BY <4>4
        <5> QED
          BY <3>5, <4>2, <4>4, <5>1
      <4> QED
        BY <4>3, <4>4
    <3>7. Computes(f)
      BY <3>5, <3>6
    <3> QED
      BY <3>7
  <2>2. PICK f : f = CHOOSE h : Computes(h)
    OBVIOUS
  <2>3. Computes(f)
    BY <2>1, <2>2
  <2>4. FlattenSeq(parts) = f[n]
    BY <1>1, <1>4, <2>2 DEF FlattenSeq
  <2>5. \A i \in 1 .. n : f[i] = IF i = 1 THEN parts[i] ELSE f[i - 1] \o parts[i]
    BY <2>3
  <2> HIDE DEF Computes
  <2> DEFINE Has(i) == f[i] \in Seq(T) /\ \A j \in 1 .. i : ToSet(parts[j]) \subseteq ToSet(f[i])
             Bad == {i \in 1 .. n : ~Has(i)}
  <2>6. Bad = {}
    <3> SUFFICES ASSUME Bad # {} PROVE FALSE
      OBVIOUS
    <3>0. Bad \subseteq Nat
      OBVIOUS
    <3>1. PICK i \in Bad : \A j \in Bad : i <= j
      <4> HIDE DEF Bad
      <4> QED
        BY <3>0, LeastOf
    <3>2. CASE i = 1
      <4>1. f[i] = parts[i] /\ \A j \in 1 .. i : j = i
        BY <2>5, <3>2
      <4> QED
        BY <1>2, <3>1, <4>1
    <3>3. CASE i # 1
      <4>0. i - 1 \in 1 .. n /\ ~(i <= i - 1)
        BY <3>3
      <4>1. i - 1 \in 1 .. n /\ i - 1 \notin Bad
        <5> HIDE DEF Bad
        <5> QED
          BY <3>1, <4>0
      <4>2. Has(i - 1)
        BY <4>1
      <4>3. PICK a, b : a = f[i - 1] /\ b = parts[i]
        OBVIOUS
      <4>4. a \in Seq(T) /\ b \in Seq(T) /\ f[i] = a \o b
        BY <1>2, <2>5, <3>3, <4>2, <4>3
      <4>5. f[i] \in Seq(T) /\ ToSet(a) \subseteq ToSet(f[i]) /\ ToSet(b) \subseteq ToSet(f[i])
        BY <4>4, HasBoth
      <4>6. \A j \in 1 .. i : j = i \/ j \in 1 .. i - 1
        OBVIOUS
      <4>7. Has(i)
        BY <4>2, <4>3, <4>5, <4>6
      <4> QED
        BY <3>1, <4>7
    <3> QED
      BY <3>2, <3>3
  <2>7. Has(n)
    <3>1. n \in 1 .. n
      BY <1>4
    <3> QED
      BY <2>6, <3>1
  <2>8. parts # <<>>
    BY <1>1, <1>4
  <2> QED
    BY <1>1, <2>4, <2>7, <2>8 DEF Joins
<1> QED
  BY <1>3, <1>4

-----------------------------------------------------------------------------
(* The turns of a conversation. *)

\* What texts are made of.  The provers do not know that what stands in quotes is a string:
\* the words the program itself adds are named.
Parts == STRING \cup {".", "system", "follow", "image", "truncated"}

Turns == [role : {"user", "assistant"}, content : Seq(Parts), image : BOOLEAN,
          results : Seq(Parts), uses : Uses]

\* A turn as it is built: that of a user uses no tools and is not empty.
GoodTurn(t) ==
    /\ t \in Turns
    /\ t.role = "user" => t.uses = <<>> /\ (t.content # <<>> \/ t.image \/ t.results # <<>>)
    /\ t.role = "assistant" => t.results = <<>>

Hears(t, m) ==
    /\ t.role = "user"
    /\ ToSet(Said(m.text)) \subseteq ToSet(t.content)
    /\ ToSet(m.results) \subseteq ToSet(t.results)

UserSays(t, content, image, results) ==
    /\ t \in Turns /\ t.role = "user"
    /\ t.content = content /\ t.image = image /\ t.results = results /\ t.uses = <<>>

AssistantSays(t, content, uses) ==
    /\ t \in Turns /\ t.role = "assistant"
    /\ t.content = content /\ t.image = FALSE /\ t.results = <<>> /\ t.uses = uses

LEMMA UserTurnIs ==
    ASSUME NEW content \in Seq(Parts), NEW image \in BOOLEAN, NEW results \in Seq(Parts)
    PROVE  UserSays(UserTurn(content, image, results), content, image, results)
  BY EmptySeq DEF UserTurn, Turns, Uses, UserSays

LEMMA AssistantTurnIs ==
    ASSUME NEW content \in Seq(Parts), NEW uses \in Uses
    PROVE  AssistantSays(AssistantTurn(content, uses), content, uses)
  BY EmptySeq DEF AssistantTurn, Turns, AssistantSays

LEMMA Wider == ASSUME NEW A, NEW B, A \subseteq B, NEW s \in Seq(A) PROVE s \in Seq(B)
<1>1. \A i \in 1 .. Len(s) : s[i] \in B
  OBVIOUS
<1>2. Len(s) \in Nat /\ s = [i \in 1 .. Len(s) |-> s[i]]
  OBVIOUS
<1> QED
  BY <1>1, <1>2

LEMMA MessageIs ==
    ASSUME NEW m \in ClientMessages
    PROVE  m.text \in Parts /\ m.image \in BOOLEAN /\ m.results \in Seq(Parts) /\ m.uses \in Uses
<1>1. m.text \in STRING /\ m.image \in BOOLEAN /\ m.results \in Seq(STRING) /\ m.uses \in Uses
  BY DEF ClientMessages
<1>2. STRING \subseteq Parts
  BY DEF Parts
<1>3. m.results \in Seq(Parts)
  BY <1>1, <1>2, Wider
<1> QED
  BY <1>1, <1>2, <1>3

LEMMA OneOfThem == ASSUME NEW T, NEW s \in Seq(T), NEW i \in 1 .. Len(s) PROVE s[i] \in T
  OBVIOUS

LEMMA OneAlone ==
    ASSUME NEW T, NEW x \in T
    PROVE  <<x>> \in Seq(T) /\ Len(<<x>>) = 1 /\ <<x>> # <<>> /\ ToSet(<<x>>) = {x}
<1>1. <<x>> \in Seq(T) /\ Len(<<x>>) = 1 /\ <<x>>[1] = x
  OBVIOUS
<1>2. <<x>> # <<>>
  BY <1>1, EmptySeq
<1>3. DOMAIN <<x>> = {1}
  OBVIOUS
<1> QED
  BY <1>1, <1>2, <1>3 DEF ToSet

LEMMA SaidIs == ASSUME NEW m \in ClientMessages PROVE Said(m.text) \in Seq(Parts)
<1>1. PICK text \in Parts : text = m.text
  BY MessageIs
<1>2. <<text>> \in Seq(Parts) /\ <<>> \in Seq(Parts)
  BY OneAlone, EmptySeq
<1> QED
  BY <1>1, <1>2 DEF Said

LEMMA SaidInJoins ==
    ASSUME NEW msgs \in Seq(ClientMessages)
    PROVE  /\ SaidIn(msgs) \in Seq(Parts)
           /\ \A i \in 1 .. Len(msgs) : ToSet(Said(msgs[i].text)) \subseteq ToSet(SaidIn(msgs))
<1>1. PICK n \in Nat : n = Len(msgs)
  OBVIOUS
<1>2. PICK parts : parts = [i \in 1 .. n |-> Said(msgs[i].text)]
  OBVIOUS
<1>3. \A i \in 1 .. n : parts[i] \in Seq(Parts)
  BY <1>1, <1>2, SaidIs
<1>4. parts \in Seq(Seq(Parts)) /\ Len(parts) = n
  BY <1>2, <1>3
<1>5. SaidIn(msgs) = FlattenSeq(parts)
  BY <1>1, <1>2 DEF SaidIn
<1> QED
  BY <1>1, <1>2, <1>4, <1>5, FlattenJoins DEF Joins

LEMMA UsersAreHeard ==
    ASSUME NEW users \in Seq(ClientMessages)
    PROVE  /\ GoodTurn(MergeUsers(users)) /\ MergeUsers(users).role = "user"
           /\ \A i \in 1 .. Len(users) : Hears(MergeUsers(users), users[i])
<1>1. PICK n \in Nat : n = Len(users)
  OBVIOUS
<1>2. PICK parts : parts = [i \in 1 .. n |-> users[i].results]
  OBVIOUS
<1>3. \A i \in 1 .. n : parts[i] \in Seq(Parts)
  BY <1>1, <1>2, OneOfThem, MessageIs
<1>4. parts \in Seq(Seq(Parts)) /\ Len(parts) = n
  BY <1>2, <1>3
<1>5. PICK results : results = FlattenSeq(parts)
  OBVIOUS
<1>6. results \in Seq(Parts) /\ \A i \in 1 .. n : ToSet(users[i].results) \subseteq ToSet(results)
  BY <1>2, <1>4, <1>5, FlattenJoins DEF Joins
<1>7. PICK said : said = SaidIn(users)
  OBVIOUS
<1>8. said \in Seq(Parts) /\ \A i \in 1 .. n : ToSet(Said(users[i].text)) \subseteq ToSet(said)
  BY <1>1, <1>7, SaidInJoins
<1>9. PICK image \in BOOLEAN : image = \E i \in DOMAIN users : users[i].image
  OBVIOUS
<1>10. PICK content : content = IF said = <<>> /\ results = <<>> /\ ~image THEN Fallback ELSE said
  OBVIOUS
<1>11. /\ content \in Seq(Parts) /\ (content # <<>> \/ image \/ results # <<>>)
       /\ ToSet(said) \subseteq ToSet(content)
  <2>0. "." \in Parts
    BY DEF Parts
  <2>1. Fallback \in Seq(Parts) /\ Fallback # <<>>
    BY <2>0, OneAlone DEF Fallback
  <2>2. CASE content = said
    BY <1>8, <1>10, <2>1, <2>2
  <2>3. CASE content # said
    <3>1. said = <<>> /\ content = Fallback
      BY <1>10, <2>3
    <3>2. ToSet(said) = {}
      BY <3>1 DEF ToSet
    <3> QED
      BY <2>1, <3>1, <3>2
  <2> QED
    BY <2>2, <2>3
<1>12. MergeUsers(users) = UserTurn(content, image, results)
  <2>1. DOMAIN users = 1 .. n
    BY <1>1
  <2>2. [i \in DOMAIN users |-> users[i].results] = parts
    BY <1>2, <2>1, Zenon
  <2> QED
    BY <1>5, <1>7, <1>9, <1>10, <2>2, Zenon DEF MergeUsers
<1> QED
  BY <1>1, <1>6, <1>8, <1>11, <1>12, UserTurnIs DEF GoodTurn, Hears, UserSays

LEMMA AssistantsMerge ==
    ASSUME NEW msgs \in Seq(ClientMessages)
    PROVE  GoodTurn(MergeAssistants(msgs)) /\ MergeAssistants(msgs).role = "assistant"
<1>1. PICK n \in Nat : n = Len(msgs)
  OBVIOUS
<1>2. PICK T : T = [id : STRING, name : STRING]
  OBVIOUS
<1>3. PICK parts : parts = [i \in 1 .. n |-> msgs[i].uses]
  OBVIOUS
<1>4. \A i \in 1 .. n : parts[i] \in Seq(T)
  <2> SUFFICES ASSUME NEW i \in 1 .. n PROVE parts[i] \in Seq(T)
    OBVIOUS
  <2>1. msgs[i] \in ClientMessages
    BY <1>1
  <2>2. msgs[i].uses \in Seq(T)
    BY <1>2, <2>1, MessageIs DEF Uses
  <2> QED
    BY <1>3, <2>2
<1>5. parts \in Seq(Seq(T)) /\ Len(parts) = n
  BY <1>3, <1>4
<1>6. PICK uses : uses = FlattenSeq(parts)
  OBVIOUS
<1>7. uses \in Uses
  BY <1>2, <1>5, <1>6, FlattenJoins DEF Joins, Uses
<1>8. MergeAssistants(msgs) = AssistantTurn(SaidIn(msgs), uses)
  <2>1. DOMAIN msgs = 1 .. n
    BY <1>1
  <2> QED
    BY <1>3, <1>6, <2>1, Zenon DEF MergeAssistants
<1>9. PICK said \in Seq(Parts) : said = SaidIn(msgs)
  BY SaidInJoins
<1>10. PICK t : t = MergeAssistants(msgs)
  OBVIOUS
<1>11. t \in Turns /\ t.role = "assistant" /\ t.results = <<>>
  <2>1. AssistantSays(AssistantTurn(said, uses), said, uses)
    BY <1>7, AssistantTurnIs
  <2>2. t = AssistantTurn(said, uses)
    BY <1>8, <1>9, <1>10
  <2>3. AssistantSays(t, said, uses)
    BY <2>1, <2>2
  <2> QED
    BY <2>3 DEF AssistantSays
<1> QED
  BY <1>10, <1>11 DEF GoodTurn

-----------------------------------------------------------------------------
(* The history that build_history makes. *)

\* It begins with the turns of the system prompt.
Primed(h) ==
    system => /\ Len(h) >= 2
              /\ h[1] = UserTurn(<<"system">>, FALSE, <<>>)
              /\ h[2] = AssistantTurn(<<"follow">>, <<>>)

Paired(h) == \A i \in 1 .. Len(h) : h[i].role = "assistant" => i > 1 /\ h[i - 1].role = "user"

\* A history as it is built.
Conversation(h) ==
    /\ h \in Seq(Turns)
    /\ \A i \in 1 .. Len(h) : GoodTurn(h[i])
    /\ Paired(h)
    /\ Primed(h)

HeardIn(h, m) == \E k \in 1 .. Len(h) : Hears(h[k], m)

\* g is h with t at its end.
WithTurn(h, t, g) ==
    /\ g \in Seq(Turns) /\ Len(h) \in Nat /\ Len(g) = Len(h) + 1 /\ g[Len(h) + 1] = t
    /\ \A i \in 1 .. Len(h) : g[i] = h[i]

LEMMA AppendsTurn ==
    ASSUME NEW h \in Seq(Turns), NEW t \in Turns
    PROVE  WithTurn(h, t, Append(h, t))
  BY DEF WithTurn

LEMMA EndIs ==
    ASSUME NEW h \in Seq(Turns), NEW role
    PROVE  EndsWith(h, role) <=> Len(h) > 0 /\ h[Len(h)].role = role
<1>1. h # <<>> <=> Len(h) > 0
  BY EmptySeq
<1> QED
  BY <1>1 DEF EndsWith, Last

LEMMA LongerEnds ==
    ASSUME NEW h, NEW t, NEW g, WithTurn(h, t, g)
    PROVE  EndsWith(g, t.role)
<1>1. Len(g) > 0 /\ g[Len(g)] = t /\ g \in Seq(Turns)
  BY DEF WithTurn
<1> QED
  BY <1>1, EndIs

LEMMA LongerIsHeard ==
    ASSUME NEW h, NEW t, NEW g, WithTurn(h, t, g), NEW m, HeardIn(h, m) \/ Hears(t, m)
    PROVE  HeardIn(g, m)
<1>1. CASE Hears(t, m)
  <2>1. Len(h) + 1 \in 1 .. Len(g)
    BY DEF WithTurn
  <2> QED
    BY <1>1, <2>1 DEF WithTurn, HeardIn
<1>2. CASE HeardIn(h, m)
  <2>1. PICK k \in 1 .. Len(h) : Hears(h[k], m)
    BY <1>2 DEF HeardIn
  <2>2. k \in 1 .. Len(g) /\ g[k] = h[k]
    BY DEF WithTurn
  <2> QED
    BY <2>1, <2>2 DEF HeardIn
<1> QED
  BY <1>1, <1>2

LEMMA LongerIsPaired ==
    ASSUME NEW h \in Seq(Turns), NEW t, NEW g, WithTurn(h, t, g), Paired(h),
           t.role = "assistant" => EndsWith(h, "user")
    PROVE  Paired(g)
<1> SUFFICES ASSUME NEW i \in 1 .. Len(g), g[i].role = "assistant"
             PROVE  i > 1 /\ g[i - 1].role = "user"
  BY DEF Paired
<1>1. CASE i = Len(h) + 1
  <2>1. Len(h) > 0 /\ h[Len(h)].role = "user"
    BY <1>1, EndIs DEF WithTurn
  <2> QED
    BY <1>1, <2>1 DEF WithTurn
<1>2. CASE i # Len(h) + 1
  <2>1. i \in 1 .. Len(h) /\ g[i] = h[i]
    BY <1>2 DEF WithTurn
  <2>2. i > 1 /\ h[i - 1].role = "user"
    BY <2>1 DEF Paired
  <2>3. i - 1 \in 1 .. Len(h)
    BY <2>1, <2>2
  <2> QED
    BY <2>2, <2>3 DEF WithTurn
<1> QED
  BY <1>1, <1>2

LEMMA LongerIsPrimed ==
    ASSUME NEW h \in Seq(Turns), NEW t, NEW g, WithTurn(h, t, g), Primed(h)
    PROVE  Primed(g)
<1> SUFFICES ASSUME Len(h) >= 2 PROVE Len(g) >= 2 /\ g[1] = h[1] /\ g[2] = h[2]
  BY DEF Primed
<1>1. 1 \in 1 .. Len(h) /\ 2 \in 1 .. Len(h)
  OBVIOUS
<1> QED
  BY <1>1 DEF WithTurn

LEMMA LongerConversation ==
    ASSUME NEW h, NEW t, NEW g, Conversation(h), GoodTurn(t), g = Append(h, t),
           t.role = "assistant" => EndsWith(h, "user")
    PROVE  Conversation(g) /\ WithTurn(h, t, g)
<1>1. h \in Seq(Turns) /\ t \in Turns /\ Paired(h) /\ Primed(h)
  BY DEF Conversation, GoodTurn
<1>2. WithTurn(h, t, g)
  BY <1>1, AppendsTurn
<1>3. Paired(g) /\ Primed(g)
  BY <1>1, <1>2, LongerIsPaired, LongerIsPrimed
<1>4. ASSUME NEW i \in 1 .. Len(g) PROVE GoodTurn(g[i])
  <2>1. i = Len(h) + 1 \/ i \in 1 .. Len(h)
    BY <1>2 DEF WithTurn
  <2> QED
    BY <1>2, <2>1 DEF WithTurn, Conversation
<1>5. g \in Seq(Turns)
  BY <1>2 DEF WithTurn
<1> QED
  BY <1>2, <1>3, <1>4, <1>5 DEF Conversation

-----------------------------------------------------------------------------
(* The loop over the messages, and its two buffers. *)

Buffers == [history : Seq(Turns), users : Seq(ClientMessages), assistants : Seq(ClientMessages)]

\* What the loop has of the first n messages.
BuildInv(b, msgs, n) ==
    /\ b \in Buffers
    /\ Conversation(b.history)
    /\ b.assistants # <<>> => EndsWith(b.history, "user")
    /\ b.users = <<>> \/ b.assistants = <<>>
    /\ \A i \in 1 .. n : msgs[i].role = "user" =>
           HeardIn(b.history, msgs[i]) \/ \E k \in 1 .. Len(b.users) : b.users[k] = msgs[i]

LEMMA UsersFlushed ==
    ASSUME NEW b \in Buffers, Conversation(b.history), NEW g, g = FlushUsers(b)
    PROVE  /\ Conversation(g)
           /\ b.users = <<>> => g = b.history
           /\ b.users # <<>> => EndsWith(g, "user")
           /\ \A m : HeardIn(b.history, m) => HeardIn(g, m)
           /\ \A k \in 1 .. Len(b.users) : HeardIn(g, b.users[k])
<1>1. PICK users \in Seq(ClientMessages) : users = b.users
  BY DEF Buffers
<1>2. CASE users = <<>>
  BY <1>1, <1>2, EmptySeq DEF FlushUsers
<1>3. CASE users # <<>>
  <2>1. PICK t : t = MergeUsers(users)
    OBVIOUS
  <2>2. GoodTurn(t) /\ t.role = "user" /\ \A k \in 1 .. Len(users) : Hears(t, users[k])
    BY <2>1, UsersAreHeard
  <2>3. g = Append(b.history, t)
    BY <1>1, <1>3, <2>1 DEF FlushUsers
  <2>4. Conversation(g) /\ WithTurn(b.history, t, g)
    BY <2>2, <2>3, LongerConversation
  <2>5. EndsWith(g, "user")
    BY <2>2, <2>4, LongerEnds
  <2> QED
    BY <1>1, <1>3, <2>2, <2>4, <2>5, LongerIsHeard
<1> QED
  BY <1>2, <1>3

LEMMA AssistantsFlushed ==
    ASSUME NEW b \in Buffers, Conversation(b.history), NEW g, g = FlushAssistants(b),
           b.assistants # <<>> => EndsWith(b.history, "user")
    PROVE  /\ Conversation(g)
           /\ \A m : HeardIn(b.history, m) => HeardIn(g, m)
<1>1. PICK msgs \in Seq(ClientMessages) : msgs = b.assistants
  BY DEF Buffers
<1>2. CASE msgs = <<>>
  BY <1>1, <1>2 DEF FlushAssistants
<1>3. CASE msgs # <<>>
  <2>1. PICK t : t = MergeAssistants(msgs)
    OBVIOUS
  <2>2. GoodTurn(t)
    BY <2>1, AssistantsMerge
  <2>3. g = Append(b.history, t)
    BY <1>1, <1>3, <2>1 DEF FlushAssistants
  <2>4. Conversation(g) /\ WithTurn(b.history, t, g)
    BY <1>1, <1>3, <2>2, <2>3, LongerConversation
  <2> QED
    BY <2>4, LongerIsHeard
<1> QED
  BY <1>2, <1>3

LEMMA OneMessageMore ==
    ASSUME NEW s \in Seq(ClientMessages), NEW m \in ClientMessages
    PROVE  /\ Append(s, m) \in Seq(ClientMessages) /\ Len(Append(s, m)) = Len(s) + 1
           /\ \A i \in 1 .. Len(s) : Append(s, m)[i] = s[i]
           /\ Append(s, m)[Len(s) + 1] = m
  OBVIOUS

LEMMA BuildStepKeeps ==
    ASSUME NEW b, NEW c, NEW msgs \in Seq(ClientMessages), NEW n \in 1 .. Len(msgs), BuildInv(b, msgs, n - 1),
           c = BuildStep(b, msgs[n])
    PROVE  BuildInv(c, msgs, n)
<1>1. PICK m \in ClientMessages : m = msgs[n]
  OBVIOUS
<1>2. b \in Buffers /\ Conversation(b.history) /\ (b.assistants # <<>> => EndsWith(b.history, "user"))
      /\ b.users \in Seq(ClientMessages) /\ b.assistants \in Seq(ClientMessages) /\ b.history \in Seq(Turns)
  BY DEF BuildInv, Buffers
<1>3. \A i \in 1 .. n : i = n \/ i \in 1 .. n - 1
  OBVIOUS
<1>4. CASE m.role = "user"
  <2>1. PICK h : h = FlushAssistants(b)
    OBVIOUS
  <2>2. Conversation(h) /\ \A x : HeardIn(b.history, x) => HeardIn(h, x)
    BY <1>2, <2>1, AssistantsFlushed
  <2>3. PICK users : users = Append(b.users, m)
    OBVIOUS
  <2>4. users \in Seq(ClientMessages) /\ Len(users) = Len(b.users) + 1 /\ users[Len(b.users) + 1] = m
        /\ \A i \in 1 .. Len(b.users) : users[i] = b.users[i]
    BY <1>2, <2>3, OneMessageMore
  <2>5. c = [history |-> h, users |-> users, assistants |-> <<>>]
    BY <1>1, <1>4, <2>1, <2>3 DEF BuildStep
  <2>6. c.history = h /\ c.users = users /\ c.assistants = <<>>
    BY <2>5
  <2>7. c \in Buffers
    BY <2>2, <2>4, <2>5, EmptySeq DEF Buffers, Conversation
  <2>8. ASSUME NEW i \in 1 .. n, msgs[i].role = "user"
        PROVE  HeardIn(h, msgs[i]) \/ \E k \in 1 .. Len(users) : users[k] = msgs[i]
    <3>1. CASE i = n
      <4>1. Len(b.users) + 1 \in 1 .. Len(users)
        BY <1>2, <2>4
      <4> QED
        BY <1>1, <2>4, <3>1, <4>1
    <3>2. CASE i \in 1 .. n - 1
      <4>1. HeardIn(b.history, msgs[i]) \/ \E k \in 1 .. Len(b.users) : b.users[k] = msgs[i]
        BY <2>8, <3>2 DEF BuildInv
      <4>2. \A k \in 1 .. Len(b.users) : k \in 1 .. Len(users)
        BY <1>2, <2>4
      <4> QED
        BY <2>2, <2>4, <4>1, <4>2
    <3> QED
      BY <1>3, <3>1, <3>2
  <2> QED
    BY <2>2, <2>6, <2>7, <2>8 DEF BuildInv
<1>5. CASE m.role = "assistant"
  <2>1. PICK h : h = FlushUsers(b)
    OBVIOUS
  <2>2. /\ Conversation(h) /\ (\A x : HeardIn(b.history, x) => HeardIn(h, x))
        /\ \A k \in 1 .. Len(b.users) : HeardIn(h, b.users[k])
        /\ b.users = <<>> => h = b.history
    BY <1>2, <2>1, UsersFlushed
  <2>3. PICK assistants : assistants = IF EndsWith(h, "user") THEN Append(b.assistants, m) ELSE b.assistants
    OBVIOUS
  <2>4. assistants \in Seq(ClientMessages)
    BY <1>2, <2>3, OneMessageMore
  <2>5. c = [history |-> h, users |-> <<>>, assistants |-> assistants]
    BY <1>1, <1>5, <2>1, <2>3 DEF BuildStep
  <2>6. c.history = h /\ c.users = <<>> /\ c.assistants = assistants
    BY <2>5
  <2>7. c \in Buffers
    BY <2>2, <2>4, <2>5, EmptySeq DEF Buffers, Conversation
  <2>8. ASSUME assistants # <<>>, ~EndsWith(h, "user") PROVE FALSE
    <3>1. assistants = b.assistants /\ b.users = <<>>
      BY <2>3, <2>8 DEF BuildInv
    <3> QED
      BY <1>2, <2>2, <2>8, <3>1
  <2>9. ASSUME NEW i \in 1 .. n, msgs[i].role = "user" PROVE HeardIn(h, msgs[i])
    <3>1. i \in 1 .. n - 1
      BY <1>1, <1>3, <1>5, <2>9
    <3>2. HeardIn(b.history, msgs[i]) \/ \E k \in 1 .. Len(b.users) : b.users[k] = msgs[i]
      BY <2>9, <3>1 DEF BuildInv
    <3> QED
      BY <2>2, <3>2
  <2> QED
    BY <2>2, <2>6, <2>7, <2>8, <2>9 DEF BuildInv
<1>6. CASE m.role \notin {"user", "assistant"}
  <2>1. c = b
    BY <1>1, <1>6 DEF BuildStep
  <2> QED
    BY <1>1, <1>3, <1>6, <2>1 DEF BuildInv
<1> QED
  BY <1>4, <1>5, <1>6

LEMMA PrimingIs == Conversation(Priming)
<1>1. PICK u, a : u = UserTurn(<<"system">>, FALSE, <<>>) /\ a = AssistantTurn(<<"follow">>, <<>>)
  OBVIOUS
<1>2. "system" \in Parts /\ "follow" \in Parts /\ <<>> \in Seq(Parts) /\ <<>> \in Uses
  BY EmptySeq DEF Parts, Uses
<1>3. <<"system">> \in Seq(Parts) /\ <<"system">> # <<>> /\ <<"follow">> \in Seq(Parts)
  BY <1>2, OneAlone
<1>4. UserSays(u, <<"system">>, FALSE, <<>>) /\ AssistantSays(a, <<"follow">>, <<>>)
  BY <1>1, <1>2, <1>3, UserTurnIs, AssistantTurnIs
<1>5. GoodTurn(u) /\ GoodTurn(a) /\ u.role = "user"
  BY <1>3, <1>4 DEF GoodTurn, UserSays, AssistantSays
<1>6. CASE system
  <2>1. PICK h : h = <<u, a>>
    OBVIOUS
  <2>2. Priming = h
    BY <1>1, <1>6, <2>1 DEF Priming
  <2>3. Len(h) = 2 /\ h[1] = u /\ h[2] = a
    BY <2>1
  <2>4. h \in Seq(Turns)
    BY <1>5, <2>1 DEF GoodTurn
  <2>5. \A i \in 1 .. Len(h) : i = 1 \/ i = 2
    BY <2>3
  <2>6. u.role # "assistant"
    BY <1>5
  <2>7. \A i \in 1 .. Len(h) : GoodTurn(h[i])
    BY <1>5, <2>3, <2>5
  <2>8. Paired(h)
    BY <1>5, <2>3, <2>5, <2>6 DEF Paired
  <2>9. Primed(h)
    BY <1>1, <2>3 DEF Primed
  <2> QED
    BY <2>2, <2>4, <2>7, <2>8, <2>9 DEF Conversation
<1>7. CASE ~system
  <2>1. Priming = <<>>
    BY <1>7 DEF Priming
  <2>2. <<>> \in Seq(Turns) /\ Len(<<>>) = 0
    BY EmptySeq
  <2>3. \A i : i \notin 1 .. Len(<<>>)
    BY <2>2
  <2> QED
    BY <1>7, <2>1, <2>2, <2>3 DEF Conversation, Paired, Primed
<1> QED
  BY <1>6, <1>7

Unbuilt == [history |-> Priming, users |-> <<>>, assistants |-> <<>>]

LEMMA UnbuiltIs == ASSUME NEW msgs PROVE BuildInv(Unbuilt, msgs, 0)
<1>1. Unbuilt.history = Priming /\ Unbuilt.users = <<>> /\ Unbuilt.assistants = <<>>
  BY DEF Unbuilt
<1>2. Conversation(Priming)
  BY PrimingIs
<1>3. Unbuilt \in Buffers
  BY <1>2, EmptySeq DEF Unbuilt, Buffers, Conversation
<1>4. \A i : i \notin 1 .. 0
  OBVIOUS
<1> QED
  BY <1>1, <1>2, <1>3, <1>4 DEF BuildInv

\* Any buffers lead to buffers, whatever comes.
LEMMA BuildStepTyped ==
    ASSUME NEW b \in Buffers, NEW m \in ClientMessages
    PROVE  BuildStep(b, m) \in Buffers
<1>1. PICK history, users, assistants :
          history = b.history /\ users = b.users /\ assistants = b.assistants
  OBVIOUS
<1>2. history \in Seq(Turns) /\ users \in Seq(ClientMessages) /\ assistants \in Seq(ClientMessages)
  BY <1>1 DEF Buffers
<1>3. PICK t, a : t = MergeUsers(users) /\ a = MergeAssistants(assistants)
  OBVIOUS
<1>4. t \in Turns /\ a \in Turns
  BY <1>2, <1>3, UsersAreHeard, AssistantsMerge DEF GoodTurn
<1>5. Append(history, t) \in Seq(Turns) /\ Append(history, a) \in Seq(Turns)
  BY <1>2, <1>4
<1>6. FlushUsers(b) \in Seq(Turns) /\ FlushAssistants(b) \in Seq(Turns)
  BY <1>1, <1>2, <1>3, <1>5 DEF FlushUsers, FlushAssistants
<1>7. Append(users, m) \in Seq(ClientMessages) /\ Append(assistants, m) \in Seq(ClientMessages) /\ <<>> \in Seq(ClientMessages)
  BY <1>2, EmptySeq
<1>8. PICK fu, fa, au, aa : fu = FlushUsers(b) /\ fa = FlushAssistants(b)
                            /\ au = Append(users, m) /\ aa = Append(assistants, m)
  OBVIOUS
<1>9. CASE m.role = "user"
  <2>1. BuildStep(b, m) = [history |-> fa, users |-> au, assistants |-> <<>>]
    BY <1>1, <1>8, <1>9 DEF BuildStep
  <2> QED
    BY <1>6, <1>7, <1>8, <2>1 DEF Buffers
<1>10. CASE m.role = "assistant"
  <2>1. PICK rest \in {aa, assistants} :
            BuildStep(b, m) = [history |-> fu, users |-> <<>>, assistants |-> rest]
    BY <1>1, <1>8, <1>10 DEF BuildStep
  <2>2. rest \in Seq(ClientMessages)
    BY <1>2, <1>7, <1>8
  <2> QED
    BY <1>6, <1>7, <1>8, <2>1, <2>2 DEF Buffers
<1>11. CASE m.role \notin {"user", "assistant"}
  BY <1>11 DEF BuildStep
<1> QED
  BY <1>9, <1>10, <1>11

LEMMA BuiltIs ==
    ASSUME NEW msgs \in Seq(ClientMessages)
    PROVE  BuildInv(Built(msgs), msgs, Len(msgs))
<1>1. PICK n \in Nat : n = Len(msgs)
  OBVIOUS
<1> DEFINE Computes(f) ==
        f = [k \in 0 .. n |-> IF k = 0 THEN [history |-> Priming, users |-> <<>>, assistants |-> <<>>]
                                       ELSE BuildStep(f[k - 1], msgs[k])]
<1>2. \E f : Computes(f)
  <2>1. PICK steps :
            steps = [k \in Nat |-> [b \in Buffers |-> IF k \in 1 .. n THEN BuildStep(b, msgs[k]) ELSE b]]
    OBVIOUS
  <2>2. steps \in [Nat -> [Buffers -> Buffers]]
    <3>1. ASSUME NEW k \in Nat, NEW b \in Buffers
          PROVE  (IF k \in 1 .. n THEN BuildStep(b, msgs[k]) ELSE b) \in Buffers
      <4>1. CASE k \in 1 .. n
        <5>1. msgs[k] \in ClientMessages
          BY <1>1, <4>1
        <5> QED
          BY <4>1, <5>1, BuildStepTyped
      <4> QED
        BY <4>1
    <3> QED
      BY <2>1, <3>1
  <2>3. Unbuilt \in Buffers
    BY UnbuiltIs DEF BuildInv
  <2>4. PICK g \in [0 .. n -> Buffers] : TakesTurns(g, n, Unbuilt, steps)
    BY <2>2, <2>3, TurnByTurn DEF Turning
  <2>5. ASSUME NEW k \in 0 .. n
        PROVE  g[k] = IF k = 0 THEN [history |-> Priming, users |-> <<>>, assistants |-> <<>>]
                               ELSE BuildStep(g[k - 1], msgs[k])
    <3>1. CASE k = 0
      BY <2>4, <3>1 DEF TakesTurns, Unbuilt
    <3>2. CASE k # 0
      <4>1. k \in Nat /\ k \in 1 .. n /\ k - 1 \in 0 .. n /\ g[k - 1] \in Buffers
        BY <3>2
      <4>2. g[k] = steps[k][g[k - 1]]
        BY <2>4, <4>1 DEF TakesTurns
      <4> QED
        BY <2>1, <3>2, <4>1, <4>2
    <3> QED
      BY <3>1, <3>2
  <2>6. Computes(g)
    BY <2>5
  <2> QED
    BY <2>6
<1>3. PICK f : f = CHOOSE h : Computes(h)
  OBVIOUS
<1>4. Computes(f)
  BY <1>2, <1>3
<1>5. Built(msgs) = f[n]
  BY <1>1, <1>3 DEF Built
<1>6. f[0] = Unbuilt /\ \A k \in 1 .. n : f[k] = BuildStep(f[k - 1], msgs[k])
  <2>1. 0 \in 0 .. n /\ \A k \in 1 .. n : k \in 0 .. n /\ k # 0
    OBVIOUS
  <2> QED
    BY <1>4, <2>1 DEF Unbuilt
<1> HIDE DEF Computes
<1> DEFINE Bad == {k \in 0 .. n : ~BuildInv(f[k], msgs, k)}
<1>7. Bad = {}
  <2> SUFFICES ASSUME Bad # {} PROVE FALSE
    OBVIOUS
  <2>1. Bad \subseteq Nat
    OBVIOUS
  <2>2. PICK k \in Bad : \A j \in Bad : k <= j
    <3> HIDE DEF Bad
    <3> QED
      BY <2>1, LeastOf
  <2>3. k # 0
    BY <1>6, <2>2, UnbuiltIs
  <2>4. k \in 1 .. n /\ k - 1 \in 0 .. n /\ ~(k <= k - 1)
    BY <2>2, <2>3
  <2>5. BuildInv(f[k - 1], msgs, k - 1)
    BY <2>2, <2>4
  <2>6. BuildInv(f[k], msgs, k)
    BY <1>1, <1>6, <2>4, <2>5, BuildStepKeeps
  <2> QED
    BY <2>2, <2>6
<1>8. n \in 0 .. n
  OBVIOUS
<1> QED
  BY <1>1, <1>5, <1>7, <1>8

\* t is what stands in s from m to n.
Stretch(s, m, n, t) ==
    /\ Len(t) = IF m <= n THEN n - m + 1 ELSE 0
    /\ \A i \in 1 .. n - m + 1 : t[i] = s[m + i - 1]

LEMMA StretchIs ==
    ASSUME NEW T, NEW s \in Seq(T), NEW m \in Nat \ {0}, NEW n \in Nat, n <= Len(s)
    PROVE  SubSeq(s, m, n) \in Seq(T) /\ Stretch(s, m, n, SubSeq(s, m, n))
<1>1. \A i \in m .. n : s[i] \in T
  OBVIOUS
<1>2. m \in Int /\ n \in Int
  OBVIOUS
<1> QED
  BY <1>1, <1>2, SubSeqProperties DEF Stretch

\* A history is a conversation, and has what users said, whatever the messages are.
LEMMA HistoryIsBuilt ==
    ASSUME NEW msgs \in Seq(ClientMessages), Len(msgs) > 0
    PROVE  /\ Conversation(BuildHistory(msgs))
           /\ \A i \in 1 .. Len(msgs) - 1 :
                  msgs[i].role = "user" => HeardIn(BuildHistory(msgs), msgs[i])
<1>1. PICK before : before = Front(msgs)
  OBVIOUS
<1>2. /\ before \in Seq(ClientMessages) /\ Len(before) = Len(msgs) - 1
      /\ \A i \in 1 .. Len(msgs) - 1 : before[i] = msgs[i]
  <2>1. PICK n \in Nat : n = Len(msgs) - 1
    OBVIOUS
  <2>2. before = SubSeq(msgs, 1, n) /\ n <= Len(msgs)
    BY <1>1, <2>1 DEF Front
  <2>3. before \in Seq(ClientMessages) /\ Stretch(msgs, 1, n, before)
    BY <2>2, StretchIs
  <2>4. Len(before) = n
    BY <2>3 DEF Stretch
  <2>5. \A i \in 1 .. n : 1 + i - 1 = i /\ i \in 1 .. n - 1 + 1
    OBVIOUS
  <2>6. \A i \in 1 .. n : before[i] = msgs[i]
    BY <2>3, <2>5 DEF Stretch
  <2> QED
    BY <2>1, <2>3, <2>4, <2>6
<1>3. PICK b : b = Built(before)
  OBVIOUS
<1>4. BuildInv(b, before, Len(before))
  BY <1>2, <1>3, BuiltIs
<1>5. PICK h : h = FlushAssistants(b)
  OBVIOUS
<1>6. b \in Buffers /\ Conversation(h) /\ \A m : HeardIn(b.history, m) => HeardIn(h, m)
  BY <1>4, <1>5, AssistantsFlushed DEF BuildInv
<1>7. PICK c : c = [b EXCEPT !.history = h]
  OBVIOUS
<1>8. c \in Buffers /\ c.history = h /\ c.users = b.users
  BY <1>6, <1>7 DEF Buffers, Conversation
<1>9. BuildHistory(msgs) = FlushUsers(c)
  BY <1>1, <1>3, <1>5, <1>7 DEF BuildHistory, FlushBoth
<1>10. /\ Conversation(FlushUsers(c))
       /\ \A m : HeardIn(h, m) => HeardIn(FlushUsers(c), m)
       /\ \A k \in 1 .. Len(b.users) : HeardIn(FlushUsers(c), b.users[k])
  BY <1>6, <1>8, UsersFlushed
<1>11. ASSUME NEW i \in 1 .. Len(msgs) - 1, msgs[i].role = "user"
       PROVE  HeardIn(FlushUsers(c), msgs[i])
  <2>1. i \in 1 .. Len(before) /\ before[i] = msgs[i]
    BY <1>2
  <2>2. HeardIn(b.history, msgs[i]) \/ \E k \in 1 .. Len(b.users) : b.users[k] = msgs[i]
    BY <1>4, <1>11, <2>1 DEF BuildInv
  <2> QED
    BY <1>6, <1>10, <2>2
<1> QED
  BY <1>9, <1>10, <1>11

-----------------------------------------------------------------------------
(* sanitize_kiro_history: each turn cleaned *)

LEMMA WithoutCalledIs ==
    ASSUME NEW content \in Seq(Parts)
    PROVE  /\ WithoutCalled(content) \in Seq(Parts)
           /\ content = <<"follow">> => WithoutCalled(content) = <<"follow">>
<1>1. PICK n \in Nat : n = Len(content)
  OBVIOUS
<1> DEFINE Computes(f) ==
        f = [k \in 0 .. n |-> IF k = 0 THEN <<>>
                              ELSE IF content[k] = "called" THEN f[k - 1] ELSE Append(f[k - 1], content[k])]
<1>2. PICK g \in [0 .. n -> Seq(Parts)] : Computes(g)
  <2>1. PICK steps :
            steps = [k \in Nat |-> [s \in Seq(Parts) |->
                        IF k \in 1 .. n /\ content[k] # "called" THEN Append(s, content[k]) ELSE s]]
    OBVIOUS
  <2>2. \A k \in 1 .. n : content[k] \in Parts
    BY <1>1
  <2>3. steps \in [Nat -> [Seq(Parts) -> Seq(Parts)]]
    BY <2>1, <2>2
  <2>4. <<>> \in Seq(Parts)
    BY EmptySeq
  <2>5. PICK g \in [0 .. n -> Seq(Parts)] : TakesTurns(g, n, <<>>, steps)
    BY <2>3, <2>4, TurnByTurn DEF Turning
  <2>6. ASSUME NEW k \in 0 .. n
        PROVE  g[k] = IF k = 0 THEN <<>>
                      ELSE IF content[k] = "called" THEN g[k - 1] ELSE Append(g[k - 1], content[k])
    <3>1. CASE k = 0
      BY <2>5, <3>1 DEF TakesTurns
    <3>2. CASE k # 0
      <4>1. k \in Nat /\ k \in 1 .. n /\ k - 1 \in 0 .. n /\ g[k - 1] \in Seq(Parts)
        BY <3>2
      <4>2. g[k] = steps[k][g[k - 1]]
        BY <2>5, <4>1 DEF TakesTurns
      <4> QED
        BY <2>1, <3>2, <4>1, <4>2
    <3> QED
      BY <3>1, <3>2
  <2>7. Computes(g)
    BY <2>6
  <2> QED
    BY <2>7
<1>3. PICK f : f = CHOOSE h : Computes(h)
  OBVIOUS
<1>4. Computes(f)
  BY <1>2, <1>3
<1>5. WithoutCalled(content) = f[n]
  BY <1>1, <1>3 DEF WithoutCalled
<1>6. /\ f[0] = <<>>
      /\ \A k \in 1 .. n :
             f[k] = IF content[k] = "called" THEN f[k - 1] ELSE Append(f[k - 1], content[k])
  <2>1. 0 \in 0 .. n /\ \A k \in 1 .. n : k \in 0 .. n /\ k # 0
    OBVIOUS
  <2> QED
    BY <1>4, <2>1
<1> HIDE DEF Computes
<1> DEFINE Bad == {k \in 0 .. n : f[k] \notin Seq(Parts)}
<1>7. Bad = {}
  <2> SUFFICES ASSUME Bad # {} PROVE FALSE
    OBVIOUS
  <2>1. Bad \subseteq Nat
    OBVIOUS
  <2>2. PICK k \in Bad : \A j \in Bad : k <= j
    <3> HIDE DEF Bad
    <3> QED
      BY <2>1, LeastOf
  <2>3. k # 0
    BY <1>6, <2>2, EmptySeq
  <2>4. k \in 1 .. n /\ k - 1 \in 0 .. n /\ ~(k <= k - 1) /\ content[k] \in Parts
    BY <1>1, <2>2, <2>3
  <2>5. f[k - 1] \in Seq(Parts)
    BY <2>2, <2>4
  <2>6. f[k] \in Seq(Parts)
    <3>1. Append(f[k - 1], content[k]) \in Seq(Parts)
      BY <2>4, <2>5
    <3>2. f[k] = IF content[k] = "called" THEN f[k - 1] ELSE Append(f[k - 1], content[k])
      BY <1>6, <2>4
    <3> QED
      BY <2>5, <3>1, <3>2
  <2> QED
    BY <2>2, <2>6
<1>8. ASSUME content = <<"follow">> PROVE f[n] = <<"follow">>
  <2>1. n = 1 /\ content[1] = "follow"
    BY <1>1, <1>8
  <2>2. 1 \in 1 .. n /\ 1 - 1 = 0
    BY <2>1
  <2>3. f[1] = Append(f[0], content[1])
    BY <1>6, <2>1, <2>2
  <2>4. \A x : Append(<<>>, x) = <<x>>
    OBVIOUS
  <2> QED
    BY <1>6, <2>1, <2>3, <2>4
<1>9. n \in 0 .. n
  OBVIOUS
<1> QED
  BY <1>5, <1>7, <1>8, <1>9

\* A turn as it is sent.
CleanTurn(t) ==
    /\ t \in Turns /\ t.results = <<>>
    /\ t.role = "user" => t.uses = <<>> /\ (t.content # <<>> \/ t.image)

Tells(t, m) == ToSet(Said(m.text)) \subseteq ToSet(t.content) /\ ToSet(m.results) \subseteq ToSet(t.content)

LEMMA UserIsClean ==
    ASSUME NEW t, GoodTurn(t), t.role = "user"
    PROVE  /\ CleanTurn(SanitizeUser(t)) /\ SanitizeUser(t).role = "user"
           /\ \A m : Hears(t, m) => Tells(SanitizeUser(t), m)
<1>1. PICK content, results, image : content = t.content /\ results = t.results /\ image = t.image
  OBVIOUS
<1>2. content \in Seq(Parts) /\ results \in Seq(Parts) /\ image \in BOOLEAN
  BY <1>1 DEF GoodTurn, Turns
<1>3. PICK both : both = content \o results
  OBVIOUS
<1>4. both \in Seq(Parts) /\ ToSet(content) \subseteq ToSet(both) /\ ToSet(results) \subseteq ToSet(both)
  BY <1>2, <1>3, HasBoth
<1>5. PICK said : said = IF both = <<>> /\ ~image THEN Fallback ELSE both
  OBVIOUS
<1>6. Fallback \in Seq(Parts) /\ Fallback # <<>> /\ <<>> \in Seq(Parts)
  <2>1. "." \in Parts
    BY DEF Parts
  <2> QED
    BY <2>1, OneAlone, EmptySeq DEF Fallback
<1>7. said \in Seq(Parts) /\ (said # <<>> \/ image)
  BY <1>4, <1>5, <1>6
<1>8. ToSet(both) \subseteq ToSet(said)
  <2>1. CASE both = <<>>
    <3>1. ToSet(both) = {}
      BY <2>1 DEF ToSet
    <3> QED
      BY <3>1
  <2>2. CASE both # <<>>
    BY <1>5, <2>2
  <2> QED
    BY <2>1, <2>2
<1>9. SanitizeUser(t) = UserTurn(said, image, <<>>)
  BY <1>1, <1>3, <1>5 DEF SanitizeUser
<1>10. PICK s : s = SanitizeUser(t)
  OBVIOUS
<1>11. UserSays(s, said, image, <<>>)
  BY <1>2, <1>6, <1>7, <1>9, <1>10, UserTurnIs
<1>12. CleanTurn(s) /\ s.role = "user" /\ s.content = said
  BY <1>7, <1>11 DEF UserSays, CleanTurn
<1>13. \A m : Hears(t, m) => Tells(s, m)
  BY <1>1, <1>4, <1>8, <1>12 DEF Hears, Tells
<1> QED
  BY <1>10, <1>12, <1>13

LEMMA AssistantIsClean ==
    ASSUME NEW t, GoodTurn(t), t.role = "assistant", NEW active \in BOOLEAN
    PROVE  /\ CleanTurn(SanitizeAssistant(t, active)) /\ SanitizeAssistant(t, active).role = "assistant"
           /\ SanitizeAssistant(t, active).uses = IF active THEN t.uses ELSE <<>>
<1>1. PICK content : content = t.content
  OBVIOUS
<1>2. content \in Seq(Parts) /\ t.uses \in Uses
  BY <1>1 DEF GoodTurn, Turns
<1>3. PICK rest : rest = WithoutCalled(content)
  OBVIOUS
<1>4. rest \in Seq(Parts)
  BY <1>2, <1>3, WithoutCalledIs
<1>5. PICK uses : uses = IF active THEN t.uses ELSE <<>>
  OBVIOUS
<1>6. uses \in Uses
  BY <1>2, <1>5, EmptySeq DEF Uses
<1>7. PICK s : s = SanitizeAssistant(t, active)
  OBVIOUS
<1>8. s = AssistantTurn(rest, uses)
  BY <1>1, <1>3, <1>5, <1>7 DEF SanitizeAssistant
<1>9. AssistantSays(AssistantTurn(rest, uses), rest, uses)
  BY <1>4, <1>6, AssistantTurnIs
<1>10. s \in Turns /\ s.role = "assistant" /\ s.results = <<>> /\ s.uses = uses
  BY <1>8, <1>9 DEF AssistantSays
<1> QED
  BY <1>5, <1>7, <1>10 DEF CleanTurn

\* The turns of a conversation, each made ready to be sent.
Tidy(turns) ==
    /\ turns \in Seq(Turns)
    /\ \A i \in 1 .. Len(turns) : CleanTurn(turns[i])
    /\ Paired(turns)
    /\ Primed(turns)
    /\ \A i \in 1 .. Len(turns) : turns[i].uses # <<>> => i = Len(turns)

LEMMA PrimingStays ==
    /\ SanitizeUser(UserTurn(<<"system">>, FALSE, <<>>)) = UserTurn(<<"system">>, FALSE, <<>>)
    /\ \A active \in BOOLEAN :
           SanitizeAssistant(AssistantTurn(<<"follow">>, <<>>), active) = AssistantTurn(<<"follow">>, <<>>)
<1>1. "system" \in Parts /\ "follow" \in Parts /\ <<>> \in Seq(Parts) /\ <<>> \in Uses
  BY EmptySeq DEF Parts, Uses
<1>2. PICK s, f : s = <<"system">> /\ f = <<"follow">>
  OBVIOUS
<1>3. s \in Seq(Parts) /\ s # <<>> /\ f \in Seq(Parts)
  BY <1>1, <1>2, OneAlone
<1>4. PICK u, a : u = UserTurn(s, FALSE, <<>>) /\ a = AssistantTurn(f, <<>>)
  OBVIOUS
<1>5. UserSays(u, s, FALSE, <<>>) /\ AssistantSays(a, f, <<>>)
  BY <1>1, <1>3, <1>4, UserTurnIs, AssistantTurnIs
<1>6. s \o <<>> = s
  BY <1>3, ConcatEmptySeq
<1>7. SanitizeUser(u) = u
  BY <1>3, <1>4, <1>5, <1>6 DEF SanitizeUser, UserSays
<1>8. WithoutCalled(f) = f
  BY <1>2, <1>3, WithoutCalledIs
<1>9. \A active \in BOOLEAN : SanitizeAssistant(a, active) = a
  BY <1>4, <1>5, <1>8 DEF SanitizeAssistant, AssistantSays
<1> QED
  BY <1>2, <1>4, <1>7, <1>9

CleansAll(h, active, turns) ==
    /\ Tidy(turns) /\ Len(turns) = Len(h)
    /\ \A i \in 1 .. Len(h) : turns[i].uses = IF i = active THEN h[i].uses ELSE <<>>
    /\ \A i \in 1 .. Len(h) : \A m : h[i].role = "user" /\ Hears(h[i], m) => Tells(turns[i], m)
    /\ \A i \in 1 .. Len(h) : turns[i].role = h[i].role

LEMMA SanitizedIsTidy ==
    ASSUME NEW h, Conversation(h), NEW active \in {0, Len(h)}, NEW turns, turns = Sanitized(h, active)
    PROVE  CleansAll(h, active, turns)
<1>1. PICK n \in Nat : n = Len(h)
  BY DEF Conversation
<1>2. /\ DOMAIN h = 1 .. n
      /\ \A i \in 1 .. n : GoodTurn(h[i])
  BY <1>1 DEF Conversation
<1>3. turns = [i \in 1 .. n |-> IF h[i].role = "user" THEN SanitizeUser(h[i])
                                ELSE SanitizeAssistant(h[i], i = active)]
  BY <1>2 DEF Sanitized
<1>4. ASSUME NEW i \in 1 .. n
      PROVE  /\ CleanTurn(turns[i]) /\ turns[i].role = h[i].role
             /\ turns[i].uses = IF i = active THEN h[i].uses ELSE <<>>
             /\ h[i].role = "user" => \A m : Hears(h[i], m) => Tells(turns[i], m)
  <2>1. GoodTurn(h[i]) /\ h[i].role \in {"user", "assistant"}
    BY <1>2 DEF GoodTurn, Turns
  <2>2. CASE h[i].role = "user"
    <3>1. turns[i] = SanitizeUser(h[i])
      BY <1>3, <2>2
    <3>2. CleanTurn(turns[i]) /\ turns[i].role = "user" /\ \A m : Hears(h[i], m) => Tells(turns[i], m)
      BY <2>1, <2>2, <3>1, UserIsClean
    <3>3. turns[i].uses = <<>> /\ h[i].uses = <<>>
      BY <2>1, <2>2, <3>2 DEF CleanTurn, GoodTurn
    <3> QED
      BY <2>2, <3>2, <3>3
  <2>3. CASE h[i].role = "assistant"
    <3>1. PICK a \in BOOLEAN : a = (i = active)
      OBVIOUS
    <3>2. turns[i] = SanitizeAssistant(h[i], a)
      BY <1>3, <2>3, <3>1
    <3>3. /\ CleanTurn(turns[i]) /\ turns[i].role = "assistant"
          /\ turns[i].uses = IF a THEN h[i].uses ELSE <<>>
      BY <2>1, <2>3, <3>2, AssistantIsClean
    <3> QED
      BY <2>3, <3>1, <3>3
  <2> QED
    BY <2>1, <2>2, <2>3
<1>5. turns \in Seq(Turns) /\ Len(turns) = n
  <2>1. \A i \in 1 .. n : turns[i] \in Turns
    BY <1>4 DEF CleanTurn
  <2> QED
    BY <1>3, <2>1
<1>6. Paired(turns)
  <2> SUFFICES ASSUME NEW i \in 1 .. n, turns[i].role = "assistant"
               PROVE  i > 1 /\ turns[i - 1].role = "user"
    BY <1>5 DEF Paired
  <2>1. i > 1 /\ h[i - 1].role = "user"
    BY <1>1, <1>4 DEF Conversation, Paired
  <2>2. i - 1 \in 1 .. n
    BY <2>1
  <2> QED
    BY <1>4, <2>1, <2>2
<1>7. Primed(turns)
  <2> SUFFICES ASSUME system
               PROVE  /\ n >= 2 /\ turns[1] = UserTurn(<<"system">>, FALSE, <<>>)
                      /\ turns[2] = AssistantTurn(<<"follow">>, <<>>)
    BY <1>5 DEF Primed
  <2>1. PICK u, a : u = UserTurn(<<"system">>, FALSE, <<>>) /\ a = AssistantTurn(<<"follow">>, <<>>)
    OBVIOUS
  <2>2. n >= 2 /\ h[1] = u /\ h[2] = a
    BY <1>1, <2>1 DEF Conversation, Primed
  <2>3. u.role = "user" /\ a.role = "assistant"
    BY <2>1 DEF UserTurn, AssistantTurn
  <2>4. 1 \in 1 .. n /\ 2 \in 1 .. n
    BY <2>2
  <2>5. PICK active2 \in BOOLEAN : active2 = (2 = active)
    OBVIOUS
  <2>6. turns[1] = SanitizeUser(u) /\ turns[2] = SanitizeAssistant(a, active2)
    BY <1>3, <2>2, <2>3, <2>4, <2>5
  <2>7. SanitizeUser(u) = u /\ SanitizeAssistant(a, active2) = a
    BY <2>1, PrimingStays
  <2> QED
    BY <2>1, <2>2, <2>6, <2>7
<1>8. ASSUME NEW i \in 1 .. n, turns[i].uses # <<>> PROVE i = n
  BY <1>1, <1>4, <1>8
<1>9. Tidy(turns)
  BY <1>4, <1>5, <1>6, <1>7, <1>8 DEF Tidy
<1>10. Len(turns) = Len(h) /\ \A i \in 1 .. Len(h) : turns[i].role = h[i].role
  BY <1>1, <1>4, <1>5
<1>11. \A i \in 1 .. Len(h) : turns[i].uses = IF i = active THEN h[i].uses ELSE <<>>
  BY <1>1, <1>4
<1>12. \A i \in 1 .. Len(h) : \A m : h[i].role = "user" /\ Hears(h[i], m) => Tells(turns[i], m)
  BY <1>1, <1>4
<1> QED
  BY <1>9, <1>10, <1>11, <1>12, Zenon DEF CleansAll

-----------------------------------------------------------------------------
(* sanitize_kiro_history: the turns that are kept *)

Substantial(t) == t.content # <<>> \/ t.image \/ t.uses # <<>>

SaysAs(t, u) == ToSet(t.content) \subseteq ToSet(u.content)

SaidAsIn(t, k) == \E i \in 1 .. Len(k) : SaysAs(t, k[i])

\* What of the first n turns is kept.
KeptInv(k, turns, n) ==
    /\ k \in Seq(Turns)
    /\ \A i \in 1 .. Len(k) : CleanTurn(k[i]) /\ Substantial(k[i])
    /\ Paired(k)
    /\ n > 0 /\ turns[n].role = "user" => EndsWith(k, "user")
    /\ \A j \in 1 .. n : turns[j].role = "user" => SaidAsIn(turns[j], k)
    /\ system /\ n = 0 => Len(k) = 0
    /\ system /\ n = 1 => Len(k) = 1
    /\ system /\ n >= 1 => Len(k) >= 1 /\ k[1] = turns[1]
    /\ system /\ n >= 2 => Len(k) >= 2 /\ k[2] = turns[2]
    /\ \A i \in 1 .. Len(k) :
           k[i].uses # <<>> => n = Len(turns) /\ i = Len(k) /\ n > 0 /\ k[i].uses = turns[n].uses
    /\ n > 0 /\ turns[n].uses # <<>> => Len(k) > 0 /\ k[Len(k)] = turns[n]

LEMMA EarlierHaveNone ==
    ASSUME NEW turns, Tidy(turns), NEW n \in 1 .. Len(turns), NEW k, KeptInv(k, turns, n - 1)
    PROVE  \A i \in 1 .. Len(k) : k[i].uses = <<>>
<1>1. Len(turns) \in Nat /\ n - 1 # Len(turns)
  BY DEF Tidy
<1> QED
  BY <1>1 DEF KeptInv

LEMMA LeavesOut ==
    ASSUME NEW turns, Tidy(turns), NEW n \in 1 .. Len(turns), NEW k, KeptInv(k, turns, n - 1),
           Hollow(turns[n]) \/ Repeats(k, turns[n])
    PROVE  KeptInv(k, turns, n)
<1>1. PICK t : t = turns[n]
  OBVIOUS
<1>2. t \in Turns /\ CleanTurn(t) /\ k \in Seq(Turns)
  BY <1>1 DEF Tidy, CleanTurn, KeptInv
<1>3. t.role = "user" => EndsWith(k, "user") /\ k[Len(k)].content = t.content
  BY <1>1 DEF Hollow, Repeats, Last
<1>4. t.uses = <<>>
  BY <1>1, <1>2 DEF Hollow, Repeats, CleanTurn
<1>5. ASSUME t.role = "user" PROVE SaidAsIn(t, k)
  <2>1. Len(k) \in 1 .. Len(k)
    BY <1>2, <1>3, <1>5, EndIs
  <2>2. SaysAs(t, k[Len(k)])
    BY <1>3, <1>5 DEF SaysAs
  <2> QED
    BY <2>1, <2>2 DEF SaidAsIn
<1>6. ASSUME system PROVE n # 1 /\ n # 2
  <2>1. PICK u, a : u = UserTurn(<<"system">>, FALSE, <<>>) /\ a = AssistantTurn(<<"follow">>, <<>>)
    OBVIOUS
  <2>2. turns[1] = u /\ turns[2] = a
    BY <1>6, <2>1 DEF Tidy, Primed
  <2>3. u.role = "user" /\ a.role = "assistant" /\ a.content = <<"follow">>
    BY <2>1 DEF UserTurn, AssistantTurn
  <2>4. <<"follow">> # <<>> /\ <<"follow">> # <<".">>
    BY OneAlone
  <2>5. ~Hollow(u) /\ ~Hollow(a) /\ ~Repeats(k, a)
    BY <2>3, <2>4 DEF Hollow, Repeats, Fallback
  <2>6. n # 2
    BY <2>2, <2>5
  <2>7. n # 1
    <3> SUFFICES ASSUME n = 1 PROVE FALSE
      OBVIOUS
    <3>1. Repeats(k, u) /\ n - 1 = 0
      BY <2>2, <2>5
    <3>2. Len(k) = 0
      BY <1>6, <3>1 DEF KeptInv
    <3> QED
      <4>1. EndsWith(k, "user")
        BY <3>1 DEF Repeats
      <4> QED
        BY <1>2, <3>2, <4>1, EmptySeq DEF EndsWith
  <2> QED
    BY <2>6, <2>7
<1>7. \A j \in 1 .. n : j = n \/ j \in 1 .. n - 1
  OBVIOUS
<1>8. \A i \in 1 .. Len(k) : k[i].uses = <<>>
  BY EarlierHaveNone
<1>9. \A j \in 1 .. n : turns[j].role = "user" => SaidAsIn(turns[j], k)
  BY <1>1, <1>5, <1>7 DEF KeptInv
<1>10. system => n - 1 >= 2 /\ n >= 2 /\ n # 0
  BY <1>6
<1> QED
  BY <1>1, <1>2, <1>3, <1>4, <1>6, <1>8, <1>9, <1>10 DEF KeptInv

LEMMA Keeps ==
    ASSUME NEW turns, Tidy(turns), NEW n \in 1 .. Len(turns), NEW k, KeptInv(k, turns, n - 1),
           ~Hollow(turns[n]), NEW g, g = Append(k, turns[n])
    PROVE  KeptInv(g, turns, n)
<1>1. PICK t : t = turns[n]
  OBVIOUS
<1>2. t \in Turns /\ CleanTurn(t) /\ k \in Seq(Turns)
  BY <1>1 DEF Tidy, CleanTurn, KeptInv
<1>3. WithTurn(k, t, g)
  BY <1>1, <1>2, AppendsTurn
<1>4. PICK m \in Nat : m = Len(k)
  BY <1>2
<1>5. /\ g \in Seq(Turns) /\ Len(g) = m + 1 /\ g[m + 1] = t
      /\ \A i \in 1 .. m : g[i] = k[i]
      /\ \A i \in 1 .. m + 1 : i = m + 1 \/ i \in 1 .. m
  BY <1>3, <1>4 DEF WithTurn
<1>6. Substantial(t)
  <2>1. CASE t.role = "user"
    BY <1>2, <2>1 DEF CleanTurn, Substantial
  <2>2. CASE t.role # "user"
    <3>1. t.role = "assistant"
      BY <1>2, <2>2 DEF Turns
    <3> QED
      BY <1>1, <3>1 DEF Hollow, Substantial
  <2> QED
    BY <2>1, <2>2
<1>7. \A i \in 1 .. Len(g) : CleanTurn(g[i]) /\ Substantial(g[i])
  BY <1>2, <1>4, <1>5, <1>6 DEF KeptInv
<1>8. Paired(g)
  <2>1. ASSUME t.role = "assistant" PROVE EndsWith(k, "user")
    <3>1. n > 1 /\ turns[n - 1].role = "user"
      BY <1>1, <2>1 DEF Tidy, Paired
    <3> QED
      BY <3>1 DEF KeptInv
  <2> QED
    BY <1>2, <1>3, <2>1, LongerIsPaired DEF KeptInv
<1>9. EndsWith(g, t.role)
  BY <1>3, LongerEnds
<1>10. ASSUME NEW j \in 1 .. n, turns[j].role = "user" PROVE SaidAsIn(turns[j], g)
  <2>1. CASE j = n
    <3>1. m + 1 \in 1 .. Len(g) /\ SaysAs(turns[j], g[m + 1])
      BY <1>1, <1>5, <2>1 DEF SaysAs
    <3> QED
      BY <3>1 DEF SaidAsIn
  <2>2. CASE j # n
    <3>1. SaidAsIn(turns[j], k)
      BY <1>10, <2>2 DEF KeptInv
    <3>2. PICK i \in 1 .. m : SaysAs(turns[j], k[i])
      BY <1>4, <3>1 DEF SaidAsIn
    <3>3. i \in 1 .. Len(g) /\ g[i] = k[i]
      BY <1>5
    <3> QED
      BY <3>2, <3>3 DEF SaidAsIn
  <2> QED
    BY <2>1, <2>2
<1>11. ASSUME system
       PROVE  /\ n = 1 => Len(g) = 1
              /\ Len(g) >= 1 /\ g[1] = turns[1]
              /\ n >= 2 => Len(g) >= 2 /\ g[2] = turns[2]
  <2>1. CASE n = 1
    <3>1. m = 0
      BY <1>4, <1>11, <2>1 DEF KeptInv
    <3> QED
      BY <1>1, <1>5, <2>1, <3>1
  <2>2. CASE n = 2
    <3>1. m = 1 /\ k[1] = turns[1]
      BY <1>4, <1>11, <2>2 DEF KeptInv
    <3>2. 1 \in 1 .. m
      BY <3>1
    <3> QED
      BY <1>1, <1>5, <2>2, <3>1, <3>2
  <2>3. CASE n > 2
    <3>1. m >= 2 /\ k[1] = turns[1] /\ k[2] = turns[2]
      BY <1>4, <1>11, <2>3 DEF KeptInv
    <3>2. 1 \in 1 .. m /\ 2 \in 1 .. m
      BY <3>1
    <3> QED
      BY <1>5, <2>3, <3>1, <3>2
  <2> QED
    BY <2>1, <2>2, <2>3
<1>12. ASSUME NEW i \in 1 .. Len(g), g[i].uses # <<>> 
       PROVE  n = Len(turns) /\ i = Len(g) /\ n > 0 /\ g[i].uses = turns[n].uses
  <2>1. \A j \in 1 .. m : k[j].uses = <<>>
    BY <1>4, EarlierHaveNone
  <2>2. i = m + 1
    BY <1>5, <1>12, <2>1
  <2>3. turns[n].uses # <<>>
    BY <1>1, <1>5, <1>12, <2>2
  <2> QED
    BY <1>1, <1>5, <2>2, <2>3 DEF Tidy
<1>13. Len(g) > 0 /\ g[Len(g)] = turns[n] /\ n # 0
  BY <1>1, <1>5
<1> QED
  BY <1>1, <1>5, <1>7, <1>8, <1>9, <1>10, <1>11, <1>12, <1>13 DEF KeptInv

LEMMA NoneKeptYet == ASSUME NEW turns PROVE KeptInv(<<>>, turns, 0)
<1>1. <<>> \in Seq(Turns) /\ Len(<<>>) = 0
  BY EmptySeq
<1>2. (\A i : i \notin 1 .. Len(<<>>)) /\ \A i : i \notin 1 .. 0
  BY <1>1
<1> QED
  BY <1>1, <1>2 DEF KeptInv, Paired

LEMMA KeptIs ==
    ASSUME NEW turns, Tidy(turns)
    PROVE  KeptInv(Kept(turns), turns, Len(turns))
<1>1. PICK n \in Nat : n = Len(turns)
  BY DEF Tidy
<1>2. \A k \in 1 .. n : turns[k] \in Turns
  BY <1>1 DEF Tidy
<1> DEFINE Computes(f) == f = [k \in 0 .. n |-> IF k = 0 THEN <<>> ELSE KeepTurn(f[k - 1], turns[k])]
<1>3. \E f : Computes(f)
  <2>1. PICK steps :
            steps = [k \in Nat |-> [s \in Seq(Turns) |-> IF k \in 1 .. n THEN KeepTurn(s, turns[k]) ELSE s]]
    OBVIOUS
  <2>2. steps \in [Nat -> [Seq(Turns) -> Seq(Turns)]]
    <3>1. ASSUME NEW k \in Nat, NEW s \in Seq(Turns)
          PROVE  (IF k \in 1 .. n THEN KeepTurn(s, turns[k]) ELSE s) \in Seq(Turns)
      <4>1. CASE k \in 1 .. n
        <5>1. Append(s, turns[k]) \in Seq(Turns)
          BY <1>2, <4>1
        <5> QED
          BY <4>1, <5>1 DEF KeepTurn
      <4> QED
        BY <4>1
    <3> QED
      BY <2>1, <3>1
  <2>3. <<>> \in Seq(Turns)
    BY EmptySeq
  <2>4. PICK g \in [0 .. n -> Seq(Turns)] : TakesTurns(g, n, <<>>, steps)
    BY <2>2, <2>3, TurnByTurn DEF Turning
  <2>5. ASSUME NEW k \in 0 .. n
        PROVE  g[k] = IF k = 0 THEN <<>> ELSE KeepTurn(g[k - 1], turns[k])
    <3>1. CASE k = 0
      BY <2>4, <3>1 DEF TakesTurns
    <3>2. CASE k # 0
      <4>1. k \in Nat /\ k \in 1 .. n /\ k - 1 \in 0 .. n /\ g[k - 1] \in Seq(Turns)
        BY <3>2
      <4>2. g[k] = steps[k][g[k - 1]]
        BY <2>4, <4>1 DEF TakesTurns
      <4> QED
        BY <2>1, <3>2, <4>1, <4>2
    <3> QED
      BY <3>1, <3>2
  <2>6. Computes(g)
    BY <2>5
  <2> QED
    BY <2>6
<1>4. PICK f : f = CHOOSE h : Computes(h)
  OBVIOUS
<1>5. Computes(f)
  BY <1>3, <1>4
<1>6. Kept(turns) = f[n]
  BY <1>1, <1>4 DEF Kept
<1>7. f[0] = <<>> /\ \A k \in 1 .. n : f[k] = KeepTurn(f[k - 1], turns[k])
  <2>1. 0 \in 0 .. n /\ \A k \in 1 .. n : k \in 0 .. n /\ k # 0
    OBVIOUS
  <2> QED
    BY <1>5, <2>1
<1> HIDE DEF Computes
<1> DEFINE Bad == {k \in 0 .. n : ~KeptInv(f[k], turns, k)}
<1>8. Bad = {}
  <2> SUFFICES ASSUME Bad # {} PROVE FALSE
    OBVIOUS
  <2>1. Bad \subseteq Nat
    OBVIOUS
  <2>2. PICK k \in Bad : \A j \in Bad : k <= j
    <3> HIDE DEF Bad
    <3> QED
      BY <2>1, LeastOf
  <2>3. k # 0
    BY <1>7, <2>2, NoneKeptYet
  <2>4. k \in 1 .. n /\ k - 1 \in 0 .. n /\ ~(k <= k - 1)
    BY <2>2, <2>3
  <2>5. KeptInv(f[k - 1], turns, k - 1)
    BY <2>2, <2>4
  <2>6. f[k] = KeepTurn(f[k - 1], turns[k])
    BY <1>7, <2>4
  <2>7. KeptInv(f[k], turns, k)
    <3>1. CASE Hollow(turns[k]) \/ Repeats(f[k - 1], turns[k])
      <4>1. f[k] = f[k - 1]
        BY <2>6, <3>1 DEF KeepTurn
      <4> QED
        BY <1>1, <2>4, <2>5, <3>1, <4>1, LeavesOut
    <3>2. CASE ~(Hollow(turns[k]) \/ Repeats(f[k - 1], turns[k]))
      <4>1. f[k] = Append(f[k - 1], turns[k])
        BY <2>6, <3>2 DEF KeepTurn
      <4> QED
        BY <1>1, <2>4, <2>5, <3>2, <4>1, Keeps
    <3> QED
      BY <3>1, <3>2
  <2> QED
    BY <2>2, <2>7
<1>9. n \in 0 .. n
  OBVIOUS
<1> QED
  BY <1>1, <1>6, <1>8, <1>9

-----------------------------------------------------------------------------
\* t is what follows in s, from the first turn of a user on, which is the m-th.
FollowsUser(s, m, t) ==
    /\ m \in 1 .. Len(s) + 1 /\ t = SubSeq(s, m, Len(s))
    /\ m <= Len(s) => s[m].role = "user"
    /\ \A i \in 1 .. m - 1 : s[i].role # "user"

LEMMA LeastIs ==
    ASSUME NEW S, S \subseteq Nat, S # {}
    PROVE  Min(S) \in S /\ \A n \in S : Min(S) <= n
<1>1. \E m \in S : \A n \in S : m <= n
  BY LeastOf
<1> QED
  BY <1>1 DEF Min

LEMMA FirstUserIs ==
    ASSUME NEW s \in Seq(Turns)
    PROVE  \E m : FollowsUser(s, m, FromFirstUser(s))
<1>1. PICK n \in Nat : n = Len(s)
  OBVIOUS
<1>2. PICK S : S = {i \in 1 .. n : s[i].role = "user"}
  OBVIOUS
<1>3. PICK first : first = IF S # {} THEN Min(S) ELSE 0
  OBVIOUS
<1>4. FromFirstUser(s) = IF first = 0 THEN <<>> ELSE SubSeq(s, first, n)
  BY <1>1, <1>2, <1>3 DEF FromFirstUser, SelectInSeq
<1>5. CASE S = {}
  <2>1. FromFirstUser(s) = <<>>
    BY <1>3, <1>4, <1>5
  <2>2. n + 1 \in Int /\ n \in Int /\ n < n + 1
    OBVIOUS
  <2>3. SubSeq(s, n + 1, n) = <<>>
    BY <2>2, SubSeqEmpty
  <2>4. \A i \in 1 .. (n + 1) - 1 : i \in 1 .. n /\ s[i].role # "user"
    BY <1>2, <1>5
  <2>5. n + 1 \in 1 .. n + 1 /\ ~(n + 1 <= n)
    OBVIOUS
  <2> QED
    BY <1>1, <2>1, <2>3, <2>4, <2>5 DEF FollowsUser
<1>6. CASE S # {}
  <2>1. S \subseteq Nat
    BY <1>2
  <2>2. first \in S /\ \A i \in S : first <= i
    BY <1>3, <1>6, <2>1, LeastIs
  <2>3. first \in 1 .. n /\ s[first].role = "user"
    BY <1>2, <2>2
  <2>4. FromFirstUser(s) = SubSeq(s, first, n)
    BY <1>4, <2>3
  <2>5. ASSUME NEW i \in 1 .. first - 1 PROVE s[i].role # "user"
    <3>1. i \in 1 .. n /\ ~(first <= i)
      BY <2>3
    <3> QED
      BY <1>2, <2>2, <3>1
  <2>6. first \in 1 .. n + 1
    BY <2>3
  <2> QED
    BY <1>1, <2>3, <2>4, <2>5, <2>6 DEF FollowsUser
<1> QED
  BY <1>5, <1>6

LEMMA PairedBegins ==
    ASSUME NEW k \in Seq(Turns), Paired(k)
    PROVE  FromFirstUser(k) = k
<1>1. PICK m : FollowsUser(k, m, FromFirstUser(k))
  BY FirstUserIs
<1>2. m = 1
  <2> SUFFICES ASSUME m # 1 PROVE FALSE
    OBVIOUS
  <2>1. 1 \in 1 .. m - 1 /\ 1 \in 1 .. Len(k)
    BY <1>1 DEF FollowsUser
  <2>2. k[1].role # "user" /\ k[1] \in Turns
    BY <1>1, <2>1 DEF FollowsUser
  <2>3. k[1].role = "assistant"
    BY <2>2 DEF Turns
  <2> QED
    BY <2>1, <2>3 DEF Paired
<1>3. FromFirstUser(k) = SubSeq(k, 1, Len(k))
  BY <1>1, <1>2 DEF FollowsUser
<1> QED
  BY <1>3, SubSeqFull

\* A history as it is sent.
Sendable(h) ==
    /\ h \in Seq(Turns)
    /\ \A i \in 1 .. Len(h) : CleanTurn(h[i]) /\ Substantial(h[i])
    /\ Paired(h)
    /\ Primed(h)
    /\ \A i \in 1 .. Len(h) : h[i].uses # <<>> => i = Len(h)

ToldIn(h, m) == \E k \in 1 .. Len(h) : Tells(h[k], m)

\* What is made of a conversation whose last uses are answered, or are not.
LEMMA SanitizedHistory ==
    ASSUME NEW h, Conversation(h), NEW ids, NEW g, g = SanitizeHistory(h, ids)
    PROVE  /\ Sendable(g)
           /\ \A m : HeardIn(h, m) => ToldIn(g, m)
           /\ IF Answers(h, ids)
              THEN Len(g) > 0 /\ g[Len(g)].uses = h[Len(h)].uses
              ELSE \A i \in 1 .. Len(g) : g[i].uses = <<>>
<1>1. PICK active \in {0, Len(h)} : active = IF Answers(h, ids) THEN Len(h) ELSE 0
  OBVIOUS
<1>2. PICK turns : turns = Sanitized(h, active)
  OBVIOUS
<1>3. /\ Tidy(turns) /\ Len(turns) = Len(h)
      /\ \A i \in 1 .. Len(h) : turns[i].uses = IF i = active THEN h[i].uses ELSE <<>>
      /\ \A i \in 1 .. Len(h) : \A m : h[i].role = "user" /\ Hears(h[i], m) => Tells(turns[i], m)
      /\ \A i \in 1 .. Len(h) : turns[i].role = h[i].role
  <2>1. CleansAll(h, active, turns)
    BY <1>2, SanitizedIsTidy
  <2> QED
    BY <2>1 DEF CleansAll
<1>4. PICK k : k = Kept(turns)
  OBVIOUS
<1>5. KeptInv(k, turns, Len(turns))
  BY <1>3, <1>4, KeptIs
<1>6. g = k
  <2>1. k \in Seq(Turns) /\ Paired(k)
    BY <1>5 DEF KeptInv
  <2>2. g = FromFirstUser(k)
    BY <1>1, <1>2, <1>4 DEF SanitizeHistory
  <2> QED
    BY <2>1, <2>2, PairedBegins
<1>7. Len(turns) \in Nat
  BY <1>3 DEF Tidy
<1>8. Primed(k)
  <2>1. ASSUME system
        PROVE  Len(turns) >= 2 /\ Len(k) >= 2 /\ k[1] = turns[1] /\ k[2] = turns[2]
    BY <1>3, <1>5, <2>1 DEF Tidy, Primed, KeptInv
  <2> QED
    BY <1>3, <2>1 DEF Tidy, Primed
<1>9. Sendable(k)
  BY <1>5, <1>8 DEF Sendable, KeptInv
<1>10. ASSUME NEW m, NEW i \in 1 .. Len(h), Hears(h[i], m)
       PROVE  ToldIn(k, m)
  <2>1. Tells(turns[i], m) /\ turns[i].role = "user" /\ i \in 1 .. Len(turns)
    BY <1>3, <1>10 DEF Hears
  <2>2. PICK j \in 1 .. Len(k) : SaysAs(turns[i], k[j])
    BY <1>5, <2>1 DEF KeptInv, SaidAsIn
  <2>3. Tells(k[j], m)
    BY <2>1, <2>2 DEF Tells, SaysAs
  <2> QED
    BY <2>3 DEF ToldIn
<1>11. CASE Answers(h, ids)
  <2>1. Len(h) > 0 /\ h[Len(h)].uses # <<>>
    <3>1. h \in Seq(Turns) /\ EndsWith(h, "assistant") /\ h[Len(h)].uses # <<>>
      BY <1>11 DEF Answers, Conversation, Last
    <3> QED
      BY <3>1, EndIs
  <2>2. Len(turns) \in 1 .. Len(h) /\ Len(turns) > 0 /\ active = Len(turns)
    BY <1>1, <1>3, <1>7, <1>11, <2>1
  <2>3. turns[Len(turns)].uses = h[Len(h)].uses
    BY <1>3, <2>2
  <2>4. Len(k) > 0 /\ k[Len(k)] = turns[Len(turns)]
    BY <1>5, <2>1, <2>2, <2>3 DEF KeptInv
  <2> QED
    BY <1>6, <1>9, <1>10, <1>11, <2>3, <2>4 DEF HeardIn
<1>12. CASE ~Answers(h, ids)
  <2>1. active = 0
    BY <1>1, <1>12
  <2>2. \A i \in 1 .. Len(k) : k[i].uses = <<>>
    <3> SUFFICES ASSUME NEW i \in 1 .. Len(k), k[i].uses # <<>> PROVE FALSE
      OBVIOUS
    <3>1. Len(turns) > 0 /\ k[i].uses = turns[Len(turns)].uses
      BY <1>5 DEF KeptInv
    <3>2. Len(turns) \in 1 .. Len(h) /\ Len(turns) # active
      BY <1>3, <1>7, <2>1, <3>1
    <3>3. turns[Len(turns)].uses = <<>>
      BY <1>3, <3>2
    <3> QED
      BY <3>1, <3>3
  <2> QED
    BY <1>6, <1>9, <1>10, <1>12, <2>2 DEF HeardIn
<1> QED
  BY <1>11, <1>12

-----------------------------------------------------------------------------
(* What is sent. *)

\* What is sent of these messages: the history, and with it the last of them.
SentFor(c, h, last, answered) ==
    /\ Sendable(h) /\ c = Attach(h, last, answered)
    /\ IF answered
       THEN Len(h) > 0 /\ h[Len(h)].uses # <<>> /\ \A u \in ToSet(h[Len(h)].uses) : u.id \in ToSet(last.results)
       ELSE \A i \in 1 .. Len(h) : h[i].uses = <<>>

LEMMA ConvertIs ==
    ASSUME NEW msgs \in Seq(ClientMessages), Len(msgs) > 0
    PROVE  \E h : \E answered \in BOOLEAN :
               /\ SentFor(Convert(msgs), h, msgs[Len(msgs)], answered)
               /\ \A i \in 1 .. Len(msgs) - 1 : msgs[i].role = "user" => ToldIn(h, msgs[i])
<1>1. PICK built : built = BuildHistory(msgs)
  OBVIOUS
<1>2. /\ Conversation(built)
      /\ \A i \in 1 .. Len(msgs) - 1 : msgs[i].role = "user" => HeardIn(built, msgs[i])
  BY <1>1, HistoryIsBuilt
<1>3. PICK last : last = msgs[Len(msgs)]
  OBVIOUS
<1>4. PICK answered \in BOOLEAN : answered = Answers(built, ToSet(last.results))
  BY DEF Answers
<1>5. PICK ids : ids = IF answered THEN ToSet(last.results) ELSE {}
  OBVIOUS
<1>6. PICK h : h = SanitizeHistory(built, ids)
  OBVIOUS
<1>7. Answers(built, ids) <=> answered
  <2>1. Answers(built, {}) => Answers(built, ToSet(last.results))
    BY DEF Answers
  <2> QED
    BY <1>4, <1>5, <2>1
<1>8. /\ Sendable(h)
      /\ \A m : HeardIn(built, m) => ToldIn(h, m)
      /\ IF Answers(built, ids)
         THEN Len(h) > 0 /\ h[Len(h)].uses = built[Len(built)].uses
         ELSE \A i \in 1 .. Len(h) : h[i].uses = <<>>
  BY <1>2, <1>6, SanitizedHistory
<1>9. Convert(msgs) = Attach(h, last, answered)
  BY <1>1, <1>3, <1>4, <1>5, <1>6 DEF Convert, AnswerHistory, ConvertLast, Last
<1>10. ASSUME answered
       PROVE  /\ built[Len(built)].uses # <<>>
              /\ \A u \in ToSet(built[Len(built)].uses) : u.id \in ToSet(last.results)
  BY <1>4, <1>10 DEF Answers, Last
<1>11. SentFor(Convert(msgs), h, last, answered)
  BY <1>7, <1>8, <1>9, <1>10 DEF SentFor
<1> QED
  BY <1>2, <1>3, <1>8, <1>11

Attached(c, h, last, answered) ==
    /\ c.history = h
    /\ c.results = IF answered THEN last.results ELSE <<>>
    /\ c.content \in Seq(Parts) /\ c.results \in Seq(Parts) /\ c.image \in BOOLEAN
    /\ c.tools = DefinedTools(h)
    /\ c = [history |-> h, results |-> c.results, content |-> c.content,
            image |-> c.image, tools |-> c.tools]
    /\ ToSet(Said(last.text)) \subseteq ToSet(c.content)
    /\ last.text = "" /\ ~last.image => ToSet(last.results) \subseteq ToSet(c.content)

LEMMA AttachIs ==
    ASSUME NEW h, NEW last \in ClientMessages, NEW answered \in BOOLEAN, NEW c, c = Attach(h, last, answered)
    PROVE  Attached(c, h, last, answered)
<1>1. PICK text, image, results : text = last.text /\ image = last.image /\ results = last.results
  OBVIOUS
<1>2. text \in Parts /\ image \in BOOLEAN /\ results \in Seq(Parts)
  BY <1>1, MessageIs
<1>3. PICK content : content = IF text # "" THEN <<text>> ELSE IF image THEN <<"image">>
                               ELSE IF results # <<>> THEN results ELSE Fallback
  OBVIOUS
<1>4. c = [history |-> h, results |-> IF answered THEN results ELSE <<>>, content |-> content,
           image |-> image, tools |-> DefinedTools(h)]
  BY <1>1, <1>3 DEF Attach
<1>5. "image" \in Parts /\ "." \in Parts /\ <<>> \in Seq(Parts)
  BY EmptySeq DEF Parts
<1>6. <<text>> \in Seq(Parts) /\ <<"image">> \in Seq(Parts) /\ Fallback \in Seq(Parts)
  BY <1>2, <1>5, OneAlone DEF Fallback
<1>7. content \in Seq(Parts)
  BY <1>2, <1>3, <1>6
<1>8. ToSet(<<>>) = {}
  BY DEF ToSet
<1>9. ToSet(Said(text)) \subseteq ToSet(content)
  <2>1. CASE text = ""
    <3>1. Said(text) = <<>>
      BY <2>1 DEF Said
    <3> QED
      BY <1>8, <3>1
  <2>2. CASE text # ""
    BY <1>3, <2>2 DEF Said
  <2> QED
    BY <2>1, <2>2
<1>10. text = "" /\ ~image => ToSet(results) \subseteq ToSet(content)
  <2> SUFFICES ASSUME text = "", ~image PROVE ToSet(results) \subseteq ToSet(content)
    OBVIOUS
  <2>1. CASE results = <<>>
    BY <1>8, <2>1
  <2>2. CASE results # <<>>
    BY <1>3, <2>2
  <2> QED
    BY <2>1, <2>2
<1>11. /\ c.history = h /\ c.results = (IF answered THEN results ELSE <<>>) /\ c.content = content
       /\ c.image = image /\ c.tools = DefinedTools(h)
  BY <1>4
<1>12. c.results \in Seq(Parts)
  BY <1>2, <1>5, <1>11
<1>13. c = [history |-> h, results |-> c.results, content |-> c.content,
            image |-> c.image, tools |-> c.tools]
  BY <1>4, <1>11
<1> QED
  BY <1>1, <1>2, <1>7, <1>9, <1>10, <1>11, <1>12, <1>13 DEF Attached

\* Messages as the clients send them.
ConversionInv == messages \in Seq(ClientMessages) /\ tools \subseteq ToolNames

LEMMA ConsideredIs ==
    ASSUME ConversionInv, Accepted(messages)
    PROVE  /\ Considered(messages) \in Seq(ClientMessages) /\ Len(Considered(messages)) > 0
           /\ Considered(messages)[Len(Considered(messages))] \in ClientMessages
<1>1. PICK n \in Nat : n = Len(messages)
  BY DEF ConversionInv
<1>2. PICK S : S = {i \in 1 .. n : messages[i].role = "user"}
  OBVIOUS
<1>3. PICK last : last = IF S # {} THEN Max(S) ELSE 0
  OBVIOUS
<1>4. Considered(messages) = SubSeq(messages, 1, last)
  BY <1>1, <1>2, <1>3 DEF Considered, SelectLastInSeq
<1>5. last \in Nat /\ last <= n
  <2>1. CASE S = {}
    BY <1>3, <2>1
  <2>2. CASE S # {}
    <3>1. PICK T : T = {n - i : i \in S}
      OBVIOUS
    <3>2. T \subseteq Nat /\ T # {}
      BY <1>2, <2>2, <3>1
    <3>3. PICK m \in T : \A i \in T : m <= i
      BY <3>2, LeastOf
    <3>4. PICK j \in S : m = n - j
      BY <3>1, <3>3
    <3>5. \A i \in S : j >= i
      <4> SUFFICES ASSUME NEW i \in S PROVE j >= i
        OBVIOUS
      <4>1. n - j <= n - i
        BY <3>1, <3>3, <3>4
      <4>2. i \in Nat /\ j \in Nat
        BY <1>2
      <4> QED
        BY <4>1, <4>2
    <3>6. Max(S) \in S
      BY <3>5 DEF Max
    <3> QED
      BY <1>2, <1>3, <2>2, <3>6
  <2> QED
    BY <2>1, <2>2
<1>6. PICK msgs : msgs = Considered(messages)
  OBVIOUS
<1>7. msgs \in Seq(ClientMessages)
  BY <1>1, <1>4, <1>5, <1>6, StretchIs DEF ConversionInv
<1>8. msgs # <<>>
  BY <1>6 DEF Accepted
<1>9. Len(msgs) > 0
  BY <1>7, <1>8, EmptySeq
<1>10. Len(msgs) \in 1 .. Len(msgs)
  BY <1>7, <1>9
<1> QED
  BY <1>6, <1>7, <1>9, <1>10

LEMMA NothingIsLost == ConversionInv => NothingUsersSayIsLost
<1> SUFFICES ASSUME ConversionInv, Accepted(messages),
                    NEW msgs, msgs = Considered(messages), NEW c, c = Convert(msgs),
                    NEW told, told = (UNION {ToSet(c.history[i].content) : i \in DOMAIN c.history})
                                         \cup ToSet(c.content) \cup ToSet(c.results),
                    NEW i \in DOMAIN msgs, msgs[i].role = "user"
             PROVE  /\ ToSet(Said(msgs[i].text)) \subseteq told
                    /\ i < Len(msgs) \/ (msgs[i].text = "" /\ ~msgs[i].image) =>
                           ToSet(msgs[i].results) \subseteq told
  BY Zenon DEF NothingUsersSayIsLost
<1>2. msgs \in Seq(ClientMessages) /\ Len(msgs) > 0 /\ msgs[Len(msgs)] \in ClientMessages
  BY ConsideredIs
<1>4. PICK h : \E answered \in BOOLEAN :
          /\ SentFor(c, h, msgs[Len(msgs)], answered)
          /\ \A j \in 1 .. Len(msgs) - 1 : msgs[j].role = "user" => ToldIn(h, msgs[j])
  BY <1>2, ConvertIs
<1>5. /\ c.history = h
      /\ ToSet(Said(msgs[Len(msgs)].text)) \subseteq ToSet(c.content)
      /\ msgs[Len(msgs)].text = "" /\ ~msgs[Len(msgs)].image =>
             ToSet(msgs[Len(msgs)].results) \subseteq ToSet(c.content)
  <2>1. PICK answered \in BOOLEAN : c = Attach(h, msgs[Len(msgs)], answered)
    BY <1>4 DEF SentFor
  <2>2. Attached(c, h, msgs[Len(msgs)], answered)
    BY <1>2, <2>1, AttachIs
  <2> QED
    BY <2>2 DEF Attached
<1>7. \A k \in 1 .. Len(h) : ToSet(h[k].content) \subseteq told
  <2>0. Sendable(h)
    BY <1>4 DEF SentFor
  <2>1. DOMAIN c.history = 1 .. Len(h)
    <3>1. h \in Seq(Turns)
      BY <2>0 DEF Sendable
    <3>2. DOMAIN h = 1 .. Len(h)
      BY <3>1
    <3>3. c.history = h
      BY <1>5
    <3> QED
      BY <3>2, <3>3
  <2>2. \A k \in DOMAIN c.history : ToSet(c.history[k].content) \subseteq told
    OBVIOUS
  <2>3. c.history = h
    BY <1>5
  <2> QED
    BY <2>1, <2>2, <2>3
<1>8. i = Len(msgs) \/ i \in 1 .. Len(msgs) - 1
  BY <1>2
<1>9. CASE i = Len(msgs)
  <2>1. ~(i < Len(msgs))
    BY <1>2, <1>9
  <2> QED
    BY <1>5, <1>9, <2>1
<1>10. CASE i \in 1 .. Len(msgs) - 1
  <2>1. PICK k \in 1 .. Len(h) : Tells(h[k], msgs[i])
    BY <1>4, <1>10 DEF ToldIn
  <2> QED
    BY <1>7, <2>1 DEF Tells
<1> QED
  BY <1>8, <1>9, <1>10

\* The messages are those of the requests a client may send, and the tools those it may
\* define.
LEMMA ConversionInvHolds == ConversionSpec => []ConversionInv
<1>1. ConversionInit => ConversionInv
  BY DEF ConversionInit, ConversionInv
<1>2. ConversionInv /\ [ConversionNext]_conversionVars => ConversionInv'
  <2> SUFFICES ASSUME ConversionInv, [ConversionNext]_conversionVars PROVE ConversionInv'
    OBVIOUS
  <2>1. CASE UNCHANGED conversionVars
    BY <2>1 DEF ConversionInv, conversionVars
  <2>2. ASSUME NEW say \in Says, Send(say) PROVE ConversionInv'
    BY <2>2, ConversionAssumption DEF Send, ConversionInv
  <2> QED
    BY <2>1, <2>2 DEF ConversionNext
<1> QED
  BY <1>1, <1>2, PTL DEF ConversionSpec

\* Whatever a client sends, what its users said, and what their tools said, is in the
\* request that goes upstream: in the history, or in the last message
\* (convert_request_with_thinking_suffix).
THEOREM UsersAreHeardOut == ConversionSpec => []NothingUsersSayIsLost
  BY ConversionInvHolds, NothingIsLost, PTL

-----------------------------------------------------------------------------
(* Sizes: what is put together is as large as its parts. *)

\* g has at k the size of the first k turns.
AddsUp(g, s) ==
    /\ g[0] = 0
    /\ \A k \in 1 .. Len(s) : g[k] = g[k - 1] + serialized_history_entry_size(s[k])

LEMMA TurnHasSize == ASSUME NEW t \in Turns PROVE serialized_history_entry_size(t) \in Nat
<1>1. t.content \in Seq(Parts) /\ t.results \in Seq(Parts) /\ t.uses \in Seq([id : STRING, name : STRING])
  BY DEF Turns, Uses
<1>2. Len(t.content) \in Nat /\ Len(t.results) \in Nat /\ Len(t.uses) \in Nat
  BY <1>1
<1>3. PICK image \in {0, 1} : image = IF t.image THEN 1 ELSE 0
  OBVIOUS
<1>4. PICK i \in Nat, j \in Nat, k \in Nat :
          i = Len(t.content) /\ j = Len(t.results) /\ k = Len(t.uses)
  BY <1>2
<1>5. serialized_history_entry_size(t) = 1 + i + j + k + image
  BY <1>3, <1>4 DEF serialized_history_entry_size
<1> QED
  BY <1>5

LEMMA SizesAddUp ==
    ASSUME NEW s \in Seq(Turns)
    PROVE  \E g \in [0 .. Len(s) -> Nat] : AddsUp(g, s)
<1>1. PICK n \in Nat : n = Len(s)
  OBVIOUS
<1>2. PICK steps : steps = [k \in Nat |-> [v \in Nat |->
          IF k \in 1 .. n THEN v + serialized_history_entry_size(s[k]) ELSE v]]
  OBVIOUS
<1>3. steps \in [Nat -> [Nat -> Nat]]
  <2>1. ASSUME NEW k \in Nat, NEW v \in Nat
        PROVE  (IF k \in 1 .. n THEN v + serialized_history_entry_size(s[k]) ELSE v) \in Nat
    <3>1. CASE k \in 1 .. n
      <4>1. s[k] \in Turns
        BY <1>1, <3>1
      <4>2. serialized_history_entry_size(s[k]) \in Nat
        BY <4>1, TurnHasSize
      <4> QED
        BY <3>1, <4>2
    <3> QED
      BY <3>1
  <2> QED
    BY <1>2, <2>1
<1>4. 0 \in Nat
  OBVIOUS
<1>5. PICK g \in [0 .. n -> Nat] : TakesTurns(g, n, 0, steps)
  BY <1>3, <1>4, TurnByTurn DEF Turning
<1>6. ASSUME NEW k \in 1 .. n PROVE g[k] = g[k - 1] + serialized_history_entry_size(s[k])
  <2>1. g[k] = steps[k][g[k - 1]] /\ k \in Nat /\ g[k - 1] \in Nat
    BY <1>5 DEF TakesTurns
  <2> QED
    BY <1>2, <2>1
<1>7. g[0] = 0
  BY <1>5 DEF TakesTurns
<1> QED
  BY <1>1, <1>6, <1>7 DEF AddsUp

LEMMA OneSum ==
    ASSUME NEW s \in Seq(Turns), NEW f, AddsUp(f, s), NEW g, AddsUp(g, s)
    PROVE  f[Len(s)] = g[Len(s)]
<1>1. PICK n \in Nat : n = Len(s)
  OBVIOUS
<1> DEFINE Bad == {k \in 0 .. n : f[k] # g[k]}
<1> SUFFICES ASSUME Bad # {} PROVE FALSE
  BY <1>1
<1>2. PICK k \in Bad : \A j \in Bad : k <= j
  <2>1. Bad \subseteq Nat
    OBVIOUS
  <2> HIDE DEF Bad
  <2> QED
    BY <2>1, LeastOf
<1>3. k # 0
  BY <1>2 DEF AddsUp
<1>4. k \in 1 .. n /\ k - 1 \in 0 .. n /\ ~(k <= k - 1)
  BY <1>2, <1>3
<1>5. f[k - 1] = g[k - 1]
  BY <1>2, <1>4
<1> QED
  BY <1>1, <1>2, <1>4, <1>5 DEF AddsUp

LEMMA SizeIs ==
    ASSUME NEW s \in Seq(Turns), NEW g, AddsUp(g, s)
    PROVE  SizeOf(s) = g[Len(s)]
<1>1. PICK n \in Nat : n = Len(s)
  OBVIOUS
<1> DEFINE Computes(f) ==
        f = [k \in 0 .. n |-> IF k = 0 THEN 0 ELSE f[k - 1] + serialized_history_entry_size(s[k])]
<1>2. \E f : Computes(f)
  <2>1. PICK f \in [0 .. n -> Nat] : AddsUp(f, s)
    BY <1>1, SizesAddUp
  <2>2. ASSUME NEW k \in 0 .. n
        PROVE  f[k] = IF k = 0 THEN 0 ELSE f[k - 1] + serialized_history_entry_size(s[k])
    <3>1. k = 0 \/ k \in 1 .. n
      OBVIOUS
    <3> QED
      BY <1>1, <2>1, <3>1 DEF AddsUp
  <2>3. Computes(f)
    BY <2>2
  <2> QED
    BY <2>3
<1>3. PICK f : f = CHOOSE h : Computes(h)
  OBVIOUS
<1>4. Computes(f)
  BY <1>2, <1>3
<1>5. SizeOf(s) = f[n]
  BY <1>1, <1>3 DEF SizeOf
<1>6. AddsUp(f, s)
  <2>1. 0 \in 0 .. n /\ \A k \in 1 .. n : k \in 0 .. n /\ k # 0
    OBVIOUS
  <2> QED
    BY <1>1, <1>4, <2>1 DEF AddsUp
<1> QED
  BY <1>1, <1>5, <1>6, OneSum

LEMMA SizeIsNat == ASSUME NEW s \in Seq(Turns) PROVE SizeOf(s) \in Nat
<1>1. PICK g \in [0 .. Len(s) -> Nat] : AddsUp(g, s)
  BY SizesAddUp
<1>2. SizeOf(s) = g[Len(s)]
  BY <1>1, SizeIs
<1>3. Len(s) \in 0 .. Len(s)
  OBVIOUS
<1> QED
  BY <1>2, <1>3

LEMMA SizesJoin ==
    ASSUME NEW a \in Seq(Turns), NEW b \in Seq(Turns)
    PROVE  SizeOf(a \o b) = SizeOf(a) + SizeOf(b)
<1>1. PICK m \in Nat, n \in Nat : m = Len(a) /\ n = Len(b)
  OBVIOUS
<1>2. PICK s : s = a \o b
  OBVIOUS
<1>3. /\ s \in Seq(Turns) /\ Len(s) = m + n
      /\ \A k \in 1 .. m + n : s[k] = IF k <= m THEN a[k] ELSE b[k - m]
  BY <1>1, <1>2, ConcatProperties
<1>4. PICK f \in [0 .. m -> Nat] : AddsUp(f, a)
  BY <1>1, SizesAddUp
<1>5. PICK g \in [0 .. n -> Nat] : AddsUp(g, b)
  BY <1>1, SizesAddUp
<1>6. PICK u : u = [k \in 0 .. m + n |-> IF k <= m THEN f[k] ELSE f[m] + g[k - m]]
  OBVIOUS
<1>7. f[m] \in Nat /\ \A k \in 0 .. n : g[k] \in Nat
  BY <1>4, <1>5
<1>8. AddsUp(u, s)
  <2>1. u[0] = 0
    BY <1>4, <1>6 DEF AddsUp
  <2>2. ASSUME NEW k \in 1 .. m + n PROVE u[k] = u[k - 1] + serialized_history_entry_size(s[k])
    <3>1. k \in 0 .. m + n /\ k - 1 \in 0 .. m + n
      OBVIOUS
    <3>2. CASE k <= m
      <4>1. k \in 1 .. m /\ k - 1 <= m
        BY <3>2
      <4>2. u[k] = f[k] /\ u[k - 1] = f[k - 1] /\ s[k] = a[k]
        BY <1>3, <1>6, <3>1, <4>1
      <4> QED
        BY <1>1, <1>4, <4>1, <4>2 DEF AddsUp
    <3>3. CASE k = m + 1
      <4>1. u[k] = f[m] + g[1] /\ u[k - 1] = f[m] /\ s[k] = b[1] /\ 1 \in 1 .. n
        <5>1. ~(k <= m) /\ k - 1 <= m /\ k - 1 = m /\ k - m = 1 /\ 1 \in 1 .. n
          BY <3>3
        <5>2. u[k] = f[m] + g[1]
          BY <1>6, <3>1, <5>1
        <5>3. u[k - 1] = f[m]
          BY <1>6, <3>1, <5>1
        <5>4. s[k] = b[1]
          BY <1>3, <5>1
        <5> QED
          BY <5>1, <5>2, <5>3, <5>4
      <4>2. g[1] = g[1 - 1] + serialized_history_entry_size(b[1]) /\ g[0] = 0 /\ 1 - 1 = 0
        BY <1>1, <1>5, <4>1 DEF AddsUp
      <4>3. b[1] \in Turns
        BY <1>1, <4>1
      <4>4. serialized_history_entry_size(b[1]) \in Nat
        BY <4>3, TurnHasSize
      <4>5. g[1] = serialized_history_entry_size(b[1])
        BY <4>2, <4>4
      <4> QED
        BY <4>1, <4>5
    <3>4. CASE k > m + 1
      <4>1. k - m \in 1 .. n /\ (k - 1) - m = (k - m) - 1 /\ ~(k <= m) /\ ~(k - 1 <= m)
            /\ (k - m) - 1 \in 0 .. n
        BY <3>4
      <4>2. PICK j : j = k - m
        OBVIOUS
      <4>3. u[k] = f[m] + g[j] /\ u[k - 1] = f[m] + g[j - 1] /\ s[k] = b[j]
        BY <1>3, <1>6, <3>1, <4>1, <4>2
      <4>4. g[j] = g[j - 1] + serialized_history_entry_size(b[j]) /\ j \in 1 .. n
        BY <1>1, <1>5, <4>1, <4>2 DEF AddsUp
      <4>5. b[j] \in Turns
        BY <1>1, <4>4
      <4>6. PICK z \in Nat : z = serialized_history_entry_size(b[j])
        BY <4>5, TurnHasSize
      <4>7. PICK x \in Nat, y \in Nat : x = f[m] /\ y = g[j - 1]
        BY <1>7, <4>1, <4>2
      <4> QED
        BY <4>3, <4>4, <4>6, <4>7
    <3> QED
      BY <3>2, <3>3, <3>4
  <2> QED
    BY <1>3, <2>1, <2>2 DEF AddsUp
<1>9. SizeOf(s) = u[m + n]
  BY <1>3, <1>8, SizeIs
<1>10. SizeOf(a) = f[m] /\ SizeOf(b) = g[n]
  BY <1>1, <1>4, <1>5, SizeIs
<1>11. u[m + n] = f[m] + g[n]
  <2>1. CASE n = 0
    <3>1. u[m + n] = f[m] /\ g[n] = 0
      BY <1>5, <1>6, <2>1 DEF AddsUp
    <3> QED
      BY <1>7, <3>1
  <2>2. CASE n # 0
    BY <1>6, <2>2
  <2> QED
    BY <2>1, <2>2
<1> QED
  BY <1>2, <1>9, <1>10, <1>11

\* What is cut from the front makes it no larger.
LEMMA EndIsSmaller ==
    ASSUME NEW s \in Seq(Turns), NEW m \in 1 .. Len(s) + 1
    PROVE  SubSeq(s, m, Len(s)) \in Seq(Turns) /\ SizeOf(SubSeq(s, m, Len(s))) <= SizeOf(s)
<1>1. PICK n \in Nat : n = Len(s)
  OBVIOUS
<1>2. PICK a, b : a = SubSeq(s, 1, m - 1) /\ b = SubSeq(s, m, n)
  OBVIOUS
<1>3. m \in Nat \ {0} /\ m - 1 \in Nat /\ m - 1 <= n /\ 1 \in Nat \ {0} /\ n <= Len(s)
  BY <1>1
<1>4. a \in Seq(Turns) /\ b \in Seq(Turns)
  BY <1>1, <1>2, <1>3, StretchIs
<1>5. a \o b = s
  <2>1. m \in 1 .. n + 1 /\ 1 \in 1 .. n + 1 /\ m - 1 \in (1 - 1) .. n /\ n \in (m - 1) .. n
        /\ m = (m - 1) + 1
    BY <1>1, <1>3
  <2>2. SubSeq(s, 1, m - 1) \o SubSeq(s, (m - 1) + 1, n) = SubSeq(s, 1, n)
    BY <1>1, <2>1, ConcatAdjacentSubSeq
  <2> QED
    BY <1>1, <1>2, <2>1, <2>2, SubSeqFull
<1>6. SizeOf(s) = SizeOf(a) + SizeOf(b)
  BY <1>4, <1>5, SizesJoin
<1>7. SizeOf(a) \in Nat /\ SizeOf(b) \in Nat
  BY <1>4, SizeIsNat
<1> QED
  BY <1>1, <1>2, <1>4, <1>6, <1>7

-----------------------------------------------------------------------------
\* The names of the tools are as many as the uses that are kept, at most.
LEMMA ToolsAreFinite ==
    ASSUME NEW h, Sendable(h), ConversionInv
    PROVE  IsFiniteSet(DefinedTools(h))
<1>1. PICK n \in Nat : n = Len(h)
  BY DEF Sendable
<1>2. DOMAIN h = 1 .. n
  BY <1>1 DEF Sendable
<1>3. PICK names : names = {u.name : u \in UNION {ToSet(h[i].uses) : i \in DOMAIN h}}
  OBVIOUS
<1>4. \A i \in 1 .. n : i # n => ToSet(h[i].uses) = {}
  <2>1. \A i \in 1 .. n : i # n => h[i].uses = <<>>
    BY <1>1 DEF Sendable
  <2>2. ToSet(<<>>) = {}
    BY DEF ToSet
  <2> QED
    BY <2>1, <2>2
<1>5. IsFiniteSet(names)
  <2>1. CASE n = 0
    <3>1. names = {}
      BY <1>2, <1>3, <2>1
    <3> QED
      BY <3>1, FS_EmptySet
  <2>2. CASE n # 0
    <3>1. h[n] \in Turns
      BY <1>1, <2>2 DEF Sendable
    <3>2. PICK uses : uses = h[n].uses
      OBVIOUS
    <3>3. uses \in Seq([id : STRING, name : STRING])
      BY <3>1, <3>2 DEF Turns, Uses
    <3>4. PICK m \in Nat : m = Len(uses)
      BY <3>3
    <3>5. UNION {ToSet(h[i].uses) : i \in DOMAIN h} = ToSet(uses)
      <4>1. n \in DOMAIN h
        BY <1>2, <2>2
      <4>2. \A i \in DOMAIN h : ToSet(h[i].uses) \subseteq ToSet(uses)
        BY <1>2, <1>4, <3>2
      <4> QED
        BY <3>2, <4>1, <4>2
    <3>6. ToSet(uses) = {uses[k] : k \in 1 .. m}
      BY <3>3, <3>4 DEF ToSet
    <3>7. names = {uses[k].name : k \in 1 .. m}
      BY <1>3, <3>5, <3>6
    <3>8. PICK f : f = [k \in 1 .. m |-> uses[k].name]
      OBVIOUS
    <3>9. f \in Surjection(1 .. m, names)
      BY <3>7, <3>8 DEF Surjection, Range
    <3>10. IsFiniteSet(1 .. m)
      BY FS_Interval
    <3> QED
      BY <3>9, <3>10, FS_Surjection
  <2> QED
    BY <2>1, <2>2
<1>6. IsFiniteSet(tools)
  BY ConversionAssumption, FS_Subset DEF ConversionInv
<1>7. DefinedTools(h) = tools \cup names
  BY <1>3 DEF DefinedTools
<1> QED
  BY <1>5, <1>6, <1>7, FS_Union

\* What the body has besides the history.
Around(c) ==
    1 + Cardinality(c.tools) + Len(c.results) + (IF c.image THEN 1 ELSE 0) + Len(c.content)

LEMMA AroundIsNat ==
    ASSUME NEW c, NEW h, NEW last, NEW answered, Sendable(h), ConversionInv,
           Attached(c, h, last, answered)
    PROVE  Around(c) \in Nat /\ Len(c.content) \in Nat /\ Len(c.content) <= Around(c)
<1>1. IsFiniteSet(c.tools)
  BY ToolsAreFinite DEF Attached
<1>2. Cardinality(c.tools) \in Nat
  BY <1>1, FS_CardinalityType
<1>3. Len(c.results) \in Nat /\ Len(c.content) \in Nat
  <2>1. c.results \in Seq(Parts) /\ c.content \in Seq(Parts)
    BY DEF Attached
  <2> QED
    BY <2>1
<1>4. PICK image \in {0, 1} : image = IF c.image THEN 1 ELSE 0
  OBVIOUS
<1>5. PICK i \in Nat, j \in Nat, k \in Nat :
          i = Cardinality(c.tools) /\ j = Len(c.results) /\ k = Len(c.content)
  BY <1>2, <1>3
<1>6. Around(c) = 1 + i + j + image + k
  BY <1>4, <1>5 DEF Around
<1>7. PICK sum \in Nat : sum = 1 + i + j + image + k /\ k <= sum
  BY <1>4, <1>5
<1>8. Around(c) = sum
  BY <1>6, <1>7
<1> QED
  BY <1>5, <1>7, <1>8

\* Another history makes another body, all else the same.
LEMMA BodyWith ==
    ASSUME NEW c, NEW h, NEW last, NEW answered, Attached(c, h, last, answered), NEW x, NEW d,
           d = [c EXCEPT !.history = x]
    PROVE  /\ d.history = x /\ d.results = c.results /\ d.content = c.content
           /\ d.image = c.image /\ d.tools = c.tools
           /\ d = [history |-> x, results |-> c.results, content |-> c.content,
                   image |-> c.image, tools |-> c.tools]
           /\ BodySize(d) = Around(c) + SizeOf(x)
<1>1. PICK results, content, image, names :
          results = c.results /\ content = c.content /\ image = c.image /\ names = c.tools
  OBVIOUS
<1>2. c = [history |-> h, results |-> results, content |-> content, image |-> image, tools |-> names]
  BY <1>1 DEF Attached
<1>3. d = [history |-> x, results |-> results, content |-> content, image |-> image, tools |-> names]
  BY <1>2
<1>4. d.history = x /\ d.results = c.results /\ d.content = c.content
      /\ d.image = c.image /\ d.tools = c.tools
  BY <1>1, <1>3
<1>5. BodySize(d) = Around(c) + SizeOf(x)
  BY <1>4, Zenon DEF BodySize, Around
<1> QED
  BY <1>1, <1>3, <1>4, <1>5

-----------------------------------------------------------------------------
\* Where the loop stops: it keeps MIN_RECENT_MESSAGES turns, or all there are, and more
\* only while they fit.
KeepsFrom(turns, base, limit, from) ==
    /\ from \in 1 .. Len(turns) + 1
    /\ from = 1 \/ from <= Len(turns) - MIN_RECENT_MESSAGES + 1
    /\ Len(turns) - from + 1 > MIN_RECENT_MESSAGES =>
           base + SizeOf(SubSeq(turns, from, Len(turns))) <= limit

LEMMA KeepFromIs ==
    ASSUME NEW turns \in Seq(Turns), NEW base, NEW limit
    PROVE  KeepsFrom(turns, base, limit, KeepFrom(turns, base, limit))
<1>1. PICK n \in Nat : n = Len(turns)
  OBVIOUS
<1>2. PICK min \in Nat \ {0, 1} : min = MIN_RECENT_MESSAGES
  BY BudgetAssumption
<1> DEFINE Stays(j) == base + SizeOf(SubSeq(turns, j, n)) <= limit \/ n - j + 1 <= min
<1>3. PICK S : S = {n + 1} \cup {i \in 1 .. n : \A j \in i .. n : Stays(j)}
  OBVIOUS
<1>4. PICK from : from = Min(S)
  OBVIOUS
<1>5. KeepFrom(turns, base, limit) = from
  BY <1>1, <1>2, <1>3, <1>4 DEF KeepFrom
<1>6. S \subseteq Nat /\ S # {}
  BY <1>3
<1>7. from \in S /\ \A i \in S : from <= i
  BY <1>4, <1>6, LeastIs
<1>8. from \in 1 .. n + 1
  BY <1>3, <1>7
<1>9. n - from + 1 > min => base + SizeOf(SubSeq(turns, from, n)) <= limit
  <2> SUFFICES ASSUME n - from + 1 > min PROVE base + SizeOf(SubSeq(turns, from, n)) <= limit
    OBVIOUS
  <2>1. from # n + 1
    BY <1>2
  <2>2. from \in 1 .. n /\ \A j \in from .. n : Stays(j)
    BY <1>3, <1>7, <2>1
  <2>3. Stays(from)
    BY <2>2
  <2>4. ~(n - from + 1 <= min)
    BY <1>2, <1>8
  <2> QED
    BY <2>3, <2>4
<1>10. from = 1 \/ from <= n - min + 1
  <2>1. CASE n <= min
    <3>1. \A j \in 1 .. n : n - j + 1 <= min
      BY <1>2, <2>1
    <3>2. 1 \in S
      <4>1. CASE n = 0
        BY <1>3, <4>1
      <4>2. CASE n # 0
        BY <1>3, <3>1, <4>2
      <4> QED
        BY <4>1, <4>2
    <3> QED
      BY <1>7, <1>8, <3>2
  <2>2. CASE ~(n <= min)
    <3>1. n - min + 1 \in 1 .. n /\ \A j \in n - min + 1 .. n : n - j + 1 <= min
      BY <1>2, <2>2
    <3>2. n - min + 1 \in S
      BY <1>3, <3>1
    <3> QED
      BY <1>7, <3>2
  <2> QED
    BY <2>1, <2>2
<1> QED
  BY <1>1, <1>2, <1>5, <1>8, <1>9, <1>10 DEF KeepsFrom

-----------------------------------------------------------------------------
(* What of a history is dropped. *)

HasUses(h) == Len(h) > 0 /\ h[Len(h)].uses # <<>>

\* The first p turns of h are those of the system prompt.
PrimedBy(h, p) ==
    /\ p \in {0, 2} /\ p <= Len(h)
    /\ system <=> p = 2
    /\ p + 1 <= Len(h) => h[p + 1].role = "user"
    /\ \A i \in 1 .. p : h[i].uses = <<>>
    /\ HasUses(h) => Len(h) - 1 \in p + 1 .. Len(h) /\ h[Len(h) - 1].role = "user"

LEMMA PrimingCounted == ASSUME NEW h, Sendable(h) PROVE PrimedBy(h, system_priming_count(h))
<1>1. PICK n \in Nat : n = Len(h)
  BY DEF Sendable
<1>2. PICK p : p = system_priming_count(h)
  OBVIOUS
<1>3. /\ \A i \in 1 .. n : h[i] \in Turns
      /\ \A i \in 1 .. n : h[i].role = "assistant" => i > 1 /\ h[i - 1].role = "user"
  BY <1>1 DEF Sendable, Paired
<1>4. system => n >= 2 /\ h[1] = UserTurn(<<"system">>, FALSE, <<>>) /\ h[2] = AssistantTurn(<<"follow">>, <<>>)
  BY <1>1 DEF Sendable, Primed
<1>5. /\ UserTurn(<<"system">>, FALSE, <<>>).role = "user" /\ UserTurn(<<"system">>, FALSE, <<>>).uses = <<>>
      /\ AssistantTurn(<<"follow">>, <<>>).role = "assistant" /\ AssistantTurn(<<"follow">>, <<>>).uses = <<>>
  BY DEF UserTurn, AssistantTurn
<1>6. p \in {0, 2} /\ p <= n /\ (system <=> p = 2)
  <2>1. CASE system
    <3>1. n >= 2 /\ h[1].role = "user" /\ h[2] = AssistantTurn(<<"follow">>, <<>>)
      BY <1>4, <1>5, <2>1
    <3>2. p = 2
      BY <1>1, <1>2, <2>1, <3>1 DEF system_priming_count
    <3> QED
      BY <2>1, <3>1, <3>2
  <2>2. CASE ~system
    <3>1. p = 0
      BY <1>2, <2>2 DEF system_priming_count
    <3> QED
      BY <2>2, <3>1
  <2> QED
    BY <2>1, <2>2
<1>7. \A i \in 1 .. n : h[i].role \in {"user", "assistant"}
  BY <1>3 DEF Turns
<1>8. p = 2 => h[1].role = "user" /\ h[2].role = "assistant" /\ h[1].uses = <<>> /\ h[2].uses = <<>> /\ n >= 2
  BY <1>4, <1>5, <1>6
<1>9. p + 1 <= n => h[p + 1].role = "user"
  <2> SUFFICES ASSUME p + 1 <= n, h[p + 1].role # "user" PROVE FALSE
    OBVIOUS
  <2>1. p + 1 \in 1 .. n
    BY <1>6
  <2>2. h[p + 1].role = "assistant"
    BY <1>7, <2>1
  <2>3. p + 1 > 1 /\ h[(p + 1) - 1].role = "user"
    BY <1>3, <2>1, <2>2
  <2>4. p = 2 /\ (p + 1) - 1 = 2
    BY <1>6, <2>3
  <2> QED
    BY <1>8, <2>3, <2>4
<1>10. \A i \in 1 .. p : h[i].uses = <<>>
  <2>1. CASE p = 0
    BY <2>1
  <2>2. CASE p = 2
    <3>1. \A i \in 1 .. 2 : i = 1 \/ i = 2
      OBVIOUS
    <3> QED
      BY <1>8, <2>2, <3>1
  <2> QED
    BY <1>6, <2>1, <2>2
<1>11. HasUses(h) => n - 1 \in p + 1 .. n /\ h[n - 1].role = "user"
  <2> SUFFICES ASSUME n > 0, h[n].uses # <<>> PROVE n - 1 \in p + 1 .. n /\ h[n - 1].role = "user"
    BY <1>1 DEF HasUses
  <2>1. n \in 1 .. n
    OBVIOUS
  <2>2. CleanTurn(h[n])
    BY <1>1, <2>1 DEF Sendable
  <2>3. h[n].role = "assistant"
    BY <1>7, <2>1, <2>2 DEF CleanTurn
  <2>4. n > 1 /\ h[n - 1].role = "user"
    BY <1>3, <2>1, <2>3
  <2>5. CASE p = 0
    BY <2>4, <2>5
  <2>6. CASE p = 2
    <3>1. n # 2 /\ n - 1 # 2
      BY <1>8, <2>4, <2>6
    <3>2. n >= 4
      BY <1>8, <2>4, <2>6, <3>1
    <3> QED
      BY <2>4, <2>6, <3>2
  <2> QED
    BY <1>6, <2>5, <2>6
<1> QED
  BY <1>1, <1>2, <1>6, <1>9, <1>10, <1>11 DEF PrimedBy

\* t has the turns of h from q on.
Ending(h, q, t) ==
    /\ t \in Seq(Turns) /\ q \in 1 .. Len(h) + 1 /\ Len(t) = Len(h) - q + 1
    /\ \A i \in 1 .. Len(h) - q + 1 : t[i] = h[q - 1 + i]

LEMMA EndingIs ==
    ASSUME NEW h \in Seq(Turns), NEW q \in 1 .. Len(h) + 1
    PROVE  Ending(h, q, SubSeq(h, q, Len(h)))
<1>1. PICK n \in Nat : n = Len(h)
  OBVIOUS
<1>2. PICK t : t = SubSeq(h, q, n)
  OBVIOUS
<1>3. q \in Nat \ {0} /\ n <= Len(h) /\ q <= n + 1
  BY <1>1
<1>4. t \in Seq(Turns) /\ Stretch(h, q, n, t)
  BY <1>2, <1>3, StretchIs
<1>5. Len(t) = n - q + 1
  BY <1>3, <1>4 DEF Stretch
<1>6. \A i \in 1 .. n - q + 1 : t[i] = h[q - 1 + i]
  <2>1. \A i \in 1 .. n - q + 1 : q + i - 1 = q - 1 + i
    BY <1>3
  <2> QED
    BY <1>4, <2>1 DEF Stretch
<1> QED
  BY <1>1, <1>2, <1>4, <1>5, <1>6 DEF Ending

LEMMA EndingOfEnding ==
    ASSUME NEW h \in Seq(Turns), NEW q, NEW s, Ending(h, q, s), NEW m, NEW t, Ending(s, m, t)
    PROVE  Ending(h, q + m - 1, t)
<1>0. s \in Seq(Turns)
  BY DEF Ending
<1>1. PICK n \in Nat, l \in Nat : n = Len(h) /\ l = Len(s)
  BY <1>0
<1>2. q \in 1 .. n + 1 /\ l = n - q + 1 /\ m \in 1 .. l + 1 /\ Len(t) = l - m + 1 /\ t \in Seq(Turns)
  BY <1>1 DEF Ending
<1>3. PICK r : r = q + m - 1
  OBVIOUS
<1>4. r \in 1 .. n + 1 /\ l - m + 1 = n - r + 1
  BY <1>2, <1>3
<1>5. ASSUME NEW i \in 1 .. n - r + 1 PROVE t[i] = h[r - 1 + i]
  <2>1. i \in 1 .. l - m + 1 /\ m - 1 + i \in 1 .. n - q + 1
    BY <1>2, <1>4
  <2>2. PICK j : j = m - 1 + i
    OBVIOUS
  <2>3. t[i] = s[j] /\ s[j] = h[q - 1 + j]
    BY <1>1, <2>1, <2>2 DEF Ending
  <2>4. q - 1 + j = r - 1 + i
    BY <1>2, <1>3, <2>1, <2>2
  <2> QED
    BY <2>3, <2>4
<1> QED
  BY <1>1, <1>2, <1>3, <1>4, <1>5 DEF Ending

-----------------------------------------------------------------------------
\* Where what stays begins: at a turn of a user, before the uses there are.
StaysFrom(h, p, q) ==
    /\ q \in p + 1 .. Len(h) + 1
    /\ q <= Len(h) => h[q].role = "user"
    /\ HasUses(h) => q < Len(h)

LEMMA TailBegins ==
    ASSUME NEW h, Sendable(h), NEW p, PrimedBy(h, p), NEW conversation, Ending(h, p + 1, conversation),
           NEW from, from \in 1 .. Len(conversation) + 1,
           from = 1 \/ from <= Len(conversation) - MIN_RECENT_MESSAGES + 1,
           NEW s, Ending(conversation, from, s), NEW m, NEW t, FollowsUser(s, m, t)
    PROVE  Ending(h, p + from + m - 1, t) /\ StaysFrom(h, p, p + from + m - 1)
<1>1. PICK N \in Nat, n \in Nat, l \in Nat : N = Len(h) /\ n = Len(conversation) /\ l = Len(s)
  BY DEF Sendable, Ending
<1>2. h \in Seq(Turns) /\ s \in Seq(Turns) /\ conversation \in Seq(Turns)
  BY DEF Sendable, Ending
<1>3. /\ p \in {0, 2} /\ p \in Nat /\ p <= N /\ n = N - p
      /\ from \in 1 .. n + 1 /\ from \in Nat /\ l = n - from + 1
  <2>1. n = N - (p + 1) + 1 /\ p \in {0, 2} /\ p <= N
    BY <1>1 DEF Ending, PrimedBy
  <2>2. from \in 1 .. n + 1 /\ l = n - from + 1
    BY <1>1 DEF Ending
  <2>3. p \in Nat
    BY <2>1
  <2>4. from \in Nat
    BY <1>1, <2>2
  <2>5. n = N - p
    BY <1>1, <2>1, <2>3
  <2> QED
    BY <2>1, <2>2, <2>3, <2>4, <2>5
<1>4. /\ m \in 1 .. l + 1 /\ m \in Nat /\ t = SubSeq(s, m, l)
      /\ m <= l => s[m].role = "user"
      /\ \A i \in 1 .. m - 1 : s[i].role # "user"
  <2>1. /\ m \in 1 .. l + 1 /\ t = SubSeq(s, m, l)
        /\ m <= l => s[m].role = "user"
        /\ \A i \in 1 .. m - 1 : s[i].role # "user"
    BY <1>1 DEF FollowsUser
  <2>2. m \in Nat
    BY <1>1, <2>1
  <2> QED
    BY <2>1, <2>2
<1>5. Ending(s, m, t)
  BY <1>1, <1>2, <1>4, EndingIs
<1>6. PICK b : b = (p + 1) + from - 1
  OBVIOUS
<1>7. Ending(h, b, s)
  BY <1>2, <1>6, EndingOfEnding
<1>8. Ending(h, b + m - 1, t)
  BY <1>2, <1>5, <1>7, EndingOfEnding
<1>9. PICK q : q = p + from + m - 1
  OBVIOUS
<1>10. b = p + from /\ b + m - 1 = q /\ b \in Nat /\ N - b + 1 = l
  <2>1. b = p + from /\ b \in Nat
    BY <1>3, <1>6
  <2>2. b + m - 1 = q
    BY <1>3, <1>4, <1>9, <2>1
  <2>3. N - b + 1 = l
    BY <1>1, <1>3, <2>1
  <2> QED
    BY <2>1, <2>2, <2>3
<1>11. q \in p + 1 .. N + 1
  <2>1. l = (N - p) - from + 1 /\ from >= 1 /\ m >= 1 /\ m <= l + 1
    BY <1>1, <1>3, <1>4
  <2> QED
    BY <1>1, <1>3, <1>4, <1>9, <2>1
<1>12. \A i \in 1 .. l : s[i] = h[b - 1 + i]
  BY <1>1, <1>7, <1>10 DEF Ending
<1>13. q <= N => h[q].role = "user"
  <2> SUFFICES ASSUME q <= N PROVE h[q].role = "user"
    OBVIOUS
  <2>1. p + from + m - 1 <= N /\ l = (N - p) - from + 1
    BY <1>3, <1>9
  <2>2. m <= l
    BY <1>1, <1>3, <1>4, <2>1
  <2>3. b - 1 + m = q
    BY <1>3, <1>4, <1>9, <1>10
  <2>4. m \in 1 .. l
    BY <1>4, <2>2
  <2> QED
    BY <1>4, <1>12, <2>2, <2>3, <2>4
<1>14. HasUses(h) => q < N
  <2> SUFFICES ASSUME HasUses(h) PROVE q < N
    OBVIOUS
  <2>1. N - 1 \in p + 1 .. N /\ h[N - 1].role = "user"
    BY <1>1 DEF PrimedBy
  <2>2. from <= n - 1
    <3>1. PICK min \in Nat \ {0, 1} : min = MIN_RECENT_MESSAGES
      BY BudgetAssumption
    <3>2. from = 1 \/ from <= n - min + 1
      BY <1>1, <3>1
    <3>3. n >= 2
      BY <1>1, <1>3, <2>1
    <3> QED
      BY <1>1, <1>3, <3>1, <3>2, <3>3
  <2>3. n - from \in 1 .. l /\ b - 1 + (n - from) = N - 1
    BY <1>3, <1>10, <2>2
  <2>4. s[n - from].role = "user"
    BY <1>12, <2>1, <2>3
  <2>5. m <= n - from
    BY <1>4, <2>3, <2>4
  <2> QED
    BY <1>3, <1>4, <1>9, <2>3, <2>5
<1> QED
  BY <1>1, <1>8, <1>9, <1>10, <1>11, <1>13, <1>14 DEF StaysFrom

-----------------------------------------------------------------------------
(* The history that takes its place. *)

LEMMA PlaceholderIs ==
    /\ Placeholder \in Turns /\ Placeholder.role = "user" /\ Substantial(Placeholder)
    /\ Placeholder.uses = <<>> /\ Placeholder.results = <<>>
<1>1. "truncated" \in Parts
  BY DEF Parts
<1>2. <<"truncated">> \in Seq(Parts) /\ <<"truncated">> # <<>>
  BY <1>1, OneAlone
<1>3. <<>> \in Seq(Parts)
  BY EmptySeq
<1>4. UserSays(Placeholder, <<"truncated">>, FALSE, <<>>)
  BY <1>2, <1>3, UserTurnIs DEF Placeholder
<1> QED
  BY <1>2, <1>4 DEF UserSays, Substantial

\* g is h without the turns from the p-th to the q-th, and tells of it.
Dropped(g, h, p, q) ==
    /\ g \in Seq(Turns) /\ Len(g) = p + 1 + (Len(h) - q + 1)
    /\ \A i \in 1 .. p : g[i] = h[i]
    /\ g[p + 1] = Placeholder
    /\ \A i \in 1 .. Len(h) - q + 1 : g[p + 1 + i] = h[q - 1 + i]

LEMMA TurnsJoin ==
    ASSUME NEW a \in Seq(Turns), NEW b \in Seq(Turns)
    PROVE  /\ a \o b \in Seq(Turns) /\ Len(a \o b) = Len(a) + Len(b)
           /\ \A i \in 1 .. Len(a) + Len(b) : (a \o b)[i] = IF i <= Len(a) THEN a[i] ELSE b[i - Len(a)]
  BY ConcatProperties

LEMMA DropsTurns ==
    ASSUME NEW h \in Seq(Turns), NEW p \in {0, 2}, p <= Len(h), NEW q \in p + 1 .. Len(h) + 1,
           NEW t, Ending(h, q, t), NEW g, g = SubSeq(h, 1, p) \o <<Placeholder>> \o t
    PROVE  Dropped(g, h, p, q)
<1>1. PICK N \in Nat : N = Len(h)
  OBVIOUS
<1>2. PICK l : l = N - q + 1
  OBVIOUS
<1>3. l \in Nat /\ t \in Seq(Turns) /\ Len(t) = l /\ \A i \in 1 .. l : t[i] = h[q - 1 + i]
  BY <1>1, <1>2 DEF Ending
<1>4. PICK a : a = SubSeq(h, 1, p)
  OBVIOUS
<1>5. a \in Seq(Turns) /\ Len(a) = p /\ \A i \in 1 .. p : a[i] = h[i]
  <2>1. p \in Nat /\ 1 \in Nat \ {0}
    OBVIOUS
  <2>2. a \in Seq(Turns) /\ Stretch(h, 1, p, a)
    BY <1>4, <2>1, StretchIs
  <2>3. \A i \in 1 .. p : 1 + i - 1 = i /\ i \in 1 .. p - 1 + 1
    BY <2>1
  <2>4. Len(a) = p
    BY <2>1, <2>2 DEF Stretch
  <2>5. \A i \in 1 .. p : a[i] = h[i]
    BY <2>2, <2>3 DEF Stretch
  <2> QED
    BY <2>2, <2>4, <2>5
<1>6. PICK b : b = a \o <<Placeholder>>
  OBVIOUS
<1>7. b \in Seq(Turns) /\ Len(b) = p + 1 /\ b[p + 1] = Placeholder /\ \A i \in 1 .. p : b[i] = a[i]
  <2>1. <<Placeholder>> \in Seq(Turns) /\ Len(<<Placeholder>>) = 1 /\ <<Placeholder>>[1] = Placeholder
    BY PlaceholderIs
  <2>2. /\ b \in Seq(Turns) /\ Len(b) = p + 1
        /\ \A i \in 1 .. p + 1 : b[i] = IF i <= p THEN a[i] ELSE <<Placeholder>>[i - p]
    BY <1>5, <1>6, <2>1, ConcatProperties
  <2>3. p + 1 \in 1 .. p + 1 /\ ~(p + 1 <= p) /\ (p + 1) - p = 1
    OBVIOUS
  <2>4. \A i \in 1 .. p : i \in 1 .. p + 1 /\ i <= p
    OBVIOUS
  <2> QED
    BY <2>1, <2>2, <2>3, <2>4
<1>8. /\ g \in Seq(Turns) /\ Len(g) = p + 1 + l
      /\ \A i \in 1 .. p + 1 + l : g[i] = IF i <= p + 1 THEN b[i] ELSE t[i - (p + 1)]
  <2>0. b \in Seq(Turns) /\ t \in Seq(Turns)
    BY <1>3, <1>7
  <2>1. g = b \o t
    BY <1>4, <1>6
  <2>2. /\ g \in Seq(Turns) /\ Len(g) = Len(b) + Len(t)
        /\ \A i \in 1 .. Len(b) + Len(t) : g[i] = IF i <= Len(b) THEN b[i] ELSE t[i - Len(b)]
    <3>1. PICK u : u = b \o t
      OBVIOUS
    <3>2. /\ u \in Seq(Turns) /\ Len(u) = Len(b) + Len(t)
          /\ \A i \in 1 .. Len(b) + Len(t) : u[i] = IF i <= Len(b) THEN b[i] ELSE t[i - Len(b)]
      BY <2>0, <3>1, TurnsJoin
    <3>3. u = g
      BY <2>1, <3>1
    <3> QED
      BY <3>2, <3>3
  <2> QED
    BY <1>3, <1>7, <2>2
<1>9. \A i \in 1 .. p : g[i] = h[i]
  <2>1. \A i \in 1 .. p : i \in 1 .. p + 1 + l /\ i <= p + 1
    BY <1>3
  <2> QED
    BY <1>5, <1>7, <1>8, <2>1
<1>10. g[p + 1] = Placeholder
  <2>1. p + 1 \in 1 .. p + 1 + l /\ p + 1 <= p + 1
    BY <1>3
  <2>2. g[p + 1] = b[p + 1]
    BY <1>8, <2>1
  <2> QED
    BY <1>7, <2>2
<1>11. \A i \in 1 .. l : g[p + 1 + i] = h[q - 1 + i]
  <2>1. \A i \in 1 .. l : p + 1 + i \in 1 .. p + 1 + l /\ ~(p + 1 + i <= p + 1) /\ (p + 1 + i) - (p + 1) = i
    BY <1>3
  <2> QED
    BY <1>3, <1>8, <2>1
<1> QED
  BY <1>1, <1>2, <1>8, <1>9, <1>10, <1>11 DEF Dropped

\* What the upstream takes in the place of h.
Fits(g, h) ==
    /\ g \in Seq(Turns)
    /\ Paired(g)
    /\ \A i \in 1 .. Len(g) : Substantial(g[i]) /\ g[i].results = <<>>
    /\ \A i \in 1 .. Len(g) : g[i].uses # <<>> => i = Len(g) /\ HasUses(h) /\ g[i].uses = h[Len(h)].uses
    /\ HasUses(h) => Len(g) > 0 /\ g[Len(g)].uses = h[Len(h)].uses
    /\ system => Len(g) >= 2 /\ Len(h) >= 2 /\ g[1] = h[1] /\ g[2] = h[2]

LEMMA FitsItself == ASSUME NEW h, Sendable(h) PROVE Fits(h, h)
<1>1. PICK n \in Nat : n = Len(h)
  BY DEF Sendable
<1>2. h \in Seq(Turns) /\ Paired(h)
  BY DEF Sendable
<1>3. \A i \in 1 .. n : Substantial(h[i]) /\ h[i].results = <<>> /\ (h[i].uses # <<>> => i = n)
  BY <1>1 DEF Sendable, CleanTurn
<1>4. \A i \in 1 .. n : h[i].uses # <<>> => i = n /\ HasUses(h) /\ h[i].uses = h[n].uses
  BY <1>1, <1>3 DEF HasUses
<1>5. system => n >= 2
  BY <1>1 DEF Sendable, Primed
<1>6. HasUses(h) => n > 0
  BY <1>1 DEF HasUses
<1> QED
  BY <1>1, <1>2, <1>3, <1>4, <1>5, <1>6 DEF Fits

LEMMA DroppedFits ==
    ASSUME NEW h, Sendable(h), NEW p, PrimedBy(h, p), NEW q, StaysFrom(h, p, q), NEW g, Dropped(g, h, p, q)
    PROVE  Fits(g, h)
<1>1. PICK N \in Nat : N = Len(h)
  BY DEF Sendable
<1>2. PICK l : l = N - q + 1
  OBVIOUS
<1>3. p \in {0, 2} /\ p <= N /\ (system <=> p = 2) /\ q \in p + 1 .. N + 1 /\ l \in Nat
  BY <1>1, <1>2 DEF PrimedBy, StaysFrom
<1>4. g \in Seq(Turns) /\ Len(g) = p + 1 + l
      /\ (\A i \in 1 .. p : g[i] = h[i]) /\ g[p + 1] = Placeholder
      /\ \A i \in 1 .. l : g[p + 1 + i] = h[q - 1 + i]
  BY <1>1, <1>2 DEF Dropped
<1>5. PICK G \in Nat : G = p + 1 + l
  BY <1>3
<1>6. \A i \in 1 .. G : i \in 1 .. p \/ i = p + 1 \/ i - (p + 1) \in 1 .. l
  BY <1>3, <1>5
<1>7. \A i \in 1 .. l : q - 1 + i \in 1 .. N /\ (q - 1 + i = N <=> i = l)
  BY <1>2, <1>3
<1>8. \A i \in 1 .. N : Substantial(h[i]) /\ h[i].results = <<>> /\ (h[i].uses # <<>> => i = N)
  BY <1>1 DEF Sendable, CleanTurn
<1>9. \A i \in 1 .. N : h[i].role = "assistant" => i > 1 /\ h[i - 1].role = "user"
  BY <1>1 DEF Sendable, Paired
<1>10. ASSUME NEW i \in 1 .. G
       PROVE  /\ Substantial(g[i]) /\ g[i].results = <<>>
              /\ g[i].uses # <<>> => i = G /\ HasUses(h) /\ g[i].uses = h[N].uses
              /\ g[i].role = "assistant" => i > 1 /\ g[i - 1].role = "user"
  <2>1. CASE i \in 1 .. p
    <3>1. g[i] = h[i] /\ i \in 1 .. N /\ i - 1 \in 0 .. p
      BY <1>3, <1>4, <2>1
    <3>2. h[i].uses = <<>>
      BY <2>1 DEF PrimedBy
    <3>3. g[i].role = "assistant" => i > 1 /\ g[i - 1].role = "user"
      <4>1. i > 1 => i - 1 \in 1 .. p
        BY <1>3, <2>1
      <4> QED
        BY <1>4, <1>9, <3>1, <4>1
    <3> QED
      BY <1>8, <3>1, <3>2, <3>3
  <2>2. CASE i = p + 1
    <3>1. g[i] = Placeholder
      BY <1>4, <2>2
    <3> QED
      BY <3>1, PlaceholderIs
  <2>3. CASE i - (p + 1) \in 1 .. l
    <3>1. PICK k \in 1 .. l : k = i - (p + 1)
      BY <2>3
    <3>2. i = p + 1 + k /\ i - 1 = p + 1 + (k - 1) /\ i > 1
      BY <1>3, <3>1
    <3>3. PICK j : j = q - 1 + k
      OBVIOUS
    <3>4. g[i] = h[j] /\ j \in 1 .. N /\ (j = N <=> k = l)
      BY <1>4, <1>7, <3>2, <3>3
    <3>5. k = l => i = G
      BY <1>5, <3>2
    <3>6. h[j].uses # <<>> => i = G /\ HasUses(h) /\ h[j].uses = h[N].uses
      BY <1>1, <1>8, <3>4, <3>5 DEF HasUses
    <3>7. ASSUME h[j].role = "assistant" PROVE g[i - 1].role = "user"
      <4>1. h[j - 1].role = "user"
        BY <1>9, <3>4, <3>7
      <4>2. k # 1
        <5> SUFFICES ASSUME k = 1 PROVE FALSE
          OBVIOUS
        <5>1. j = q /\ q <= N
          BY <1>3, <3>3, <3>4
        <5>2. h[q].role = "user"
          BY <1>1, <5>1 DEF StaysFrom
        <5> QED
          BY <3>7, <5>1, <5>2
      <4>3. k - 1 \in 1 .. l /\ q - 1 + (k - 1) = j - 1
        BY <1>3, <3>3, <4>2
      <4>4. g[p + 1 + (k - 1)] = h[q - 1 + (k - 1)]
        BY <1>4, <4>3
      <4> QED
        BY <3>2, <4>1, <4>3, <4>4
    <3> QED
      BY <1>8, <3>2, <3>4, <3>6, <3>7
  <2> QED
    BY <1>6, <2>1, <2>2, <2>3
<1>11. HasUses(h) => G > 0 /\ g[G].uses = h[N].uses
  <2> SUFFICES ASSUME HasUses(h) PROVE G > 0 /\ g[G].uses = h[N].uses
    OBVIOUS
  <2>1. q < N
    BY <1>1 DEF StaysFrom
  <2>2. l \in 1 .. l /\ q - 1 + l = N
    BY <1>2, <1>3, <2>1
  <2>3. g[p + 1 + l] = h[q - 1 + l]
    BY <1>4, <2>2
  <2> QED
    BY <1>3, <1>5, <2>2, <2>3
<1>12. system => G >= 2 /\ N >= 2 /\ g[1] = h[1] /\ g[2] = h[2]
  <2> SUFFICES ASSUME p = 2 PROVE G >= 2 /\ N >= 2 /\ g[1] = h[1] /\ g[2] = h[2]
    BY <1>3
  <2>1. 1 \in 1 .. p /\ 2 \in 1 .. p
    OBVIOUS
  <2> QED
    BY <1>3, <1>4, <1>5, <2>1
<1>13. Len(g) = G
  BY <1>4, <1>5
<1>14. Paired(g)
  BY <1>10, <1>13 DEF Paired
<1> QED
  BY <1>1, <1>4, <1>10, <1>11, <1>12, <1>13, <1>14 DEF Fits

-----------------------------------------------------------------------------
\* Some of the last message is sent, or what must be said if there is room for none.
CutFrom(content, whole) == IsPrefix(content, whole) \/ content = Fallback

LEMMA NothingCut == ASSUME NEW s \in Seq(Parts) PROVE IsPrefix(s, s)
  BY DEF IsPrefix

LEMMA BeginsWith ==
    ASSUME NEW s \in Seq(Parts), NEW n \in Nat, n <= Len(s)
    PROVE  IsPrefix(SubSeq(s, 1, n), s)
<1>1. PICK t : t = SubSeq(s, 1, n)
  OBVIOUS
<1>2. 1 \in Nat \ {0}
  OBVIOUS
<1>3. t \in Seq(Parts) /\ Stretch(s, 1, n, t)
  BY <1>1, <1>2, StretchIs
<1>4. Len(t) = n
  BY <1>3 DEF Stretch
<1>5. SubSeq(t, 1, Len(t)) = t
  BY <1>3, SubSeqFull
<1> QED
  BY <1>1, <1>4, <1>5 DEF IsPrefix

\* d is c with another history.
Instead(d, c, x) ==
    /\ d.history = x /\ d.results = c.results /\ d.content = c.content
    /\ d.image = c.image /\ d.tools = c.tools
    /\ d = [history |-> x, results |-> c.results, content |-> c.content,
            image |-> c.image, tools |-> c.tools]
    /\ BodySize(d) = Around(c) + SizeOf(x)

LEMMA CutToFit ==
    ASSUME NEW c, NEW x, NEW d, Instead(d, c, x), x \in Seq(Turns),
           c.content \in Seq(Parts), Around(c) \in Nat, NEW limit \in Nat,
           NEW f, f = truncate_current_message_to_fit(d, limit)
    PROVE  /\ f.history = x /\ f.results = c.results /\ f.tools = c.tools
           /\ CutFrom(f.content, c.content)
<1>1. PICK k \in Nat : k = Len(c.content)
  OBVIOUS
<1>2. d.history = x /\ d.results = c.results /\ d.content = c.content /\ d.tools = c.tools
  BY DEF Instead
<1>3. BodySize(d) \in Nat
  <2>1. SizeOf(x) \in Nat
    BY SizeIsNat
  <2> QED
    BY <2>1 DEF Instead
<1>4. PICK rest \in Int : rest = BodySize(d) - k
  BY <1>3
<1>5. PICK budget \in Nat : budget = IF rest < limit THEN limit - rest ELSE 0
  <2>1. (IF rest < limit THEN limit - rest ELSE 0) \in Nat
    OBVIOUS
  <2> QED
    BY <2>1
<1>6. f = IF k <= budget THEN d
          ELSE [d EXCEPT !.content = IF budget = 0 THEN Fallback ELSE SubSeq(@, 1, budget)]
  BY <1>1, <1>2, <1>4, <1>5 DEF truncate_current_message_to_fit
<1>7. CASE k <= budget
  <2>1. f = d
    BY <1>6, <1>7
  <2> QED
    BY <1>2, <2>1, NothingCut DEF CutFrom
<1>8. CASE ~(k <= budget)
  <2>1. PICK content : content = IF budget = 0 THEN Fallback ELSE SubSeq(c.content, 1, budget)
    OBVIOUS
  <2>2. f = [d EXCEPT !.content = content]
    BY <1>2, <1>6, <1>8, <2>1
  <2>3. f.history = d.history /\ f.results = d.results /\ f.tools = d.tools /\ f.content = content
    <3>1. PICK results, image, names, whole :
              results = c.results /\ image = c.image /\ names = c.tools /\ whole = c.content
      OBVIOUS
    <3>2. d = [history |-> x, results |-> results, content |-> whole, image |-> image, tools |-> names]
      BY <3>1 DEF Instead
    <3>3. f = [history |-> x, results |-> results, content |-> content, image |-> image, tools |-> names]
      BY <2>2, <3>2
    <3> QED
      BY <3>2, <3>3
  <2>4. CutFrom(content, c.content)
    <3>1. CASE budget = 0
      BY <2>1, <3>1 DEF CutFrom
    <3>2. CASE budget # 0
      <4>1. budget <= Len(c.content)
        BY <1>1, <1>8
      <4>2. IsPrefix(SubSeq(c.content, 1, budget), c.content)
        BY <4>1, BeginsWith
      <4> QED
        BY <2>1, <3>2, <4>2 DEF CutFrom
    <3> QED
      BY <3>1, <3>2
  <2> QED
    BY <1>2, <2>3, <2>4
<1> QED
  BY <1>7, <1>8

-----------------------------------------------------------------------------
\* Which history takes the place of h, and that turns stay only while they fit.
Shortens(g, h, around, limit) ==
    /\ g \in Seq(Turns)
    /\ \/ g = h
       \/ \E p, q : /\ PrimedBy(h, p) /\ StaysFrom(h, p, q) /\ Dropped(g, h, p, q)
                    /\ around + SizeOf(g) > limit => Len(h) - q + 1 <= MIN_RECENT_MESSAGES

LEMMA MoreIsMore ==
    \A a, i, j, k, l \in Nat : l < a + (i + j) /\ j <= k => ~(a + i + k <= l)
  OBVIOUS

\* The turns that stay are few, where they do not fit.
LEMMA FewStay ==
    ASSUME NEW h \in Seq(Turns), NEW p, PrimedBy(h, p), NEW around \in Nat, NEW limit \in Nat,
           NEW conversation, Ending(h, p + 1, conversation), NEW base,
           NEW from, KeepsFrom(conversation, base, limit, from),
           NEW s, Ending(conversation, from, s), NEW m, NEW t, FollowsUser(s, m, t),
           NEW b \in Seq(Turns), base = around + SizeOf(b), around + SizeOf(b \o t) > limit
    PROVE  Len(h) - (p + from + m - 1) + 1 <= MIN_RECENT_MESSAGES
<1>0. s \in Seq(Turns) /\ conversation \in Seq(Turns)
  BY DEF Ending
<1>1. PICK n \in Nat, l \in Nat, min \in Nat :
          n = Len(conversation) /\ l = Len(s) /\ min = MIN_RECENT_MESSAGES
  BY <1>0, BudgetAssumption
<1>2. PICK f \in 1 .. n + 1 : f = from
  BY <1>1 DEF KeepsFrom
<1>3. PICK P \in Nat : P = p
  BY DEF PrimedBy
<1>4. P + 1 \in 1 .. Len(h) + 1 /\ n = Len(h) - (P + 1) + 1
  BY <1>1, <1>3 DEF Ending
<1>5. l = n - f + 1
  BY <1>1, <1>2 DEF Ending
<1>6. PICK M \in 1 .. l + 1 : M = m
  BY <1>1 DEF FollowsUser
<1>7. t = SubSeq(s, M, Len(s)) /\ M \in 1 .. Len(s) + 1
  BY <1>1, <1>6 DEF FollowsUser
<1>8. t \in Seq(Turns) /\ SizeOf(t) <= SizeOf(s)
  BY <1>0, <1>7, EndIsSmaller
<1>9. PICK i \in Nat, j \in Nat, k \in Nat : i = SizeOf(b) /\ j = SizeOf(t) /\ k = SizeOf(s)
  BY <1>0, <1>8, SizeIsNat
<1>10. SizeOf(b \o t) = SizeOf(b) + SizeOf(t)
  BY <1>8, SizesJoin
<1>11. around + (i + j) > limit /\ j <= k
  BY <1>8, <1>9, <1>10
<1>12. ~(around + i + k <= limit)
  <2>1. PICK A \in Nat, L \in Nat : A = around /\ L = limit
    OBVIOUS
  <2>2. L < A + (i + j) /\ j <= k
    BY <1>11, <2>1
  <2>3. ~(A + i + k <= L)
    BY <1>9, <2>1, <2>2, MoreIsMore
  <2> QED
    BY <2>1, <2>3
<1>13. n - f + 1 > min => around + i + SizeOf(SubSeq(conversation, f, n)) <= limit
  BY <1>1, <1>2, <1>9 DEF KeepsFrom
<1>14. SubSeq(conversation, f, n) = s
  <2>1. Ending(conversation, f, SubSeq(conversation, f, n))
    BY <1>0, <1>1, <1>2, EndingIs
  <2>2. PICK u : u = SubSeq(conversation, f, n)
    OBVIOUS
  <2>3. u \in Seq(Turns) /\ Len(u) = n - f + 1 /\ \A x \in 1 .. n - f + 1 : u[x] = conversation[f - 1 + x]
    BY <1>1, <2>1, <2>2 DEF Ending
  <2>4. Len(s) = n - f + 1 /\ \A x \in 1 .. n - f + 1 : s[x] = conversation[f - 1 + x]
    BY <1>1, <1>2 DEF Ending
  <2> QED
    BY <1>0, <2>2, <2>3, <2>4, SeqEqual
<1>15. ~(n - f + 1 > min)
  BY <1>9, <1>12, <1>13, <1>14
<1>16. l <= min
  BY <1>1, <1>2, <1>5, <1>15
<1>17. l - M + 1 <= min
  BY <1>1, <1>6, <1>16
<1>18. PICK N \in Nat : N = Len(h)
  OBVIOUS
<1>19. N - (P + f + M - 1) + 1 = l - M + 1
  BY <1>1, <1>2, <1>3, <1>4, <1>5, <1>6, <1>18
<1> QED
  BY <1>1, <1>2, <1>3, <1>6, <1>17, <1>18, <1>19

\* s is what comes after the turns of the system prompt, the first p.
AfterPriming(h, p, s) ==
    Ending(h, p + 1, s)

\* What comes after the turns of the system prompt begins with a user's turn.
LEMMA NoneDropped ==
    ASSUME NEW h \in Seq(Turns), NEW p, PrimedBy(h, p), NEW s, AfterPriming(h, p, s),
           NEW m, NEW t, FollowsUser(s, m, t)
    PROVE  SubSeq(h, 1, p) \o t = h
<1>1. PICK N \in Nat : N = Len(h)
  OBVIOUS
<1>2. p \in {0, 2} /\ p \in Nat /\ p <= N
  BY <1>1 DEF PrimedBy
<1>3. p + 1 \in 1 .. N + 1
  BY <1>1, <1>2
<1>4. Ending(h, p + 1, SubSeq(h, p + 1, N))
  BY <1>1, <1>3, EndingIs
<1>5. s \in Seq(Turns) /\ Len(s) = N - (p + 1) + 1
  BY <1>1 DEF AfterPriming, Ending
<1>6. PICK l \in Nat : l = Len(s) /\ l = N - p
  <2>1. N - (p + 1) + 1 = N - p /\ N - p \in Nat
    BY <1>1, <1>2
  <2> QED
    BY <1>5, <2>1
<1>7. PICK k \in 1 .. l + 1 : k = m
  BY <1>6 DEF FollowsUser
<1>8. k = 1
  <2> SUFFICES ASSUME k # 1 PROVE FALSE
    OBVIOUS
  <2>1. 1 \in 1 .. k - 1 /\ l >= 1
    <3>1. k \in Nat /\ 1 <= k /\ k <= l + 1
      BY <1>6, <1>7
    <3>2. k >= 2
      BY <3>1
    <3> QED
      BY <1>6, <3>1, <3>2
  <2>2. s[1].role # "user"
    BY <1>7, <2>1 DEF FollowsUser
  <2>3. 1 \in 1 .. N - (p + 1) + 1 /\ (p + 1) - 1 + 1 = p + 1 /\ p + 1 <= N
    BY <1>1, <1>2, <1>6, <2>1
  <2>4. s[1] = h[p + 1]
    <3>1. s[1] = h[(p + 1) - 1 + 1]
      BY <1>1, <2>3 DEF AfterPriming, Ending
    <3> QED
      BY <2>3, <3>1
  <2>5. h[p + 1].role = "user"
    BY <1>1, <2>3 DEF PrimedBy
  <2> QED
    BY <2>2, <2>4, <2>5
<1>9. t = s
  <2>1. t = SubSeq(s, 1, Len(s))
    BY <1>7, <1>8 DEF FollowsUser
  <2> QED
    BY <1>5, <2>1, SubSeqFull
<1>10. 1 \in 1 .. N + 1 /\ p \in (1 - 1) .. N /\ N \in p .. N
  BY <1>1, <1>2
<1>11. SubSeq(h, 1, p) \o SubSeq(h, p + 1, N) = SubSeq(h, 1, N)
  BY <1>1, <1>10, ConcatAdjacentSubSeq
<1>12. s = SubSeq(h, p + 1, N)
  <2>1. PICK u : u = SubSeq(h, p + 1, N)
    OBVIOUS
  <2>2. PICK r : r = p + 1
    OBVIOUS
  <2>3. u \in Seq(Turns) /\ Len(u) = N - r + 1 /\ \A i \in 1 .. N - r + 1 : u[i] = h[r - 1 + i]
    BY <1>1, <1>4, <2>1, <2>2, Zenon DEF Ending
  <2>4. Len(s) = N - r + 1 /\ \A i \in 1 .. N - r + 1 : s[i] = h[r - 1 + i]
    BY <1>1, <2>2, Zenon DEF AfterPriming, Ending
  <2> QED
    BY <1>5, <2>1, <2>3, <2>4, SeqEqual
<1> QED
  BY <1>1, <1>9, <1>11, <1>12, SubSeqFull

\* The history that takes the place of h, of which what comes after the first p turns stays
\* from the from-th on, and from that from the first turn of a user on.
Shorter(h, p, from, t) ==
    SubSeq(h, 1, p) \o (IF from > 1 THEN <<Placeholder>> ELSE <<>>) \o t

LEMMA SomeDropped ==
    ASSUME NEW h, Sendable(h), NEW p, PrimedBy(h, p), NEW around \in Nat, NEW limit \in Nat,
           NEW conversation, Ending(h, p + 1, conversation),
           NEW base, base = around + SizeOf(Append(SubSeq(h, 1, p), Placeholder)),
           NEW from, KeepsFrom(conversation, base, limit, from), from > 1,
           NEW s, Ending(conversation, from, s), NEW m, NEW t, FollowsUser(s, m, t)
    PROVE  Shortens(Shorter(h, p, from, t), h, around, limit)
<1>1. PICK N \in Nat, n \in Nat : N = Len(h) /\ n = Len(conversation)
  BY DEF Sendable, Ending
<1>2. h \in Seq(Turns)
  BY DEF Sendable
<1>3. p \in {0, 2} /\ p \in Nat /\ p <= N
  BY <1>1 DEF PrimedBy
<1>4. PICK q : q = p + from + m - 1
  OBVIOUS
<1>5. from \in 1 .. n + 1 /\ (from = 1 \/ from <= n - MIN_RECENT_MESSAGES + 1)
  BY <1>1 DEF KeepsFrom
<1>6. Ending(h, q, t) /\ StaysFrom(h, p, q)
  BY <1>1, <1>4, <1>5, TailBegins
<1>7. q \in p + 1 .. N + 1
  BY <1>1, <1>6 DEF StaysFrom
<1>8. PICK priming : priming = SubSeq(h, 1, p)
  OBVIOUS
<1>9. priming \in Seq(Turns)
  <2>1. 1 \in Nat \ {0} /\ p <= Len(h)
    BY <1>1, <1>3
  <2> QED
    BY <1>2, <1>3, <1>8, <2>1, StretchIs
<1>10. PICK b : b = priming \o <<Placeholder>>
  OBVIOUS
<1>11. b = Append(priming, Placeholder) /\ b \in Seq(Turns)
  BY <1>9, <1>10, PlaceholderIs, AppendIsConcat, AppendProperties
<1>12. PICK g : g = Shorter(h, p, from, t)
  OBVIOUS
<1>13. g = SubSeq(h, 1, p) \o <<Placeholder>> \o t
  BY <1>12 DEF Shorter
<1>14. Dropped(g, h, p, q)
  BY <1>1, <1>2, <1>3, <1>6, <1>7, <1>13, DropsTurns
<1>15. ASSUME around + SizeOf(g) > limit PROVE N - q + 1 <= MIN_RECENT_MESSAGES
  <2>1. g = b \o t
    BY <1>8, <1>10, <1>13
  <2>2. base = around + SizeOf(b)
    BY <1>8, <1>11
  <2>3. around + SizeOf(b \o t) > limit
    BY <1>15, <2>1
  <2>4. Len(h) - (p + from + m - 1) + 1 <= MIN_RECENT_MESSAGES
    BY <1>2, <1>11, <2>2, <2>3, FewStay
  <2> QED
    BY <1>1, <1>4, <2>4
<1>16. g \in Seq(Turns)
  BY <1>14 DEF Dropped
<1> QED
  BY <1>1, <1>6, <1>12, <1>14, <1>15, <1>16 DEF Shortens

LEMMA AllStay ==
    ASSUME NEW h \in Seq(Turns), NEW p, PrimedBy(h, p), NEW around, NEW limit,
           NEW s, AfterPriming(h, p, s), NEW from, ~(from > 1),
           NEW m, NEW t, FollowsUser(s, m, t)
    PROVE  Shortens(Shorter(h, p, from, t), h, around, limit)
<1>1. SubSeq(h, 1, p) \o t = h
  BY NoneDropped
<1>2. PICK priming : priming = SubSeq(h, 1, p)
  OBVIOUS
<1>3. priming \in Seq(Turns)
  <2>1. p \in Nat /\ 1 \in Nat \ {0} /\ p <= Len(h)
    BY DEF PrimedBy
  <2> QED
    BY <1>2, <2>1, StretchIs
<1>4. priming \o <<>> = priming
  BY <1>3, ConcatEmptySeq
<1>5. Shorter(h, p, from, t) = priming \o <<>> \o t
  BY <1>2, Zenon DEF Shorter
<1>6. Shorter(h, p, from, t) = h
  BY <1>1, <1>2, <1>4, <1>5
<1> QED
  BY <1>6 DEF Shortens

LEMMA ShortensHistory ==
    ASSUME NEW h, Sendable(h), NEW around \in Nat, NEW limit \in Nat,
           NEW p, p = system_priming_count(h),
           NEW conversation, conversation = SubSeq(h, p + 1, Len(h)),
           NEW base, base = around + SizeOf(Append(SubSeq(h, 1, p), Placeholder)),
           NEW from, from = KeepFrom(conversation, base, limit),
           NEW t, t = FromFirstUser(SubSeq(conversation, from, Len(conversation)))
    PROVE  Shortens(Shorter(h, p, from, t), h, around, limit)
<1>1. h \in Seq(Turns)
  BY DEF Sendable
<1>2. PrimedBy(h, p)
  BY PrimingCounted
<1>3. p + 1 \in 1 .. Len(h) + 1
  <2>1. Len(h) \in Nat /\ p \in {0, 2} /\ p <= Len(h)
    BY <1>1, <1>2 DEF PrimedBy
  <2>2. p \in Nat
    BY <2>1
  <2> QED
    BY <2>1, <2>2
<1>4. Ending(h, p + 1, conversation)
  BY <1>1, <1>3, EndingIs
<1>5. conversation \in Seq(Turns)
  BY <1>4 DEF Ending
<1>6. KeepsFrom(conversation, base, limit, from)
  BY <1>5, KeepFromIs
<1>7. PICK n \in Nat : n = Len(conversation)
  BY <1>5
<1>8. from \in 1 .. n + 1
  BY <1>6, <1>7 DEF KeepsFrom
<1>9. PICK s : s = SubSeq(conversation, from, n)
  OBVIOUS
<1>10. Ending(conversation, from, s)
  BY <1>5, <1>7, <1>8, <1>9, EndingIs
<1>11. s \in Seq(Turns)
  BY <1>10 DEF Ending
<1>12. t = FromFirstUser(s)
  BY <1>7, <1>9
<1>13. PICK m : FollowsUser(s, m, t)
  BY <1>11, <1>12, FirstUserIs
<1>14. CASE from > 1
  BY <1>2, <1>4, <1>6, <1>10, <1>13, <1>14, SomeDropped
<1>15. CASE ~(from > 1)
  <2>1. from = 1
    BY <1>8, <1>15
  <2>2. s = conversation
    <3>1. s = SubSeq(conversation, 1, Len(conversation))
      BY <1>7, <1>9, <2>1
    <3> QED
      BY <1>5, <3>1, SubSeqFull
  <2>3. AfterPriming(h, p, s)
    BY <1>4, <2>2, Zenon DEF AfterPriming
  <2> QED
    BY <1>1, <1>2, <1>13, <1>15, <2>3, AllStay
<1> QED
  BY <1>14, <1>15

-----------------------------------------------------------------------------
\* f is c, as much of it as fits.
FitsInto(f, c, h, limit) ==
    /\ f.results = c.results /\ f.tools = c.tools
    /\ CutFrom(f.content, c.content)
    /\ f.history \in Seq(Turns)
    /\ \/ f.history = h
       \/ \E p, q : /\ PrimedBy(h, p) /\ StaysFrom(h, p, q) /\ Dropped(f.history, h, p, q)
                    /\ f.content # c.content => Len(h) - q + 1 <= MIN_RECENT_MESSAGES

LEMMA TruncatedIs ==
    ASSUME NEW c, NEW h, NEW last, NEW answered, Sendable(h), ConversionInv,
           Attached(c, h, last, answered), NEW limit \in Nat,
           NEW f, f = truncate_payload_to_body_limit(c, limit)
    PROVE  FitsInto(f, c, h, limit)
<1>1. c.history = h /\ c.content \in Seq(Parts)
  BY DEF Attached
<1>2. PICK around \in Nat : around = Around(c)
  BY AroundIsNat
<1>3. PICK p : p = system_priming_count(h)
  OBVIOUS
<1>4. PICK conversation : conversation = SubSeq(h, p + 1, Len(h))
  OBVIOUS
<1>5. PICK base : base = around + SizeOf(Append(SubSeq(h, 1, p), Placeholder))
  OBVIOUS
<1>6. BodySize([c EXCEPT !.history = Append(SubSeq(h, 1, p), Placeholder)]) = base
  <2>1. PICK x : x = Append(SubSeq(h, 1, p), Placeholder)
    OBVIOUS
  <2>2. PICK e : e = [c EXCEPT !.history = x]
    OBVIOUS
  <2>3. BodySize(e) = Around(c) + SizeOf(x)
    BY <2>2, BodyWith
  <2>4. base = Around(c) + SizeOf(x)
    BY <1>2, <1>5, <2>1
  <2> QED
    BY <2>1, <2>2, <2>3, <2>4
<1>7. PICK from : from = KeepFrom(conversation, base, limit)
  OBVIOUS
<1>8. PICK t : t = FromFirstUser(SubSeq(conversation, from, Len(conversation)))
  OBVIOUS
<1>9. PICK g : g = Shorter(h, p, from, t)
  OBVIOUS
<1>10. PICK d : d = [c EXCEPT !.history = g]
  OBVIOUS
<1>11. f = IF BodySize(d) > limit THEN truncate_current_message_to_fit(d, limit) ELSE d
  BY <1>1, <1>3, <1>4, <1>6, <1>7, <1>8, <1>9, <1>10
     DEF truncate_payload_to_body_limit, drop_leading_assistant, Shorter
<1>12. Instead(d, c, g)
  BY <1>10, BodyWith DEF Instead
<1>13. Shortens(g, h, around, limit)
  BY <1>3, <1>4, <1>5, <1>7, <1>8, <1>9, ShortensHistory
<1>14. g \in Seq(Turns)
  BY <1>13 DEF Shortens
<1>15. /\ f.history = g /\ f.results = c.results /\ f.tools = c.tools
       /\ CutFrom(f.content, c.content)
       /\ f.content # c.content => around + SizeOf(g) > limit
  <2>1. CASE BodySize(d) > limit
    <3>1. f = truncate_current_message_to_fit(d, limit)
      BY <1>11, <2>1
    <3>2. around + SizeOf(g) > limit
      BY <1>2, <1>12, <2>1 DEF Instead
    <3>3. Around(c) \in Nat
      BY <1>2
    <3> QED
      BY <1>1, <1>12, <1>14, <3>1, <3>2, <3>3, CutToFit
  <2>2. CASE ~(BodySize(d) > limit)
    <3>1. f = d
      BY <1>11, <2>2
    <3>2. CutFrom(c.content, c.content)
      BY <1>1, NothingCut DEF CutFrom
    <3> QED
      BY <1>12, <3>1, <3>2 DEF Instead
  <2> QED
    BY <2>1, <2>2
<1> QED
  BY <1>13, <1>14, <1>15, Zenon DEF Shortens, FitsInto

LEMMA FittedIs ==
    ASSUME NEW c, NEW h, NEW last, NEW answered, Sendable(h), ConversionInv,
           Attached(c, h, last, answered), NEW limit \in Nat, NEW f, f = Fitted(c, limit)
    PROVE  FitsInto(f, c, h, limit)
<1>1. CASE limit = 0 \/ BodySize(c) <= limit
  <2>1. f = c
    BY <1>1 DEF Fitted
  <2>2. c.history = h /\ c.content \in Seq(Parts) /\ h \in Seq(Turns)
    BY DEF Attached, Sendable
  <2>3. CutFrom(c.content, c.content)
    BY <2>2, NothingCut DEF CutFrom
  <2> QED
    BY <2>1, <2>2, <2>3 DEF FitsInto
<1>2. CASE ~(limit = 0 \/ BodySize(c) <= limit)
  <2>1. f = truncate_payload_to_body_limit(c, limit)
    BY <1>2 DEF Fitted
  <2> QED
    BY <2>1, TruncatedIs
<1> QED
  BY <1>1, <1>2

-----------------------------------------------------------------------------
\* Whatever takes the place of the history, its uses are those that are answered.
LEMMA UsesStayAnswered ==
    ASSUME NEW c, NEW h, NEW last \in ClientMessages, NEW answered \in BOOLEAN, SentFor(c, h, last, answered),
           NEW f, Fits(f.history, h), f.results = c.results, f.tools = c.tools
    PROVE  UsesAnswered(f, Len(f.history))
<1>1. PICK g : g = f.history
  OBVIOUS
<1>2. Sendable(h) /\ Attached(c, h, last, answered)
  <2>1. Sendable(h) /\ c = Attach(h, last, answered)
    BY DEF SentFor
  <2> QED
    BY <2>1, AttachIs
<1>3. PICK N \in Nat, n \in Nat : N = Len(h) /\ n = Len(g)
  <2>1. h \in Seq(Turns) /\ g \in Seq(Turns)
    BY <1>1, <1>2 DEF Sendable, Fits
  <2> QED
    BY <2>1
<1>4. c.results = (IF answered THEN last.results ELSE <<>>) /\ c.results \in Seq(Parts)
      /\ c.tools = DefinedTools(h)
  BY <1>2 DEF Attached
<1>5. answered <=> HasUses(h)
  <2>1. CASE answered
    BY <2>1 DEF SentFor, HasUses
  <2>2. CASE ~answered
    <3>1. \A i \in 1 .. N : h[i].uses = <<>>
      BY <1>3, <2>2 DEF SentFor
    <3>2. ~HasUses(h)
      BY <1>3, <3>1 DEF HasUses
    <3> QED
      BY <2>2, <3>2
  <2> QED
    BY <2>1, <2>2
<1>6. ASSUME NEW i \in 1 .. n, g[i].uses # <<>>, NEW u \in ToSet(g[i].uses)
      PROVE  Contains(c.results, u.id) /\ u.name \in c.tools
  <2>1. HasUses(h) /\ g[i].uses = h[N].uses /\ N > 0
    BY <1>1, <1>3, <1>6 DEF Fits, HasUses
  <2>2. u \in ToSet(h[N].uses)
    BY <1>6, <2>1
  <2>3. u.id \in ToSet(c.results)
    BY <1>3, <1>4, <1>5, <2>1, <2>2 DEF SentFor
  <2>4. DOMAIN c.results = 1 .. Len(c.results)
    BY <1>4
  <2>5. Contains(c.results, u.id)
    BY <2>3, <2>4 DEF ToSet, Contains
  <2>6. N \in DOMAIN h
    BY <1>2, <1>3, <2>1 DEF Sendable
  <2>7. u.name \in c.tools
    BY <1>4, <2>2, <2>6 DEF DefinedTools
  <2> QED
    BY <2>5, <2>7
<1>7. \A i \in 1 .. n : g[i].uses # <<>> => i = n
  BY <1>1, <1>3 DEF Fits
<1>8. c.results # <<>> => n > 0 /\ g[n].uses # <<>>
  <2> SUFFICES ASSUME c.results # <<>> PROVE n > 0 /\ g[n].uses # <<>>
    OBVIOUS
  <2>1. HasUses(h)
    BY <1>4, <1>5
  <2>2. n > 0 /\ g[n].uses = h[N].uses
    BY <1>1, <1>3, <2>1 DEF Fits
  <2> QED
    BY <1>3, <2>1, <2>2 DEF HasUses
<1>9. \A i \in 1 .. n : g[i].results = <<>>
  BY <1>1, <1>3 DEF Fits
<1> QED
  BY <1>1, <1>3, <1>6, <1>7, <1>8, <1>9 DEF UsesAnswered

\* What follows the placeholder is an end of the history.
LEMMA DroppedEnds ==
    ASSUME NEW h \in Seq(Turns), NEW p \in {0, 2}, NEW q \in p + 1 .. Len(h) + 1, NEW g, Dropped(g, h, p, q)
    PROVE  /\ p + 1 \in DOMAIN g /\ g[p + 1] = Placeholder
           /\ Len(g) - (p + 1) = Len(h) - q + 1
           /\ IsSuffix(SubSeq(g, p + 1 + 1, Len(g)), h)
<1>1. PICK N \in Nat, l \in Nat, n \in Nat : N = Len(h) /\ l = N - q + 1 /\ n = p + 1 + l
  <2>1. Len(h) - q + 1 \in Nat /\ p + 1 + (Len(h) - q + 1) \in Nat
    OBVIOUS
  <2> QED
    BY <2>1
<1>2. g \in Seq(Turns) /\ Len(g) = n /\ g[p + 1] = Placeholder
      /\ \A i \in 1 .. l : g[p + 1 + i] = h[q - 1 + i]
  BY <1>1 DEF Dropped
<1>3. p + 1 \in DOMAIN g
  <2>1. DOMAIN g = 1 .. n
    BY <1>2
  <2> QED
    BY <1>1, <2>1
<1>4. PICK t : t = SubSeq(g, p + 1 + 1, n)
  OBVIOUS
<1>5. t \in Seq(Turns) /\ Len(t) = l /\ \A i \in 1 .. l : t[i] = h[q - 1 + i]
  <2>1. PICK r : r = p + 1 + 1
    OBVIOUS
  <2>2. r \in 1 .. n + 1 /\ n - r + 1 = l /\ r - 1 = p + 1
    BY <1>1, <2>1
  <2>3. Ending(g, r, t)
    BY <1>2, <1>4, <2>1, <2>2, EndingIs
  <2>4. t \in Seq(Turns) /\ Len(t) = l /\ \A i \in 1 .. l : t[i] = g[p + 1 + i]
    BY <1>2, <2>2, <2>3 DEF Ending
  <2> QED
    BY <1>2, <2>4
<1>6. PICK a, b : a = Reverse(t) /\ b = Reverse(h)
  OBVIOUS
<1>7. a = [i \in 1 .. l |-> t[(l - i) + 1]] /\ b = [i \in 1 .. N |-> h[(N - i) + 1]]
  BY <1>1, <1>5, <1>6 DEF Reverse
<1>8. a \in Seq(Turns) /\ Len(a) = l /\ \A i \in 1 .. l : a[i] = t[(l - i) + 1]
  <2>1. \A i \in 1 .. l : (l - i) + 1 \in 1 .. l
    BY <1>1
  <2>2. \A i \in 1 .. l : t[(l - i) + 1] \in Turns
    BY <1>5, <2>1
  <2> QED
    BY <1>1, <1>7, <2>2
<1>9. b \in Seq(Turns) /\ Len(b) = N /\ \A i \in 1 .. N : b[i] = h[(N - i) + 1]
  <2>1. \A i \in 1 .. N : (N - i) + 1 \in 1 .. N
    BY <1>1
  <2>2. \A i \in 1 .. N : h[(N - i) + 1] \in Turns
    BY <1>1, <2>1
  <2> QED
    BY <1>1, <1>7, <2>2
<1>10. l <= N
  BY <1>1
<1>11. ASSUME NEW i \in 1 .. l PROVE a[i] = b[i]
  <2>1. (l - i) + 1 \in 1 .. l /\ q - 1 + ((l - i) + 1) = (N - i) + 1 /\ i \in 1 .. N
    BY <1>1, <1>10
  <2> QED
    BY <1>5, <1>8, <1>9, <2>1
<1>12. SubSeq(b, 1, l) = a
  <2>1. 1 \in Nat \ {0} /\ l <= Len(b)
    BY <1>9, <1>10
  <2>2. PICK s : s = SubSeq(b, 1, l)
    OBVIOUS
  <2>3. s \in Seq(Turns) /\ Stretch(b, 1, l, s)
    BY <1>1, <1>9, <2>1, <2>2, StretchIs
  <2>4. \A i \in 1 .. l : 1 + i - 1 = i /\ i \in 1 .. l - 1 + 1
    BY <1>1
  <2>5. Len(s) = l /\ \A i \in 1 .. l : s[i] = b[i]
    BY <1>1, <2>3, <2>4 DEF Stretch
  <2> QED
    BY <1>8, <1>11, <2>2, <2>3, <2>5, SeqEqual
<1>13. SubSeq(a, 1, Len(a)) = a
  BY <1>8, SubSeqFull
<1>14. IsSuffix(t, h)
  BY <1>6, <1>8, <1>9, <1>10, <1>12, <1>13 DEF IsSuffix, IsPrefix
<1>15. n - (p + 1) = l
  BY <1>1
<1> QED
  BY <1>1, <1>2, <1>3, <1>4, <1>14, <1>15

-----------------------------------------------------------------------------
AllInPlace(g) ==
    \A i \in DOMAIN g :
        /\ g[i].role = "assistant" => i > 1 /\ g[i - 1].role = "user"
        /\ g[i].content # <<>> \/ g[i].image \/ g[i].uses # <<>>

\* What TruncationIsSafe says of one request.
Safe(f, c) ==
    /\ UsesAnswered(f, Len(f.history))
    /\ AllInPlace(f.history)
    /\ system => SubSeq(f.history, 1, 2) = SubSeq(c.history, 1, 2)
    /\ f.history # c.history =>
           \E i \in DOMAIN f.history :
               /\ f.history[i] = Placeholder
               /\ IsSuffix(SubSeq(f.history, i + 1, Len(f.history)), c.history)
               /\ f.content # c.content => Len(f.history) - i <= MIN_RECENT_MESSAGES
    /\ IsPrefix(f.content, c.content) \/ f.content = Fallback

LEMMA SameBeginning ==
    ASSUME NEW g \in Seq(Turns), NEW h \in Seq(Turns), Len(g) >= 2, Len(h) >= 2, g[1] = h[1], g[2] = h[2]
    PROVE  SubSeq(g, 1, 2) = SubSeq(h, 1, 2)
<1>1. PICK a, b : a = SubSeq(g, 1, 2) /\ b = SubSeq(h, 1, 2)
  OBVIOUS
<1>2. 1 \in Nat \ {0} /\ 2 \in Nat /\ 2 <= Len(g) /\ 2 <= Len(h)
  OBVIOUS
<1>3. a \in Seq(Turns) /\ Stretch(g, 1, 2, a) /\ b \in Seq(Turns) /\ Stretch(h, 1, 2, b)
  BY <1>1, <1>2, StretchIs
<1>4. Len(a) = 2 /\ Len(b) = 2 /\ a[1] = g[1] /\ a[2] = g[2] /\ b[1] = h[1] /\ b[2] = h[2]
  BY <1>3 DEF Stretch
<1>5. \A i \in 1 .. Len(a) : i = 1 \/ i = 2
  BY <1>4
<1>6. \A i \in 1 .. Len(a) : a[i] = b[i]
  BY <1>4, <1>5
<1> QED
  BY <1>1, <1>3, <1>4, <1>6, SeqEqual

LEMMA FittedIsSafe ==
    ASSUME NEW c, NEW h, NEW last \in ClientMessages, NEW answered \in BOOLEAN, SentFor(c, h, last, answered),
           ConversionInv, NEW limit \in Nat, NEW f, f = Fitted(c, limit)
    PROVE  Safe(f, c)
<1>1. Sendable(h) /\ Attached(c, h, last, answered)
  <2>1. Sendable(h) /\ c = Attach(h, last, answered)
    BY DEF SentFor
  <2> QED
    BY <2>1, AttachIs
<1>2. FitsInto(f, c, h, limit)
  BY <1>1, FittedIs
<1>3. PICK g : g = f.history
  OBVIOUS
<1>4. c.history = h
  BY <1>1 DEF Attached
<1>5. Fits(g, h)
  <2>1. CASE g = h
    BY <1>1, <2>1, FitsItself
  <2>2. CASE \E p, q : PrimedBy(h, p) /\ StaysFrom(h, p, q) /\ Dropped(g, h, p, q)
    BY <1>1, <2>2, DroppedFits
  <2> QED
    BY <1>2, <1>3, <2>1, <2>2 DEF FitsInto
<1>6. UsesAnswered(f, Len(f.history))
  BY <1>2, <1>3, <1>5, UsesStayAnswered DEF FitsInto
<1>7. g \in Seq(Turns) /\ h \in Seq(Turns) /\ DOMAIN g = 1 .. Len(g)
  <2>1. g \in Seq(Turns) /\ h \in Seq(Turns)
    BY <1>1, <1>5 DEF Fits, Sendable
  <2> QED
    BY <2>1
<1>8. AllInPlace(g)
  BY <1>5, <1>7 DEF Fits, Paired, Substantial, AllInPlace
<1>9. system => SubSeq(g, 1, 2) = SubSeq(h, 1, 2)
  BY <1>5, <1>7, SameBeginning DEF Fits
<1>10. ASSUME g # h
       PROVE  \E i \in DOMAIN g :
                 /\ g[i] = Placeholder
                 /\ IsSuffix(SubSeq(g, i + 1, Len(g)), h)
                 /\ f.content # c.content => Len(g) - i <= MIN_RECENT_MESSAGES
  <2>1. PICK p, q : /\ PrimedBy(h, p) /\ StaysFrom(h, p, q) /\ Dropped(g, h, p, q)
                    /\ f.content # c.content => Len(h) - q + 1 <= MIN_RECENT_MESSAGES
    BY <1>2, <1>3, <1>10 DEF FitsInto
  <2>2. p \in {0, 2} /\ q \in p + 1 .. Len(h) + 1
    BY <2>1 DEF PrimedBy, StaysFrom
  <2>3. /\ p + 1 \in DOMAIN g /\ g[p + 1] = Placeholder
        /\ Len(g) - (p + 1) = Len(h) - q + 1
        /\ IsSuffix(SubSeq(g, p + 1 + 1, Len(g)), h)
    BY <1>7, <2>1, <2>2, DroppedEnds
  <2>4. PICK i : i = p + 1
    OBVIOUS
  <2>5. i \in DOMAIN g /\ g[i] = Placeholder /\ IsSuffix(SubSeq(g, i + 1, Len(g)), h)
        /\ (f.content # c.content => Len(g) - i <= MIN_RECENT_MESSAGES)
    BY <2>1, <2>3, <2>4
  <2> QED
    BY <2>5
<1>11. IsPrefix(f.content, c.content) \/ f.content = Fallback
  BY <1>2 DEF FitsInto, CutFrom
<1>12. AllInPlace(f.history)
  BY <1>3, <1>8
<1>13. system => SubSeq(f.history, 1, 2) = SubSeq(c.history, 1, 2)
  BY <1>3, <1>4, <1>9
<1>14. f.history # c.history =>
           \E i \in DOMAIN f.history :
               /\ f.history[i] = Placeholder
               /\ IsSuffix(SubSeq(f.history, i + 1, Len(f.history)), c.history)
               /\ f.content # c.content => Len(f.history) - i <= MIN_RECENT_MESSAGES
  BY <1>3, <1>4, <1>10
<1> QED
  BY <1>6, <1>11, <1>12, <1>13, <1>14, Zenon DEF Safe

LEMMA ConversionIsSafe == ConversionInv => TruncationIsSafe
<1> SUFFICES ASSUME ConversionInv, Accepted(messages),
                    NEW c, c = Convert(Considered(messages)), NEW limit \in BodyLimits,
                    NEW f, f = Fitted(c, limit)
             PROVE  Safe(f, c)
  BY Zenon DEF TruncationIsSafe, Safe, AllInPlace
<1>1. PICK msgs : msgs = Considered(messages)
  OBVIOUS
<1>2. msgs \in Seq(ClientMessages) /\ Len(msgs) > 0 /\ msgs[Len(msgs)] \in ClientMessages
  BY <1>1, ConsideredIs
<1>3. PICK h : \E answered \in BOOLEAN : SentFor(c, h, msgs[Len(msgs)], answered)
  BY <1>1, <1>2, ConvertIs
<1>4. limit \in Nat
  BY BudgetAssumption
<1> QED
  BY <1>2, <1>3, <1>4, FittedIsSafe

\* Whatever a client sends and whatever the limit, what is cut to fit it is a conversation
\* the upstream takes, begins with the system prompt, tells of the turns that are left
\* out, and has the newest (serialize_and_fit_body).
THEOREM WhatIsCutIsSafe == ConversionSpec => []TruncationIsSafe
  BY ConversionInvHolds, ConversionIsSafe, PTL

=============================================================================
