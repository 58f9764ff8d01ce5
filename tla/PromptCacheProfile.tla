-------------------------- MODULE PromptCacheProfile --------------------------
(* What part of a prompt counts as read from the cache (build_profile,        *)
(* compute and update of anthropic/cache_tracker.rs, resolved_cache_usage in  *)
(* anthropic/handlers.rs).  PromptCacheTracker has the store, its file and    *)
(* requests that overlap; here requests come one after another, and it is the *)
(* numbers a client is told that matter.                                      *)
(*                                                                            *)
(* A prompt is the sequence of its blocks: what a block says (its place and   *)
(* its cache_control left out, so that it is the same block wherever a client *)
(* puts its marks), how many tokens it has, the TTL it is marked with, 0 for  *)
(* none, and whether it ends its message.  The hash of a prefix stands for    *)
(* what its blocks say.                                                       *)
EXTENDS Integers, Sequences, FiniteSets, SequencesExt

CONSTANTS
    Prompts,                \* what clients send
    RatioPercent,           \* prompt_cache_max_ratio, in percent
    MIN_CACHEABLE,          \* minimum_cacheable_tokens_for_model
    DEFAULT_TTL, HOUR_TTL,  \* DEFAULT_CACHE_TTL, ONE_HOUR_CACHE_TTL
    MaxPrompts,             \* bound on the requests
    MaxProfileTime          \* bound on time

ASSUME ProfileAssumption ==
    /\ \A prompt \in Prompts :
           /\ prompt \in Seq({prompt[i] : i \in DOMAIN prompt})
           /\ \A i \in DOMAIN prompt : prompt[i].tokens \in Nat /\ prompt[i].ttl \in Nat
    /\ RatioPercent \in 0 .. 1000 /\ MIN_CACHEABLE \in Nat
    /\ DEFAULT_TTL \in Nat \ {0} /\ HOUR_TTL \in Nat /\ DEFAULT_TTL < HOUR_TTL
    /\ MaxPrompts \in Nat /\ MaxProfileTime \in Nat

VARIABLES
    profileNow,
    checkpoints,            \* the prefixes in the store, with [ttl, expires]
    seen                    \* history: the prompts so far, when, and what was told of them

profileVars == <<profileNow, checkpoints, seen>>

ProfileInit == profileNow = 0 /\ checkpoints = {} /\ seen = <<>>

ProfileTick ==
    /\ profileNow < MaxProfileTime /\ profileNow' = profileNow + 1
    /\ UNCHANGED <<checkpoints, seen>>

-----------------------------------------------------------------------------
(* build_profile *)

\* A header for billing changes with every request, and is left out.
flatten_cacheable_blocks(prompt) ==
    LET flat[n \in 0 .. Len(prompt)] ==
            IF n = 0 THEN <<>>
            ELSE IF prompt[n].says = "billing" THEN flat[n - 1] ELSE Append(flat[n - 1], prompt[n])
    IN  flat[Len(prompt)]

\* Any TTL is rounded to one of two.
normalize_prompt_cache_ttl(ttl) ==
    IF ttl = 0 THEN 0 ELSE IF ttl > DEFAULT_TTL THEN HOUR_TTL ELSE DEFAULT_TTL

\* Fault: a block that is marked is another block.
PrefixWithMarks(blocks, k) == [i \in 1 .. k |-> <<blocks[i].says, blocks[i].ttl>>]

\* prefix_fingerprint
Prefix(blocks, k) == [i \in 1 .. k |-> <<blocks[i].says>>]

cumulative_tokens(blocks, k) ==
    LET sum[n \in 0 .. Len(blocks)] == IF n = 0 THEN 0 ELSE sum[n - 1] + blocks[n].tokens
    IN  sum[k]

\* Behind the first mark every end of a message is a breakpoint too, with the TTL of
\* the last mark before it.
TtlAt(blocks, k) ==
    LET marks == {i \in 1 .. k : blocks[i].ttl > 0}
        mark == CHOOSE i \in marks : \A j \in marks : j <= i
    IN  IF marks = {} THEN 0 ELSE normalize_prompt_cache_ttl(blocks[mark].ttl)

Breakpoints(blocks) ==
    {k \in DOMAIN blocks : (blocks[k].ttl > 0 \/ blocks[k].end) /\ TtlAt(blocks, k) > 0}

Highest(S) == CHOOSE x \in S : \A y \in S : y <= x

\* cacheable_breakpoints
Cacheable(blocks) == {k \in Breakpoints(blocks) : cumulative_tokens(blocks, k) >= MIN_CACHEABLE}

-----------------------------------------------------------------------------
(* compute *)

prune_expired(store) == {e \in store : e.expires > profileNow}

normalize_prompt_cache_max_ratio == IF RatioPercent \in 1 .. 100 THEN RatioPercent ELSE 85

AtMost(x, y) == IF x <= y THEN x ELSE y

\* compute_ttl_breakdown: what comes after the part that was read, by TTL.
compute_ttl_breakdown(blocks, matched, ttl) ==
    LET points == {k \in Breakpoints(blocks) : cumulative_tokens(blocks, k) > matched}
        before(k) == LET earlier == {cumulative_tokens(blocks, j) : j \in {i \in points : i < k}}
                     IN  Highest(earlier \cup {matched})
    IN  FoldLeft(LAMBDA n, k : n + (IF TtlAt(blocks, k) = ttl
                                    THEN cumulative_tokens(blocks, k) - before(k) ELSE 0),
                 0, SetToSeq(points))

NothingCached == [read |-> 0, creation |-> 0, of5m |-> 0, of1h |-> 0]

\* The hit is the longest prefix that is stored.  The ratio caps what is read and what is
\* created together, unless the store is empty.
compute(blocks, total, store) ==
    IF Breakpoints(blocks) = {} THEN NothingCached
    ELSE LET all == cumulative_tokens(blocks, Highest(Breakpoints(blocks)))
             capped == AtMost(all, (total * normalize_prompt_cache_max_ratio) \div 100)
             hits == {k \in Cacheable(blocks) : \E e \in store : e.prefix = Prefix(blocks, k)}
             matched == IF hits = {} THEN 0
                        ELSE AtMost(cumulative_tokens(blocks, Highest(hits)), capped)
             told(read, creation) ==
                 [read |-> read, creation |-> creation,
                  of5m |-> compute_ttl_breakdown(blocks, read, DEFAULT_TTL),
                  of1h |-> compute_ttl_breakdown(blocks, read, HOUR_TTL)]
         IN  IF store = {} THEN told(0, IF all < MIN_CACHEABLE THEN 0 ELSE all)
             ELSE told(matched, capped - matched)

\* The entry that was hit lives for its TTL again.
Prolonged(blocks, store) ==
    LET hits == {k \in Cacheable(blocks) : \E e \in store : e.prefix = Prefix(blocks, k)}
    IN  IF hits = {} THEN store
        ELSE {IF e.prefix = Prefix(blocks, Highest(hits))
              THEN [e EXCEPT !.expires = profileNow + e.ttl] ELSE e : e \in store}

\* update: the breakpoints of the prompt replace those that are there.
Entered(blocks, store) ==
    LET new == {[prefix |-> Prefix(blocks, k), ttl |-> TtlAt(blocks, k),
                 expires |-> profileNow + TtlAt(blocks, k)] : k \in Cacheable(blocks)}
    IN  {e \in store : \A n \in new : n.prefix # e.prefix} \cup new

\* A request that reaches a credential.  Its prompt counts `more` tokens than its blocks.
Resolve(prompt, more) ==
    /\ Len(seen) < MaxPrompts
    /\ \E blocks \in {flatten_cacheable_blocks(prompt)} : \E store \in {prune_expired(checkpoints)} :
       \E total \in {cumulative_tokens(blocks, Len(blocks)) + more} :
           /\ checkpoints' = Entered(blocks, Prolonged(blocks, store))
           /\ seen' = Append(seen, [blocks |-> blocks, at |-> profileNow, total |-> total,
                                    usage |-> compute(blocks, total, store)])
    /\ UNCHANGED profileNow

ProfileNext == ProfileTick \/ \E prompt \in Prompts, more \in {0, 2} : Resolve(prompt, more)

ProfileSpec == ProfileInit /\ [][ProfileNext]_profileVars

-----------------------------------------------------------------------------
SameStart(p, q, k) ==
    k <= Len(p) /\ k <= Len(q) /\ \A i \in 1 .. k : p[i].says = q[i].says

\* A client is told it read from the cache only what was sent before: the same blocks,
\* as many tokens, and no longer ago than the longest life of an entry.  In return a
\* prefix that an earlier prompt marked, and this one does, is read, unless it is older
\* than the shortest life: wherever the marks have moved, and whatever came in between.
\* What is read and what is created is never more than the prompt.
ReadWhatWasSent ==
    \A n \in DOMAIN seen : \A q \in {seen[n]} :
        /\ q.usage.read + q.usage.creation <= q.total
        /\ q.usage.read > 0 =>
               \E m \in 1 .. n - 1 : \E k \in DOMAIN q.blocks :
                   /\ SameStart(seen[m].blocks, q.blocks, k)
                   /\ cumulative_tokens(q.blocks, k) >= q.usage.read
                   /\ q.at - seen[m].at < HOUR_TTL
        /\ \A m \in 1 .. n - 1 : \A k \in Cacheable(q.blocks) :
               /\ k \in Cacheable(seen[m].blocks) /\ SameStart(seen[m].blocks, q.blocks, k)
               /\ q.at - seen[m].at < DEFAULT_TTL
               => q.usage.read >= AtMost(cumulative_tokens(q.blocks, k),
                                    (q.total * normalize_prompt_cache_max_ratio) \div 100)

=============================================================================
