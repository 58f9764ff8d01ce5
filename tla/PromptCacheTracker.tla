-------------------------- MODULE PromptCacheTracker --------------------------
(***************************************************************************)
(* The prefixes of prompts that count as cached (anthropic/cache_tracker.rs, *)
(* PromptCacheRuntime in anthropic/middleware.rs): kept in memory until they *)
(* expire, written to a file by a thread of its own, read again at a start   *)
(* and when the administrator changes the TTL.                               *)
(*                                                                          *)
(* A prefix is known by its fingerprint.  The token numbers computed from a  *)
(* hit, and the ratio that caps them, are left out.                          *)
(***************************************************************************)
EXTENDS Integers

CONSTANTS
    Fingerprints,
    CacheTtls,              \* TTLs of breakpoints
    CacheRequests,
    MaxCacheTime            \* bound on time

ASSUME CacheAssumption == CacheTtls \subseteq Nat \ {0} /\ MaxCacheTime \in Nat

VARIABLES
    cacheNow,
    prefixes, dirty,         \* of the tracker in use
    writing,                \* what the persistence loop is writing, or "none"
    cacheFile,
    resolving,              \* each request: "none", or the tracker it took: "current", "old";
                            \* "computed" when it has computed its usage from the current one
    cacheUnsaved            \* history: the last write failed

cacheVars == <<cacheNow, prefixes, dirty, writing, cacheFile, resolving, cacheUnsaved>>

NoEntries == [fp \in {} |-> [ttl |-> 0, expires |-> 0]]
NoWrite == [busy |-> FALSE, entries |-> NoEntries]

\* prune_expired, and what load_from_path takes from the file.
Live(es) == [fp \in {f \in DOMAIN es : es[f].expires > cacheNow} |-> es[fp]]

CacheInit ==
    /\ cacheNow = 0
    /\ prefixes = NoEntries /\ dirty = FALSE /\ writing = NoWrite /\ cacheFile = NoEntries
    /\ resolving = [r \in CacheRequests |-> "none"]
    /\ cacheUnsaved = FALSE

CacheTick ==
    /\ cacheNow < MaxCacheTime /\ cacheNow' = cacheNow + 1
    /\ UNCHANGED <<prefixes, dirty, writing, cacheFile, resolving, cacheUnsaved>>

-----------------------------------------------------------------------------
(* Requests *)

SnapshotTracker(r) ==
    /\ resolving[r] = "none"
    /\ resolving' = [resolving EXCEPT ![r] = "current"]
    /\ UNCHANGED <<cacheNow, prefixes, dirty, writing, cacheFile, cacheUnsaved>>

\* The request failed, or it took a tracker that has been replaced since.
Forget(r) ==
    /\ resolving[r] \in {"current", "old"}
    /\ resolving' = [resolving EXCEPT ![r] = "none"]
    /\ UNCHANGED <<cacheNow, prefixes, dirty, writing, cacheFile, cacheUnsaved>>

\* compute: the longest prefix that is found lives for its TTL again.
Compute(r) ==
    /\ resolving[r] = "current"
    /\ resolving' = [resolving EXCEPT ![r] = "computed"]
    /\ LET live == Live(prefixes)
       IN  prefixes' \in {live} \cup {[live EXCEPT ![fp].expires = cacheNow + live[fp].ttl]
                                        : fp \in DOMAIN live}
    /\ UNCHANGED <<cacheNow, dirty, writing, cacheFile, cacheUnsaved>>

\* update: all breakpoints are entered, each with its TTL.
Update(r, fps, ttl) ==
    /\ resolving[r] = "computed"
    /\ resolving' = [resolving EXCEPT ![r] = "none"]
    /\ prefixes' = [fp \in fps \cup DOMAIN Live(prefixes) |->
           IF fp \in fps THEN [ttl |-> ttl, expires |-> cacheNow + ttl] ELSE prefixes[fp]]
    /\ dirty' = (dirty \/ fps # {})
    /\ UNCHANGED <<cacheNow, writing, cacheFile, cacheUnsaved>>

-----------------------------------------------------------------------------
(* The persistence loop *)

\* flush_to_path copies the entries under the lock ...
FlushBegins ==
    /\ dirty /\ ~writing.busy
    /\ prefixes' = Live(prefixes) /\ dirty' = FALSE
    /\ writing' = [busy |-> TRUE, entries |-> prefixes']
    /\ UNCHANGED <<cacheNow, cacheFile, resolving, cacheUnsaved>>

\* Fault: the tracker is marked clean when the file is written.
FlushEndsClean ==
    /\ writing.busy
    /\ cacheFile' = writing.entries /\ cacheUnsaved' = FALSE /\ dirty' = FALSE
    /\ writing' = NoWrite
    /\ UNCHANGED <<cacheNow, prefixes, resolving>>

\* ... and writes them without it; a write may fail before or after the file is truncated.
FlushEnds ==
    /\ writing.busy
    /\ \/ cacheFile' = writing.entries /\ cacheUnsaved' = FALSE
       \/ cacheFile' \in {cacheFile, NoEntries} /\ cacheUnsaved' = TRUE
    /\ writing' = NoWrite
    /\ UNCHANGED <<cacheNow, prefixes, dirty, resolving>>

-----------------------------------------------------------------------------
\* PromptCacheRuntime::update with another TTL: the loop is stopped, which writes a last
\* time, and a new tracker reads the file.  Requests under way keep the old one.
ChangeTtl ==
    /\ ~writing.busy
    /\ IF dirty THEN cacheFile' \in {Live(prefixes), cacheFile, NoEntries}
                ELSE UNCHANGED cacheFile
    /\ prefixes' = Live(cacheFile') /\ dirty' = FALSE /\ cacheUnsaved' = FALSE
    /\ resolving' = [r \in CacheRequests |-> IF resolving[r] = "none" THEN "none" ELSE "old"]
    /\ UNCHANGED <<cacheNow, writing>>

\* A crash; in the middle of a write it leaves nothing to read.
CacheCrash ==
    /\ \/ UNCHANGED cacheFile
       \/ writing.busy /\ cacheFile' = NoEntries
    /\ prefixes' = Live(cacheFile') /\ dirty' = FALSE /\ cacheUnsaved' = FALSE
    /\ writing' = NoWrite
    /\ resolving' = [r \in CacheRequests |-> "none"]
    /\ UNCHANGED cacheNow

CacheNext ==
    \/ CacheTick \/ FlushBegins \/ FlushEnds \/ ChangeTtl \/ CacheCrash
    \/ \E r \in CacheRequests :
           \/ SnapshotTracker(r) \/ Forget(r) \/ Compute(r)
           \/ \E fps \in SUBSET Fingerprints, ttl \in CacheTtls : Update(r, fps, ttl)

-----------------------------------------------------------------------------
\* When the loop has nothing to do and its last write went well, a restart would find
\* what the tracker has: the same prefixes, none of them for longer than the tracker
\* (a hit prolongs a prefix without marking the tracker).
CleanMeansSaved ==
    ~dirty /\ ~writing.busy /\ ~cacheUnsaved =>
        /\ DOMAIN Live(cacheFile) \subseteq DOMAIN prefixes
        /\ \A fp \in DOMAIN Live(prefixes) :
               /\ fp \in DOMAIN cacheFile
               /\ cacheFile[fp].ttl = prefixes[fp].ttl
               /\ cacheFile[fp].expires <= prefixes[fp].expires

=============================================================================
