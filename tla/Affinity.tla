-------------------------------- MODULE Affinity --------------------------------
(***************************************************************************)
(* The credential a session or a client keeps coming back to                *)
(* (kiro/affinity.rs, acquire_context_for_affinity_key and                  *)
(* remove_affinity_by_credential in kiro/token_manager.rs).                 *)
(*                                                                          *)
(* The two maps, of sessions and of clients, are used alike: this is one of *)
(* them.  The permits themselves are in AcquireContext; a credential is     *)
(* free here or busy, as its environment likes.                             *)
(***************************************************************************)
EXTENDS Integers, FiniteSets

CONSTANTS
    AffinityCreds, RouteKeys, Routed,   \* credentials, routing keys, requests
    Removers,               \* who takes credentials out and removes their bindings
    AffinityTtl,
    MaxEntries,             \* MAX_ENTRIES
    MaxUses                 \* bound on time, which passes with each use

ASSUME AffinityAssumption ==
    /\ AffinityTtl \in Nat /\ MaxEntries \in Nat \ {0} /\ MaxUses \in Nat
    /\ "none" \notin AffinityCreds

VARIABLES
    affinity,               \* routing key to [credential_id, last_used]
    clock,
    unusable, busy,         \* credentials disabled or rate limited; without a permit
    removing,               \* the credential each remover has taken out, and has still to unbind
    route,                  \* each request's step, key and bound credential
    late,                   \* history: keys bound to a credential that was unusable by then
    left                    \* history: credentials taken out whose bindings nobody removes

affinityVars == <<affinity, clock, unusable, busy, removing, route, late, left>>
outsideVars == <<unusable, busy, removing, left>>

NoBinding == [k \in {} |-> [credential_id |-> "none", last_used |-> 0]]
Unrouted == [step |-> "idle", key |-> "none", bound |-> "none"]

AffinityInit ==
    /\ affinity = NoBinding /\ clock = 0
    /\ unusable = {} /\ busy = {} /\ late = {} /\ left = {}
    /\ removing = [w \in Removers |-> "none"]
    /\ route = [r \in Routed |-> Unrouted]

At(r, step) == route[r].step = step
Steps(r, step) == route' = [route EXCEPT ![r].step = step]
Leaves(r) == route' = [route EXCEPT ![r] = Unrouted]
GoesRanking(r, key) == route' = [route EXCEPT ![r] = [step |-> "rank", key |-> key, bound |-> "none"]]

RemoveKey(key) == affinity' = [k \in DOMAIN affinity \ {key} |-> affinity[k]]
Renewed(c) == [credential_id |-> c, last_used |-> clock]

\* evict_oldest: one of the keys used longest ago.
Oldest == {k \in DOMAIN affinity :
              \A other \in DOMAIN affinity : affinity[k].last_used <= affinity[other].last_used}

\* CredentialAffinity::set: a new key takes the place of an old one when the map is full.
SetAffinity(key, c) ==
    \E kept \in IF Cardinality(DOMAIN affinity) >= MaxEntries /\ key \notin DOMAIN affinity
                  THEN {DOMAIN affinity \ {old} : old \in Oldest} ELSE {DOMAIN affinity} :
        affinity' = [k \in kept \cup {key} |-> IF k = key THEN Renewed(c) ELSE affinity[k]]

-----------------------------------------------------------------------------
(* A request *)

\* CredentialAffinity::get: an expired binding is removed.
Look(r, key) ==
    /\ At(r, "idle")
    /\ IF key \in DOMAIN affinity /\ clock - affinity[key].last_used < AffinityTtl
         THEN /\ route' = [route EXCEPT ![r] =
                     [step |-> "found", key |-> key, bound |-> affinity[key].credential_id]]
              /\ UNCHANGED affinity
         ELSE GoesRanking(r, key) /\ RemoveKey(key)
    /\ UNCHANGED <<clock, late, outsideVars>>

\* The binding goes, whatever it is by now, when the credential cannot be used: by
\* nobody, or by this request, which excludes it or asks for a model it lacks.
CheckBound(r) ==
    /\ At(r, "found")
    /\ \/ GoesRanking(r, route[r].key) /\ RemoveKey(route[r].key)
       \/ route[r].bound \notin unusable /\ Steps(r, "usable") /\ UNCHANGED affinity
    /\ UNCHANGED <<clock, late, outsideVars>>

\* Without a permit of the credential, of its proxy or of the whole the request goes
\* elsewhere and leaves the binding.  A credential disabled by now is ranked again, but
\* not one whose rate limit has begun: `unusable' holds both.
TryBoundPermit(r) ==
    /\ At(r, "usable")
    /\ \/ route[r].bound \in busy /\ Leaves(r)
       \/ route[r].bound \in unusable /\ GoesRanking(r, route[r].key)
       \/ route[r].bound \notin busy /\ Steps(r, "token")
    /\ UNCHANGED <<affinity, clock, late, outsideVars>>

\* Fault: the binding is set again, though it was removed meanwhile.
EnsureBoundTokenSetting(r) ==
    /\ At(r, "token")
    /\ \/ Leaves(r) /\ SetAffinity(route[r].key, route[r].bound)
       \/ GoesRanking(r, route[r].key) /\ UNCHANGED affinity
    /\ UNCHANGED <<clock, late, outsideVars>>

\* try_ensure_token: touch renews the binding of the key, if there still is one.
EnsureBoundToken(r) ==
    /\ At(r, "token")
    /\ \/ /\ Leaves(r)
          /\ affinity' = [k \in DOMAIN affinity |->
                 IF k = route[r].key THEN [affinity[k] EXCEPT !.last_used = clock]
                                     ELSE affinity[k]]
       \/ GoesRanking(r, route[r].key) /\ UNCHANGED affinity
    /\ UNCHANGED <<clock, late, outsideVars>>

\* acquire_context_excluding, after whatever wait ...
RankInstead(r) ==
    /\ At(r, "rank")
    /\ \/ \E c \in AffinityCreds \ (unusable \cup busy) :
              route' = [route EXCEPT ![r].step = "served", ![r].bound = c]
       \/ Leaves(r)
    /\ UNCHANGED <<affinity, clock, late, outsideVars>>

\* ... and the credential is bound, if it has been disabled meanwhile too.
BindServed(r) ==
    /\ At(r, "served")
    /\ SetAffinity(route[r].key, route[r].bound)
    /\ late' = IF route[r].bound \in unusable THEN late \cup {route[r].key}
                                              ELSE late \ {route[r].key}
    /\ Leaves(r)
    /\ UNCHANGED <<clock, outsideVars>>

-----------------------------------------------------------------------------
(* Around it *)

\* set_disabled, an edit, a replacement, a deletion, a ban, a failed refresh, a rate limit:
\* the credential is taken out, if it is not out already, and the lock is released ...
TakesOut(w, c) ==
    /\ removing[w] = "none" /\ removing' = [removing EXCEPT ![w] = c]
    /\ unusable' = unusable \cup {c}
    /\ UNCHANGED <<affinity, clock, busy, route, late, left>>

\* ... and then remove_affinity_by_credential takes its bindings.
RemoveByCredential(w) ==
    /\ removing[w] # "none" /\ removing' = [removing EXCEPT ![w] = "none"]
    /\ affinity' = [k \in {x \in DOMAIN affinity : affinity[x].credential_id # removing[w]} |->
                        affinity[k]]
    /\ left' = left \ {removing[w]}
    /\ UNCHANGED <<clock, unusable, busy, route, late>>

\* report_failure at the limit, report_quota_exhausted, mark_insufficient_balance, and
\* disable_all_credentials: nobody removes the bindings.
KeepsBindings(out) ==
    /\ unusable' = unusable \cup out
    /\ left' = left \cup (out \ unusable)
    /\ UNCHANGED <<affinity, clock, busy, removing, route, late>>

BecomesUsable(c) ==
    /\ c \in unusable /\ unusable' = unusable \ {c}
    /\ left' = left \ {c}
    /\ UNCHANGED <<affinity, clock, busy, removing, route, late>>

TakesPermits(c) ==
    /\ busy' = IF c \in busy THEN busy \ {c} ELSE busy \cup {c}
    /\ UNCHANGED <<affinity, clock, unusable, removing, route, late, left>>

\* clear_session_affinity, when affinity is switched off.
ClearAffinity ==
    /\ affinity' = NoBinding
    /\ UNCHANGED <<clock, route, late, outsideVars>>

TimePasses ==
    /\ clock < MaxUses /\ clock' = clock + 1
    /\ UNCHANGED <<affinity, route, late, outsideVars>>

AffinityNext ==
    \/ \E r \in Routed :
           \/ \E key \in RouteKeys : Look(r, key)
           \/ CheckBound(r) \/ TryBoundPermit(r) \/ EnsureBoundToken(r) \/ RankInstead(r)
           \/ BindServed(r)
    \/ \E w \in Removers : (\E c \in AffinityCreds : TakesOut(w, c)) \/ RemoveByCredential(w)
    \/ \E c \in AffinityCreds : KeepsBindings({c}) \/ BecomesUsable(c) \/ TakesPermits(c)
    \/ KeepsBindings(AffinityCreds)
    \/ ClearAffinity \/ TimePasses

AffinitySpec == AffinityInit /\ [][AffinityNext]_affinityVars

-----------------------------------------------------------------------------
\* The map keeps to its limit, however many keys bind at once.  A credential that cannot be
\* used has bindings only as long as whoever took it out has not come to removing them, or
\* if it was taken out where nobody does, or those that a request made which was ranked to
\* it before and bound it after: requests that were on their way to it by an old binding
\* do not bring that back.
TakenOutStaysOut ==
    /\ Cardinality(DOMAIN affinity) <= MaxEntries
    /\ \A k \in DOMAIN affinity : LET c == affinity[k].credential_id IN
           c \in unusable => k \in late \/ c \in left \/ \E w \in Removers : removing[w] = c

=============================================================================
