-------------------------- MODULE MCCredentialPool --------------------------
(* Small instances of the parts that keep the credentials and choose among    *)
(* them: the store, the refresh of tokens, the login sessions, the ranking,   *)
(* the affinity of sessions, the pool of proxies and the prompt cache.  In    *)
(* the models they share no state, so one run checks them side by side: the   *)
(* initial state picks the part that moves, and the others stay where they    *)
(* start.                                                                     *)
EXTENDS CredentialStore, TokenRefresh, LoginSessions, CandidateRanking, Affinity,
        ProxyPool, PromptCacheTracker, TLC

CONSTANTS s1, s2, s3

VARIABLE part

\* Two secrets of one account, one of another.
Users == s1 :> "u" @@ s2 :> "u" @@ s3 :> "v"

\* The parts use the same names for who acts and for what they act upon.
PoolSymmetry == Permutations(Tasks) \cup Permutations({s1, s2})

\* The ranking that does not move is one of many that could be given.
OneRanking ==
    /\ eligible = Ranked /\ limited = {}
    /\ rank = [c \in Ranked |-> 0] /\ weight = [c \in Ranked |-> 0]

PoolInit ==
    /\ part \in {"store", "refresh", "login", "ranking", "affinity", "proxies", "cache"}
    /\ StoreInit /\ RefreshInit /\ LoginInit /\ AffinityInit /\ ProxyPoolInit /\ CacheInit
    /\ part # "ranking" => OneRanking
    /\ RankingInit

StaysUnless(moving) ==
    /\ moving # "store" => UNCHANGED storeVars
    /\ moving # "refresh" => UNCHANGED refreshVars
    /\ moving # "login" => UNCHANGED loginVars
    /\ moving # "ranking" => UNCHANGED rankingVars
    /\ moving # "affinity" => UNCHANGED affinityVars
    /\ moving # "proxies" => UNCHANGED proxyPoolVars
    /\ moving # "cache" => UNCHANGED cacheVars

PoolNext ==
    /\ UNCHANGED part
    /\ \/ part = "store" /\ StoreNext
       \/ part = "refresh" /\ RefreshNext
       \/ part = "login" /\ LoginNext
       \/ part = "ranking" /\ RankingNext
       \/ part = "affinity" /\ AffinityNext
       \/ part = "proxies" /\ ProxyPoolNext
       \/ part = "cache" /\ CacheNext
    /\ StaysUnless(part)

poolVars == <<part, storeVars, refreshVars, loginVars, rankingVars, affinityVars,
              proxyPoolVars, cacheVars>>

PoolSpec == PoolInit /\ [][PoolNext]_poolVars

=============================================================================
