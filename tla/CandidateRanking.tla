---------------------------- MODULE CandidateRanking ----------------------------
(***************************************************************************)
(* The order in which credentials are tried (rank_candidates_excluding in   *)
(* kiro/token_manager.rs).                                                  *)
(*                                                                          *)
(* The six numbers of the sort (priority, tier of quota, load, the two      *)
(* balances, calls in flight) are compared one after the other: they are    *)
(* one rank here, and equal ranks are what the weights are for.  Which      *)
(* credentials are eligible, and which of them rate limited, is given, and  *)
(* so are the ranks: nothing but the counter changes between the requests.  *)
(***************************************************************************)
EXTENDS Integers, Sequences, SequencesExt, FiniteSets, FiniteSetsExt, Functions

CONSTANTS
    Ranked,                 \* ids of credentials
    Ranks, Weights,
    MaxRequests             \* bound on the requests

ASSUME RankingAssumption ==
    IsFiniteSet(Ranked) /\ Ranked \subseteq Nat /\ Ranks \subseteq Nat /\ Weights \subseteq Nat

VARIABLES
    eligible, limited,      \* not disabled, excluded or without the model; rate limited
    rank, weight,
    selection_rr,
    order,                  \* the last answer
    firsts                  \* history: how often each credential came first

rankingVars == <<eligible, limited, rank, weight, selection_rr, order, firsts>>

RankingInit ==
    /\ eligible \in (SUBSET Ranked) \ {{}} /\ limited \in SUBSET eligible
    /\ rank \in [Ranked -> Ranks] /\ weight \in [Ranked -> Weights]
    /\ selection_rr = 0 /\ order = <<>>
    /\ firsts = [c \in Ranked |-> 0]

-----------------------------------------------------------------------------
\* Rate limited credentials are tried only if there are no others.
Candidates == IF eligible \subseteq limited THEN eligible ELSE eligible \ limited

\* effective_weight: a weight of 0 counts as 1.
EffectiveWeight(c) == Max({weight[c], 1})

\* The members of a set of numbers, the smallest first.
Ascending(S) ==
    CHOOSE s \in [1 .. Cardinality(S) -> S] : \A i, j \in DOMAIN s : i < j => s[i] < s[j]

\* The candidates of one rank, by their place in the list (the sort is stable), as often
\* as they weigh.
Weighted(ids) ==
    LET ordered == Ascending(ids)
    IN  FlattenSeq([i \in DOMAIN ordered |->
                        [n \in 1 .. EffectiveWeight(ordered[i]) |-> ordered[i]]])

\* Fault: the start is taken from the number of candidates.
RotateUnweighted(ids) ==
    LET all == Weighted(ids)
        start == selection_rr % Cardinality(ids)
    IN  [k \in 1 .. Len(all) |-> all[((start + k - 1) % Len(all)) + 1]]

\* The counter says where to start among them.
Rotate(ids) ==
    LET all == Weighted(ids)
        start == selection_rr % Len(all)
    IN  [k \in 1 .. Len(all) |-> all[((start + k - 1) % Len(all)) + 1]]

\* Each once, where it comes first.
Segment(ids) ==
    LET seen == Rotate(ids)
        first == Ascending({k \in DOMAIN seen : \A j \in 1 .. k - 1 : seen[j] # seen[k]})
    IN  [i \in DOMAIN first |-> seen[first[i]]]

OfRank(r) == {c \in Candidates : rank[c] = r}

RankCandidates ==
    LET ranks == Ascending({rank[c] : c \in Candidates})
    IN  FlattenSeq([i \in DOMAIN ranks |-> Segment(OfRank(ranks[i]))])

Request ==
    /\ selection_rr < MaxRequests
    /\ order' = RankCandidates
    /\ selection_rr' = selection_rr + 1
    /\ firsts' = [firsts EXCEPT ![order'[1]] = @ + 1]
    /\ UNCHANGED <<eligible, limited, rank, weight>>

RankingNext == Request

RankingSpec == RankingInit /\ [][RankingNext]_rankingVars

-----------------------------------------------------------------------------
Best == {c \in Candidates : \A d \in Candidates : rank[c] <= rank[d]}

\* What they weigh together: each has a turn for each unit of its weight.
WeightOf(ids) == Cardinality(UNION {{c} \X (1 .. EffectiveWeight(c)) : c \in ids})

\* Every candidate is tried, once, and none before one of a better rank.
EachOnceByRank ==
    order # <<>> =>
        /\ ToSet(order) = Candidates /\ Len(order) = Cardinality(Candidates)
        /\ \A i, j \in DOMAIN order : i < j => rank[order[i]] <= rank[order[j]]

\* The load is shared by weight: whenever the counter has gone round, each of the best
\* candidates has come first as often as it weighs, and no other ever has.  The others
\* follow, once each, by rank (rank_candidates, token_manager.rs:1684).
SharedByWeight ==
    /\ EachOnceByRank
    /\ \A c \in Ranked \ Best : firsts[c] = 0
    /\ selection_rr % WeightOf(Best) = 0 =>
           \A c \in Best : firsts[c] * WeightOf(Best) = selection_rr * EffectiveWeight(c)

=============================================================================
