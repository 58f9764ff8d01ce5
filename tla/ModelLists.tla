------------------------------ MODULE ModelLists ------------------------------
(* Which models a credential has (kiro/models.rs, and its callers in           *)
(* kiro/token_manager.rs, admin/service.rs and anthropic/handlers.rs).  The    *)
(* upstream tells them page by page, once the credential's profile is known,   *)
(* which is looked for in one region after the other.  The lists are kept in   *)
(* three places: for routing, for the administrator, and for the clients of    *)
(* the gateway, where those of all credentials are merged.                     *)
(*                                                                             *)
(* A model is what the program tells models apart by, and whether it takes     *)
(* images; lists are not sorted for display.  Tokens are fresh here            *)
(* (TokenRefresh), and the upstream ends its list with no further token.       *)
EXTENDS Regions, Naturals, FiniteSets, SequencesExt

CONSTANTS
    ListCreds,              \* numbers of credentials, in their order
    Listers,                \* requests for lists
    ModelKeys,              \* names of models, as the program compares them
    ModelProviders,         \* what a list may be restricted to
    Catalogs,               \* what the upstream may list for a credential, whole or restricted
    PAGE_SIZE,              \* maxResults
    MAX_ATTEMPTS,           \* of list_available_profiles_with_retry_in_region
    PlaceOf,                \* the regions each credential is configured for
    MaxLists                \* bound on the requests, and on what changes meanwhile

ASSUME ModelListsAssumption ==
    /\ ListCreds \subseteq Nat /\ IsFiniteSet(ListCreds)
    /\ PAGE_SIZE \in Nat \ {0} /\ MAX_ATTEMPTS \in Nat \ {0}
    /\ MaxLists \in Nat
    /\ Catalogs \subseteq [{"none"} \cup ModelProviders -> Seq([key : ModelKeys, image : BOOLEAN])]

VARIABLES
    catalog,                \* the upstream's, of each credential
    serving,                \* which credentials are enabled
    hasArn,                 \* whose profile_arn is known
    suppressed,             \* profile_arn_suppressed_until
    routing,                \* model_lists of MultiTokenManager: Unlisted, or the models
    keptLists,              \* models_cache of AdminService
    gatewayList,            \* models_cache of AppState
    lister,                 \* what each request is doing
    happened,               \* counts requests and changes
    truth                   \* history: what the upstream had when the lists were kept

listVars == <<catalog, serving, hasArn, suppressed, routing, keptLists, gatewayList, lister,
              happened, truth>>

Unlisted == {"unlisted"}
NoLister == [at |-> "idle", op |-> "none", id |-> 0, provider |-> "none", todo |-> <<>>,
             regions |-> <<>>, attempt |-> 0, got |-> <<>>, whole |-> <<>>, merged |-> <<>>,
             told |-> {}, soft |-> FALSE]

ListInit ==
    /\ catalog \in [ListCreds -> Catalogs]
    /\ serving = ListCreds /\ hasArn = {} /\ suppressed = {}
    /\ routing = [c \in ListCreds |-> Unlisted]
    /\ keptLists = [k \in ListCreds \X ({"none"} \cup ModelProviders) |-> <<>>]
    /\ gatewayList = <<>>
    /\ lister = [t \in Listers |-> NoLister]
    /\ happened = 0
    /\ truth = [routing |-> routing, kept |-> keptLists, gateway |-> {}]

Now(t, at) == lister[t].at = at
Turns(t, next) == lister' = [lister EXCEPT ![t] = next]
UpstreamStays == UNCHANGED <<catalog, serving, happened>>
Happens == happened < MaxLists /\ happened' = happened + 1
ListsStay == UNCHANGED <<routing, keptLists, gatewayList, truth>>

-----------------------------------------------------------------------------
(* Where a profile is looked for. *)

should_probe_fallback_regions(p) ==
    \/ p.external
    \/ "bad" \in {p.api, p.configured, p.region, p.default}
    \/ p.api = "" /\ p.region = ""

push_unique_region(regions, r) ==
    LET n == normalize_q_transport_region(r)
    IN  IF Contains(regions, n) THEN regions ELSE Append(regions, n)

profile_region_candidates(p) ==
    FoldLeft(push_unique_region, <<>>,
             <<profile_lookup_region(p)>>
             \o (IF should_probe_fallback_regions(p) THEN <<"east", "west">> ELSE <<>>))

-----------------------------------------------------------------------------
(* What to list. *)

\* A list_available_models that the cache does not answer.
list_available_models(t, c, provider) ==
    /\ Now(t, "idle") /\ c \in serving
    /\ Turns(t, [NoLister EXCEPT !.at = "profile", !.op = "admin", !.id = c, !.provider = provider])
    /\ Happens /\ UNCHANGED <<catalog, serving>> /\ ListsStay /\ UNCHANGED <<hasArn, suppressed>>

\* get_models finds nothing cached, and refresh_models_cache goes over the credentials
\* that are enabled now.
get_models(t) ==
    /\ Now(t, "idle") /\ gatewayList = <<>>
    /\ \E order \in [1 .. Cardinality(serving) -> serving] :
           /\ \A i, j \in DOMAIN order : i < j => order[i] < order[j]
           /\ Turns(t, [NoLister EXCEPT !.at = "next", !.op = "gateway", !.todo = order])
    /\ Happens /\ UNCHANGED <<catalog, serving>> /\ ListsStay /\ UNCHANGED <<hasArn, suppressed>>

NextCredential(t) ==
    /\ Now(t, "next") /\ lister[t].todo # <<>>
    /\ Turns(t, [lister[t] EXCEPT !.at = "profile", !.id = Head(lister[t].todo),
                                  !.todo = Tail(lister[t].todo)])
    /\ UpstreamStays /\ ListsStay /\ UNCHANGED <<hasArn, suppressed>>

-----------------------------------------------------------------------------
(* ensure_rest_profile_arn_for and resolve_profile_arn_for *)

Pages(l) == [l EXCEPT !.at = "page", !.regions = <<>>, !.attempt = 0, !.got = <<>>,
                      !.whole = <<>>, !.soft = FALSE]
Tries(l, regions) == [l EXCEPT !.at = "lookup", !.regions = regions, !.attempt = 1]

\* A list that cannot be had: the administrator is told, the gateway asks the next.
GivesUp(l) ==
    IF l.op = "gateway" THEN [l EXCEPT !.at = "next", !.regions = <<>>, !.attempt = 0,
                                       !.got = <<>>, !.whole = <<>>, !.soft = FALSE]
                        ELSE NoLister

ensure_rest_profile_arn_for(t) ==
    /\ Now(t, "profile")
    /\ LET l == lister[t]
       IN  Turns(t, IF l.id \in hasArn THEN Pages(l)
                    ELSE IF l.id \in suppressed THEN [l EXCEPT !.at = "refresh", !.soft = TRUE]
                    ELSE Tries(l, profile_region_candidates(PlaceOf[l.id])))
    /\ UpstreamStays /\ ListsStay /\ UNCHANGED <<hasArn, suppressed>>

\* update_profile_arn
LookupFinds(t) ==
    /\ Now(t, "lookup")
    /\ hasArn' = hasArn \cup {lister[t].id} /\ suppressed' = suppressed \ {lister[t].id}
    /\ Turns(t, Pages(lister[t]))
    /\ UpstreamStays /\ ListsStay

\* A lasting error, or the last attempt, ends with this region; the error of the last
\* region tells whether the upstream has no profiles for such credentials.
LookupFails(t, transient, unsupported) ==
    /\ Now(t, "lookup")
    /\ LET l == lister[t]
       IN  Turns(t, IF transient /\ l.attempt < MAX_ATTEMPTS THEN [l EXCEPT !.attempt = @ + 1]
                    ELSE IF Len(l.regions) > 1 THEN Tries(l, Tail(l.regions))
                    ELSE [l EXCEPT !.at = "refresh", !.soft = unsupported])
    /\ UpstreamStays /\ ListsStay /\ UNCHANGED <<hasArn, suppressed>>

\* A refresh may tell the profile.  If not, what the upstream does not support is
\* remembered for a while, and the list is asked for without a profile.
RefreshFinds(t) ==
    /\ Now(t, "refresh")
    /\ hasArn' = hasArn \cup {lister[t].id} /\ suppressed' = suppressed \ {lister[t].id}
    /\ Turns(t, Pages(lister[t]))
    /\ UpstreamStays /\ ListsStay

RefreshFindsNone(t) ==
    /\ Now(t, "refresh")
    /\ suppressed' = IF lister[t].soft THEN suppressed \cup {lister[t].id} ELSE suppressed
    /\ Turns(t, IF lister[t].soft THEN Pages(lister[t]) ELSE GivesUp(lister[t]))
    /\ UpstreamStays /\ ListsStay /\ UNCHANGED <<hasArn>>

SuppressionEnds(c) ==
    /\ c \in suppressed /\ suppressed' = suppressed \ {c}
    /\ UpstreamStays /\ ListsStay /\ UNCHANGED <<hasArn, lister>>

-----------------------------------------------------------------------------
(* fetch_all_available_models *)

Offered(c, provider) == catalog[c][provider]

fetch_page(l) ==
    LET all == Offered(l.id, l.provider)
        upto == Len(l.got) + PAGE_SIZE
    IN  [models |-> SubSeq(all, Len(l.got) + 1, IF upto < Len(all) THEN upto ELSE Len(all)),
         more |-> upto < Len(all)]

\* What the upstream had when the first page was asked for, while it has not changed.
WholeOf(l) == IF l.got = <<>> THEN Offered(l.id, l.provider) ELSE l.whole

fetch_all_available_models(t) ==
    /\ Now(t, "page")
    /\ LET l == lister[t]
           page == fetch_page(l)
           got == [l EXCEPT !.got = @ \o page.models, !.whole = WholeOf(l)]
       IN  Turns(t, IF page.more THEN got ELSE [got EXCEPT !.at = "told"])
    /\ UpstreamStays /\ ListsStay /\ UNCHANGED <<hasArn, suppressed>>

\* Fault: the pages before one that fails are kept.
PageFailsLate(t) ==
    /\ Now(t, "page")
    /\ Turns(t, [lister[t] EXCEPT !.at = "told"])
    /\ UpstreamStays /\ ListsStay /\ UNCHANGED <<hasArn, suppressed>>

\* A page that fails takes the pages before it along.
PageFails(t) ==
    /\ Now(t, "page")
    /\ Turns(t, GivesUp(lister[t]))
    /\ UpstreamStays /\ ListsStay /\ UNCHANGED <<hasArn, suppressed>>

-----------------------------------------------------------------------------
(* Keeping the lists. *)

Keys(models) == {models[i].key : i \in DOMAIN models}

set_model_list(t) ==
    /\ Now(t, "told") /\ lister[t].op = "admin"
    /\ routing' = [routing EXCEPT ![lister[t].id] = Keys(lister[t].got)]
    /\ truth' = [truth EXCEPT !.routing[lister[t].id] = Keys(lister[t].whole)]
    /\ Turns(t, [lister[t] EXCEPT !.at = "show"])
    /\ UpstreamStays /\ UNCHANGED <<hasArn, suppressed, keptLists, gatewayList>>

KeepList(t) ==
    /\ Now(t, "show")
    /\ keptLists' = [keptLists EXCEPT ![<<lister[t].id, lister[t].provider>>] = lister[t].got]
    /\ truth' = [truth EXCEPT !.kept[<<lister[t].id, lister[t].provider>>] = lister[t].whole]
    /\ Turns(t, NoLister)
    /\ UpstreamStays /\ UNCHANGED <<hasArn, suppressed, routing, gatewayList>>

\* Of models that are the same for the program, the first is kept; it takes images when
\* one of them does.
merge_model_info(base, extra) == [base EXCEPT !.image = @ \/ extra.image]

MergeModel(models, m) ==
    IF \E i \in DOMAIN models : models[i].key = m.key
    THEN [i \in DOMAIN models |->
             IF models[i].key = m.key THEN merge_model_info(models[i], m) ELSE models[i]]
    ELSE Append(models, m)

\* One model after the other, then the next credential.
merge_unique_models(t) ==
    /\ Now(t, "told") /\ lister[t].op = "gateway"
    /\ LET l == lister[t]
       IN  Turns(t, IF l.got # <<>>
                    THEN [l EXCEPT !.merged = MergeModel(@, Head(l.got)), !.got = Tail(@)]
                    ELSE [GivesUp(l) EXCEPT !.told = @ \cup {l.whole[i] : i \in DOMAIN l.whole}])
    /\ UpstreamStays /\ ListsStay /\ UNCHANGED <<hasArn, suppressed>>

\* Nothing at all is not cached: the clients are told a fixed list.
refresh_models_cache(t) ==
    /\ Now(t, "next") /\ lister[t].todo = <<>>
    /\ IF lister[t].merged = <<>> THEN UNCHANGED <<gatewayList, truth>>
       ELSE gatewayList' = lister[t].merged /\ truth' = [truth EXCEPT !.gateway = lister[t].told]
    /\ Turns(t, NoLister)
    /\ UpstreamStays /\ UNCHANGED <<hasArn, suppressed, routing, keptLists>>

-----------------------------------------------------------------------------
(* What else happens. *)

SetServing(c) ==
    /\ serving' = IF c \in serving THEN serving \ {c} ELSE serving \cup {c}
    /\ Happens
    /\ ListsStay /\ UNCHANGED <<catalog, hasArn, suppressed, lister>>

\* The upstream changes what it has: a list whose pages come from both is of neither.
CatalogChanges(c, models) ==
    /\ Happens
    /\ \A t \in Listers : ~(lister[t].id = c /\ Now(t, "page") /\ lister[t].got # <<>>)
    /\ models # catalog[c] /\ catalog' = [catalog EXCEPT ![c] = models]
    /\ ListsStay /\ UNCHANGED <<serving, hasArn, suppressed, lister>>

ListNext ==
    \/ \E t \in Listers :
           \/ \E c \in ListCreds, p \in {"none"} \cup ModelProviders : list_available_models(t, c, p)
           \/ get_models(t) \/ NextCredential(t)
           \/ ensure_rest_profile_arn_for(t) \/ LookupFinds(t)
           \/ \E transient, unsupported \in BOOLEAN : LookupFails(t, transient, unsupported)
           \/ RefreshFinds(t) \/ RefreshFindsNone(t)
           \/ fetch_all_available_models(t) \/ PageFails(t)
           \/ set_model_list(t) \/ KeepList(t)
           \/ merge_unique_models(t) \/ refresh_models_cache(t)
    \/ \E c \in ListCreds :
           \/ SuppressionEnds(c) \/ SetServing(c) \/ \E models \in Catalogs : CatalogChanges(c, models)

ListSpec == ListInit /\ [][ListNext]_listVars

-----------------------------------------------------------------------------
\* The models of a set, each once, with images if one of its kind has them.
MergedFrom(models, told) ==
    /\ Keys(models) = {m.key : m \in told}
    /\ \A i, j \in DOMAIN models : models[i].key = models[j].key => i = j
    /\ \A i \in DOMAIN models :
           models[i].image <=> \E m \in told : m.key = models[i].key /\ m.image

\* A list that is kept is what the upstream had at one time: whole, each model once, and
\* nobody else's.  So a credential is passed over for a model only if the upstream once
\* told a list without it, and the clients are told the models of all the lists that
\* could be had, each once, with images if one of its credentials takes them.
ListsAreWhole ==
    /\ routing = truth.routing /\ keptLists = truth.kept
    /\ MergedFrom(gatewayList, truth.gateway)

=============================================================================
