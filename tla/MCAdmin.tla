------------------------------ MODULE MCAdmin ------------------------------
(* Small instances of what administrators change while requests run: the      *)
(* limits on concurrency, the balances, the credentials they import, the      *)
(* settings, the keys of clients and the lists of models, and the offline     *)
(* command that repairs their regions.  In the models they share no state, so *)
(* one run checks them side by side: the initial state picks the part that    *)
(* moves.                                                                     *)
EXTENDS ConcurrencyLimits, Balances, CredentialImport, ConfigUpdates, ApiKeys, ModelLists,
        ApiRegionRepair, TLC

CONSTANTS secret1, secret2, user1,   \* two secrets and a user
          email1, account1           \* an address and an account elsewhere

VARIABLE adminPart

\* What a package may hold: records that say much and records that say little of
\* themselves, that share a secret or a user, and one that is refused.
Plain ==
    [id |-> 0, source |-> Absent, user |-> Absent, email |-> Absent, label |-> Absent,
     api |-> Absent, token |-> Absent, method |-> Absent, provider |-> Absent, start |-> Absent, hash |-> Absent,
     client |-> "none", endpoint |-> FALSE, tenant |-> FALSE, disabled |-> FALSE]
External ==
    [Plain EXCEPT !.token = secret2, !.client = "id", !.tenant = TRUE, !.user = user1,
                  !.label = user1, !.disabled = TRUE, !.id = 2]
Key == [Plain EXCEPT !.api = secret1, !.method = "api_key", !.token = secret2, !.user = user1]
Idc ==
    [Plain EXCEPT !.token = secret1, !.client = "pair", !.method = "unknown",
                  !.start = "enterprise", !.id = 1]
Cached ==
    [Plain EXCEPT !.token = secret1, !.client = "pair", !.provider = "github",
                  !.email = email1, !.source = 2]
Social == [Plain EXCEPT !.token = secret2, !.email = email1, !.source = account1]

SomePackages == {<<Cached>>, <<External, Social>>, <<Idc, Key>>}

-----------------------------------------------------------------------------
(* Lists of models. *)

Listed(key, image) == [key |-> key, image |-> image]
Catalog(all, some) == [p \in {"none", "p"} |-> IF p = "none" THEN all ELSE some]

\* One page, two or three, and one model twice, of which one takes images.
SomeCatalogs ==
    {Catalog(<<Listed("a", FALSE), Listed("b", FALSE), Listed("a", TRUE)>>,
             <<Listed("a", FALSE), Listed("a", TRUE)>>),
     Catalog(<<Listed("a", TRUE)>>, <<Listed("a", TRUE)>>)}

\* A credential whose profile is looked for in both regions, and one with its own.
Place(api, configured, region) ==
    [api |-> api, configured |-> configured, region |-> region, external |-> FALSE,
     profile |-> "", default |-> "east"]
SomePlaces == <<Place("bad", "", "west"), Place("", "west", "east")>>

-----------------------------------------------------------------------------
(* The credentials file and the command that repairs it. *)

Sent(api, region, profile, cli) ==
    [api |-> api, region |-> region, profile |-> profile, cli |-> cli, odd |-> FALSE]

\* Every way in which a credential gets its region, two at once, and one that cannot
\* be read.
SomeFiles ==
    {<<Sent(a, r, p, cli)>> : a \in {"", "bad", "west"}, r \in {"", "bad"},
                              p \in {"", "bad", "moon"}, cli \in BOOLEAN}
    \cup {<<Sent("", "", "bad", FALSE), Sent("west", "", "", TRUE)>>,
          <<Sent("", "bad", "", FALSE), [Sent("bad", "", "", FALSE) EXCEPT !.odd = TRUE]>>}
SomeSettings ==
    {[configured |-> c, default |-> d] : c \in {"", "west"}, d \in {"bad", "east"}}

Call(target, bad, dead) ==
    [target |-> target, bad |-> bad, dead |-> dead, apply |-> TRUE, stopped |-> TRUE]
SomeCalls ==
    {Call("east", {"bad"}, {}), Call("west", {"bad", "east"}, {}),
     Call("east", {"bad", "moon"}, {"west"}), Call("east", {"bad"}, {"moon", "west"}),
     Call("west", {"east"}, {}), Call("bad", {"bad"}, {}),
     [Call("east", {"bad"}, {}) EXCEPT !.apply = FALSE],
     [Call("east", {"bad"}, {}) EXCEPT !.stopped = FALSE]}

-----------------------------------------------------------------------------
\* The administrators of the settings and the clients with keys have the same names.
AdminSymmetry == Permutations(ConfigAdmins)

\* The parts that do not move start in one state.
AdminInit ==
    /\ adminPart \in {"limits", "balances", "import", "config", "keys", "lists", "regions"}
    /\ Init /\ BalanceInit /\ ImportInit /\ ConfigInit /\ KeysInit
    /\ ListInit /\ (adminPart # "lists" => catalog = [c \in ListCreds |-> Catalog(<<Listed("a", TRUE)>>, <<Listed("a", TRUE)>>)])
    /\ RepairInit
    /\ adminPart # "regions" =>
           /\ credentialsFile = <<Sent("", "", "", FALSE)>>
           /\ regionSettings = [configured |-> "", default |-> "east"]
    /\ adminPart # "limits" =>
           /\ per_credential_concurrency = 1 /\ global_concurrency = 0
           /\ override = [c \in Creds |-> Unset]

StaysUnless(moving) ==
    /\ moving # "limits" => UNCHANGED vars
    /\ moving # "balances" => UNCHANGED balanceVars
    /\ moving # "import" => UNCHANGED importVars
    /\ moving # "config" => UNCHANGED configVarsAll
    /\ moving # "keys" => UNCHANGED keyVars
    /\ moving # "lists" => UNCHANGED listVars
    /\ moving # "regions" => UNCHANGED repairVars

AdminNext ==
    /\ UNCHANGED adminPart
    /\ \/ adminPart = "limits" /\ Next
       \/ adminPart = "balances" /\ BalanceNext
       \/ adminPart = "import" /\ ImportNextState
       \/ adminPart = "config" /\ ConfigNext
       \/ adminPart = "keys" /\ KeysNext
       \/ adminPart = "lists" /\ ListNext
       \/ adminPart = "regions" /\ RepairNext
    /\ StaysUnless(adminPart)

adminRunVars == <<adminPart, vars, balanceVars, importVars, configVarsAll, keyVars,
                  listVars, repairVars>>

AdminSpec == AdminInit /\ [][AdminNext]_adminRunVars

=============================================================================
