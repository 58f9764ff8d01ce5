--------------------------- MODULE CredentialStore ---------------------------
(***************************************************************************)
(* The credentials in memory and in the credentials file                    *)
(* (kiro/token_manager.rs).                                                 *)
(*                                                                          *)
(* Operations of three kinds change both.  A change of a field (priority,   *)
(* disabled, an imported or renewed credential) builds a snapshot under the *)
(* lock of entries, writes the file, and changes the entry under the lock   *)
(* again.  A new credential does the same and is pushed at the end.  Delete,*)
(* region, reset and a ban change memory first and save a snapshot after.   *)
(* No lock spans two of these steps.  A crash may come between any two; the *)
(* file is replaced by rename, hence as a whole.                            *)
(*                                                                          *)
(* A credential is its id, its secret (the refresh token or the API key),   *)
(* its priority and its region, which stands for every field saved after    *)
(* the change.                                                              *)
(***************************************************************************)
EXTENDS Integers, Sequences, FiniteSets

CONSTANTS
    Actors,                 \* concurrent requests that change the store
    Secrets, Social,        \* Social: those of social logins
    UserOf,                 \* the account a secret belongs to
    MaxId,                  \* bound on the ids handed out
    Priorities, Regions

ASSUME StoreAssumption ==
    /\ Social \subseteq Secrets
    /\ MaxId \in Nat
    /\ Priorities \subseteq Nat /\ 0 \in Priorities /\ Regions # {}

VARIABLES
    entries,                \* MultiTokenManager::entries, in order
    file,                   \* the credentials file
    op,                     \* what each actor is doing
    unsaved                 \* history: a change of memory failed to be saved

storeVars == <<entries, file, op, unsaved>>

Ids == 1 .. MaxId
Reasons == {"none", "manual", "banned", "passing"}
Entry == [id : Ids, secret : Secrets, prio : Priorities, region : Regions, reason : Reasons]
Saved == [id : Ids, secret : Secrets, prio : Priorities, region : Regions, disabled : BOOLEAN]

Idle == [kind |-> "idle"]

Positions(id) == {i \in DOMAIN entries : entries[i].id = id}
Known(id) == Positions(id) # {}

\* entries.iter().find(|e| e.id == id)
PositionOf(id) == CHOOSE i \in Positions(id) : \A j \in Positions(id) : i <= j
Find(id) == entries[PositionOf(id)]

NextId == 1 + (CHOOSE m \in 0 .. MaxId : /\ \A i \in DOMAIN entries : entries[i].id <= m
                                         /\ m = 0 \/ Known(m))

Holds(secret, except) ==
    \E i \in DOMAIN entries : entries[i].secret = secret /\ entries[i].id # except

\* What the file has of an entry.
Save(e, disabled) ==
    [id |-> e.id, secret |-> e.secret, prio |-> e.prio, region |-> e.region, disabled |-> disabled]

\* credentials_snapshot_for_persistence, persistent_disabled_reason
Snapshot(S) == [i \in DOMAIN S |-> Save(S[i], S[i].reason \in {"manual", "banned"})]

\* What the setters write: only a manual disable counts.
ManualSnapshot(S) == [i \in DOMAIN S |-> Save(S[i], S[i].reason = "manual")]

\* The first with this id has the fields of change.
Changed(e, change) == [f \in DOMAIN e |-> IF f \in DOMAIN change THEN change[f] ELSE e[f]]
With(S, id, change) == [i \in DOMAIN S |-> IF i = PositionOf(id) THEN Changed(S[i], change) ELSE S[i]]

\* The whole credential, as a clone of it is written back.
Clone(e) == [secret |-> e.secret, prio |-> e.prio, region |-> e.region]

ReasonOf(disabled) == IF disabled THEN "manual" ELSE "none"

New(id, secret, disabled) ==
    [id |-> id, secret |-> secret, prio |-> 0, region |-> CHOOSE r \in Regions : TRUE,
     reason |-> ReasonOf(disabled)]

\* The request of an actor goes on to write snap, and then to change the entry id,
\* or to push a new one.
WriteThenApply(a, id, change, snap) ==
    /\ op[a] = Idle
    /\ op' = [op EXCEPT ![a] = [kind |-> "write", next |-> "apply", id |-> id,
                                new |-> change, snap |-> snap]]
    /\ UNCHANGED <<entries, file, unsaved>>

WriteThenPush(a, new) ==
    /\ new.id \in Ids
    /\ op' = [op EXCEPT ![a] = [kind |-> "write", next |-> "push", id |-> new.id, new |-> new,
                                snap |-> Append(Snapshot(entries), Save(new, new.reason = "manual"))]]
    /\ UNCHANGED <<entries, file, unsaved>>

End(a) == op' = [op EXCEPT ![a] = Idle]

StoreInit ==
    /\ entries = <<>>
    /\ file = <<>>
    /\ op = [a \in Actors |-> Idle]
    /\ unsaved = FALSE

-----------------------------------------------------------------------------
(* Changes that are written before they are made. *)

\* set_disabled; update_credential_fields with enabled
SetDisabled(a, id, disabled) ==
    /\ Known(id)
    /\ WriteThenApply(a, id, [reason |-> ReasonOf(disabled)],
                      With(ManualSnapshot(entries), id, [disabled |-> disabled]))

\* set_priority, set_proxy_id, set_credential_concurrency
SetPriority(a, id, prio) ==
    /\ Known(id)
    /\ WriteThenApply(a, id, [prio |-> prio], With(ManualSnapshot(entries), id, [prio |-> prio]))

\* replace_imported_credential: another secret, and its own disabled flag.
ReplaceImported(a, id, secret, disabled) ==
    LET e == Find(id)
    IN  /\ Known(id) /\ ~Holds(secret, id)
        /\ WriteThenApply(a, id, [secret |-> secret, prio |-> e.prio, region |-> e.region,
                                  reason |-> ReasonOf(disabled)],
                          With(ManualSnapshot(entries), id,
                               [secret |-> secret, prio |-> e.prio, region |-> e.region,
                                disabled |-> disabled]))

\* merge_imported_credential_missing: fills what is missing, none of it here, and
\* writes the whole credential back.
MergeImported(a, id) ==
    Known(id) /\ WriteThenApply(a, id, Clone(Find(id)), ManualSnapshot(entries))

SameAccount(secret) ==
    {i \in DOMAIN entries : /\ entries[i].secret \in Social
                            /\ UserOf[entries[i].secret] = UserOf[secret]}

\* Fault: a login takes the disable of the credential it renews out of the file.
UpdateSocialEnabling(a, secret) ==
    LET same == SameAccount(secret)
        e == entries[CHOOSE i \in same : \A j \in same : i <= j]
        clone == Clone([e EXCEPT !.secret = secret])
    IN  /\ same # {}
        /\ WriteThenApply(a, e.id, clone, With(Snapshot(entries), e.id,
                          [secret |-> secret, prio |-> e.prio, region |-> e.region, disabled |-> FALSE]))

\* upsert_prevalidated_social_credential: the first social credential of the same
\* account gets the new secret ...
UpdateSocial(a, secret) ==
    LET same == SameAccount(secret)
        e == entries[CHOOSE i \in same : \A j \in same : i <= j]
        clone == Clone([e EXCEPT !.secret = secret])
    IN  /\ same # {}
        /\ WriteThenApply(a, e.id, clone, With(Snapshot(entries), e.id,
                                               [secret |-> secret, prio |-> e.prio, region |-> e.region,
                                                disabled |-> e.reason = "manual"]))

\* ... or there is none, and one is inserted.
InsertSocial(a, secret) ==
    /\ op[a] = Idle /\ SameAccount(secret) = {}
    /\ WriteThenPush(a, New(NextId, secret, FALSE))

-----------------------------------------------------------------------------
(* New credentials. *)

\* add_imported_credential: the check for duplicates and the id under one lock;
\* the id of the import is kept if it is free.
AddImported(a, id, secret, disabled) ==
    /\ op[a] = Idle /\ ~Holds(secret, 0)
    /\ WriteThenPush(a, New(IF Known(id) THEN NextId ELSE id, secret, disabled))

\* add_credential: the check for duplicates ...
AddCredential(a, secret) ==
    /\ op[a] = Idle /\ ~Holds(secret, 0)
    /\ op' = [op EXCEPT ![a] = [kind |-> "validate", secret |-> secret]]
    /\ UNCHANGED <<entries, file, unsaved>>

\* ... a refresh over the network, which may fail ...
ValidationFails(a) ==
    /\ op[a].kind = "validate"
    /\ End(a)
    /\ UNCHANGED <<entries, file, unsaved>>

\* ... and the id, max + 1, with the snapshot.
PickId(a) ==
    /\ op[a].kind = "validate"
    /\ WriteThenPush(a, New(NextId, op[a].secret, FALSE))

-----------------------------------------------------------------------------
(* Changes that are saved after they are made. *)

ChangeThenSave(a, S) ==
    /\ op[a] = Idle
    /\ entries' = S
    /\ op' = [op EXCEPT ![a] = [kind |-> "save"]]
    /\ UNCHANGED <<file, unsaved>>

\* delete_credential: only a disabled one.
DeleteCredential(a, id) ==
    /\ Known(id) /\ Find(id).reason # "none"
    /\ LET kept == DOMAIN entries \ Positions(id)
       IN  \E order \in [1 .. Cardinality(kept) -> kept] :
               /\ \A i, j \in DOMAIN order : i < j => order[i] < order[j]
               /\ ChangeThenSave(a, [i \in DOMAIN order |-> entries[order[i]]])

\* set_region, set_endpoint
SetRegion(a, id, r) == Known(id) /\ ChangeThenSave(a, With(entries, id, [region |-> r]))

\* reset_and_enable; a successful reprobe, apply_reprobe_outcome
Enable(a, id) == Known(id) /\ ChangeThenSave(a, With(entries, id, [reason |-> "none"]))

\* mark_credential_banned
MarkBanned(a, id) == Known(id) /\ ChangeThenSave(a, With(entries, id, [reason |-> "banned"]))

\* persist_credentials, up to the write
Persist(a) ==
    /\ op[a].kind = "save"
    /\ op' = [op EXCEPT ![a] = [kind |-> "write", next |-> "end", snap |-> Snapshot(entries)]]
    /\ UNCHANGED <<entries, file, unsaved>>

-----------------------------------------------------------------------------
(* write_credentials_snapshot and what follows it. *)

WriteFile(a) ==
    /\ op[a].kind = "write"
    /\ file' = op[a].snap
    /\ unsaved' = FALSE
    /\ IF op[a].next = "end"
         THEN End(a)
         ELSE op' = [op EXCEPT ![a] = [kind |-> op[a].next, id |-> op[a].id, new |-> op[a].new]]
    /\ UNCHANGED entries

\* The caller gets an error; a change that is not made yet is not made.
WriteFails(a) ==
    /\ op[a].kind = "write"
    /\ unsaved' = (unsaved \/ op[a].next = "end")
    /\ End(a)
    /\ UNCHANGED <<entries, file>>

\* The entry may be gone.
Apply(a) ==
    /\ op[a].kind = "apply"
    /\ entries' = IF Known(op[a].id) THEN With(entries, op[a].id, op[a].new) ELSE entries
    /\ End(a)
    /\ UNCHANGED <<file, unsaved>>

Push(a) ==
    /\ op[a].kind = "push"
    /\ entries' = Append(entries, op[a].new)
    /\ End(a)
    /\ UNCHANGED <<file, unsaved>>

-----------------------------------------------------------------------------
(* Failures of calls that disable, and what enables again, without a save. *)
DisableForNow(id) ==
    /\ Known(id)
    /\ entries' = With(entries, id, [reason |-> "passing"])
    /\ UNCHANGED <<file, op, unsaved>>

Recover(id) ==
    /\ Known(id) /\ Find(id).reason = "passing"
    /\ entries' = With(entries, id, [reason |-> "none"])
    /\ UNCHANGED <<file, op, unsaved>>

\* MultiTokenManager::new refuses a file with an id twice.
Loads(F) == \A i, j \in DOMAIN F : F[i].id = F[j].id => i = j

\* Before in a list that is sorted by priority.
Before(i, j) == file[i].prio < file[j].prio \/ (file[i].prio = file[j].prio /\ i < j)

\* The entry of a saved credential: every disable is manual.
Loaded(s) ==
    [id |-> s.id, secret |-> s.secret, prio |-> s.prio, region |-> s.region,
     reason |-> ReasonOf(s.disabled)]

\* The process dies and starts again.
Restart ==
    /\ Loads(file)
    /\ \E order \in [DOMAIN file -> DOMAIN file] :
           /\ \A i, j \in DOMAIN file : i < j => Before(order[i], order[j])
           /\ entries' = [i \in DOMAIN file |-> Loaded(file[order[i]])]
    /\ op' = [a \in Actors |-> Idle]
    /\ unsaved' = FALSE
    /\ UNCHANGED file

ActorStep(a) ==
    \/ \E id \in Ids, d \in BOOLEAN : SetDisabled(a, id, d)
    \/ \E id \in Ids, p \in Priorities : SetPriority(a, id, p)
    \/ \E id \in Ids, s \in Secrets, d \in BOOLEAN : ReplaceImported(a, id, s, d)
    \/ \E id \in Ids : MergeImported(a, id)
    \/ \E s \in Social : UpdateSocial(a, s) \/ InsertSocial(a, s)
    \/ \E id \in Ids, s \in Secrets, d \in BOOLEAN : AddImported(a, id, s, d)
    \/ \E s \in Secrets : AddCredential(a, s)
    \/ ValidationFails(a) \/ PickId(a)
    \/ \E id \in Ids : DeleteCredential(a, id) \/ Enable(a, id) \/ MarkBanned(a, id)
    \/ \E id \in Ids, r \in Regions : SetRegion(a, id, r)
    \/ Persist(a) \/ WriteFile(a) \/ WriteFails(a) \/ Apply(a) \/ Push(a)

StoreNext ==
    \/ \E a \in Actors : ActorStep(a)
    \/ \E id \in Ids : DisableForNow(id) \/ Recover(id)
    \/ Restart

StoreSpec == StoreInit /\ [][StoreNext]_storeVars

-----------------------------------------------------------------------------
Quiet == \A a \in Actors : op[a] = Idle

\* The file can be loaded at any moment the process may die.  With no change under way,
\* and none that failed to be saved, a restart brings back every credential as it is, in
\* whatever order the two kinds of operations came, and none that was deleted; and who is
\* disabled by hand stays so.
RestartRestores ==
    /\ Loads(file)
    /\ Quiet /\ ~unsaved =>
        LET saved(e) == {j \in DOMAIN file : file[j].id = e.id /\ Clone(file[j]) = Clone(e)}
        IN  /\ Len(file) = Len(entries)
            /\ \A i \in DOMAIN entries : saved(entries[i]) # {}
            /\ \A i \in DOMAIN entries : entries[i].reason = "manual" =>
                   \A j \in saved(entries[i]) : file[j].disabled

=============================================================================
