------------------------------- MODULE ApiKeys -------------------------------
(***************************************************************************)
(* The keys of clients: AdminService changes them (admin/service.rs), the   *)
(* middleware checks them and counts what each has used                     *)
(* (anthropic/middleware.rs), and both write all of them to one file.       *)
(*                                                                          *)
(* An administrator's request changes the list under the write lock, lets   *)
(* go of it, and saves under the read lock, which it holds until the file   *)
(* is written; the usage of a request is counted and written under the      *)
(* write lock.  The file is not replaced but overwritten: a crash in the    *)
(* middle leaves nothing that can be read, which loads as an empty list.    *)
(*                                                                          *)
(* Entries are numbered in the order they were added; a number is not used  *)
(* twice (uuid).  Usage is counted in requests: it stands for tokens and    *)
(* credits.                                                                 *)
(***************************************************************************)
EXTENDS Integers, FiniteSets, FiniteSetsExt

CONSTANTS
    KeyValues,              \* what clients send
    KeyNames, FirstName,    \* what entries are called; what a new one is called
    ConfigKey,              \* the key of the configuration, which an empty list adopts
    Clients, KeyAdmins,     \* requests of clients and of administrators
    UsageLimit,             \* token_limit and credit_limit of every key
    MaxKeys,                \* bound on the entries ever added
    Editable                \* bound: the entries that get other names and flags

ASSUME KeyAssumption ==
    /\ ConfigKey \in KeyValues /\ FirstName \in KeyNames
    /\ UsageLimit \in Nat \ {0} /\ MaxKeys \in Nat \ {0}
    /\ IsFiniteSet(Clients)

VARIABLES
    keys,                   \* api_keys
    keysFile,               \* what kiro_api_keys.json reads as
    added,                  \* entries ever added
    change,                 \* each administrator's step: "none", "create", "save", "undo"
    creates,                \* the value and entry an administrator creates
    session,                \* the entry a client's request is counted on, if there is one
    keysUnsaved,            \* history: a write failed and none has succeeded since
    keysRenamed             \* history: so of an update that was refused and gave a name

keyHistory == <<keysUnsaved, keysRenamed>>
keyVars == <<keys, keysFile, added, change, creates, session, keyHistory>>

NewKey(value) == [value |-> value, name |-> FirstName, enabled |-> TRUE, used |-> 0]
NoKeys == [id \in {} |-> NewKey(ConfigKey)]
FirstKey(id) == [i \in {id} |-> NewKey(ConfigKey)]
NoSession == 0
FreeSession == -1           \* of the configuration's key
NoCreate == [value |-> ConfigKey, id |-> 0]
Without(id) == [i \in DOMAIN keys \ {id} |-> keys[i]]
WithKey(id, value) ==
    [i \in DOMAIN keys \cup {id} |-> IF i = id THEN NewKey(value) ELSE keys[i]]

KeysInit ==
    /\ keys = FirstKey(1) /\ keysFile = keys /\ added = 1
    /\ change = [a \in KeyAdmins |-> "none"]
    /\ creates = [a \in KeyAdmins |-> NoCreate]
    /\ session = [r \in Clients |-> NoSession]
    /\ keysUnsaved = FALSE /\ keysRenamed = FALSE

Then(a, step) ==
    /\ change' = [change EXCEPT ![a] = step]
    /\ step = "none" => creates' = [creates EXCEPT ![a] = NoCreate]

\* The file has what memory has then, or the write failed: before the file was
\* truncated or behind it.
KeysWritten == keysFile' = keys' /\ keysUnsaved' = FALSE /\ keysRenamed' = FALSE
KeysNotWritten == /\ keysFile' \in {keysFile, NoKeys} /\ keysUnsaved' = TRUE
                  /\ UNCHANGED keysRenamed

-----------------------------------------------------------------------------
(* AdminService *)

\* create_api_key compares the value with those there are ...
CheckCreate(a, value) ==
    /\ change[a] = "none"
    /\ \A id \in DOMAIN keys : keys[id].value # value
    /\ creates' = [creates EXCEPT ![a].value = value]
    /\ Then(a, "create")
    /\ UNCHANGED <<keys, keysFile, added, session, keyHistory>>

\* ... and takes the lock again to add it.
PushKey(a) ==
    /\ change[a] = "create" /\ added < MaxKeys
    /\ added' = added + 1
    /\ keys' = WithKey(added', creates[a].value)
    /\ creates' = [creates EXCEPT ![a].id = added']
    /\ Then(a, "save")
    /\ UNCHANGED <<keysFile, session, keyHistory>>

Collides(id, value) == \E i \in DOMAIN keys \ {id} : keys[i].value = value

NamesOf(id) == IF id \in Editable THEN KeyNames ELSE {keys[id].name}
FlagsOf(id) == IF id \in Editable THEN BOOLEAN ELSE {keys[id].enabled}

\* A value that is not sent is not compared.
update_api_key(a, id) ==
    \E name \in NamesOf(id), value \in KeyValues, enabled \in FlagsOf(id) :
        /\ value = keys[id].value \/ ~Collides(id, value)
        /\ keys' = [keys EXCEPT ![id] =
                        [value |-> value, name |-> name, enabled |-> enabled, used |-> keys[id].used]]

\* The name is assigned before the value is compared: a request that is refused
\* leaves it in memory, and saves nothing.
RefuseUpdate(a, id) ==
    /\ change[a] = "none"
    /\ \E name \in NamesOf(id), value \in KeyValues :
           /\ Collides(id, value) /\ name # keys[id].name
           /\ keys' = [keys EXCEPT ![id].name = name]
    /\ keysRenamed' = TRUE
    /\ UNCHANGED <<keysFile, added, change, creates, session, keysUnsaved>>

delete_api_key(a, id) == keys' = Without(id)

reset_api_key_usage(a, id) == keys' = [keys EXCEPT ![id].used = 0]

ChangeKey(a, id) ==
    /\ change[a] = "none"
    /\ update_api_key(a, id) \/ delete_api_key(a, id) \/ reset_api_key_usage(a, id)
    /\ Then(a, "save")
    /\ UNCHANGED <<keysFile, added, creates, session, keyHistory>>

\* A key whose creation cannot be saved is taken out again, without another save.
save_api_keys(a) ==
    /\ change[a] = "save"
    /\ UNCHANGED <<keys, added, session>>
    /\ \/ KeysWritten /\ Then(a, "none")
       \/ KeysNotWritten /\ creates[a].id = 0 /\ Then(a, "none")
       \/ KeysNotWritten /\ creates[a].id # 0 /\ Then(a, "undo") /\ UNCHANGED creates

UndoCreate(a) ==
    /\ change[a] = "undo"
    /\ keys' = Without(creates[a].id)
    /\ Then(a, "none")
    /\ keysUnsaved' = TRUE
    /\ UNCHANGED <<keysFile, added, session, keysRenamed>>

-----------------------------------------------------------------------------
(* The middleware *)

\* The first entry with the value decides; the configuration's key counts if there is none.
EntryOf(value) == Min({id \in DOMAIN keys : keys[id].value = value})

WithinLimits(id) == keys[id].used < UsageLimit

Authenticate(r, value) ==
    /\ session[r] = NoSession
    /\ \/ /\ \E id \in DOMAIN keys : keys[id].value = value
          /\ keys[EntryOf(value)].enabled /\ WithinLimits(EntryOf(value))
          /\ session' = [session EXCEPT ![r] = EntryOf(value)]
       \/ /\ DOMAIN keys = {} /\ value = ConfigKey
          /\ session' = [session EXCEPT ![r] = FreeSession]
    /\ UNCHANGED <<keys, keysFile, added, change, creates, keyHistory>>

\* Fault: the usage is counted and not written.
RecordInMemory(id) ==
    /\ keys' = [keys EXCEPT ![id].used = @ + 1]
    /\ UNCHANGED <<keysFile, keyHistory>>

\* record_api_key_usage of an entry that is still there.
RecordUsage(id) ==
    /\ keys' = [keys EXCEPT ![id].used = @ + 1]
    /\ KeysWritten \/ KeysNotWritten

\* The request ends; a failed or abandoned one is not counted.
EndOfRequest(r) ==
    /\ session[r] # NoSession
    /\ session' = [session EXCEPT ![r] = NoSession]
    /\ \/ \E id \in DOMAIN keys : id = session[r] /\ RecordUsage(id)
       \/ UNCHANGED <<keys, keysFile, keyHistory>>
    /\ UNCHANGED <<added, change, creates>>

-----------------------------------------------------------------------------
\* Somebody may be in the middle of a write.
MidWrite ==
    \/ \E a \in KeyAdmins : change[a] = "save"
    \/ \E r \in Clients : session[r] \notin {NoSession, FreeSession}

\* load_api_keys_runtime_with_config_key: an empty or unreadable list adopts the key of
\* the configuration, as if it were the first start.
Restart(torn) ==
    /\ torn => MidWrite
    /\ IF torn \/ keysFile = NoKeys
         THEN /\ added < MaxKeys /\ added' = added + 1
              /\ keys' = FirstKey(added')
              /\ \/ KeysWritten
                 \/ keysFile' = NoKeys /\ keysUnsaved' = TRUE /\ keysRenamed' = FALSE
         ELSE /\ keys' = keysFile /\ UNCHANGED <<keysFile, added>>
              /\ keysUnsaved' = FALSE /\ keysRenamed' = FALSE
    /\ change' = [a \in KeyAdmins |-> "none"]
    /\ creates' = [a \in KeyAdmins |-> NoCreate]
    /\ session' = [r \in Clients |-> NoSession]

KeysNext ==
    \/ \E a \in KeyAdmins :
           \/ \E value \in KeyValues : CheckCreate(a, value)
           \/ \E id \in DOMAIN keys : ChangeKey(a, id) \/ RefuseUpdate(a, id)
           \/ PushKey(a) \/ save_api_keys(a) \/ UndoCreate(a)
    \/ \E r \in Clients : EndOfRequest(r) \/ \E value \in KeyValues : Authenticate(r, value)
    \/ \E torn \in BOOLEAN : Restart(torn)

-----------------------------------------------------------------------------
NameAside(list) == [id \in DOMAIN list |-> [list[id] EXCEPT !.name = FirstName]]

\* The file has what memory has, unless a change is under way or a write failed: of two
\* administrators and a request that save at once, none writes back an older list.  After
\* an update that was refused the two differ, and in nothing but names, until the next write.
KeysFileFollows ==
    (\A a \in KeyAdmins : change[a] \in {"none", "create"}) /\ ~keysUnsaved =>
        IF keysRenamed THEN NameAside(keysFile) = NameAside(keys) ELSE keysFile = keys

\* A key is used beyond its limit only by requests that ran together: the check is made
\* when a request starts, the usage is counted when it ends.
OveruseBounded ==
    \A id \in DOMAIN keys :
        keys[id].used + Cardinality({r \in Clients : session[r] = id})
            < UsageLimit + Cardinality(Clients)

\* The clients' keys: their file follows memory, but for the names an update gave that was
\* refused, and no limit is passed by more than the requests that ran together.
KeysKeptAndCounted == KeysFileFollows /\ OveruseBounded

=============================================================================
