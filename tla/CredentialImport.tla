--------------------------- MODULE CredentialImport ---------------------------
(***************************************************************************)
(* Credentials carried in and out (admin/service.rs): import_credentials    *)
(* with its three modes and its dry run, import_credential_record, the full *)
(* backup, the snapshot for other programs, and what each kind of           *)
(* credential is taken to be when its source says little about it.  The     *)
(* insertion, the merge and the replacement are MultiTokenManager's.        *)
(*                                                                          *)
(* An import compares every record with the credentials there were when it  *)
(* began, but looks for secrets already in use when it inserts.  Each       *)
(* change decides in one critical section and is applied in another, with   *)
(* the file written between, so that administrators may delete and requests *)
(* may disable a credential in the middle of an import.                     *)
(*                                                                          *)
(* Of a record the fields are kept that decide what it matches and what it  *)
(* is; the rest of them, forty and more, travel like label.                 *)
(***************************************************************************)
EXTENDS Naturals, Sequences, FiniteSets, SequencesExt, FiniteSetsExt

CONSTANTS
    Packages,               \* what administrators import
    MaxImportId, MaxImports,
    GitHubEmails,           \* the addresses that name GitHub
    Absent                  \* a field that is not there

Fields == {"id", "source", "user", "email", "label", "api", "token", "method", "provider", "start", "hash",
           "client", "endpoint", "tenant", "disabled"}

\* What can be read of a credential that is imported.
IsRecord(r) ==
    /\ r = [f \in Fields |-> r[f]] /\ r.id \in Nat
    /\ {r.endpoint, r.tenant, r.disabled} \subseteq BOOLEAN

ASSUME ImportAssumption ==
    /\ MaxImportId \in Nat \ {0} /\ MaxImports \in Nat
    /\ \A package \in Packages :
           /\ package \in Seq({package[n] : n \in DOMAIN package}) /\ package # <<>>
           /\ \A n \in DOMAIN package : IsRecord(package[n])
    /\ Absent \notin {"api_key", "external_idp", "social", "idc",
                      "google", "github", "builder", "enterprise", "azure"}

VARIABLES
    entries,                \* MultiTokenManager.entries: credential and reason by id
    imported,               \* credentials.json
    archive,                \* the last backup or snapshot somebody took: its form, its records
                            \* and the ids of the credentials they tell of
    task,                   \* the import under way
    record,                 \* the import_credential_record under way
    begun,                  \* how many have begun
    merged,                 \* history: the ids of entries a merge has filled
    mixed,                  \* history: those of them in the backup
    met,                    \* history: two insertions have been under way at once
    undisturbed             \* history: nothing else has happened since the import began

importVars == <<entries, imported, archive, task, record, begun, merged, mixed,
                met, undisturbed>>

-----------------------------------------------------------------------------
(* What a credential is.  A record is                                       *)
(*   [id, source, user, email, label : data or Absent, where source is its  *)
(*    account with another program, a number or something else,             *)
(*    api, token : secrets or Absent,                                       *)
(*    method, provider, start, hash : what its source says of it,           *)
(*    client : "none", "id" or "pair", endpoint : a token endpoint is given,*)
(*    tenant : it tells where its tokens are from, disabled].               *)

Methods == {"api_key", "external_idp", "social", "idc"}

\* normalize_import_auth_method, in the order of its rules; a name nobody knows counts as
\* given, but decides nothing.
NamedMethod(r) ==
    IF r.api # Absent \/ r.method = "api_key" THEN "api_key"
    ELSE IF r.method = "external_idp" \/ r.endpoint THEN "external_idp"
    ELSE IF r.method \in Methods THEN r.method
    ELSE IF r.method = Absent
    THEN IF r.provider = "azure" THEN "external_idp"
         ELSE IF r.client # "none" THEN "idc" ELSE "social"
    ELSE IF r.client = "pair" THEN "idc" ELSE "social"

\* A record that tells its tenant is external, whatever it says.
MethodOf(r) == IF r.tenant THEN "external_idp" ELSE NamedMethod(r)

\* canonical_idc_provider and infer_import_provider
ProviderOf(r, method) ==
    CASE method = "idc" ->
             IF "enterprise" \in {r.start, r.provider} THEN "enterprise" ELSE "builder"
      [] method = "external_idp" -> IF r.provider = Absent THEN "azure" ELSE r.provider
      [] method = "social" -> IF r.provider # Absent THEN r.provider
                              ELSE IF r.email \in GitHubEmails THEN "github" ELSE "google"
      [] OTHER -> r.provider

\* resolve_idc_client_id_hash
HashOf(r, provider) ==
    IF r.hash # Absent THEN r.hash
    ELSE IF r.start # Absent THEN r.start
    ELSE IF provider = "builder" THEN "builder" ELSE Absent

\* normalize_imported_credential
Normalize(r) ==
    LET method == MethodOf(r)
        provider == ProviderOf(r, method)
    IN  IF method = "idc"
        THEN [r EXCEPT !.method = method, !.provider = provider, !.hash = HashOf(r, provider)]
        ELSE [r EXCEPT !.method = method, !.provider = provider,
                       !.endpoint = @ \/ (method = "external_idp" /\ r.tenant)]

\* What it refuses of what it has normalised.
Acceptable(n) ==
    /\ n.method = "external_idp" => n.client # "none" /\ n.endpoint
    /\ n.method = "idc" => n.hash # Absent /\ ~(n.provider = "enterprise" /\ n.hash = "builder")

IsApiKey(c) == c.api # Absent \/ c.method = "api_key"

\* validate_imported_credential_material
HasMaterial(c) == IF IsApiKey(c) THEN c.api # Absent ELSE c.token # Absent

SecretsOf(c) == {c.api, c.token} \ {Absent}

\* looks_like_cached_credential: what only a full record would have is missing.
looks_like_cached_credential(r) ==
    /\ r.token # Absent
    /\ r.provider # Absent \/ r.method # Absent \/ r.client # "none"
    /\ r.start = Absent /\ r.api = Absent /\ ~r.endpoint /\ ~r.disabled

\* There the provider names the method, if nothing else does.
credential_from_cached_credential(r) ==
    IF r.method # Absent THEN r
    ELSE [r EXCEPT !.method = CASE r.provider \in {"google", "github"} -> "social"
                                [] r.provider \in {"builder", "enterprise"} -> "idc"
                                [] r.provider = "azure" -> "external_idp"
                                [] OTHER -> Absent]

\* What the snapshot keeps of a credential, for other programs to read.  Its id there is its
\* account elsewhere, if it has one: read again that is no id, or it is somebody's.
credential_snapshot_export_item(c) ==
    [c EXCEPT !.id = IF c.source = Absent THEN @ ELSE IF c.source \in Nat THEN c.source ELSE 0,
              !.source = IF @ \in Nat THEN Absent ELSE @,
              !.provider = IF @ # Absent THEN @ ELSE IF c.method = "social" THEN "google" ELSE "builder",
              !.api = Absent, !.start = Absent, !.hash = Absent, !.endpoint = FALSE,
              !.label = Absent, !.disabled = FALSE]

\* find_existing_import_match: by id, then by the secrets, then by the user, and of those who
\* come by a social provider by their address; it takes the first there is.
MatchesBy(r, field, known) ==
    {i \in DOMAIN known : r[field] # Absent /\ known[i][field] = r[field]}

imported_credential_is_social(c) == c.method = "social" \/ c.provider \in {"google", "github"}

SocialMatches(r, known) ==
    {i \in MatchesBy(r, "email", known) :
        /\ imported_credential_is_social(r) /\ imported_credential_is_social(known[i])
        /\ Absent \in {r.provider, known[i].provider} \/ r.provider = known[i].provider}

ExistingMatches(r, known) ==
    LET by == [id |-> {r.id} \cap DOMAIN known, api |-> MatchesBy(r, "api", known),
               token |-> MatchesBy(r, "token", known), user |-> MatchesBy(r, "user", known),
               social |-> SocialMatches(r, known)]
        order == <<"id", "api", "token", "user", "social">>
        first == SelectInSeq(order, LAMBDA f : by[f] # {})
    IN  IF first = 0 THEN {0} ELSE by[order[first]]

-----------------------------------------------------------------------------
CredentialsOf(es) == [i \in DOMAIN es |-> es[i].cred]
ImportedEntry(c) == [cred |-> c, reason |-> IF c.disabled THEN "manual" ELSE "none"]

\* imported_secret_duplicate_exists
InUse(c, exclude) ==
    \E i \in DOMAIN entries \ {exclude} : SecretsOf(c) \cap SecretsOf(entries[i].cred) # {}

\* Fault: every insertion gets the id after the last.
NewImportIdLast(r) == IF DOMAIN entries = {} THEN 1 ELSE Max(DOMAIN entries) + 1

\* The id a record asks for, when it is free, or the one after the last.
NewImportId(r) ==
    IF r.id # 0 /\ r.id \notin DOMAIN entries THEN r.id
    ELSE IF DOMAIN entries = {} THEN 1 ELSE Max(DOMAIN entries) + 1

\* merge_imported_missing_fields
Filled(c, r) ==
    [f \in DOMAIN c |->
        CASE f \in {"id", "disabled"} -> c[f]
          [] f = "client" -> IF c[f] = "none" THEN r[f] ELSE c[f]
          [] f \in {"endpoint", "tenant"} -> c[f] \/ r[f]
          [] OTHER -> IF c[f] = Absent THEN r[f] ELSE c[f]]

\* credentials_snapshot_for_persistence: only what an administrator disabled stays so.
Persisted(es) == [i \in DOMAIN es |->
    [es[i].cred EXCEPT !.disabled = (es[i].reason = "manual")]]

NoArchive == [form |-> "none", of |-> <<>>, records |-> <<>>]
IdleImport == [at |-> "idle", mode |-> "skip", dry |-> FALSE, todo |-> <<>>, known |-> <<>>,
         how |-> "none", id |-> 0, next |-> Absent, invalid |-> 0, form |-> "package"]
NoRecord == [at |-> "idle", next |-> Absent, id |-> 0]

ImportInit ==
    /\ entries = <<>> /\ imported = <<>> /\ archive = NoArchive
    /\ task = IdleImport /\ record = NoRecord
    /\ begun = 0 /\ merged = {} /\ mixed = {} /\ met = FALSE /\ undisturbed = TRUE

-----------------------------------------------------------------------------
(* import_credentials *)

BeginImport(package, mode, dry, form) ==
    /\ task.at = "idle" /\ begun < MaxImports
    /\ task' = [IdleImport EXCEPT !.at = "next", !.mode = mode, !.dry = dry, !.form = form,
                            !.todo = package, !.known = CredentialsOf(entries)]
    /\ begun' = begun + 1
    /\ undisturbed' = (record.at = "idle")
    /\ UNCHANGED <<entries, imported, archive, mixed, record, merged, met>>

\* A package is read as a list from the cache of another program if all of it looks so.
ImportPackage(package, mode, dry) ==
    LET cached == \A n \in DOMAIN package : looks_like_cached_credential(package[n])
    IN  BeginImport([n \in DOMAIN package |->
                        IF cached THEN credential_from_cached_credential(package[n]) ELSE package[n]],
                    mode, dry, "package")

\* A backup or a snapshot is imported as it is.
BeginRestore(mode, dry) ==
    archive # NoArchive /\ BeginImport(archive.records, mode, dry, archive.form)

NextRecord(invalid) ==
    task' = [task EXCEPT !.at = IF Len(task.todo) > 1 THEN "next" ELSE "done",
                         !.todo = Tail(@), !.how = "none", !.id = 0, !.next = Absent,
                         !.invalid = @ + IF invalid THEN 1 ELSE 0]

\* A record that is refused, skipped or only tried changes nothing.
PassOver(invalid) ==
    /\ NextRecord(invalid)
    /\ UNCHANGED <<entries, imported, archive, mixed, record, begun, merged, met, undisturbed>>

\* The file is written, and the change waits for the second critical section.
Prepare(how, id, c, known) ==
    /\ task' = [task EXCEPT !.at = "apply", !.how = how, !.id = id, !.next = c]
    /\ imported' = known
    /\ met' = (met \/ record.at # "idle")
    /\ UNCHANGED <<entries, archive, mixed, record, begun, merged, undisturbed>>

Put(known, id, c) == [i \in DOMAIN known \cup {id} |-> IF i = id THEN c ELSE known[i]]

\* add_imported_credential
AddImported(r) ==
    LET id == NewImportId(r)
        c == [r EXCEPT !.id = id]
    IN  IF ~HasMaterial(r) \/ InUse(r, 0) THEN PassOver(TRUE)
        ELSE id <= MaxImportId /\ Prepare("add", id, c, Put(Persisted(entries), id, c))

\* merge_imported_credential_missing
MergeImported(r, id) ==
    IF ~HasMaterial(r) \/ id \notin DOMAIN entries \/ InUse(r, id) THEN PassOver(TRUE)
    ELSE LET e == entries[id]
             c == Filled(e.cred, r)
         IN  Prepare("merge", id, c, Put(Persisted(entries), id,
                                [c EXCEPT !.disabled = (e.reason = "manual")]))

\* replace_imported_credential
ReplaceImported(r, id) ==
    IF ~HasMaterial(r) \/ id \notin DOMAIN entries \/ InUse(r, id) THEN PassOver(TRUE)
    ELSE LET c == [r EXCEPT !.id = id]
         IN  Prepare("replace", id, c, Put(Persisted(entries), id, c))

\* One record, up to its first critical section.
ImportNext ==
    /\ task.at = "next"
    /\ \E n \in {Normalize(Head(task.todo))} :
       \E match \in ExistingMatches(n, task.known) :
           IF ~Acceptable(n) THEN PassOver(TRUE)
           ELSE IF task.dry \/ (match # 0 /\ task.mode = "skip") THEN PassOver(FALSE)
           ELSE IF match = 0 THEN AddImported(n)
           ELSE IF task.mode = "merge" THEN MergeImported(n, match)
           ELSE ReplaceImported(n, match)

\* ... and its second: what was matched may be gone by now, and what is added may not
\* get an id that has been given away meanwhile (two entries of one id are left out).
ImportApply ==
    /\ task.at = "apply"
    /\ task.how = "add" => task.id \notin DOMAIN entries
    /\ IF task.how # "add" /\ task.id \notin DOMAIN entries
         THEN PassOver(TRUE)
         ELSE /\ entries' = Put(entries, task.id,
                     IF task.how = "merge"
                     THEN [cred |-> task.next, reason |-> entries[task.id].reason]
                     ELSE ImportedEntry(task.next))
              /\ merged' = IF task.how = "merge" THEN merged \cup {task.id}
                           ELSE merged \ {task.id}
              /\ NextRecord(FALSE)
              /\ UNCHANGED <<imported, archive, mixed, record, begun, met, undisturbed>>

EndImport ==
    /\ task.at = "done"
    /\ task' = IdleImport
    /\ undisturbed' = TRUE
    /\ UNCHANGED <<entries, imported, archive, mixed, record, begun, merged, met>>

-----------------------------------------------------------------------------
(* import_credential_record, and those that act meanwhile *)

\* The record is normalised, its token refreshed, and its secrets looked for.
CheckRecord(r) ==
    /\ record.at = "idle" /\ begun < MaxImports
    /\ Acceptable(Normalize(r)) /\ HasMaterial(Normalize(r)) /\ ~InUse(Normalize(r), 0)
    /\ record' = [NoRecord EXCEPT !.at = "number", !.next = Normalize(r)]
    /\ begun' = begun + 1
    /\ undisturbed' = FALSE
    /\ met' = (met \/ task.at = "apply")
    /\ UNCHANGED <<entries, imported, archive, mixed, task, merged>>

\* add_prevalidated_credential picks the id in a section of its own.
NumberRecord ==
    /\ record.at = "number"
    /\ NewImportId(record.next) <= MaxImportId
    /\ LET c == [record.next EXCEPT !.id = NewImportId(record.next)]
       IN  /\ record' = [record EXCEPT !.at = "insert", !.id = c.id, !.next = c]
           /\ imported' = Put(Persisted(entries), c.id, c)
    /\ UNCHANGED <<entries, archive, mixed, task, begun, merged, met, undisturbed>>

InsertRecord ==
    /\ record.at = "insert" /\ record.id \notin DOMAIN entries
    /\ entries' = Put(entries, record.id, ImportedEntry(record.next))
    /\ merged' = merged \ {record.id}
    /\ record' = NoRecord
    /\ UNCHANGED <<imported, archive, mixed, task, begun, met, undisturbed>>

Disable(id, reason) ==
    /\ id \in DOMAIN entries /\ entries[id].reason = "none"
    /\ entries' = [entries EXCEPT ![id].reason = reason]
    /\ imported' = IF reason = "manual" THEN Persisted(entries') ELSE imported
    /\ undisturbed' = FALSE
    /\ UNCHANGED <<archive, mixed, task, record, begun, merged, met>>

DeleteEntry(id) ==
    /\ id \in DOMAIN entries /\ entries[id].reason # "none"
    /\ entries' = [i \in DOMAIN entries \ {id} |-> entries[i]]
    /\ imported' = Persisted(entries')
    /\ undisturbed' = FALSE
    /\ UNCHANGED <<archive, mixed, task, record, begun, merged, met>>

\* export_credentials_with_state_by_ids: disabled is whoever is, for whatever reason.
Exported == [i \in DOMAIN entries |->
    [entries[i].cred EXCEPT !.disabled = (entries[i].reason # "none")]]

\* export_credential_backup keeps everything, export_credential_snapshot does not.
Export(form, items) ==
    /\ entries # <<>> /\ task.at = "idle"
    /\ \E of \in SetToSeqs(DOMAIN entries) :
           archive' = [form |-> form, of |-> of,
                       records |-> [n \in DOMAIN of |-> items[of[n]]]]
    /\ mixed' = merged
    /\ UNCHANGED <<entries, imported, task, record, begun, merged, met, undisturbed>>

ExportBackup == Export("backup", Exported)
ExportSnapshot ==
    Export("snapshot", [i \in DOMAIN entries |-> credential_snapshot_export_item(Exported[i])])

Modes == {"skip", "merge", "replace"}

ImportNextState ==
    \/ \E package \in Packages, mode \in Modes : ImportPackage(package, mode, FALSE)
    \/ \E package \in Packages : ImportPackage(package, "skip", TRUE)
    \/ BeginRestore("replace", FALSE)
    \/ ImportNext \/ ImportApply \/ EndImport
    \/ \E package \in Packages : CheckRecord(package[1])
    \/ NumberRecord \/ InsertRecord
    \/ \E id \in DOMAIN entries : Disable(id, "manual") \/ Disable(id, "auto") \/ DeleteEntry(id)
    \/ ExportBackup \/ ExportSnapshot

ImportSpec == ImportInit /\ [][ImportNextState]_importVars

-----------------------------------------------------------------------------
\* No two credentials share a secret, whatever is imported in whatever mode, unless two
\* insertions have been between their two critical sections at once.
SecretsUnique ==
    ~met => \A i, j \in DOMAIN entries :
                i # j => SecretsOf(entries[i].cred) \cap SecretsOf(entries[j].cred) = {}

\* Somebody's backup or snapshot, with no secret in it twice, has replaced what there is and
\* nobody interfered, and the pool was empty or still held all of it; otherwise a record may
\* take the place of another one of its user, or of its address.
Restored(form) ==
    LET r == archive.records
        ids == {r[n].id : n \in DOMAIN r}
    IN  /\ task.at = "done" /\ task.form = form /\ undisturbed
        /\ \A n, k \in DOMAIN r : n # k => SecretsOf(r[n]) \cap SecretsOf(r[k]) = {}
        /\ DOMAIN task.known = {} \/ ids \subseteq DOMAIN task.known

\* A full backup leaves every credential as it was, usable or not, under the id it had:
\* what it is has not been guessed anew.
BackupRestores ==
    Restored("backup") /\ task.invalid = 0 =>
        \A n \in DOMAIN archive.records :
            LET c == archive.records[n]
            IN  c.id \notin mixed =>
                    /\ c.id \in DOMAIN entries /\ entries[c.id].cred = c
                    /\ entries[c.id].reason = IF c.disabled THEN "manual" ELSE "none"

\* A snapshot says less, but nothing that it restores is taken for something else.
Kind(c) == <<c.method, c.provider, c.user, c.email, c.token, c.client>>
SaysEnough(c) ==
    \/ c.method = "social"
    \/ c.method = "idc" /\ c.provider = "builder"
    \/ c.method = "external_idp" /\ c.tenant /\ c.token # Absent

\* If nothing was there, all that can be restored from it comes back, under whatever id: an
\* account elsewhere, which it names instead of the id, may be no id, or somebody else's.
AllComeBack ==
    LET c == archive.records
    IN  DOMAIN task.known = {} =>
            \A n \in DOMAIN c :
                archive.of[n] \notin mixed /\ SaysEnough(c[n]) =>
                    \E i \in DOMAIN entries : Kind(entries[i].cred) = Kind(c[n])

\* If it names an id with every record and none twice, each comes back under the id it names,
\* and what cannot be restored is refused, and stays as it is if it is still there; unless
\* the id, or the secret, has become somebody else's.
Numbered(records) ==
    \A n \in DOMAIN records :
        records[n].id # 0 /\ \A k \in DOMAIN records \ {n} : records[k].id # records[n].id

EachComesBack ==
    \A n \in DOMAIN archive.records :
        LET c == archive.records[n]
            known == task.known
        IN  /\ archive.of[n] \notin mixed
            /\ c.id \in DOMAIN known => known[c.id].token = c.token
            => IF SaysEnough(c)
               THEN c.id \in DOMAIN entries /\ Kind(entries[c.id].cred) = Kind(c)
               ELSE c.id \in DOMAIN entries =>
                        c.id \in DOMAIN known /\ entries[c.id].cred = known[c.id]

SnapshotKeepsKinds ==
    Restored("snapshot") =>
        AllComeBack /\ (Numbered(archive.records) /\ ~met => EachComesBack)

\* What an import leaves: no secret twice, and after a backup or a snapshot what it says.
ImportIsFaithful == SecretsUnique /\ BackupRestores /\ SnapshotKeepsKinds

=============================================================================
