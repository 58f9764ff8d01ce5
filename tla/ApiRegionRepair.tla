---------------------------- MODULE ApiRegionRepair ----------------------------
(* The offline command that moves credentials out of regions that do not        *)
(* answer (kiro/api_region_repair.rs).  It reads the credentials file, decides   *)
(* with rules of its own where the program would send each credential's          *)
(* requests, gives those it finds in a bad region another API region, and        *)
(* writes the file again, with a copy of the old one beside it.                  *)
(*                                                                              *)
(* A file is a sequence of credentials; one with a field that is not text is     *)
(* "odd".  The program does not run meanwhile, as the operator confirms.         *)
EXTENDS Regions, Sequences

CONSTANTS
    RegionNames,            \* Blank among them
    CredentialFiles,        \* what the program may leave in the file
    RegionSettings,         \* [configured, default]: the regions of the configuration
    RepairCalls,            \* options of the command
    MaxRepairs              \* bound on the calls

SavedCredentials ==
    [api : RegionNames, region : RegionNames, profile : RegionNames, cli : BOOLEAN, odd : BOOLEAN]

ASSUME RepairAssumption ==
    /\ MaxRepairs \in Nat
    /\ CredentialFiles \subseteq Seq(SavedCredentials)
    /\ RegionSettings \subseteq [configured : RegionNames, default : RegionNames]
    /\ RepairCalls \subseteq [target : RegionNames, bad : SUBSET RegionNames,
                              dead : SUBSET RegionNames, apply : BOOLEAN, stopped : BOOLEAN]

VARIABLES
    credentialsFile,        \* the file, or Damaged
    regionSettings,         \* the configuration
    backups,                 \* the backups beside the file
    repair,                 \* the call under way
    repairs,                \* counts the calls
    heldBefore,              \* history: the file before the last call that changes it
    repairedWith            \* history: the options of the last call that succeeded

repairVars == <<credentialsFile, regionSettings, backups, repair, repairs, heldBefore, repairedWith>>

Damaged == <<[odd |-> TRUE]>>
NoRepair == [at |-> "none"]
Nothing == {}

RepairInit ==
    /\ credentialsFile \in CredentialFiles /\ heldBefore = credentialsFile
    /\ regionSettings \in RegionSettings
    /\ backups = {} /\ repair = NoRepair /\ repairs = 0 /\ repairedWith = Nothing

-----------------------------------------------------------------------------
(* analyze_object: o.bad are the regions called bad, o.dead those that turn out not *)
(* to resolve, none if that is not checked.                                         *)

api_transport_region(p) == FirstSaid(<<p.api, p.configured, p.default, "east">>)

Overridden(p, o) == FirstSaid(<<p.api, p.configured, o.target>>)

\* Fault: the profile decides for every endpoint.
RequestRegionOfProfile(p, o) ==
    IF p.profile = Blank THEN api_transport_region(p)
    ELSE IF p.profile \in o.bad THEN Overridden(p, o)
    ELSE p.profile

request_transport_region(p, o) ==
    IF p.cli \/ p.profile = Blank THEN api_transport_region(p)
    ELSE IF p.profile \in o.bad THEN Overridden(p, o)
    ELSE p.profile

repair_lookup_region(p, o) ==
    IF p.profile \in o.bad THEN Overridden(p, o)
    ELSE FirstSaid(<<p.profile, p.api, p.region, p.configured, p.default, "east">>)

analyze_object(p, o) ==
    \/ p.profile \in o.bad /\ configured_api_region(p) = Blank
    \/ {request_transport_region(p, o), repair_lookup_region(p, o)} \cap o.bad # {}
    \/ request_transport_region(p, o) \in o.dead \ {o.target}

PlaceIn(c) ==
    [api |-> c.api, region |-> c.region, profile |-> c.profile, cli |-> c.cli,
     configured |-> regionSettings.configured, default |-> regionSettings.default]

repair_object(c, o) == IF analyze_object(PlaceIn(c), o) THEN [c EXCEPT !.api = o.target] ELSE c

RepairedFile(F, o) == [i \in DOMAIN F |-> repair_object(F[i], o)]

-----------------------------------------------------------------------------
(* run_with *)

\* No target, no bad region, a target that is one of them, or the program may be
\* running.
Refused(o) == o.target = Blank \/ o.bad = {} \/ o.target \in o.bad \/ (o.apply /\ ~o.stopped)

\* Without --apply, and with nothing to change, the changes are told and that is all.
RunRepair(o) ==
    /\ repair = NoRepair /\ repairs < MaxRepairs
    /\ repairs' = repairs + 1
    /\ IF Refused(o) \/ \E i \in DOMAIN credentialsFile : credentialsFile[i].odd
         THEN UNCHANGED <<repair, repairedWith>>
       ELSE IF o.apply /\ \E i \in DOMAIN credentialsFile :
                               analyze_object(PlaceIn(credentialsFile[i]), o)
         THEN repair' = [at |-> "copy", with |-> o] /\ UNCHANGED repairedWith
       ELSE repairedWith' = (IF o.apply THEN {o} ELSE repairedWith) /\ UNCHANGED repair
    /\ UNCHANGED <<credentialsFile, regionSettings, backups, heldBefore>>

MakeCopy ==
    /\ repair.at = "copy"
    /\ backups' = backups \cup {credentialsFile}
    /\ heldBefore' = credentialsFile /\ repair' = [repair EXCEPT !.at = "write"]
    /\ UNCHANGED <<credentialsFile, regionSettings, repairs, repairedWith>>

WriteRepaired ==
    /\ repair.at = "write"
    /\ credentialsFile' = RepairedFile(credentialsFile, repair.with)
    /\ repairedWith' = {repair.with} /\ repair' = NoRepair
    /\ UNCHANGED <<regionSettings, backups, repairs, heldBefore>>

\* Where the old file is removed before the new one is moved there, it may be gone.
WriteRepairedFails ==
    /\ repair.at = "write"
    /\ credentialsFile' \in {credentialsFile, Damaged}
    /\ repair' = [repair EXCEPT !.at = "restore"] /\ repairedWith' = Nothing
    /\ UNCHANGED <<regionSettings, backups, repairs, heldBefore>>

\* The copy is copied back, whole or in part.
RestoreCopy ==
    /\ repair.at = "restore"
    /\ credentialsFile' \in {heldBefore, Damaged}
    /\ repair' = NoRepair
    /\ UNCHANGED <<regionSettings, backups, repairs, heldBefore, repairedWith>>

\* The command is killed, or its copy cannot be made.
RepairStops ==
    /\ repair # NoRepair
    /\ repair' = NoRepair
    /\ UNCHANGED <<credentialsFile, regionSettings, backups, repairs, heldBefore, repairedWith>>

\* The operator goes back to a copy.
PutBack ==
    /\ repair = NoRepair
    /\ credentialsFile' \in backups /\ credentialsFile' # credentialsFile
    /\ heldBefore' = credentialsFile' /\ repairedWith' = Nothing
    /\ UNCHANGED <<regionSettings, backups, repair, repairs>>

RepairNext ==
    \/ \E o \in RepairCalls : RunRepair(o)
    \/ MakeCopy \/ WriteRepaired \/ WriteRepairedFails \/ RestoreCopy \/ RepairStops \/ PutBack

RepairSpec == RepairInit /\ [][RepairNext]_repairVars

-----------------------------------------------------------------------------
\* Whatever fails and wherever the command is killed, what the file held is in the file
\* or in a copy.
NothingLost == heldBefore \in backups \cup {credentialsFile}

\* What the command decides with its rules is right by those of the program: after it,
\* no request and no lookup goes to a region that was called bad, and another call
\* with the same options finds nothing.  Left out are calls that do not name the
\* region the program knows, credentials whose profile names one that it does not know,
\* and those whose profile's region does not resolve, which no API region helps.
RepairHelps ==
    \A o \in repairedWith : \A i \in DOMAIN credentialsFile :
        \A p \in {PlaceIn(credentialsFile[i])} :
            /\ p.profile \notin o.dead => ~analyze_object(p, o)
            /\ "bad" \in o.bad /\ p.profile \notin o.bad \ {"bad"} =>
                   {IF p.cli THEN effective_api_region(p) ELSE effective_kiro_api_region(p),
                    profile_lookup_region(p)} \cap o.bad = {}

\* Nothing but API regions is changed.
OnlyRegionsChange ==
    repairedWith # Nothing =>
        /\ Len(credentialsFile) = Len(heldBefore)
        /\ \A i \in DOMAIN heldBefore :
               [credentialsFile[i] EXCEPT !.api = Blank] = [heldBefore[i] EXCEPT !.api = Blank]

RepairIsSafe == NothingLost /\ RepairHelps /\ OnlyRegionsChange

=============================================================================
