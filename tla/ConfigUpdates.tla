---------------------------- MODULE ConfigUpdates ----------------------------
(***************************************************************************)
(* Changing the settings while the program runs: the update handlers of     *)
(* admin/service.rs, with_config_mut, update_region and                     *)
(* update_default_endpoint (kiro/token_manager.rs) and Config::save.        *)
(*                                                                          *)
(* A setting lives in the configuration in memory, in its file and, for     *)
(* most, in copies that the request path reads.  A handler assigns and      *)
(* saves under the write lock and brings the copies up to date after it,    *)
(* one by one, from the request or from a second reading of the             *)
(* configuration.  Handlers of two administrators interleave between these  *)
(* steps.                                                                   *)
(*                                                                          *)
(* A value is the number of the update that wrote it, 0 the value the       *)
(* program was installed with.  The limits on concurrency, which            *)
(* update_global_config changes too, are in ConcurrencyLimits.              *)
(***************************************************************************)
EXTENDS Integers, FiniteSets, Sequences

CONSTANTS
    ConfigAdmins,           \* administrator requests served at one time
    MaxUpdates,             \* bound on the updates of a run
    MaxFieldsSent           \* bound on the optional fields of a request

ASSUME ConfigAssumption == MaxUpdates \in Nat /\ MaxFieldsSent \in Nat

VARIABLES
    config,                 \* MultiTokenManager.config
    configFile,
    copies,                 \* what the rest of the program reads
    update,                 \* the request each administrator has under way
    updates,                \* how many began
    refused,                \* ghost: those answered with an error
    entangled               \* ghost: settings written by two updates at once, or by
                            \* a refused one, since the program started

configVarsAll == <<config, configFile, copies, update, updates, refused, entangled>>

-----------------------------------------------------------------------------
(* The handlers: what the closure assigns in its order, which of it a       *)
(* request may leave out, what the closure itself may refuse, and the       *)
(* copies that are brought up to date after it, from the request or from    *)
(* the configuration read again.  The copy "config" is the configuration    *)
(* itself, written a second time.                                           *)

To(copy, setting, source) == [copy |-> copy, setting |-> setting, source |-> source]

UpdateProxyConfig ==
    [assigns |-> <<"proxy">>, optional |-> {}, validates |-> {},
     effects |-> <<To("token_manager.proxy", "proxy", "request"),
                   To("provider.global_proxy", "proxy", "request")>>]

UpdateAccessSettings ==
    [assigns |-> <<"api_key", "require_api_key", "admin_api_key">>,
     optional |-> {"api_key", "require_api_key", "admin_api_key"}, validates |-> {},
     effects |-> <<To("client_api_key_runtime", "api_key", "request"),
                   To("require_api_key_runtime", "require_api_key", "request"),
                   To("admin_api_key_runtime", "admin_api_key", "request")>>]

\* The machine id is normalised, or invented if there is none.
UpdateCommonConfig ==
    [assigns |-> <<"machine_id">>, optional |-> {}, validates |-> {}, effects |-> <<>>]

UpdateThinkingConfig ==
    [assigns |-> <<"thinking">>, optional |-> {}, validates |-> {},
     effects |-> <<To("thinking_config", "thinking", "request")>>]

UpdateEndpointConfig ==
    [assigns |-> <<"default_endpoint", "endpoint_fallback">>,
     optional |-> {"endpoint_fallback"}, validates |-> {},
     effects |-> <<To("config", "default_endpoint", "config"),
                   To("provider.default_endpoint", "default_endpoint", "config"),
                   To("provider.endpoint_fallback", "endpoint_fallback", "config")>>]

UpdatePromptFilterConfig ==
    [assigns |-> <<"prompt_filter">>, optional |-> {}, validates |-> {},
     effects |-> <<To("prompt_filter_config", "prompt_filter", "config")>>]

UpdateGlobalConfig ==
    [assigns |-> <<"region", "prompt_cache", "default_endpoint", "compression",
                   "context_window">>,
     optional |-> {"region", "prompt_cache", "default_endpoint", "compression",
                   "context_window"},
     validates |-> {"region", "prompt_cache", "default_endpoint", "context_window"},
     effects |-> <<To("config", "region", "config"),
                   To("converter.context_window", "context_window", "config"),
                   To("config", "default_endpoint", "config"),
                   To("provider.default_endpoint", "default_endpoint", "config"),
                   To("prompt_cache_runtime", "prompt_cache", "request"),
                   To("compression_config", "compression", "request")>>]

UpdateModelMappings ==
    [assigns |-> <<"model_mappings">>, optional |-> {}, validates |-> {},
     effects |-> <<To("model_mapping_config", "model_mappings", "request")>>]

UpdateSystemPrompt ==
    [assigns |-> <<"system_prompt", "enabled_presets">>,
     optional |-> {"system_prompt", "enabled_presets"}, validates |-> {},
     effects |-> <<To("prompt_runtime.content", "system_prompt", "request"),
                   To("prompt_runtime.enabled", "enabled_presets", "request")>>]

UpsertUserPreset ==
    [assigns |-> <<"user_presets">>, optional |-> {}, validates |-> {},
     effects |-> <<To("prompt_runtime.user", "user_presets", "request")>>]

DeleteUserPreset ==
    [assigns |-> <<"user_presets", "enabled_presets">>, optional |-> {}, validates |-> {},
     effects |-> <<To("prompt_runtime.user", "user_presets", "request"),
                   To("prompt_runtime.enabled", "enabled_presets", "request")>>]

Handler ==
    [update_proxy_config |-> UpdateProxyConfig,
     update_access_settings |-> UpdateAccessSettings,
     update_common_config |-> UpdateCommonConfig,
     update_thinking_config |-> UpdateThinkingConfig,
     update_endpoint_config |-> UpdateEndpointConfig,
     update_prompt_filter_config |-> UpdatePromptFilterConfig,
     update_global_config |-> UpdateGlobalConfig,
     update_model_mappings |-> UpdateModelMappings,
     update_system_prompt |-> UpdateSystemPrompt,
     upsert_user_preset |-> UpsertUserPreset,
     delete_user_preset |-> DeleteUserPreset]

Assigned(h) == {Handler[h].assigns[i] : i \in DOMAIN Handler[h].assigns}
Settings == UNION {Assigned(h) : h \in DOMAIN Handler}

\* The copies of the program, each with its setting.
Copies ==
    {e \in UNION {{Handler[h].effects[i] : i \in DOMAIN Handler[h].effects} :
                     h \in DOMAIN Handler} : e.copy # "config"}
CopyNames == {e.copy : e \in Copies}
SettingOf == [c \in CopyNames |-> (CHOOSE e \in Copies : e.copy = c).setting]

-----------------------------------------------------------------------------
\* A request: its handler, and which fields it sends.
Requests ==
    UNION {{[handler |-> h, sent |-> F] :
              F \in {F \in SUBSET Assigned(h) :
                        /\ Assigned(h) \ Handler[h].optional \subseteq F
                        /\ Cardinality(F \cap Handler[h].optional) <= MaxFieldsSent}} :
              h \in DOMAIN Handler}

NoUpdate == [handler |-> "none", sent |-> {}, n |-> 0, step |-> "none", read |-> <<>>,
             left |-> {}]

\* What it may write, sent or not.
TouchedBy == [r \in Requests |->
    r.sent \cup (IF r.handler = "update_endpoint_config" THEN {"endpoint_fallback"} ELSE {})]

\* The effects it has, by their places in the handler.
EffectsOf == [r \in Requests |->
    {i \in DOMAIN Handler[r.handler].effects :
        Handler[r.handler].effects[i].setting \in TouchedBy[r]}]

RequestOf(u) == [handler |-> u.handler, sent |-> u.sent]
Touches(u) == IF u.handler = "none" THEN {} ELSE TouchedBy[RequestOf(u)]

ConfigInit ==
    /\ config = [s \in Settings |-> 0]
    /\ configFile = config
    /\ copies = [c \in CopyNames |-> 0]
    /\ update = [a \in ConfigAdmins |-> NoUpdate]
    /\ updates = 0
    /\ refused = {}
    /\ entangled = {}

\* A request arrives; what can be checked without the configuration has been.
BeginUpdateOf(a, r) ==
    /\ update[a] = NoUpdate
    /\ updates < MaxUpdates
    /\ updates' = updates + 1
    /\ update' = [update EXCEPT ![a] =
          [handler |-> r.handler, sent |-> r.sent, n |-> updates', step |-> "write",
           read |-> <<>>, left |-> {}]]
    /\ entangled' =
          entangled \cup (TouchedBy[r] \cap UNION {Touches(update[b]) : b \in ConfigAdmins})
    /\ UNCHANGED <<config, configFile, copies, refused>>

\* The closure under the write lock.  It assigns up to the first field it refuses,
\* or all of them and the file cannot be written.
Refuse(a) ==
    LET u == update[a]
    IN  /\ u.step = "write"
        /\ \E h \in {Handler[u.handler]} : \E upTo \in 1 .. Len(h.assigns) + 1 :
             LET assigned == {h.assigns[i] : i \in 1 .. upTo - 1} \cap u.sent
             IN  /\ upTo <= Len(h.assigns) => h.assigns[upTo] \in u.sent \cap h.validates
                 /\ config' = [s \in Settings |-> IF s \in assigned THEN u.n ELSE config[s]]
                 /\ entangled' = entangled \cup assigned
        /\ refused' = refused \cup {u.n}
        /\ update' = [update EXCEPT ![a] = NoUpdate]
        /\ UNCHANGED <<configFile, copies, updates>>

\* Fault: the file is written by the closure before the fields are assigned.
SaveTooEarly(a) ==
    LET u == update[a]
    IN  /\ u.step = "write"
        /\ config' = [s \in Settings |-> IF s \in u.sent THEN u.n ELSE config[s]]
        /\ configFile' = config
        /\ update' = [update EXCEPT ![a].step = "read"]
        /\ UNCHANGED <<copies, updates, refused, entangled>>

\* All fields are assigned and the whole configuration is written to its file.
Save(a) ==
    LET u == update[a]
    IN  /\ u.step = "write"
        /\ config' = [s \in Settings |-> IF s \in u.sent THEN u.n ELSE config[s]]
        /\ configFile' = config'
        /\ update' = [update EXCEPT ![a].step = "read"]
        /\ UNCHANGED <<copies, updates, refused, entangled>>

\* config() once more, after the lock was given up.
ReadAgain(a) ==
    LET u == update[a]
    IN  /\ u.step = "read"
        /\ update' = [update EXCEPT ![a].step = "apply", ![a].read = config,
                                     ![a].left = EffectsOf[RequestOf(u)]]
        /\ UNCHANGED <<config, configFile, copies, updates, refused, entangled>>

\* The effect whose turn it is, from i on.
IsNext(u, i) == u.step = "apply" /\ i \in u.left /\ \A j \in u.left : i <= j
EffectAt(u, i) == Handler[u.handler].effects[i]
ValueFor(u, e) == IF e.source = "request" THEN u.n ELSE u.read[e.setting]

\* Fault: all that was read is written back, not the one setting.
ApplyAll(a) ==
    LET u == update[a]
    IN  /\ \E i \in u.left : \E e \in {EffectAt(u, i)} :
             /\ IsNext(u, i)
             /\ IF e.copy = "config"
                  THEN config' = u.read /\ UNCHANGED copies
                  ELSE copies' = [copies EXCEPT ![e.copy] = ValueFor(u, e)] /\ UNCHANGED config
             /\ update' = [update EXCEPT ![a].left = @ \ {i}]
        /\ UNCHANGED <<configFile, updates, refused, entangled>>

\* The next copy, or the setting in the configuration once more.
Apply(a) ==
    LET u == update[a]
    IN  /\ \E i \in u.left : \E e \in {EffectAt(u, i)} :
             /\ IsNext(u, i)
             /\ IF e.copy = "config"
                  THEN /\ config' = [config EXCEPT ![e.setting] = ValueFor(u, e)]
                       /\ UNCHANGED copies
                  ELSE /\ copies' = [copies EXCEPT ![e.copy] = ValueFor(u, e)]
                       /\ UNCHANGED config
             /\ update' = [update EXCEPT ![a].left = @ \ {i}]
        /\ UNCHANGED <<configFile, updates, refused, entangled>>

AnswerUpdate(a) ==
    LET u == update[a]
    IN  /\ u.step = "apply" /\ u.left = {}
        /\ update' = [update EXCEPT ![a] = NoUpdate]
        /\ UNCHANGED <<config, configFile, copies, updates, refused, entangled>>

\* The program ends between any two steps and starts again from the file.
RestartFromFile ==
    /\ config' = configFile
    /\ copies' = [c \in CopyNames |-> configFile[SettingOf[c]]]
    /\ update' = [a \in ConfigAdmins |-> NoUpdate]
    /\ entangled' = {}
    /\ UNCHANGED <<configFile, updates, refused>>

UpdateStep(a) ==
    \/ \E r \in Requests : BeginUpdateOf(a, r)
    \/ Refuse(a) \/ Save(a) \/ ReadAgain(a) \/ Apply(a) \/ AnswerUpdate(a)

ConfigNext == RestartFromFile \/ \E a \in ConfigAdmins : UpdateStep(a)

ConfigSpec == ConfigInit /\ [][ConfigNext]_configVarsAll

-----------------------------------------------------------------------------
ConfigTypeOK ==
    /\ config \in [Settings -> 0 .. MaxUpdates] /\ configFile \in [Settings -> 0 .. MaxUpdates]
    /\ copies \in [CopyNames -> 0 .. MaxUpdates]
    /\ entangled \subseteq Settings /\ refused \subseteq 1 .. MaxUpdates

\* However updates of two administrators interleave, and wherever the program
\* stopped before: a setting that no two of them wrote at once, and none was
\* refused after writing, is the same in the file, in the configuration and in
\* every copy as soon as nobody is changing it.
CopiesFollowConfig ==
    LET settled == Settings \ (entangled \cup UNION {Touches(update[a]) : a \in ConfigAdmins})
    IN  /\ \A s \in settled : configFile[s] = config[s]
        /\ \A c \in CopyNames : SettingOf[c] \in settled => copies[c] = config[SettingOf[c]]

-----------------------------------------------------------------------------
(* A claim of a comment in the code that the code does not keep.            *)

\* token_manager.rs:1396: a closure that returns an error leaves nothing behind,
\* neither in the file nor half a change in memory.  Fields assigned before the
\* error stay, and the next update that succeeds saves them.
RefusedLeavesNothing ==
    \A s \in Settings : config[s] \notin refused /\ configFile[s] \notin refused

=============================================================================
