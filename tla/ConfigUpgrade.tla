---------------------------- MODULE ConfigUpgrade ----------------------------
(***************************************************************************)
(* What /config upgrade makes of a configuration file                      *)
(* (config/upgrade.py): keys of the template (cli/init.py) that the file   *)
(* lacks are added, lists of allowed resources are turned into deltas      *)
(* against the defaults of the code, and older names of sub-agents are     *)
(* replaced.  Of the supervisor and the sub-agents the lists of allowed    *)
(* resources are not empty: an empty one is taken for an absent one.       *)
(***************************************************************************)
EXTENDS AgentScope, ModelProfiles, SequencesExt

CONSTANTS
  Builtins,        \* BUILTIN_SUBAGENT_SPECS
  BuiltinTools,    \* allowed_tools of such a sub-agent
  TemplateProfile  \* the profile of the template

ASSUME UpgradeAssumption == Builtins \subseteq Agents /\ TemplateProfile \in Profiles

NoFile == [mode |-> {}, tools |-> NoScope, mcps |-> NoScope, profiles |-> <<>>,
           declared |-> {}, enabled |-> {}, disabled |-> {},
           allowed |-> {}, denied |-> {}, llm |-> NoModels]

\* _extend_delta_fields and _copy_scope_list: a list of names becomes what it adds
\* to the defaults and what it lacks of them.  (The code makes of an empty list the
\* removal of all the defaults; here it is an absent one and stays absent.)
Compact(scope, defaults) ==
  IF scope.base = {} \/ All \in scope.base THEN scope
  ELSE [base   |-> {},
        add    |-> scope.add \cup (scope.base \ defaults),
        remove |-> scope.remove \cup (defaults \ scope.base)]

\* Of the supervisor's servers only the word "all" goes.
CompactServers(scope) == IF All \in scope.base THEN [scope EXCEPT !.base = {}] ELSE scope

\* _subagent_profile_for_new_layout
Renamed(p) == [p EXCEPT !.name = Canon[@]]
CompactProfile(p) ==
  IF Canon[p.name] \notin Builtins THEN Renamed(p)
  ELSE [Renamed(p) EXCEPT !.tools = Compact(@, BuiltinTools), !.mcps = Compact(@, {})]

\* An entry that says what the code says anyway is left out.
Redundant(p) ==
  CompactProfile(p) = NoProfile(Canon[p.name]) /\ Renamed(p) # NoProfile(Canon[p.name])

\* _dedupe_exact_subagent_profiles, of the entries at some places of a list
Distinct(entries) ==
  LET first == {i \in DOMAIN entries : \A j \in DOMAIN entries : j < i => entries[j] # entries[i]}
      At(k) == CHOOSE i \in first : Cardinality({j \in first : j <= i}) = k
  IN  [k \in 1..Cardinality(first) |-> entries[At(k)]]

\* _migrated_subagent_profiles, unless it would change no more than names.
UpgradedProfiles(entries) ==
  LET needed   == {i \in DOMAIN entries : ~Redundant(entries[i])}
      migrated == Distinct([i \in needed |-> CompactProfile(entries[i])])
  IN  IF migrated = Distinct([i \in DOMAIN entries |-> Renamed(entries[i])]) THEN entries
      ELSE migrated

Given(option, default) == IF option = {} THEN {default} ELSE option

\* The keys that the local template has and that matter here.
UpgradedLocal(f) ==
  [f EXCEPT !.mode = Given(@, "basic"),
            !.denied = Given(@, {}), !.enabled = Given(@, {}), !.disabled = Given(@, {}),
            !.tools = Compact(@, DefaultTools), !.mcps = CompactServers(@),
            !.profiles = UpgradedProfiles(@)]

\* _migrated_provider_profile_values: without an active profile the provider of the
\* file is made a profile with the legacy name.
UpgradedModels(llm) ==
  LET legacy == Value(llm.provider, DefaultProvider)
      new    == llm.active = {}
  IN  [llm EXCEPT
        !.provider  = Given(@, DefaultProvider),
        !.providers = IF DOMAIN @ # {} THEN @
                      ELSE [q \in {DefaultProvider} \cup (IF new THEN {legacy} ELSE {}) |-> {TRUE}],
        !.models    = IF DOMAIN @ # {} THEN @
                      ELSE IF new THEN [p \in {Legacy} |-> Complete(legacy)]
                      ELSE [p \in {TemplateProfile} |-> Complete(DefaultProvider)]]

UpgradedGlobal(f) ==
  [f EXCEPT !.tools = Compact(@, DefaultTools), !.mcps = CompactServers(@),
            !.profiles = UpgradedProfiles(@), !.llm = UpgradedModels(@)]

\* _local_config_toml and _global_config_toml
LocalTemplate == UpgradedLocal(NoFile)
GlobalTemplate ==
  [NoFile EXCEPT !.llm = [NoModels EXCEPT !.provider = {DefaultProvider},
                                          !.providers = [q \in {DefaultProvider} |-> {TRUE}],
                                          !.models = [p \in {TemplateProfile} |-> Complete(DefaultProvider)]]]
=============================================================================
