--------------------------- MODULE ModelProfiles ---------------------------
(***************************************************************************)
(* The providers and model profiles of a configuration                     *)
(* (config/provider_profiles.py, config/loader.py, config/editor.py): how  *)
(* the two files are merged, which profile is active and when the          *)
(* configuration loads.                                                    *)
(*                                                                         *)
(* A file has a table of providers, a table of profiles, the name of the   *)
(* active profile and the older top-level provider.  An entry of a table   *)
(* may give some of its fields only, and the fields of the local file go   *)
(* before those of the global one.  Optional values are sets, empty when   *)
(* absent.  Of a profile only its provider and whether a model is named    *)
(* matter here: token budgets and other numbers are left out.              *)
(***************************************************************************)
CONSTANTS
  Providers,        \* PROVIDER_DEFINITIONS
  Profiles,         \* names of profiles
  Legacy,           \* the name "legacy-current"
  DefaultProvider   \* the provider of a configuration that names none

ASSUME ProfilesAssumption == DefaultProvider \in Providers /\ Legacy \in Profiles

Over(g, l) == IF l # {} THEN l ELSE g
Value(option, default) == IF option = {} THEN default ELSE CHOOSE v \in option : TRUE
Entry(table, n, default) == IF n \in DOMAIN table THEN table[n] ELSE default

\* save_model_profile, and the like for a provider: an entry is written whole.
WithEntry(table, n, entry) ==
  [m \in {n} \cup DOMAIN table |-> IF m = n THEN entry ELSE table[m]]

NoModels == [provider |-> {}, active |-> {}, providers |-> <<>>, models |-> <<>>]
Unset == [provider |-> {}, named |-> FALSE]
Complete(q) == [provider |-> {q}, named |-> TRUE]

\* _deep_merge_dict, for two tables of one profile.
Refine(profile, fields) ==
  [provider |-> Over(profile.provider, fields.provider), named |-> profile.named \/ fields.named]

\* deep_merge_named_tables
DeepMerge(g, l) ==
  [p \in (DOMAIN g) \cup (DOMAIN l) |-> Refine(Entry(g, p, Unset), Entry(l, p, Unset))]

\* The providers left enabled: all are, until a file says otherwise.
EnabledIn(g, l) ==
  {q \in Providers : Value(Over(Entry(g, q, {}), Entry(l, q, {})), TRUE)}

\* _apply_active_model_profile and _ensure_legacy_profile: without an active
\* profile one is made up from the top-level provider, for this run.
Catalog(g, l) ==
  LET active == Over(g.active, l.active)
      models == DeepMerge(g.models, l.models)
      legacy == Complete(Value(Over(g.provider, l.provider), DefaultProvider))
  IN  [enabled |-> EnabledIn(g.providers, l.providers),
       models  |-> IF active = {} THEN WithEntry(models, Legacy, legacy) ELSE models,
       active  |-> Value(active, Legacy),
       legacy  |-> active = {}]

Whole(profile) == profile.provider # {} /\ profile.named

\* _validate_provider_profiles, for the profile that is to be the active one.
Valid(catalog, active) ==
  /\ active \in DOMAIN catalog.models
  /\ \A p \in DOMAIN catalog.models : Whole(catalog.models[p])
  /\ catalog.models[active].provider \subseteq catalog.enabled

\* update_model_profile_fields
UpdateFields(table, p, fields) == WithEntry(table, p, Refine(Entry(table, p, Unset), fields))

\* delete_model_profile
WithoutModel(table, p) == [n \in (DOMAIN table) \ {p} |-> table[n]]
=============================================================================
