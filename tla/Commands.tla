------------------------------ MODULE Commands ------------------------------
(***************************************************************************)
(* The slash commands that change what the agents can see and which model  *)
(* answers (runtime/slash_commands.py): /agent, /sub-agent, /mcp, /tools,  *)
(* /skills, /provider and /config, and the provider settings of the        *)
(* Textual interface, on the two configuration files (config/loader.py),   *)
(* the YAML files of sub-agents (agents/loader.py), the MCP servers and    *)
(* the registry of tools (tools/registry.py, tools/subagents.py, app.py).  *)
(*                                                                         *)
(* A command runs between turns and alone, so it is one action.  A command *)
(* whose reading of the local file fails raises before it changes          *)
(* anything: it is a stuttering step, and the guard ~broken leaves it out. *)
(* Optional keys of a file are sets: empty when the key is absent, the     *)
(* singleton of its value otherwise; a delta list that becomes empty is    *)
(* removed from the file, so for deltas empty and absent are the same.     *)
(***************************************************************************)
EXTENDS ConfigUpgrade

CONSTANTS
  Supervisor,    \* stands for the supervisor where agents are told apart
  Core,          \* built-in tools, Ask among them
  Required,      \* _advanced_mode_required_tool_names
  Skills,        \* sub-agents that loaded skills define
  Servers,       \* MCP servers
  Offers,        \* the tools of each server, as its prefix names them
  Starts,        \* the contents of the global file to start from, and a bound: the
                 \* tools and servers, profiles and providers that commands are about,
                 \* and whether files are upgraded and written anew
  YamlFiles,     \* the YAML files of sub-agents to start from, for each directory
  MaxCommands, MaxEdits  \* bounds: commands, changes from outside (but repairs)

ASSUME CommandsAssumption ==
  /\ Supervisor \notin Agents
  /\ Ask \in Core
  /\ Skills \subseteq Agents
  /\ Offers \in [Servers -> SUBSET UNION {Offers[s] : s \in Servers}]
  /\ (Core \cup UNION {Offers[s] : s \in Servers}) \cap Agents = {}
  \* Of two servers with a tool of one name the first would be asked; left out.
  /\ \A s, t \in Servers : s # t => Offers[s] \cap Offers[t] = {}
  /\ YamlFiles \subseteq [local : SUBSET Agents, global : SUBSET Agents]
  \* Files to start from have the keys of a file, and a list of entries.
  /\ \A s \in Starts :
       /\ DOMAIN s.file = DOMAIN NoFile /\ DOMAIN s.file.llm = DOMAIN NoModels
       /\ s.file.profiles \in
            Seq({p \in Range(s.file.profiles) : DOMAIN p = {"name", "tools", "mcps"}})

VARIABLES
  global, local,  \* contents of the two configuration files
  broken,         \* the local file cannot be parsed
  yaml,           \* sub-agents with a valid YAML file, for each directory
  up,             \* MCP servers that answer
  about,          \* what the commands are about
  config,         \* state.config
  registry,       \* state.tool_registry
  loaded,         \* state.mcp_servers
  commands, edits, \* how many there were
  hidden, scan, answered, skipped  \* auxiliary, see below

files == <<global, local, broken, yaml>>
tools == <<config, registry, loaded>>
aux   == <<hidden, scan, answered, skipped>>
vars  == <<files, up, about, tools, commands, edits, aux>>

\* Auxiliary: hidden holds an agent, a kind and a resource when the last command of
\* that agent on that resource was a disallow, scan the YAML sub-agents that the last
\* scan registered, answered the servers that answered when they were last asked;
\* skipped the tools of these servers that were not registered then, because their
\* names were taken, or were lost since by a rebuild that raised half-way.

(***************************************************************************)
(* Loading: a key of the local file replaces the same key of the global    *)
(* one, lists too; when a file cannot be loaded the defaults are used.     *)
(***************************************************************************)
OverScope(g, l) == [base |-> Over(g.base, l.base), add |-> Over(g.add, l.add),
                    remove |-> Over(g.remove, l.remove)]

\* _active_mcp_servers: a name that no file declares is passed over.
ActiveServers(declared, enabled, disabled) ==
  {s \in Servers : s \in declared \cap enabled /\ s \notin disabled}

\* _apply_agent_mode_profile: where only some tools are allowed, the advanced mode
\* allows those it needs as well.
Mode(g, l) == Value(Over(g.mode, l.mode), "basic")
Allowed(g, l) ==
  LET only == Value(Over(g.allowed, l.allowed), {}) IN
  IF Mode(g, l) = "advanced" /\ only # {} THEN only \cup Required ELSE only

Merged(g, l) ==
  [mode     |-> Mode(g, l),
   tools    |-> OverScope(g.tools, l.tools),
   mcps     |-> OverScope(g.mcps, l.mcps),
   profiles |-> IF l.profiles # <<>> THEN l.profiles ELSE g.profiles,
   allowed  |-> Allowed(g, l),
   denied   |-> Value(Over(g.denied, l.denied), {}),
   active   |-> ActiveServers(g.declared \cup l.declared,
                              Value(Over(g.enabled, l.enabled), {}),
                              Value(Over(g.disabled, l.disabled), {})),
   llm      |-> Catalog(g.llm, l.llm)]

\* _validate_config_values, as far as the lists and tables modelled here go: the
\* active profile can be used, no tool is both allowed and denied, and no sub-agent
\* is listed twice under one name.
Unambiguous(profiles) ==
  \A i, j \in DOMAIN profiles : profiles[i].name = profiles[j].name => i = j
Loads(g, l) ==
  LET cfg == Merged(g, l) IN
  /\ Valid(cfg.llm, cfg.llm.active)
  /\ cfg.allowed \cap cfg.denied = {}
  /\ Unambiguous(cfg.profiles)
Load(g, l, bad) == IF bad \/ ~Loads(g, l) THEN Merged(NoFile, NoFile) ELSE Merged(g, l)
InForce == Loads(global, local) /\ config = Merged(global, local)

(***************************************************************************)
(* Registration.  Records of sub-agents say which client their model is:   *)
(* the one the factory builds from the configuration, or, when no factory  *)
(* was passed, the fake one.                                               *)
(***************************************************************************)
Record(n, source, origin, client) ==
  [name |-> n, source |-> source, origin |-> origin, client |-> client]

Enabled(cfg, n) ==
  n \notin cfg.denied /\ (cfg.allowed = {} \/ All \in cfg.allowed \/ n \in cfg.allowed)
Wanted(cfg, a)  == (Advanced(cfg) \/ a \in ConfiguredNames(cfg)) /\ Enabled(cfg, a)

CoreRecords(cfg) == {Record(t, "core", "builtin", "none") : t \in {t \in Core : Enabled(cfg, t)}}

\* A tool whose name is taken is skipped.
WithServers(reg, servers) ==
  reg \cup UNION {{Record(t, "mcp", s, "none") : t \in Offers[s] \ Names(reg)} : s \in servers}

\* The tools that are skipped when these servers answer.
Taken(reg, servers) == Names(reg) \cap UNION {Offers[s] : s \in servers}

YamlNames(y) == y.local \cup y.global
YamlRecord(y, a, client) ==
  Record(a, "agent-yaml", IF a \in y.local THEN "local" ELSE "global", client)

\* register_subagent_tools: built-in personas, and the YAML files before them.
WithAgents(reg, cfg, y, client) ==
  reg \cup {Record(a, "agent", "builtin", client) :
              a \in {a \in Builtins \ YamlNames(y) : Wanted(cfg, a)}}
      \cup {YamlRecord(y, a, client) : a \in {a \in YamlNames(y) : Wanted(cfg, a)}}

\* register_skill_subagent_tools: never with a factory, and not over a tool there is.
WithSkills(reg, cfg) ==
  reg \cup {Record(a, "agent-skill", "skill", "fake") :
              a \in {a \in Skills \ Names(reg) : Wanted(cfg, a)}}

Startup(cfg, y, servers) ==
  WithSkills(WithAgents(WithServers(CoreRecords(cfg), servers), cfg, y, "provider"), cfg)

\* _reload_tools
Preserved(reg) == McpRecords(reg)
Collides(reg, cfg) == Names(Preserved(reg)) \cap Names(CoreRecords(cfg)) # {}
\* Mutant of Rebuild: skill sub-agents are registered before the others.
RebuildSkillsFirst(reg, cfg, y) ==
  LET skilled == WithSkills(CoreRecords(cfg) \cup Preserved(reg), cfg)
      others  == WithAgents({}, cfg, y, "fake")
  IN  skilled \cup {r \in others : r.name \notin Names(skilled)}
Rebuild(reg, cfg, y) ==
  WithSkills(WithAgents(CoreRecords(cfg) \cup Preserved(reg), cfg, y, "fake"), cfg)

\* _reload_yaml_agents: a definition replaces whatever tool has its name.
WithYaml(reg, cfg, y) ==
  LET kept    == {r \in reg : r.source # "agent-yaml"}
      defined == {a \in YamlNames(y) : Advanced(cfg) \/ a \in ConfiguredNames(cfg)}
  IN  {r \in kept : r.name \notin defined}
        \cup {YamlRecord(y, a, "fake") : a \in {a \in defined : Enabled(cfg, a)}}

\* _reload_skill_state
\* Mutant of ReloadSkills: it rebuilds every kind of sub-agent but knows only skills.
ReloadSkillsOnly(reg, cfg) ==
  WithSkills({r \in reg : r.source \notin {"agent-skill", "agent-yaml"}}, cfg)
ReloadSkills(reg, cfg) == WithSkills({r \in reg : r.source # "agent-skill"}, cfg)

\* The definition behind a sub-agent's tool: a YAML file that lists nothing allows
\* every tool and server, a skill every tool and no server.
Definition(a) ==
  LET source == (CHOOSE r \in registry : r.name = a).source IN
  [tools |-> IF source = "agent" THEN {BuiltinTools} ELSE {}, mcps |-> source = "agent-yaml"]

Scanned(reg) == {r.name : r \in {x \in reg : x.source = "agent-yaml"}}

-----------------------------------------------------------------------------
Init ==
  /\ \E s \in Starts : global = s.file /\ about = s.about
  /\ local = NoFile /\ broken = FALSE
  /\ yaml \in YamlFiles
  /\ up = Servers
  /\ config = Load(global, local, FALSE)
  /\ registry = Startup(config, yaml, config.active)
  /\ loaded = config.active
  /\ commands = 0 /\ edits = 0
  /\ hidden = {} /\ scan = Scanned(registry) /\ answered = config.active
  /\ skipped = Taken(CoreRecords(config), config.active)

Command == commands < MaxCommands /\ commands' = commands + 1 /\ UNCHANGED <<up, about, edits>>
Edit    == edits < MaxEdits /\ edits' = edits + 1 /\ UNCHANGED <<about, tools, commands, aux>>

\* _set_delta_list_value
Delta(scope, n, allowed) ==
  IF allowed THEN [scope EXCEPT !.add = @ \cup {n}, !.remove = @ \ {n}]
             ELSE [scope EXCEPT !.add = @ \ {n}, !.remove = @ \cup {n}]

\* _normalize_resource_name
Known(kind, n, allowed) ==
  IF kind = "tools" THEN n \in Names(registry)
  ELSE ~allowed \/ n \in config.active \cup loaded

Remember(agent, kind, n, allowed) ==
  hidden' = IF allowed THEN hidden \ {<<agent, kind, n>>} ELSE hidden \cup {<<agent, kind, n>>}

Resources(kind) == about.named \cap (IF kind = "tools" THEN Names(registry) ELSE Servers)

\* /agent allow|disallow tool|mcp <name>
SetAgentResource(kind, n, allowed) ==
  /\ Command /\ ~broken /\ Known(kind, n, allowed)
  /\ local' = [local EXCEPT ![kind] = Delta(@, n, allowed)]
  /\ config' = Load(global, local', FALSE)
  /\ Remember(Supervisor, kind, n, allowed)
  /\ UNCHANGED <<global, broken, yaml, registry, loaded, scan, answered, skipped>>

\* The entry of the file with exactly the sub-agent's name, a new one at the end
\* when there is none.
\* Mutant of WithProfile: the first entry of the list is taken for the sub-agent's.
WithProfileFirst(profiles, a, kind, n, allowed) ==
  IF profiles # <<>> THEN [profiles EXCEPT ![1][kind] = Delta(@, n, allowed)]
  ELSE Append(profiles, [NoProfile(a) EXCEPT ![kind] = Delta(@, n, allowed)])
WithProfile(profiles, a, kind, n, allowed) ==
  LET own == {i \in DOMAIN profiles : profiles[i].name = a} IN
  IF own # {} THEN [profiles EXCEPT ![Min(own)][kind] = Delta(@, n, allowed)]
  ELSE Append(profiles, [NoProfile(a) EXCEPT ![kind] = Delta(@, n, allowed)])

\* /sub-agent allow|disallow <name> tool|mcp <id>
SetSubAgentResource(a, kind, n, allowed) ==
  /\ Command /\ ~broken /\ a \in Names(registry) \cap Agents /\ Known(kind, n, allowed)
  /\ local' = [local EXCEPT !.profiles = WithProfile(@, a, kind, n, allowed)]
  /\ config' = Load(global, local', FALSE)
  /\ Remember(a, kind, n, allowed)
  /\ UNCHANGED <<global, broken, yaml, registry, loaded, scan, answered, skipped>>

\* /tools reload and what /agent switch and /config upgrade end in.  When a name
\* is taken the registration raises and what was to follow is not registered.
ReloadTools(cfg) ==
  /\ \/ /\ ~Collides(registry, cfg)
        /\ registry' = Rebuild(registry, cfg, yaml)
     \/ /\ Collides(registry, cfg)
        /\ \E before \in SUBSET Preserved(registry) :
             /\ Names(before) \cap Names(CoreRecords(cfg)) = {}
             /\ registry' = CoreRecords(cfg) \cup before
  /\ scan' = Scanned(registry')
  /\ skipped' = IF Collides(registry, cfg)
                THEN skipped \cup (Names(Preserved(registry)) \ Names(McpRecords(registry')))
                ELSE skipped
  /\ UNCHANGED <<loaded, answered>>

ToolsReload ==
  /\ Command
  /\ config' = Load(global, local, broken)
  /\ ReloadTools(config')
  /\ UNCHANGED <<files, hidden>>

SwitchMode ==
  /\ Command /\ ~broken
  /\ local' = [local EXCEPT !.mode = {IF Advanced(config) THEN "basic" ELSE "advanced"}]
  /\ config' = Load(global, local', FALSE)
  /\ ReloadTools(config')
  /\ UNCHANGED <<global, broken, yaml, hidden>>

Upgrade(scope) ==
  /\ IF scope = "global" THEN /\ global' = UpgradedGlobal(global)
                              /\ UNCHANGED <<local, broken, hidden>>
     ELSE /\ local' = IF broken THEN LocalTemplate ELSE UpgradedLocal(local)
          /\ hidden' = IF broken THEN {} ELSE hidden
          /\ broken' = FALSE
          /\ UNCHANGED global
  /\ config' = Load(global', local', broken')
  /\ UNCHANGED yaml

\* /config upgrade local|global: a file that cannot be parsed is replaced.
ConfigUpgrade(scope) ==
  /\ Command
  /\ Upgrade(scope)
  /\ ReloadTools(config')

\* "y" to the question at the start: the tools are not rebuilt.
UpgradeAtStart ==
  /\ Command /\ commands = 0 /\ edits = 0
  /\ Upgrade("local")
  /\ UNCHANGED <<registry, loaded, scan, answered, skipped>>

\* /config reinit local|global: the file is written anew, with all deltas gone.
ConfigReinit(scope) ==
  /\ Command
  /\ IF scope = "global" THEN global' = GlobalTemplate /\ UNCHANGED <<local, broken, hidden>>
     ELSE local' = LocalTemplate /\ broken' = FALSE /\ hidden' = {} /\ UNCHANGED global
  /\ config' = Load(global', local', broken')
  /\ UNCHANGED <<yaml, registry, loaded, scan, answered, skipped>>

ConfigReload ==
  /\ Command
  /\ config' = Load(global, local, broken)
  /\ UNCHANGED <<files, registry, loaded, aux>>

SkillsReload ==
  /\ Command
  /\ registry' = ReloadSkills(registry, config)
  /\ UNCHANGED <<files, config, loaded, aux>>

\* _reload_mcp_servers: every server is closed and those now active are started.
\* Mutant of RestartServers: the tools of the servers that were closed stay.
RestartServersKeeping ==
  /\ loaded' = config'.active
  /\ registry' = WithServers(registry, config'.active \cap up)
  /\ answered' = config'.active \cap up
  /\ skipped' = Taken(registry \ McpRecords(registry), answered')
  /\ UNCHANGED <<hidden, scan>>
RestartServers ==
  /\ loaded' = config'.active
  /\ registry' = WithServers(registry \ McpRecords(registry), config'.active \cap up)
  /\ answered' = config'.active \cap up
  /\ skipped' = Taken(registry \ McpRecords(registry), answered')
  /\ UNCHANGED <<hidden, scan>>

McpReload ==
  /\ Command
  /\ config' = Load(global, local, broken)
  /\ RestartServers
  /\ UNCHANGED files

\* /mcp activate|deactivate <server>: the lists of the local file alone, for a server
\* that a file declares.
SetServerActive(s, active) ==
  /\ Command /\ ~broken /\ s \in global.declared \cup local.declared
  /\ LET enabled == Value(local.enabled, {})  disabled == Value(local.disabled, {}) IN
     local' = [local EXCEPT
       !.enabled  = {IF active THEN enabled \cup {s} ELSE enabled \ {s}},
       !.disabled = {IF active THEN disabled \ {s} ELSE disabled \cup {s}}]
  /\ config' = Load(global, local', FALSE)
  /\ RestartServers
  /\ UNCHANGED <<global, broken, yaml>>

\* /mcp refresh <server>: a server that does not answer keeps its tools.
McpRefresh(s) ==
  /\ Command /\ s \in loaded
  /\ IF s \in up
     THEN LET others == {r \in registry : r \notin McpRecords(registry) \/ r.origin # s} IN
          /\ registry' = WithServers(others, {s})
          /\ answered' = answered \cup {s}
          /\ skipped' = (skipped \ Offers[s]) \cup Taken(others, {s})
     ELSE UNCHANGED <<registry, answered, skipped>>
  /\ UNCHANGED <<files, config, loaded, hidden, scan>>

RescanYaml(y) ==
  /\ registry' = WithYaml(registry, config, y)
  /\ scan' = Scanned(registry')
  /\ UNCHANGED <<global, local, broken, config, loaded, hidden, answered, skipped>>

YamlReload == Command /\ RescanYaml(yaml) /\ UNCHANGED yaml

\* /sub-agent agents new <name> [local|global]: the file is not scanned yet.
YamlNew(a, scope) ==
  /\ Command /\ a \notin yaml[scope]
  /\ yaml' = [yaml EXCEPT ![scope] = @ \cup {a}]
  /\ UNCHANGED <<global, local, broken, tools, aux>>

\* /sub-agent agents promote|demote <name>: refused when the other file exists.
YamlMove(a, from, to) ==
  /\ Command /\ from # to /\ a \in yaml[from] /\ a \notin yaml[to]
  /\ yaml' = [yaml EXCEPT ![from] = @ \ {a}, ![to] = @ \cup {a}]
  /\ RescanYaml(yaml')

-----------------------------------------------------------------------------
\* Models: an edit that the catalog in use would not allow raises and changes
\* nothing.  It goes to the local file from /provider and to the global file from
\* the settings screen, and the whole configuration is loaded again.
Model == Command /\ UNCHANGED <<broken, yaml, registry, loaded, aux>>
ToLocal(llm)  == ~broken /\ local' = [local EXCEPT !.llm = llm] /\ UNCHANGED global
ToGlobal(llm) == global' = [global EXCEPT !.llm = llm] /\ UNCHANGED local
Reloaded == config' = Load(global', local', broken)

\* Mutant of UseProfile: it is enough that the profile is known.
UseProfileUnchecked(p) ==
  /\ Model
  /\ p \in DOMAIN config.llm.models
  /\ ToLocal([local.llm EXCEPT !.active = {p}])
  /\ Reloaded
\* /provider use <profile>, and Activate
UseProfile(p) ==
  /\ Model
  /\ Valid(config.llm, p)
  /\ ToLocal([local.llm EXCEPT !.active = {p}])
  /\ Reloaded

\* /provider set <param> <value> for a field of the active profile: its provider,
\* its model or, with Unset, any other.
SetField(fields) ==
  LET p == config.llm.active IN
  /\ Model
  /\ ~config.llm.legacy
  /\ Valid([config.llm EXCEPT !.models[p] = Refine(@, fields)], p)
  /\ ToLocal([local.llm EXCEPT !.models = UpdateFields(@, p, fields)])
  /\ Reloaded

\* The same without an active profile: the top-level key, unchecked.
SetTopLevel(q) ==
  /\ Model
  /\ config.llm.legacy
  /\ ToLocal([local.llm EXCEPT !.provider = {q}])
  /\ Reloaded

\* Save and Enable / Disable of a provider
SaveProvider(q, enabled) ==
  /\ Model
  /\ Valid([config.llm EXCEPT !.enabled = IF enabled THEN @ \cup {q} ELSE @ \ {q}], config.llm.active)
  /\ ToGlobal([global.llm EXCEPT !.providers = WithEntry(@, q, {enabled})])
  /\ Reloaded

\* Save of a profile, all its fields at once
SaveProfile(p, q) ==
  /\ Model
  /\ Valid([config.llm EXCEPT !.models = WithEntry(@, p, Complete(q))], config.llm.active)
  /\ ToGlobal([global.llm EXCEPT !.models = WithEntry(@, p, Complete(q))])
  /\ Reloaded

\* Delete, refused for the active profile only.
DeleteProfile(p) ==
  /\ Model
  /\ p # config.llm.active
  /\ ToGlobal([global.llm EXCEPT !.models = WithoutModel(@, p)])
  /\ Reloaded

-----------------------------------------------------------------------------
\* Outside the program: a YAML file is deleted or becomes invalid, the local file
\* is damaged or repaired, a server stops answering or answers again.
EditYaml(a, scope) ==
  /\ Edit /\ a \in yaml[scope]
  /\ yaml' = [yaml EXCEPT ![scope] = @ \ {a}]
  /\ UNCHANGED <<global, local, broken, up>>

DamageLocal ==
  /\ Edit /\ ~broken /\ broken' = TRUE
  /\ UNCHANGED <<global, local, yaml, up>>

RepairLocal ==
  /\ broken /\ broken' = FALSE
  /\ UNCHANGED <<global, local, yaml, up, about, tools, commands, edits, aux>>

ServerChanges(s) ==
  /\ Edit /\ up' = (up \cup {s}) \ (up \cap {s})
  /\ UNCHANGED files

\* The dispatch of the commands.
AgentCommand ==
  \/ \E kind \in {"tools", "mcps"}, allowed \in BOOLEAN : \E n \in Resources(kind) :
       SetAgentResource(kind, n, allowed)
  \/ SwitchMode

SubAgentCommand ==
  \/ \E a \in Agents, kind \in {"tools", "mcps"}, allowed \in BOOLEAN : \E n \in Resources(kind) :
       SetSubAgentResource(a, kind, n, allowed)
  \/ \E a \in Agents, scope \in {"local", "global"} : YamlNew(a, scope)
  \/ \E a \in Agents, from, to \in {"local", "global"} : YamlMove(a, from, to)
  \/ YamlReload

McpCommand ==
  \/ \E s \in Servers, active \in BOOLEAN : SetServerActive(s, active)
  \/ \E s \in Servers : McpRefresh(s)
  \/ McpReload

ProviderCommand ==
  \/ \E p \in about.profiles : UseProfile(p)
  \/ \E q \in about.providers : SetField([Unset EXCEPT !.provider = {q}]) \/ SetTopLevel(q)
  \/ about.profiles # {} /\ (SetField(Unset) \/ SetField([Unset EXCEPT !.named = TRUE]))

SettingsScreen ==
  \/ \E p \in about.profiles : DeleteProfile(p)
  \/ \E p \in about.profiles, q \in about.providers : SaveProfile(p, q)
  \/ \E q \in about.providers, enabled \in BOOLEAN : SaveProvider(q, enabled)

ConfigCommand ==
  \/ ConfigReload
  \/ /\ about.rewrites
     /\ \E scope \in {"local", "global"} : ConfigUpgrade(scope) \/ ConfigReinit(scope)

Next ==
  \/ AgentCommand \/ SubAgentCommand \/ McpCommand \/ ToolsReload \/ SkillsReload
  \/ ProviderCommand \/ SettingsScreen \/ ConfigCommand
  \/ about.rewrites /\ UpgradeAtStart
  \/ \E a \in Agents, scope \in {"local", "global"} : EditYaml(a, scope)
  \/ \E s \in Servers : ServerChanges(s)
  \/ DamageLocal \/ RepairLocal

Spec == Init /\ [][Next]_vars

-----------------------------------------------------------------------------
(***************************************************************************)
(* A resource that an agent was denied by command stays hidden from it     *)
(* while the configuration in force is the one the files say, whatever     *)
(* other commands were run: the mode switched, servers restarted, tools    *)
(* rebuilt, the resources of other agents edited in the same file.  The    *)
(* commands cannot hide a server's tool by its own name, a sub-agent or a  *)
(* question to the user.                                                   *)
(***************************************************************************)
Visible(agent) ==
  IF agent = Supervisor THEN SupervisorTools(config, registry)
  ELSE SubAgentTools(config, registry, agent, Definition(agent))
Hideable(kind, n) ==
  kind = "mcps" \/ n \notin Names(McpRecords(registry)) \cup Agents \cup {Ask}
Hides(kind, n) == IF kind = "mcps" THEN McpTools(registry, {n}) ELSE {n}

HiddenStaysHidden ==
  InForce =>
    \A denial \in hidden :
      LET agent == denial[1]  kind == denial[2]  n == denial[3] IN
      (Hideable(kind, n) /\ (agent = Supervisor \/ agent \in Names(registry))) =>
        Visible(agent) \cap Hides(kind, n) = {}

(***************************************************************************)
(* The YAML sub-agents that can be called are the ones the last scan       *)
(* registered: no other command loses one or keeps one whose file is gone. *)
(***************************************************************************)
YamlKept == Scanned(registry) = scan

(***************************************************************************)
(* The registered tools of MCP servers are the tools of the servers that   *)
(* answered when they were last asked, except for those skipped then       *)
(* because another tool had their name: rebuilding the rest of the         *)
(* registry neither drops them nor revives those of a server that was      *)
(* deactivated.  What a rebuild lost that raised half-way, because a name  *)
(* was taken, is the other exception.  A skipped tool stays away when the  *)
(* name becomes free, until its server is asked again.                     *)
(***************************************************************************)
McpKept ==
  /\ {r.origin : r \in McpRecords(registry)} \subseteq answered \cap loaded
  /\ \A s \in answered : Offers[s] \ skipped \subseteq McpTools(registry, {s})

(***************************************************************************)
(* A rebuild of the registry that does not raise ends with the tools a     *)
(* start of the program with the same files and the same servers would     *)
(* register, the same names from the same sources: unless a server's tool  *)
(* that was skipped or lost before would now find its name free.           *)
(***************************************************************************)
Sources(reg) == {<<r.name, r.source, r.origin>> : r \in reg}
Rebuilt == ToolsReload \/ SwitchMode \/ \E scope \in {"local", "global"} : ConfigUpgrade(scope)
RebuildLikeStartup ==
  [][Rebuilt /\ ~Collides(registry, config') /\ skipped \subseteq Names(CoreRecords(config'))
       => Sources(registry') = Sources(Startup(config', yaml, answered))]_vars

(***************************************************************************)
(* A command modelled here leaves files that load, if those in force do,   *)
(* in particular one that edits providers and profiles: what its           *)
(* validation saw in memory is what the two files say, whichever of them   *)
(* the edit went to and whatever the other one overrides.  Seven cases     *)
(* are not so, for nothing validates them, and are left out: making the    *)
(* made-up legacy profile the active one, or another one while it hides a  *)
(* profile of its name that the files leave incomplete; setting the        *)
(* top-level provider; deleting a profile that the local file still        *)
(* refines; writing one of the files anew; switching to the advanced mode  *)
(* where only some tools are allowed and one that the mode needs is        *)
(* denied; and upgrading a file while one of them lists a sub-agent under  *)
(* two of its names, which become one.                                     *)
(***************************************************************************)
Written == DeepMerge(global.llm.models, local.llm.models)
MadeUp(p) ==
  config.llm.legacy /\ (p # Legacy => (Legacy \in DOMAIN Written /\ ~Whole(Written[Legacy])))
Anew(before, after, template) == before # after /\ after = template
ListedTwice(f) ==
  \E i, j \in DOMAIN f.profiles : i # j /\ Canon[f.profiles[i].name] = Canon[f.profiles[j].name]
Escapes ==
  \/ local'.llm.provider # local.llm.provider
  \/ local'.llm.active # local.llm.active /\ \E p \in local'.llm.active : MadeUp(p)
  \/ ((DOMAIN global.llm.models) \ (DOMAIN global'.llm.models)) \cap (DOMAIN local.llm.models) # {}
  \/ Anew(local, local', LocalTemplate) \/ Anew(global, global', GlobalTemplate)
  \/ /\ local'.mode # local.mode /\ local'.mode = {"advanced"}
     /\ config.allowed # {} /\ config.denied \cap Required # {}
  \/ (\E scope \in {"local", "global"} : Upgrade(scope)) /\ (ListedTwice(global) \/ ListedTwice(local))
EditsLoad ==
  [][(commands' # commands /\ InForce /\ ~Escapes) => Loads(global', local')]_vars

(***************************************************************************)
(* /config upgrade keeps what the user configured: "Existing user values   *)
(* are preserved except for mechanical migrations such as deprecated key   *)
(* removal and legacy built-in sub-agent name normalization"               *)
(* (slash_commands.py, _handle_config_upgrade).  In particular, with the   *)
(* same tools registered, the supervisor sees the same.                    *)
(***************************************************************************)
UpgradeKeepsScope ==
  [][\A scope \in {"local", "global"} :
       InForce /\ ConfigUpgrade(scope)
         => SupervisorTools(config', registry) = SupervisorTools(config, registry)]_vars
=============================================================================
