--------------------------- MODULE Commands_proofs ---------------------------
(***************************************************************************)
(* What the commands do to the registry of tools and to the scopes of the  *)
(* agents, for every configuration, every set of servers and sub-agents    *)
(* and any number of commands: the sub-agents of the last scan and the     *)
(* tools of the servers are registered, a rebuild is like a start, what    *)
(* was hidden by command stays hidden, and files that load are left so by  *)
(* every command that does not escape the validation of its edit.          *)
(***************************************************************************)
EXTENDS Commands, FiniteSetTheorems, SequenceTheorems, WellFoundedInduction, TLAPS

\* What is in the registry of the MCP servers of a set, without the names taken.
ServerRecords(servers, taken) ==
  UNION {{Record(t, "mcp", s, "none") : t \in Offers[s] \ taken} : s \in servers}

(* Each kind of registration adds records of its own sources and nothing   *)
(* else.                                                                   *)
LEMMA CoreHasNoServers == ASSUME NEW cfg PROVE McpRecords(CoreRecords(cfg)) = {}
BY DEF McpRecords, CoreRecords, Record

LEMMA AgentsAdded ==
  ASSUME NEW reg, NEW cfg, NEW y, NEW client
  PROVE  McpRecords(WithAgents(reg, cfg, y, client)) = McpRecords(reg)
BY DEF McpRecords, WithAgents, YamlRecord, Record

LEMMA SkillsAdded ==
  ASSUME NEW reg, NEW cfg
  PROVE  /\ McpRecords(WithSkills(reg, cfg)) = McpRecords(reg)
         /\ Scanned(WithSkills(reg, cfg)) = Scanned(reg)
<1>1. McpRecords(WithSkills(reg, cfg)) = McpRecords(reg)
  BY DEF McpRecords, WithSkills, Record
<1>2. {x \in WithSkills(reg, cfg) : x.source = "agent-yaml"} = {x \in reg : x.source = "agent-yaml"}
  BY DEF WithSkills, Record
<1> QED
  BY <1>1, <1>2 DEF Scanned

LEMMA ServersAdded ==
  ASSUME NEW reg, NEW servers
  PROVE  /\ McpRecords(WithServers(reg, servers)) = McpRecords(reg) \cup ServerRecords(servers, Names(reg))
         /\ Scanned(WithServers(reg, servers)) = Scanned(reg)
<1>0. WithServers(reg, servers) = reg \cup ServerRecords(servers, Names(reg))
  BY DEF WithServers, ServerRecords
<1>1. \A r \in ServerRecords(servers, Names(reg)) : r.source = "mcp"
  BY DEF ServerRecords, Record
<1>2. {x \in WithServers(reg, servers) : x.source = "agent-yaml"} = {x \in reg : x.source = "agent-yaml"}
  BY <1>0, <1>1
<1> QED
  BY <1>0, <1>1, <1>2 DEF Scanned, McpRecords

LEMMA ServersRemoved ==
  ASSUME NEW reg, NEW R, R \subseteq McpRecords(reg)
  PROVE  Scanned(reg \ R) = Scanned(reg)
<1>1. {x \in reg \ R : x.source = "agent-yaml"} = {x \in reg : x.source = "agent-yaml"}
  BY DEF McpRecords
<1> QED
  BY <1>1 DEF Scanned

LEMMA ServersKnown ==
  ASSUME NEW g, NEW l, NEW bad
  PROVE  Load(g, l, bad).active \subseteq Servers
BY DEF Load, Merged, ActiveServers

-----------------------------------------------------------------------------
(* The YAML files and the active servers are of the kinds the constants    *)
(* say.                                                                    *)
WellNamed ==
  /\ yaml \in [local : SUBSET Agents, global : SUBSET Agents]
  /\ config.active \subseteq Servers

\* The six things a step does to the registry.
RegistryKept == UNCHANGED <<registry, loaded, scan, answered, skipped>>
Refreshed(s) ==
  LET others == registry \ {r \in McpRecords(registry) : r.origin = s} IN
  /\ s \in loaded
  /\ registry' = WithServers(others, {s})
  /\ answered' = answered \cup {s}
  /\ skipped' = (skipped \ Offers[s]) \cup Taken(others, {s})
  /\ UNCHANGED <<loaded, scan>>
SkillsReloaded ==
  /\ registry' = ReloadSkills(registry, config)
  /\ UNCHANGED <<loaded, scan, answered, skipped>>
RegistryChange ==
  \/ RegistryKept
  \/ ReloadTools(config')
  \/ RestartServers
  \/ \E s \in Servers : Refreshed(s)
  \/ RescanYaml(yaml')
  \/ SkillsReloaded

LEMMA RegistryStep ==
  ASSUME WellNamed, [Next]_vars
  PROVE  WellNamed' /\ RegistryChange
<1> USE DEF WellNamed
<1>1. CASE AgentCommand
  <2>1. CASE \E kind \in {"tools", "mcps"}, allowed \in BOOLEAN : \E n \in Resources(kind) :
               SetAgentResource(kind, n, allowed)
    BY <2>1, ServersKnown DEF SetAgentResource, RegistryChange, RegistryKept
  <2>2. CASE SwitchMode
    BY <2>2, ServersKnown DEF SwitchMode, RegistryChange
  <2> QED
    BY <1>1, <2>1, <2>2 DEF AgentCommand
<1>2. CASE SubAgentCommand
  <2>1. CASE \E a \in Agents, kind \in {"tools", "mcps"}, allowed \in BOOLEAN : \E n \in Resources(kind) :
               SetSubAgentResource(a, kind, n, allowed)
    BY <2>1, ServersKnown DEF SetSubAgentResource, RegistryChange, RegistryKept
  <2>2. CASE \E a \in Agents, scope \in {"local", "global"} : YamlNew(a, scope)
    BY <2>2 DEF YamlNew, tools, aux, RegistryChange, RegistryKept
  <2>3. CASE \E a \in Agents, from, to \in {"local", "global"} : YamlMove(a, from, to)
    <3>1. PICK a \in Agents, from \in {"local", "global"}, to \in {"local", "global"} : YamlMove(a, from, to)
      BY <2>3
    <3>2. yaml' \in [local : SUBSET Agents, global : SUBSET Agents]
      BY <3>1 DEF YamlMove
    <3> QED
      BY <3>1, <3>2 DEF YamlMove, RescanYaml, RegistryChange
  <2>4. CASE YamlReload
    BY <2>4 DEF YamlReload, RescanYaml, RegistryChange
  <2> QED
    BY <1>2, <2>1, <2>2, <2>3, <2>4 DEF SubAgentCommand
<1>3. CASE McpCommand
  <2>1. CASE \E s \in Servers, active \in BOOLEAN : SetServerActive(s, active)
    BY <2>1, ServersKnown DEF SetServerActive, RegistryChange
  <2>2. CASE \E s \in Servers : McpRefresh(s)
    <3>1. PICK s \in Servers : McpRefresh(s)
      BY <2>2
    <3>2. {r \in registry : r \notin McpRecords(registry) \/ r.origin # s}
            = registry \ {r \in McpRecords(registry) : r.origin = s}
      BY DEF McpRecords
    <3>3. CASE s \in up
      <4>1. Refreshed(s)
        BY <3>1, <3>2, <3>3 DEF McpRefresh, Refreshed
      <4> QED
        BY <3>1, <4>1 DEF McpRefresh, files, RegistryChange
    <3>4. CASE s \notin up
      BY <3>1, <3>4 DEF McpRefresh, files, RegistryChange, RegistryKept
    <3> QED
      BY <3>3, <3>4
  <2>3. CASE McpReload
    BY <2>3, ServersKnown DEF McpReload, files, RegistryChange
  <2> QED
    BY <1>3, <2>1, <2>2, <2>3 DEF McpCommand
<1>4. CASE ToolsReload
  BY <1>4, ServersKnown DEF ToolsReload, files, RegistryChange
<1>5. CASE SkillsReload
  BY <1>5 DEF SkillsReload, SkillsReloaded, files, aux, RegistryChange
<1>6. CASE ProviderCommand \/ SettingsScreen
  <2>1. Model /\ Reloaded
    BY <1>6 DEF ProviderCommand, SettingsScreen, UseProfile, SetField, SetTopLevel, SaveProvider,
                SaveProfile, DeleteProfile
  <2> QED
    BY <2>1, ServersKnown DEF Model, Reloaded, aux, RegistryChange, RegistryKept
<1>7. CASE ConfigCommand
  <2>1. CASE ConfigReload
    BY <2>1, ServersKnown DEF ConfigReload, files, aux, RegistryChange, RegistryKept
  <2>2. CASE \E scope \in {"local", "global"} : ConfigUpgrade(scope)
    BY <2>2, ServersKnown DEF ConfigUpgrade, Upgrade, RegistryChange
  <2>3. CASE \E scope \in {"local", "global"} : ConfigReinit(scope)
    BY <2>3, ServersKnown DEF ConfigReinit, RegistryChange, RegistryKept
  <2> QED
    BY <1>7, <2>1, <2>2, <2>3 DEF ConfigCommand
<1>8. CASE UpgradeAtStart
  BY <1>8, ServersKnown DEF UpgradeAtStart, Upgrade, RegistryChange, RegistryKept
<1>9. CASE \E a \in Agents, scope \in {"local", "global"} : EditYaml(a, scope)
  BY <1>9 DEF EditYaml, Edit, tools, aux, RegistryChange, RegistryKept
<1>10. CASE \E s \in Servers : ServerChanges(s)
  BY <1>10 DEF ServerChanges, Edit, files, tools, aux, RegistryChange, RegistryKept
<1>11. CASE DamageLocal \/ RepairLocal
  BY <1>11 DEF DamageLocal, RepairLocal, Edit, tools, aux, RegistryChange, RegistryKept
<1>12. CASE UNCHANGED vars
  BY <1>12 DEF vars, files, tools, aux, RegistryChange, RegistryKept
<1> QED
  BY <1>1, <1>2, <1>3, <1>4, <1>5, <1>6, <1>7, <1>8, <1>9, <1>10, <1>11, <1>12 DEF Next

-----------------------------------------------------------------------------
LEMMA YamlKeptStep ==
  ASSUME YamlKept, RegistryChange
  PROVE  YamlKept'
<1> USE DEF YamlKept
<1>1. CASE RegistryKept
  BY <1>1 DEF RegistryKept, Scanned
<1>2. CASE ReloadTools(config')
  BY <1>2 DEF ReloadTools, Scanned
<1>3. CASE RestartServers
  <2>1. /\ registry' = WithServers(registry \ McpRecords(registry), answered')
        /\ scan' = scan
    BY <1>3 DEF RestartServers
  <2>2. Scanned(registry') = Scanned(registry)
    BY <2>1, ServersAdded, ServersRemoved
  <2> QED
    BY <2>1, <2>2 DEF Scanned
<1>4. CASE \E s \in Servers : Refreshed(s)
  <2>1. PICK s \in Servers : Refreshed(s)
    BY <1>4
  <2> DEFINE own == {r \in McpRecords(registry) : r.origin = s}
  <2>2. Scanned(registry') = Scanned(registry)
    <3>1. registry' = WithServers(registry \ own, {s})
      BY <2>1 DEF Refreshed
    <3>2. own \subseteq McpRecords(registry)
      OBVIOUS
    <3> HIDE DEF own
    <3>3. Scanned(WithServers(registry \ own, {s})) = Scanned(registry \ own)
      BY ServersAdded
    <3>4. Scanned(registry \ own) = Scanned(registry)
      BY <3>2, ServersRemoved
    <3> QED
      BY <3>1, <3>3, <3>4
  <2> QED
    BY <2>1, <2>2 DEF Refreshed, Scanned
<1>5. CASE RescanYaml(yaml')
  BY <1>5 DEF RescanYaml, Scanned
<1>6. CASE SkillsReloaded
  <2>1. {x \in {r \in registry : r.source # "agent-skill"} : x.source = "agent-yaml"}
          = {x \in registry : x.source = "agent-yaml"}
    OBVIOUS
  <2>2. Scanned(registry') = Scanned(registry)
    BY <1>6, <2>1, SkillsAdded DEF SkillsReloaded, ReloadSkills, Scanned
  <2> QED
    BY <1>6, <2>2 DEF SkillsReloaded, Scanned
<1> QED
  BY <1>1, <1>2, <1>3, <1>4, <1>5, <1>6 DEF RegistryChange

LEMMA WellNamedInit == Init => WellNamed
BY CommandsAssumption, ServersKnown DEF Init, WellNamed

(* The registered YAML sub-agents are those of the last scan.              *)
THEOREM YamlAgentsAreKept == Spec => []YamlKept
<1>1. Init => YamlKept
  BY DEF Init, YamlKept
<1>2. WellNamed /\ YamlKept /\ [Next]_vars => (WellNamed /\ YamlKept)'
  BY RegistryStep, YamlKeptStep
<1> QED
  BY <1>1, <1>2, WellNamedInit, PTL DEF Spec

-----------------------------------------------------------------------------
(* The registered tools of servers are tools that servers offer which are  *)
(* loaded and answered, and of the servers that answered every tool is     *)
(* registered or was skipped.                                              *)
ServersInv ==
  /\ answered \subseteq Servers /\ loaded \subseteq Servers
  /\ McpRecords(registry) \subseteq ServerRecords(answered \cap loaded, {})
  /\ \A s \in answered : \A t \in Offers[s] \ skipped : Record(t, "mcp", s, "none") \in registry

LEMMA RecordFields ==
  ASSUME NEW n, NEW source, NEW origin, NEW client
  PROVE  LET r == Record(n, source, origin, client) IN
         r.name = n /\ r.source = source /\ r.origin = origin /\ r.client = client
BY DEF Record

LEMMA ServerRecord ==
  ASSUME NEW servers, NEW taken, NEW r
  PROVE  r \in ServerRecords(servers, taken) <=>
           \E s \in servers : \E t \in Offers[s] \ taken : r = Record(t, "mcp", s, "none")
BY DEF ServerRecords

\* Registering what servers in S offer, over a registry without any of their tools.
LEMMA ServersRegistered ==
  ASSUME NEW reg, NEW S \in SUBSET Servers,
         NEW s \in S, NEW t \in Offers[s] \ Taken(reg, S)
  PROVE  Record(t, "mcp", s, "none") \in WithServers(reg, S)
<1>1. t \in Offers[s] \ Names(reg)
  BY DEF Taken
<1> QED
  BY <1>1 DEF WithServers

LEMMA ServersInvStep ==
  ASSUME WellNamed, WellNamed', ServersInv, RegistryChange
  PROVE  ServersInv'
<1> USE DEF ServersInv
<1>0. \A r \in McpRecords(registry) : r \in registry /\ r.source = "mcp"
  BY DEF McpRecords
<1>1. CASE RegistryKept
  BY <1>1 DEF RegistryKept, McpRecords
<1>2. CASE ReloadTools(config')
  <2>1. UNCHANGED <<loaded, answered>>
    BY <1>2 DEF ReloadTools
  <2>2. CASE /\ ~Collides(registry, config')
             /\ registry' = Rebuild(registry, config', yaml)
    <3>1. McpRecords(registry') = McpRecords(registry)
      <4>1. McpRecords(CoreRecords(config') \cup McpRecords(registry)) = McpRecords(registry)
        BY CoreHasNoServers DEF McpRecords
      <4> QED
        BY <2>2, <4>1, AgentsAdded, SkillsAdded DEF Rebuild, Preserved
    <3>2. skipped' = skipped
      BY <1>2, <2>2 DEF ReloadTools
    <3>3. ASSUME NEW s \in answered, NEW t \in Offers[s] \ skipped
          PROVE  Record(t, "mcp", s, "none") \in registry'
      <4>1. Record(t, "mcp", s, "none") \in McpRecords(registry)
        BY RecordFields DEF McpRecords
      <4> QED
        BY <3>1, <4>1 DEF McpRecords
    <3> QED
      BY <2>1, <3>1, <3>2, <3>3 DEF McpRecords
  <2>3. CASE Collides(registry, config')
    <3>1. PICK before \in SUBSET Preserved(registry) : registry' = CoreRecords(config') \cup before
      BY <1>2, <2>3 DEF ReloadTools
    <3>2. McpRecords(registry') = before
      BY <1>0, <3>1, CoreHasNoServers DEF McpRecords, Preserved
    <3>3. skipped' = skipped \cup (Names(McpRecords(registry)) \ Names(before))
      BY <1>2, <2>3, <3>2 DEF ReloadTools, Preserved
    <3>4. ASSUME NEW s \in answered, NEW t \in Offers[s] \ skipped'
          PROVE  Record(t, "mcp", s, "none") \in registry'
      <4>1. Record(t, "mcp", s, "none") \in McpRecords(registry)
        BY <3>3, RecordFields DEF McpRecords
      <4>2. t \in Names(McpRecords(registry))
        BY <4>1, RecordFields DEF Names
      <4>3. PICK r \in before : r.name = t
        BY <3>3, <4>2 DEF Names
      <4>4. r \in ServerRecords(answered \cap loaded, {})
        BY <3>1, <4>3 DEF Preserved
      <4>5. PICK x \in answered \cap loaded : \E u \in Offers[x] : r = Record(u, "mcp", x, "none")
        BY <4>4, ServerRecord
      <4>6. t \in Offers[x] /\ r = Record(t, "mcp", x, "none")
        BY <4>3, <4>5, RecordFields
      <4>7. x = s
        BY <4>5, <4>6, CommandsAssumption
      <4> QED
        BY <3>1, <4>3, <4>6, <4>7
    <3>5. McpRecords(registry') \subseteq McpRecords(registry)
      BY <3>1, <3>2 DEF Preserved
    <3> QED
      BY <2>1, <3>4, <3>5 DEF McpRecords
  <2> QED
    BY <1>2, <2>2, <2>3 DEF ReloadTools
<1>3. CASE RestartServers
  <2> DEFINE others == registry \ McpRecords(registry)
  <2>1. /\ registry' = WithServers(others, answered')
        /\ skipped' = Taken(others, answered')
        /\ answered' \subseteq loaded' /\ loaded' = config'.active
    BY <1>3 DEF RestartServers
  <2>2. loaded' \subseteq Servers
    BY <2>1 DEF WellNamed
  <2>3. McpRecords(others) = {}
    BY DEF McpRecords
  <2>4. McpRecords(registry') = ServerRecords(answered', Names(others))
    BY <2>1, <2>3, ServersAdded
  <2>5. McpRecords(registry') \subseteq ServerRecords(answered' \cap loaded', {})
    BY <2>1, <2>4, ServerRecord
  <2>6. \A s \in answered' : \A t \in Offers[s] \ skipped' : Record(t, "mcp", s, "none") \in registry'
    BY <2>1, <2>2, ServersRegistered
  <2> QED
    BY <2>1, <2>2, <2>5, <2>6 DEF McpRecords
<1>4. CASE \E s \in Servers : Refreshed(s)
  <2>1. PICK s \in Servers : Refreshed(s)
    BY <1>4
  <2> DEFINE others == registry \ {r \in McpRecords(registry) : r.origin = s}
  <2>2. /\ s \in loaded /\ UNCHANGED loaded
        /\ registry' = WithServers(others, {s})
        /\ answered' = answered \cup {s}
        /\ skipped' = (skipped \ Offers[s]) \cup Taken(others, {s})
    BY <2>1 DEF Refreshed
  <2>3. McpRecords(registry') = McpRecords(others) \cup ServerRecords({s}, Names(others))
    BY <2>2, ServersAdded
  <2>4. McpRecords(others) \subseteq McpRecords(registry)
    BY DEF McpRecords
  <2>5. McpRecords(registry') \subseteq ServerRecords(answered' \cap loaded', {})
    <3>1. ASSUME NEW r \in McpRecords(registry)
          PROVE  r \in ServerRecords(answered' \cap loaded', {})
      BY <2>2, ServerRecord
    <3>2. ASSUME NEW r \in ServerRecords({s}, Names(others))
          PROVE  r \in ServerRecords(answered' \cap loaded', {})
      BY <2>2, ServerRecord
    <3> QED
      BY <2>3, <2>4, <3>1, <3>2
  <2>6. ASSUME NEW x \in answered', NEW t \in Offers[x] \ skipped'
        PROVE  Record(t, "mcp", x, "none") \in registry'
    <3>1. CASE x = s
      BY <2>2, <3>1, ServersRegistered
    <3>2. CASE x # s
      <4>1. x \in answered /\ x \in Servers
        BY <2>2, <3>2
      <4>2. t \notin Offers[s]
        BY <3>2, <4>1, CommandsAssumption
      <4>3. Record(t, "mcp", x, "none") \in registry
        BY <2>2, <4>1, <4>2
      <4>4. Record(t, "mcp", x, "none") \in others
        BY <3>2, <4>3, RecordFields
      <4> QED
        BY <2>2, <4>4 DEF WithServers
    <3> QED
      BY <3>1, <3>2
  <2> QED
    BY <2>2, <2>5, <2>6 DEF McpRecords
<1>5. CASE RescanYaml(yaml')
  <2>1. /\ registry' = WithYaml(registry, config, yaml')
        /\ UNCHANGED <<loaded, answered, skipped>>
    BY <1>5 DEF RescanYaml
  <2>2. YamlNames(yaml') \subseteq Agents
    BY DEF WellNamed, YamlNames
  <2>3. McpRecords(registry') \subseteq McpRecords(registry)
    BY <2>1 DEF WithYaml, YamlRecord, Record, McpRecords
  <2>4. ASSUME NEW s \in answered, NEW t \in Offers[s] \ skipped
        PROVE  Record(t, "mcp", s, "none") \in registry'
    <3>1. t \notin Agents
      BY CommandsAssumption
    <3>2. Record(t, "mcp", s, "none") \in registry
      OBVIOUS
    <3> QED
      BY <2>1, <2>2, <3>1, <3>2, RecordFields DEF WithYaml
  <2> QED
    BY <2>1, <2>3, <2>4
<1>6. CASE SkillsReloaded
  <2>1. /\ registry' = WithSkills({r \in registry : r.source # "agent-skill"}, config)
        /\ UNCHANGED <<loaded, answered, skipped>>
    BY <1>6 DEF SkillsReloaded, ReloadSkills
  <2>2. McpRecords(registry') = McpRecords(registry)
    <3>1. McpRecords({r \in registry : r.source # "agent-skill"}) = McpRecords(registry)
      BY DEF McpRecords
    <3> QED
      BY <2>1, <3>1, SkillsAdded
  <2>3. ASSUME NEW s \in answered, NEW t \in Offers[s] \ skipped
        PROVE  Record(t, "mcp", s, "none") \in registry'
    <3>1. Record(t, "mcp", s, "none") \in McpRecords(registry)
      BY RecordFields DEF McpRecords
    <3> QED
      BY <2>2, <3>1 DEF McpRecords
  <2> QED
    BY <2>1, <2>2, <2>3
<1> QED
  BY <1>1, <1>2, <1>3, <1>4, <1>5, <1>6 DEF RegistryChange

LEMMA ServersInvInit == Init => ServersInv
<1> SUFFICES ASSUME Init PROVE ServersInv
  OBVIOUS
<1> DEFINE core == CoreRecords(config)  active == config.active
<1>1. /\ registry = Startup(config, yaml, active) /\ loaded = active /\ answered = active
      /\ skipped = Taken(core, active)
  BY DEF Init
<1>2. active \subseteq Servers
  BY WellNamedInit DEF WellNamed
<1>3. McpRecords(registry) = McpRecords(WithServers(core, active))
  BY <1>1, AgentsAdded, SkillsAdded DEF Startup
<1>4. McpRecords(WithServers(core, active)) = ServerRecords(active, Names(core))
  BY CoreHasNoServers, ServersAdded
<1>5. McpRecords(registry) \subseteq ServerRecords(answered \cap loaded, {})
  BY <1>1, <1>3, <1>4, ServerRecord
<1>6. ASSUME NEW s \in answered, NEW t \in Offers[s] \ skipped
      PROVE  Record(t, "mcp", s, "none") \in registry
  <2>1. Record(t, "mcp", s, "none") \in WithServers(core, active)
    BY <1>1, <1>2, ServersRegistered
  <2>2. Record(t, "mcp", s, "none") \in McpRecords(registry)
    BY <1>3, <2>1, RecordFields DEF McpRecords
  <2> QED
    BY <2>2 DEF McpRecords
<1> QED
  BY <1>1, <1>2, <1>5, <1>6 DEF ServersInv

LEMMA ServersInvariant == Spec => [](WellNamed /\ ServersInv)
<1>1. WellNamed /\ ServersInv /\ [Next]_vars => (WellNamed /\ ServersInv)'
  BY RegistryStep, ServersInvStep
<1> QED
  BY <1>1, WellNamedInit, ServersInvInit, PTL DEF Spec

(* The tools of the servers are those of the servers that answered, but    *)
(* for what was skipped or lost.                                           *)
THEOREM ServerToolsAreKept == Spec => []McpKept
<1>1. ServersInv => McpKept
  <2> SUFFICES ASSUME ServersInv PROVE McpKept
    OBVIOUS
  <2>1. {r.origin : r \in McpRecords(registry)} \subseteq answered \cap loaded
    BY ServerRecord, RecordFields DEF ServersInv
  <2>2. ASSUME NEW s \in answered, NEW t \in Offers[s] \ skipped
        PROVE  t \in McpTools(registry, {s})
    <3>1. Record(t, "mcp", s, "none") \in registry
      BY DEF ServersInv
    <3> QED
      BY <3>1, RecordFields DEF McpTools, McpRecords, Names
  <2> QED
    BY <2>1, <2>2 DEF McpKept
<1> QED
  BY <1>1, ServersInvariant, PTL

-----------------------------------------------------------------------------
\* Two records that differ at most in their clients.
Alike(r, t) == r.name = t.name /\ r.source = t.source /\ r.origin = t.origin
Covers(R, S) == \A r \in R : \E t \in S : Alike(r, t)

LEMMA CoveredRecords ==
  ASSUME NEW R, NEW S, Covers(R, S)
  PROVE  Names(R) \subseteq Names(S) /\ Sources(R) \subseteq Sources(S)
BY DEF Covers, Alike, Names, Sources

\* The client of the sub-agents' model makes no other difference.
LEMMA AnyClient ==
  ASSUME NEW reg, NEW cfg, NEW y, NEW c, NEW d
  PROVE  Covers(WithAgents(reg, cfg, y, c), WithAgents(reg, cfg, y, d))
<1> SUFFICES ASSUME NEW r \in WithAgents(reg, cfg, y, c)
             PROVE  \E t \in WithAgents(reg, cfg, y, d) : Alike(r, t)
  BY DEF Covers
<1>1. CASE r \in reg
  <2>1. r \in WithAgents(reg, cfg, y, d)
    BY <1>1 DEF WithAgents
  <2> QED
    BY <2>1 DEF Alike
<1>2. CASE r \in {Record(a, "agent", "builtin", c) : a \in {a \in Builtins \ YamlNames(y) : Wanted(cfg, a)}}
  <2>1. PICK a \in {a \in Builtins \ YamlNames(y) : Wanted(cfg, a)} : r = Record(a, "agent", "builtin", c)
    BY <1>2
  <2>2. Record(a, "agent", "builtin", d) \in WithAgents(reg, cfg, y, d)
    BY DEF WithAgents
  <2>3. Alike(r, Record(a, "agent", "builtin", d))
    BY <2>1, RecordFields DEF Alike
  <2> QED
    BY <2>2, <2>3
<1>3. CASE r \in {YamlRecord(y, a, c) : a \in {a \in YamlNames(y) : Wanted(cfg, a)}}
  <2>1. PICK a \in {a \in YamlNames(y) : Wanted(cfg, a)} : r = YamlRecord(y, a, c)
    BY <1>3
  <2>2. YamlRecord(y, a, d) \in WithAgents(reg, cfg, y, d)
    BY DEF WithAgents
  <2>3. Alike(r, YamlRecord(y, a, d))
    BY <2>1, RecordFields DEF Alike, YamlRecord
  <2> QED
    BY <2>2, <2>3
<1> QED
  BY <1>1, <1>2, <1>3 DEF WithAgents

LEMMA SkillsCovered ==
  ASSUME NEW R, NEW S, NEW cfg, Covers(R, S), Names(R) = Names(S)
  PROVE  Covers(WithSkills(R, cfg), WithSkills(S, cfg))
<1> DEFINE skilled == {Record(a, "agent-skill", "skill", "fake") : a \in {a \in Skills \ Names(R) : Wanted(cfg, a)}}
<1>1. WithSkills(R, cfg) = R \cup skilled /\ WithSkills(S, cfg) = S \cup skilled
  BY DEF WithSkills
<1> HIDE DEF skilled
<1> QED
  BY <1>1 DEF Covers, Alike

LEMMA SameSources ==
  ASSUME NEW reg, NEW cfg, NEW y, NEW c, NEW d
  PROVE  Sources(WithSkills(WithAgents(reg, cfg, y, c), cfg))
           = Sources(WithSkills(WithAgents(reg, cfg, y, d), cfg))
<1> DEFINE R == WithAgents(reg, cfg, y, c)  S == WithAgents(reg, cfg, y, d)
<1>1. Covers(R, S) /\ Covers(S, R)
  BY AnyClient
<1> HIDE DEF R, S
<1>2. Names(R) = Names(S)
  BY <1>1, CoveredRecords
<1>3. Covers(WithSkills(R, cfg), WithSkills(S, cfg)) /\ Covers(WithSkills(S, cfg), WithSkills(R, cfg))
  BY <1>1, <1>2, SkillsCovered
<1>4. Sources(WithSkills(R, cfg)) = Sources(WithSkills(S, cfg))
  BY <1>3, CoveredRecords
<1> QED
  BY <1>4 DEF R, S

(* A rebuild that does not raise gives what a start gives.                 *)
LEMMA RebuildStep ==
  ASSUME ServersInv, Rebuilt, ~Collides(registry, config'),
         skipped \subseteq Names(CoreRecords(config'))
  PROVE  Sources(registry') = Sources(Startup(config', yaml, answered))
<1> DEFINE core == CoreRecords(config')  servers == McpRecords(registry)
<1>1. registry' = WithSkills(WithAgents(core \cup servers, config', yaml, "fake"), config')
  <2>1. ReloadTools(config')
    BY DEF Rebuilt, ToolsReload, SwitchMode, ConfigUpgrade
  <2> QED
    BY <2>1 DEF ReloadTools, Rebuild, Preserved
<1>2. servers = ServerRecords(answered, Names(core))
  <2>1. ASSUME NEW r \in servers PROVE r \in ServerRecords(answered, Names(core))
    <3>1. PICK s \in answered \cap loaded : \E t \in Offers[s] : r = Record(t, "mcp", s, "none")
      BY ServerRecord DEF ServersInv
    <3>2. r.name \notin Names(core)
      BY DEF Collides, Preserved, Names
    <3> QED
      BY <3>1, <3>2, ServerRecord, RecordFields
  <2>2. ASSUME NEW r \in ServerRecords(answered, Names(core)) PROVE r \in servers
    <3>1. PICK s \in answered : \E t \in Offers[s] \ Names(core) : r = Record(t, "mcp", s, "none")
      BY ServerRecord
    <3>2. r \in registry
      BY <3>1 DEF ServersInv
    <3> QED
      BY <3>1, <3>2, RecordFields DEF McpRecords
  <2> QED
    BY <2>1, <2>2
<1>3. WithServers(core, answered) = core \cup servers
  BY <1>2 DEF WithServers, ServerRecords
<1> QED
  BY <1>1, <1>3, SameSources DEF Startup

(* Rebuilding the registry is like starting the program again.             *)
THEOREM RebuildsAreLikeStarts == Spec => RebuildLikeStartup
<1>1. ServersInv => (Rebuilt /\ ~Collides(registry, config')
                       /\ skipped \subseteq Names(CoreRecords(config'))
                     => Sources(registry') = Sources(Startup(config', yaml, answered)))
  BY RebuildStep
<1> QED
  BY <1>1, ServersInvariant, PTL DEF RebuildLikeStartup

-----------------------------------------------------------------------------
(***************************************************************************)
(* What was hidden stays hidden.  The local file holds deltas alone, and   *)
(* the deltas of what the commands hid: the upgrade leaves them as they    *)
(* are, and of two entries for a sub-agent the first is the one that is    *)
(* edited and the one that counts.                                         *)
(***************************************************************************)
(* Every nonempty set of naturals has a least element.                     *)
LEMMA Least ==
    ASSUME NEW S \in SUBSET Nat, S # {}
    PROVE  \E m \in S : \A k \in S : m <= k
  <1> DEFINE T == {1..n : n \in S}
  <1>1. T \subseteq FiniteSubsetsOf(Nat) /\ T # {}
    <2>1. ASSUME NEW n \in S PROVE 1..n \in FiniteSubsetsOf(Nat)
      <3>1. IsFiniteSet(1..n) /\ 1..n \in SUBSET Nat
        BY FS_Interval
      <3> QED
        BY <3>1 DEF FiniteSubsetsOf
    <2> QED
      BY <2>1
  <1>2. \E v \in T : \A w \in T : ~(<<w, v>> \in StrictSubsetOrdering(Nat))
    BY <1>1, WFMin, FS_StrictSubsetOrderingWellFounded
  <1>3. PICK m \in S : \A k \in S : ~(<<1..k, 1..m>> \in StrictSubsetOrdering(Nat))
    BY <1>2
  <1>4. ASSUME NEW k \in S, ~(m <= k) PROVE FALSE
    <2>1. 1..k \subseteq 1..m /\ m \in 1..m /\ m \notin 1..k
      BY <1>4
    <2>2. 1..k # 1..m /\ 1..k \in SUBSET Nat /\ 1..m \in SUBSET Nat
      BY <2>1
    <2>3. <<1..k, 1..m>> \in StrictSubsetOrdering(Nat)
      BY <2>1, <2>2 DEF StrictSubsetOrdering
    <2> QED
      BY <1>3, <2>3
  <1> QED
    BY <1>4

LEMMA MinIsIn ==
  ASSUME NEW S \in SUBSET Nat, S # {}
  PROVE  Min(S) \in S
<1>1. \E m \in S : \A k \in S : m <= k
  BY Least
<1> QED
  BY <1>1 DEF Min

\* The scopes and entries of the local file.
Deltas  == [base : {{}}, add : SUBSET about.named, remove : SUBSET about.named]
Entries == [name : Agents, tools : Deltas, mcps : Deltas]
Own(profiles, a) == {i \in DOMAIN profiles : profiles[i].name = a}

HasFields(f) == {"tools", "mcps", "profiles"} \subseteq DOMAIN f

DeltasOnly(f) ==
  /\ HasFields(f)
  /\ f.tools \in Deltas /\ f.mcps \in Deltas
  /\ f.profiles \in Seq(Entries)

\* The file removes resource n of this kind for the agent.
Removes(f, agent, kind, n) ==
  IF agent = Supervisor THEN n \in f[kind].remove
  ELSE /\ Own(f.profiles, agent) # {}
       /\ n \in f.profiles[Min(Own(f.profiles, agent))][kind].remove

Denials == (Agents \cup {Supervisor}) \X {"tools", "mcps"} \X about.named

HiddenInv ==
  /\ DeltasOnly(local)
  /\ hidden \subseteq Denials
  /\ \A denial \in hidden : Removes(local, denial[1], denial[2], denial[3])

(* The deltas after a command are deltas, and what is disallowed is        *)
(* removed; nothing else leaves the removals but what is allowed.          *)
LEMMA DeltaRemoves ==
  ASSUME NEW scope \in Deltas, NEW n \in about.named, NEW allowed \in BOOLEAN
  PROVE  /\ Delta(scope, n, allowed) \in Deltas
         /\ ~allowed => n \in Delta(scope, n, allowed).remove
         /\ \A x \in scope.remove : x \in Delta(scope, n, allowed).remove \/ (allowed /\ x = n)
BY DEF Deltas, Delta

(* The first own entry of a sub-agent is one of its entries.               *)
LEMMA FirstOwn ==
  ASSUME NEW profiles \in Seq(Entries), NEW a, Own(profiles, a) # {}
  PROVE  /\ Min(Own(profiles, a)) \in DOMAIN profiles
         /\ profiles[Min(Own(profiles, a))] \in Entries
         /\ profiles[Min(Own(profiles, a))].name = a
<1>1. Own(profiles, a) \in SUBSET Nat
  BY DEF Own
<1>2. Min(Own(profiles, a)) \in Own(profiles, a)
  BY <1>1, MinIsIn
<1> QED
  BY <1>2 DEF Own

LEMMA UpgradeKeepsDeltas ==
  ASSUME NEW scope \in Deltas, NEW defaults
  PROVE  Compact(scope, defaults) = scope /\ CompactServers(scope) = scope
BY DEF Deltas, Compact, CompactServers

LEMMA UpgradeKeepsEntries ==
  ASSUME NEW profiles \in Seq(Entries)
  PROVE  UpgradedProfiles(profiles) = profiles
<1>1. ASSUME NEW i \in DOMAIN profiles
      PROVE  CompactProfile(profiles[i]) = Renamed(profiles[i]) /\ ~Redundant(profiles[i])
  <2>1. profiles[i] \in Entries
    OBVIOUS
  <2>2. /\ Renamed(profiles[i]).tools \in Deltas /\ Renamed(profiles[i]).mcps \in Deltas
        /\ Renamed(profiles[i]) = [name |-> Canon[profiles[i].name], tools |-> profiles[i].tools,
                                   mcps |-> profiles[i].mcps]
    BY <2>1 DEF Entries, Renamed
  <2>3. CompactProfile(profiles[i]) = Renamed(profiles[i])
    BY <2>2, UpgradeKeepsDeltas DEF CompactProfile
  <2> QED
    BY <2>3 DEF Redundant
<1>2. {i \in DOMAIN profiles : ~Redundant(profiles[i])} = DOMAIN profiles
  BY <1>1
<1>3. [i \in {i \in DOMAIN profiles : ~Redundant(profiles[i])} |-> CompactProfile(profiles[i])]
        = [i \in DOMAIN profiles |-> Renamed(profiles[i])]
  BY <1>1, <1>2
<1> QED
  BY <1>3 DEF UpgradedProfiles

\* The file of after says of tools, servers and sub-agents what that of before said.
SameScopes(before, after) ==
  /\ HasFields(after)
  /\ after.tools = before.tools /\ after.mcps = before.mcps
  /\ after.profiles = before.profiles

LEMMA UpgradeKeepsLocal ==
  ASSUME NEW f, DeltasOnly(f)
  PROVE  SameScopes(f, UpgradedLocal(f))
<1>1. /\ Compact(f.tools, DefaultTools) = f.tools /\ CompactServers(f.mcps) = f.mcps
      /\ UpgradedProfiles(f.profiles) = f.profiles
  BY UpgradeKeepsDeltas, UpgradeKeepsEntries DEF DeltasOnly
<1>2. /\ UpgradedLocal(f).tools = Compact(f.tools, DefaultTools)
      /\ UpgradedLocal(f).mcps = CompactServers(f.mcps)
      /\ UpgradedLocal(f).profiles = UpgradedProfiles(f.profiles)
      /\ HasFields(UpgradedLocal(f))
  BY DEF UpgradedLocal, DeltasOnly, HasFields
<1> QED
  BY <1>1, <1>2 DEF SameScopes

LEMMA EmptyFile == DeltasOnly(NoFile) /\ DeltasOnly(LocalTemplate)
<1>1. DeltasOnly(NoFile)
  <2>1. NoScope \in Deltas /\ <<>> \in Seq(Entries)
    BY DEF NoScope, Deltas
  <2> QED
    BY <2>1 DEF NoFile, DeltasOnly, HasFields
<1>2. SameScopes(NoFile, LocalTemplate)
  BY <1>1, UpgradeKeepsLocal DEF LocalTemplate
<1> QED
  BY <1>1, <1>2 DEF SameScopes, DeltasOnly

\* The five things a step does to the local file and what is known to be hidden.
ScopesKept   == SameScopes(local, local') /\ UNCHANGED hidden
WrittenAnew  == local' = LocalTemplate /\ hidden' = {}
AgentDelta(kind, n, allowed) ==
  /\ local' = [local EXCEPT ![kind] = Delta(@, n, allowed)]
  /\ Remember(Supervisor, kind, n, allowed)
SubAgentDelta(a, kind, n, allowed) ==
  /\ local' = [local EXCEPT !.profiles = WithProfile(@, a, kind, n, allowed)]
  /\ Remember(a, kind, n, allowed)
LocalChange ==
  \/ ScopesKept
  \/ WrittenAnew
  \/ \E kind \in {"tools", "mcps"}, allowed \in BOOLEAN, n \in about.named :
       AgentDelta(kind, n, allowed)
  \/ \E a \in Agents, kind \in {"tools", "mcps"}, allowed \in BOOLEAN, n \in about.named :
       SubAgentDelta(a, kind, n, allowed)

LEMMA LocalStep ==
  ASSUME DeltasOnly(local), [Next]_vars
  PROVE  UNCHANGED about /\ LocalChange
<1> USE DEF LocalChange
<1>0. SameScopes(local, local)
  BY DEF SameScopes, DeltasOnly
<1> DEFINE Kept == UNCHANGED <<about, local, hidden>>
<1>k. ASSUME Kept PROVE UNCHANGED about /\ LocalChange
  BY <1>0, <1>k DEF ScopesKept
<1>u. ASSUME NEW scope, Upgrade(scope) PROVE LocalChange
  <2>1. CASE scope = "global"
    BY <1>0, <1>u, <2>1 DEF Upgrade, ScopesKept
  <2>2. CASE scope # "global" /\ broken
    BY <1>u, <2>2 DEF Upgrade, WrittenAnew
  <2>3. CASE scope # "global" /\ ~broken
    BY <1>u, <2>3, UpgradeKeepsLocal DEF Upgrade, ScopesKept
  <2> QED
    BY <2>1, <2>2, <2>3
<1>l. ASSUME NEW llm, ToLocal(llm) \/ ToGlobal(llm) PROVE SameScopes(local, local')
  BY <1>0, <1>l DEF ToLocal, ToGlobal, SameScopes, DeltasOnly, HasFields
<1>1. CASE AgentCommand
  <2>1. ASSUME NEW kind \in {"tools", "mcps"}, NEW allowed \in BOOLEAN, NEW n \in Resources(kind),
               SetAgentResource(kind, n, allowed)
        PROVE  UNCHANGED about /\ LocalChange
    BY <2>1 DEF SetAgentResource, Command, AgentDelta, Resources
  <2>2. CASE SwitchMode
    BY <2>2 DEF SwitchMode, Command, ScopesKept, SameScopes, DeltasOnly, HasFields
  <2> QED
    BY <1>1, <2>1, <2>2 DEF AgentCommand
<1>2. CASE SubAgentCommand
  <2>1. ASSUME NEW a \in Agents, NEW kind \in {"tools", "mcps"}, NEW allowed \in BOOLEAN,
               NEW n \in Resources(kind), SetSubAgentResource(a, kind, n, allowed)
        PROVE  UNCHANGED about /\ LocalChange
    BY <2>1 DEF SetSubAgentResource, Command, SubAgentDelta, Resources
  <2>2. CASE \E a \in Agents, scope \in {"local", "global"} : YamlNew(a, scope)
    BY <2>2, <1>k DEF YamlNew, Command, aux
  <2>3. CASE \E a \in Agents, from, to \in {"local", "global"} : YamlMove(a, from, to)
    BY <2>3, <1>k DEF YamlMove, RescanYaml, Command
  <2>4. CASE YamlReload
    BY <2>4, <1>k DEF YamlReload, RescanYaml, Command
  <2> QED
    BY <1>2, <2>1, <2>2, <2>3, <2>4 DEF SubAgentCommand
<1>3. CASE McpCommand
  <2>1. CASE \E s \in Servers, active \in BOOLEAN : SetServerActive(s, active)
    BY <2>1 DEF SetServerActive, RestartServers, Command, ScopesKept, SameScopes, DeltasOnly, HasFields
  <2>2. CASE \E s \in Servers : McpRefresh(s)
    BY <2>2, <1>k DEF McpRefresh, Command, files
  <2>3. CASE McpReload
    BY <2>3, <1>k DEF McpReload, RestartServers, Command, files
  <2> QED
    BY <1>3, <2>1, <2>2, <2>3 DEF McpCommand
<1>4. CASE ToolsReload
  BY <1>4, <1>k DEF ToolsReload, Command, files
<1>5. CASE SkillsReload
  BY <1>5, <1>k DEF SkillsReload, Command, files, aux
<1>6. CASE ProviderCommand
  <2>1. ASSUME NEW p, UseProfile(p) PROVE UNCHANGED about /\ LocalChange
    BY <2>1, <1>l DEF UseProfile, Model, Command, aux, ScopesKept
  <2>2. ASSUME NEW fields, SetField(fields) PROVE UNCHANGED about /\ LocalChange
    BY <2>2, <1>l DEF SetField, Model, Command, aux, ScopesKept
  <2>3. ASSUME NEW q, SetTopLevel(q) PROVE UNCHANGED about /\ LocalChange
    BY <2>3, <1>l DEF SetTopLevel, Model, Command, aux, ScopesKept
  <2> QED
    BY <1>6, <2>1, <2>2, <2>3 DEF ProviderCommand
<1>7. CASE SettingsScreen
  <2>1. ASSUME NEW p, DeleteProfile(p) PROVE UNCHANGED about /\ LocalChange
    BY <2>1, <1>l DEF DeleteProfile, Model, Command, aux, ScopesKept
  <2>2. ASSUME NEW p, NEW q, SaveProfile(p, q) PROVE UNCHANGED about /\ LocalChange
    BY <2>2, <1>l DEF SaveProfile, Model, Command, aux, ScopesKept
  <2>3. ASSUME NEW q, NEW e, SaveProvider(q, e) PROVE UNCHANGED about /\ LocalChange
    BY <2>3, <1>l DEF SaveProvider, Model, Command, aux, ScopesKept
  <2> QED
    BY <1>7, <2>1, <2>2, <2>3 DEF SettingsScreen
<1>8. CASE ConfigCommand
  <2>1. CASE ConfigReload
    BY <2>1, <1>k DEF ConfigReload, Command, files, aux
  <2>2. ASSUME NEW scope, ConfigUpgrade(scope) PROVE UNCHANGED about /\ LocalChange
    BY <2>2, <1>u DEF ConfigUpgrade, Command
  <2>3. ASSUME NEW scope, ConfigReinit(scope) PROVE UNCHANGED about /\ LocalChange
    BY <2>3, <1>0 DEF ConfigReinit, Command, ScopesKept, WrittenAnew
  <2> QED
    BY <1>8, <2>1, <2>2, <2>3 DEF ConfigCommand
<1>9. CASE UpgradeAtStart
  BY <1>9, <1>u DEF UpgradeAtStart, Command
<1>10. CASE \E a \in Agents, scope \in {"local", "global"} : EditYaml(a, scope)
  BY <1>10, <1>k DEF EditYaml, Edit, aux
<1>11. CASE \E s \in Servers : ServerChanges(s)
  BY <1>11, <1>k DEF ServerChanges, Edit, aux, files
<1>12. CASE DamageLocal \/ RepairLocal
  BY <1>12, <1>k DEF DamageLocal, RepairLocal, Edit, aux
<1>13. CASE UNCHANGED vars
  BY <1>13, <1>k DEF vars, files, aux
<1> QED
  BY <1>1, <1>2, <1>3, <1>4, <1>5, <1>6, <1>7, <1>8, <1>9, <1>10, <1>11, <1>12, <1>13 DEF Next
(* An edited entry is an entry of the same sub-agent.                      *)
LEMMA EditedEntry ==
  ASSUME NEW p \in Entries, NEW kind \in {"tools", "mcps"}, NEW n \in about.named,
         NEW allowed \in BOOLEAN
  PROVE  LET e == [p EXCEPT ![kind] = Delta(@, n, allowed)] IN
         /\ e \in Entries /\ e.name = p.name
         /\ ~allowed => n \in e[kind].remove
         /\ \A k \in {"tools", "mcps"} : \A x \in p[k].remove :
              x \in e[k].remove \/ (allowed /\ k = kind /\ x = n)
<1> DEFINE e == [p EXCEPT ![kind] = Delta(@, n, allowed)]
           d == Delta(p[kind], n, allowed)
<1>1. p.tools \in Deltas /\ p.mcps \in Deltas /\ p.name \in Agents /\ p[kind] \in Deltas
  BY DEF Entries
<1>2. /\ d \in Deltas /\ (~allowed => n \in d.remove)
      /\ \A x \in p[kind].remove : x \in d.remove \/ (allowed /\ x = n)
  BY <1>1, DeltaRemoves
<1>3. e = [p EXCEPT ![kind] = d]
  OBVIOUS
<1> HIDE DEF d, e
<1>4. e \in Entries /\ e.name = p.name
  BY <1>1, <1>2, <1>3 DEF Entries
<1>5. e[kind] = d /\ \A k \in {"tools", "mcps"} : k # kind => e[k] = p[k]
  BY <1>3 DEF Entries
<1>6. ~allowed => n \in e[kind].remove
  BY <1>2, <1>5
<1>7. ASSUME NEW k \in {"tools", "mcps"}, NEW x \in p[k].remove
      PROVE  x \in e[k].remove \/ (allowed /\ k = kind /\ x = n)
  BY <1>2, <1>5
<1> QED
  BY <1>4, <1>6, <1>7 DEF e

\* Every removal that counted before counts after, but for one that is allowed.
KeepsRemovals(before, after, a, kind, n, allowed) ==
  \A b \in Agents, k \in {"tools", "mcps"}, x \in about.named :
    /\ Own(before, b) # {}
    /\ x \in before[Min(Own(before, b))][k].remove
    /\ ~(allowed /\ b = a /\ k = kind /\ x = n)
    => /\ Own(after, b) # {}
       /\ x \in after[Min(Own(after, b))][k].remove

(* The first own entry of each sub-agent after an edit of the entry of one *)
(* of them: a's own is the edited or the new one, the others keep theirs.  *)
LEMMA EditedEntries ==
  ASSUME NEW profiles \in Seq(Entries), NEW a \in Agents, NEW kind \in {"tools", "mcps"},
         NEW n \in about.named, NEW allowed \in BOOLEAN
  PROVE  LET edited == WithProfile(profiles, a, kind, n, allowed) IN
         /\ edited \in Seq(Entries)
         /\ Own(edited, a) # {}
         /\ ~allowed => n \in edited[Min(Own(edited, a))][kind].remove
         /\ KeepsRemovals(profiles, edited, a, kind, n, allowed)
<1> DEFINE edited == WithProfile(profiles, a, kind, n, allowed)
           own == Own(profiles, a)
<1>1. CASE own # {}
  <2> DEFINE m == Min(own)
             entry == [profiles[m] EXCEPT ![kind] = Delta(@, n, allowed)]
  <2>1. m \in DOMAIN profiles /\ profiles[m] \in Entries /\ profiles[m].name = a
    BY <1>1, FirstOwn
  <2> HIDE DEF m
  <2>3. /\ entry \in Entries /\ entry.name = a
        /\ ~allowed => n \in entry[kind].remove
        /\ \A k \in {"tools", "mcps"} : \A x \in profiles[m][k].remove :
              x \in entry[k].remove \/ (allowed /\ k = kind /\ x = n)
    BY <2>1, EditedEntry
  <2>4. edited = [profiles EXCEPT ![m] = entry]
    BY <1>1 DEF WithProfile, Own, m
  <2> HIDE DEF entry, edited
  <2>5. edited \in Seq(Entries) /\ DOMAIN edited = DOMAIN profiles
    BY <2>1, <2>3, <2>4
  <2>6. \A i \in DOMAIN profiles : edited[i].name = profiles[i].name
    BY <2>1, <2>3, <2>4
  <2>7. \A b : Own(edited, b) = Own(profiles, b)
    BY <2>5, <2>6 DEF Own
  <2>8. edited[m] = entry /\ \A i \in DOMAIN profiles : i # m => edited[i] = profiles[i]
    BY <2>1, <2>4
  <2>9. ASSUME NEW b \in Agents, NEW k \in {"tools", "mcps"}, NEW x \in about.named,
               Own(profiles, b) # {}, x \in profiles[Min(Own(profiles, b))][k].remove,
               ~(allowed /\ b = a /\ k = kind /\ x = n)
        PROVE  x \in edited[Min(Own(edited, b))][k].remove
    <3>1. CASE b = a
      BY <2>3, <2>7, <2>8, <2>9, <3>1 DEF m
    <3>2. CASE b # a
      BY <2>1, <2>7, <2>8, <2>9, <3>2, FirstOwn
    <3> QED
      BY <3>1, <3>2
  <2>10. ~allowed => n \in edited[Min(Own(edited, a))][kind].remove
    BY <2>3, <2>7, <2>8 DEF m
  <2> QED
    BY <1>1, <2>5, <2>7, <2>9, <2>10 DEF edited, KeepsRemovals
<1>2. CASE own = {}
  <2> DEFINE entry == [NoProfile(a) EXCEPT ![kind] = Delta(@, n, allowed)]
             m == Len(profiles) + 1
  <2>1. NoScope \in Deltas /\ NoProfile(a) = [name |-> a, tools |-> NoScope, mcps |-> NoScope]
    BY DEF NoScope, Deltas, NoProfile
  <2>2. entry \in Entries /\ entry.name = a /\ (~allowed => n \in entry[kind].remove)
    <3>1. NoProfile(a) \in Entries /\ NoProfile(a).name = a
      BY <2>1 DEF Entries
    <3> QED
      BY <3>1, EditedEntry
  <2>3. edited = Append(profiles, entry)
    BY <1>2 DEF WithProfile, Own
  <2> HIDE DEF entry, edited
  <2>4. /\ edited \in Seq(Entries) /\ DOMAIN edited = DOMAIN profiles \cup {m}
        /\ m \notin DOMAIN profiles /\ edited[m] = entry
        /\ \A i \in DOMAIN profiles : edited[i] = profiles[i]
    BY <2>2, <2>3
  <2>5. Own(edited, a) = {m}
    BY <1>2, <2>2, <2>4 DEF Own
  <2>6. Min(Own(edited, a)) = m
    <3>1. {m} \in SUBSET Nat
      OBVIOUS
    <3>2. Min({m}) \in {m}
      BY <3>1, MinIsIn
    <3> QED
      BY <2>5, <3>2
  <2>7. \A b \in Agents : b # a => Own(edited, b) = Own(profiles, b)
    BY <2>2, <2>4 DEF Own
  <2>8. ASSUME NEW b \in Agents, NEW k \in {"tools", "mcps"}, NEW x \in about.named,
               Own(profiles, b) # {}, x \in profiles[Min(Own(profiles, b))][k].remove
        PROVE  Own(edited, b) # {} /\ x \in edited[Min(Own(edited, b))][k].remove
    <3>1. b # a
      BY <1>2, <2>8
    <3> QED
      BY <2>4, <2>7, <2>8, <3>1, FirstOwn
  <2> QED
    BY <2>2, <2>4, <2>5, <2>6, <2>8 DEF edited, KeepsRemovals
<1> QED
  BY <1>1, <1>2
LEMMA HiddenInvStep ==
  ASSUME HiddenInv, [Next]_vars
  PROVE  HiddenInv'
<1> USE DEF HiddenInv
<1>1. UNCHANGED about /\ LocalChange
  BY LocalStep
<1>2. Deltas' = Deltas /\ Entries' = Entries /\ Denials' = Denials
  BY <1>1 DEF Deltas, Entries, Denials
<1>3. ASSUME NEW denial \in hidden
      PROVE  /\ denial[1] \in Agents \cup {Supervisor} /\ denial[2] \in {"tools", "mcps"}
             /\ denial[3] \in about.named /\ denial = <<denial[1], denial[2], denial[3]>>
             /\ Removes(local, denial[1], denial[2], denial[3])
  BY DEF Denials
<1>4. CASE ScopesKept
  <2>1. DeltasOnly(local')
    BY <1>4 DEF ScopesKept, SameScopes, DeltasOnly
  <2>2. ASSUME NEW denial \in hidden PROVE Removes(local', denial[1], denial[2], denial[3])
    BY <1>3, <1>4 DEF ScopesKept, SameScopes, Removes
  <2> QED
    BY <1>2, <1>4, <2>1, <2>2 DEF ScopesKept, DeltasOnly
<1>5. CASE WrittenAnew
  BY <1>2, <1>5, EmptyFile DEF WrittenAnew, DeltasOnly
<1>6. ASSUME NEW kind \in {"tools", "mcps"}, NEW allowed \in BOOLEAN, NEW n \in about.named,
             AgentDelta(kind, n, allowed)
      PROVE  HiddenInv'
  <2> DEFINE d == Delta(local[kind], n, allowed)
  <2>1. local[kind] \in Deltas
    BY DEF DeltasOnly
  <2>2. /\ d \in Deltas /\ (~allowed => n \in d.remove)
        /\ \A x \in local[kind].remove : x \in d.remove \/ (allowed /\ x = n)
    BY <2>1, DeltaRemoves
  <2>3. local' = [local EXCEPT ![kind] = d]
    BY <1>6 DEF AgentDelta
  <2> HIDE DEF d
  <2>4. /\ HasFields(local') /\ local'.profiles = local.profiles
        /\ local'[kind] = d /\ \A k \in {"tools", "mcps"} : k # kind => local'[k] = local[k]
    BY <2>3 DEF DeltasOnly, HasFields
  <2>5. local'.tools \in Deltas /\ local'.mcps \in Deltas
    BY <2>2, <2>4 DEF DeltasOnly
  <2>6. DeltasOnly(local')
    BY <2>4, <2>5 DEF DeltasOnly
  <2>7. hidden' \subseteq hidden \cup {<<Supervisor, kind, n>>}
    BY <1>6 DEF AgentDelta, Remember
  <2>8. allowed => <<Supervisor, kind, n>> \notin hidden'
    BY <1>6 DEF AgentDelta, Remember
  <2>9. ASSUME NEW denial \in hidden' PROVE Removes(local', denial[1], denial[2], denial[3])
    <3>1. CASE denial = <<Supervisor, kind, n>>
      BY <2>2, <2>4, <2>8, <3>1 DEF Removes
    <3>2. CASE denial # <<Supervisor, kind, n>>
      <4>1. denial \in hidden
        BY <2>7, <3>2
      <4>2. CASE denial[1] = Supervisor /\ denial[2] = kind
        BY <1>3, <2>2, <2>4, <3>2, <4>1, <4>2 DEF Removes
      <4>3. CASE denial[1] = Supervisor /\ denial[2] # kind
        BY <1>3, <2>4, <4>1, <4>3 DEF Removes
      <4>4. CASE denial[1] # Supervisor
        BY <1>3, <2>4, <4>1, <4>4 DEF Removes
      <4> QED
        BY <4>2, <4>3, <4>4
    <3> QED
      BY <3>1, <3>2
  <2>10. <<Supervisor, kind, n>> \in Denials
    BY DEF Denials
  <2> QED
    BY <1>2, <2>6, <2>7, <2>9, <2>10 DEF DeltasOnly
<1>7. ASSUME NEW a \in Agents, NEW kind \in {"tools", "mcps"}, NEW allowed \in BOOLEAN,
             NEW n \in about.named, SubAgentDelta(a, kind, n, allowed)
      PROVE  HiddenInv'
  <2> DEFINE edited == WithProfile(local.profiles, a, kind, n, allowed)
  <2>1. local.profiles \in Seq(Entries)
    BY DEF DeltasOnly
  <2>2. /\ edited \in Seq(Entries) /\ Own(edited, a) # {}
        /\ ~allowed => n \in edited[Min(Own(edited, a))][kind].remove
    BY <2>1, EditedEntries
  <2>3. KeepsRemovals(local.profiles, edited, a, kind, n, allowed)
    BY <2>1, EditedEntries
  <2>4. local' = [local EXCEPT !.profiles = edited]
    BY <1>7 DEF SubAgentDelta
  <2> HIDE DEF edited
  <2>5. /\ HasFields(local') /\ local'.profiles = edited
        /\ local'.tools = local.tools /\ local'.mcps = local.mcps
    BY <2>4 DEF DeltasOnly, HasFields
  <2>6. DeltasOnly(local')
    BY <2>2, <2>5 DEF DeltasOnly
  <2>7. hidden' \subseteq hidden \cup {<<a, kind, n>>}
    BY <1>7 DEF SubAgentDelta, Remember
  <2>8. allowed => <<a, kind, n>> \notin hidden'
    BY <1>7 DEF SubAgentDelta, Remember
  <2>9. a # Supervisor
    BY CommandsAssumption
  <2>10. ASSUME NEW denial \in hidden' PROVE Removes(local', denial[1], denial[2], denial[3])
    <3>1. CASE denial = <<a, kind, n>>
      BY <2>2, <2>5, <2>8, <2>9, <3>1 DEF Removes
    <3>2. CASE denial # <<a, kind, n>>
      <4>1. denial \in hidden
        BY <2>7, <3>2
      <4>2. CASE denial[1] = Supervisor
        BY <1>3, <2>5, <4>1, <4>2 DEF Removes
      <4>3. CASE denial[1] # Supervisor
        <5>1. /\ denial[1] \in Agents /\ denial[2] \in {"tools", "mcps"}
              /\ denial[3] \in about.named
              /\ Own(local.profiles, denial[1]) # {}
              /\ denial[3] \in local.profiles[Min(Own(local.profiles, denial[1]))][denial[2]].remove
              /\ ~(denial[1] = a /\ denial[2] = kind /\ denial[3] = n)
          BY <1>3, <3>2, <4>1, <4>3 DEF Removes
        <5>2. /\ Own(edited, denial[1]) # {}
              /\ denial[3] \in edited[Min(Own(edited, denial[1]))][denial[2]].remove
          BY <2>3, <5>1 DEF KeepsRemovals
        <5> QED
          BY <2>5, <4>3, <5>2 DEF Removes
      <4> QED
        BY <4>2, <4>3
    <3> QED
      BY <3>1, <3>2
  <2>11. <<a, kind, n>> \in Denials
    BY DEF Denials
  <2> QED
    BY <1>2, <2>6, <2>7, <2>10, <2>11 DEF DeltasOnly
<1> QED
  BY <1>1, <1>4, <1>5, <1>6, <1>7 DEF LocalChange

LEMMA HiddenInvInit == Init => HiddenInv
BY EmptyFile DEF Init, HiddenInv
\* No tool of a server has the name of a tool that is not, nor that of a sub-agent.
Apart(reg) ==
  \A r \in reg : r.source = "mcp" =>
    r.name \notin Agents /\ \A t \in reg : t.name = r.name => t.source = "mcp"

LEMMA AgentsApart ==
  ASSUME NEW reg, Apart(reg), NEW R, \A r \in R : r.name \in Agents /\ r.source # "mcp"
  PROVE  Apart(reg \cup R)
BY DEF Apart

LEMMA SkillsApart ==
  ASSUME NEW reg, Apart(reg), NEW cfg
  PROVE  Apart(WithSkills(reg, cfg))
<1> DEFINE R == {Record(a, "agent-skill", "skill", "fake") :
                   a \in {a \in Skills \ Names(reg) : Wanted(cfg, a)}}
<1>1. \A r \in R : r.name \in Agents /\ r.source # "mcp"
  BY CommandsAssumption DEF Record
<1>2. WithSkills(reg, cfg) = reg \cup R
  BY DEF WithSkills
<1> HIDE DEF R
<1> QED
  BY <1>1, <1>2, AgentsApart

LEMMA DelegatesApart ==
  ASSUME NEW reg, Apart(reg), NEW cfg, NEW y, YamlNames(y) \subseteq Agents, NEW client
  PROVE  Apart(WithAgents(reg, cfg, y, client))
<1> DEFINE R == {Record(a, "agent", "builtin", client) :
                   a \in {a \in Builtins \ YamlNames(y) : Wanted(cfg, a)}}
                \cup {YamlRecord(y, a, client) : a \in {a \in YamlNames(y) : Wanted(cfg, a)}}
<1>1. \A r \in R : r.name \in Agents /\ r.source # "mcp"
  BY UpgradeAssumption DEF Record, YamlRecord
<1>2. WithAgents(reg, cfg, y, client) = reg \cup R
  BY DEF WithAgents
<1> HIDE DEF R
<1> QED
  BY <1>1, <1>2, AgentsApart

LEMMA ServersApart ==
  ASSUME NEW reg, Apart(reg), NEW S \in SUBSET Servers
  PROVE  Apart(WithServers(reg, S))
<1>1. WithServers(reg, S) = reg \cup ServerRecords(S, Names(reg))
  BY DEF WithServers, ServerRecords
<1>2. ASSUME NEW r \in ServerRecords(S, Names(reg))
      PROVE  r.source = "mcp" /\ r.name \notin Agents /\ r.name \notin Names(reg)
  <2>1. PICK x \in S : \E t \in Offers[x] \ Names(reg) : r = Record(t, "mcp", x, "none")
    BY ServerRecord
  <2>2. PICK t \in Offers[x] \ Names(reg) : r = Record(t, "mcp", x, "none")
    BY <2>1
  <2>3. t \notin Agents
    BY CommandsAssumption
  <2> QED
    BY <2>2, <2>3, RecordFields
<1>3. \A t \in reg : t.name \in Names(reg)
  BY DEF Names
<1> QED
  BY <1>1, <1>2, <1>3 DEF Apart

LEMMA FewerApart ==
  ASSUME NEW reg, Apart(reg), NEW R \in SUBSET reg
  PROVE  Apart(R)
BY DEF Apart

LEMMA CoreApart == ASSUME NEW cfg PROVE Apart(CoreRecords(cfg))
BY DEF Apart, CoreRecords, Record

\* A rebuild keeps the tools of servers only when no built-in tool has their name.
LEMMA KeptApart ==
  ASSUME NEW reg, Apart(reg), NEW cfg, NEW kept \in SUBSET McpRecords(reg),
         Names(kept) \cap Names(CoreRecords(cfg)) = {}
  PROVE  Apart(CoreRecords(cfg) \cup kept)
<1>1. \A r \in kept : r \in reg /\ r.source = "mcp" /\ r.name \in Names(kept)
  BY DEF McpRecords, Names
<1>2. \A r \in CoreRecords(cfg) : r.source # "mcp" /\ r.name \in Names(CoreRecords(cfg))
  BY DEF CoreRecords, Record, Names
<1> QED
  BY <1>1, <1>2 DEF Apart

LEMMA ApartStep ==
  ASSUME WellNamed, WellNamed', Apart(registry), RegistryChange
  PROVE  Apart(registry')
<1>1. CASE RegistryKept
  BY <1>1 DEF RegistryKept
<1>2. CASE ReloadTools(config')
  <2>1. YamlNames(yaml) \subseteq Agents
    BY DEF WellNamed, YamlNames
  <2>2. CASE ~Collides(registry, config') /\ registry' = Rebuild(registry, config', yaml)
    <3>1. Apart(CoreRecords(config') \cup Preserved(registry))
      BY <2>2, KeptApart DEF Collides, Preserved
    <3> QED
      BY <2>1, <2>2, <3>1, DelegatesApart, SkillsApart DEF Rebuild
  <2>3. CASE Collides(registry, config')
    <3>1. PICK before \in SUBSET Preserved(registry) :
            /\ Names(before) \cap Names(CoreRecords(config')) = {}
            /\ registry' = CoreRecords(config') \cup before
      BY <1>2, <2>3 DEF ReloadTools
    <3> QED
      BY <3>1, KeptApart DEF Preserved
  <2> QED
    BY <1>2, <2>2, <2>3 DEF ReloadTools
<1>3. CASE RestartServers
  <2>1. Apart(registry \ McpRecords(registry))
    BY FewerApart
  <2>2. config'.active \cap up \in SUBSET Servers
    BY DEF WellNamed
  <2> QED
    BY <1>3, <2>1, <2>2, ServersApart DEF RestartServers
<1>4. CASE \E s \in Servers : Refreshed(s)
  <2>1. PICK s \in Servers : Refreshed(s)
    BY <1>4
  <2>2. Apart(registry \ {r \in McpRecords(registry) : r.origin = s})
    BY FewerApart
  <2> QED
    BY <2>1, <2>2, ServersApart DEF Refreshed
<1>5. CASE RescanYaml(yaml')
  <2> DEFINE defined == {a \in YamlNames(yaml') : Advanced(config) \/ a \in ConfiguredNames(config)}
             kept == {r \in {r \in registry : r.source # "agent-yaml"} : r.name \notin defined}
             R == {YamlRecord(yaml', a, "fake") : a \in {a \in defined : Enabled(config, a)}}
  <2>1. registry' = kept \cup R
    BY <1>5 DEF RescanYaml, WithYaml
  <2>2. YamlNames(yaml') \subseteq Agents
    BY DEF WellNamed, YamlNames
  <2>3. \A r \in R : r.name \in Agents /\ r.source # "mcp"
    BY <2>2 DEF Record, YamlRecord
  <2>4. Apart(kept)
    BY FewerApart
  <2> HIDE DEF R, kept
  <2> QED
    BY <2>1, <2>3, <2>4, AgentsApart
<1>6. CASE SkillsReloaded
  <2>1. Apart({r \in registry : r.source # "agent-skill"})
    BY FewerApart
  <2> QED
    BY <1>6, <2>1, SkillsApart DEF SkillsReloaded, ReloadSkills
<1> QED
  BY <1>1, <1>2, <1>3, <1>4, <1>5, <1>6 DEF RegistryChange

LEMMA ApartInit == Init => Apart(registry)
<1> SUFFICES ASSUME Init PROVE Apart(registry)
  OBVIOUS
<1>1. config.active \in SUBSET Servers /\ YamlNames(yaml) \subseteq Agents
  BY WellNamedInit DEF WellNamed, YamlNames
<1>2. Apart(WithServers(CoreRecords(config), config.active))
  BY <1>1, CoreApart, ServersApart
<1>3. Apart(WithAgents(WithServers(CoreRecords(config), config.active), config, yaml, "provider"))
  BY <1>1, <1>2, DelegatesApart
<1> QED
  BY <1>3, SkillsApart DEF Init, Startup
(* A scope resolves to candidates, without those it removes.               *)
LEMMA ScopeHides ==
  ASSUME NEW scope, NEW candidates, NEW default, default \subseteq candidates
  PROVE  /\ Resolve(scope, candidates, default) \subseteq candidates
         /\ Resolve(scope, candidates, default) \cap scope.remove = {}
BY DEF Resolve, ApplyDelta, Base

(* A scope of servers resolves to tools of servers, without those of the   *)
(* servers it removes.                                                     *)
LEMMA ServerScopeHides ==
  ASSUME NEW scope, NEW reg, NEW default, default \subseteq Names(McpRecords(reg)),
         NEW n
  PROVE  /\ ResolveMcp(scope, reg, default) \subseteq Names(McpRecords(reg))
         /\ n \in scope.remove => ResolveMcp(scope, reg, default) \cap McpTools(reg, {n}) = {}
<1>1. \A servers : McpTools(reg, servers) \subseteq Names(McpRecords(reg))
  BY DEF McpTools, Names
<1>2. n \in scope.remove => McpTools(reg, {n}) \subseteq McpTools(reg, scope.remove)
  BY DEF McpTools, Names
<1>3. Expand(scope, reg).remove = McpTools(reg, scope.remove)
  BY DEF Expand
<1>4. CASE scope.base # {} /\ All \notin scope.base
  <2>1. ResolveMcp(scope, reg, default)
          = ApplyDelta(McpTools(reg, scope.base), Expand(scope, reg), Names(McpRecords(reg)))
    BY <1>4 DEF ResolveMcp
  <2> QED
    BY <1>1, <1>2, <1>3, <2>1 DEF ApplyDelta
<1>5. CASE ~(scope.base # {} /\ All \notin scope.base)
  <2>1. ResolveMcp(scope, reg, default)
          = Resolve(Expand(scope, reg), Names(McpRecords(reg)), default)
    BY <1>5 DEF ResolveMcp
  <2> QED
    BY <1>1, <1>2, <1>3, <2>1, ScopeHides
<1> QED
  BY <1>4, <1>5

LEMMA NamesApart ==
  ASSUME NEW reg, Apart(reg)
  PROVE  /\ Names(McpRecords(reg)) \cap Names(reg \ McpRecords(reg)) = {}
         /\ Names(McpRecords(reg)) \cap Agents = {}
         /\ \A n : McpTools(reg, {n}) \subseteq Names(McpRecords(reg))
<1>1. Names(McpRecords(reg)) \cap Names(reg \ McpRecords(reg)) = {}
  BY DEF Apart, Names, McpRecords
<1> QED
  BY <1>1 DEF Apart, Names, McpRecords, McpTools

(* What an agent sees of a resource that its scope removes.                *)
LEMMA SupervisorHides ==
  ASSUME NEW cfg, NEW reg, Apart(reg), NEW kind \in {"tools", "mcps"}, NEW n,
         n \in cfg[kind].remove,
         kind = "mcps" \/ n \notin Names(McpRecords(reg)) \cup Agents \cup {Ask}
  PROVE  SupervisorTools(cfg, reg) \cap (IF kind = "mcps" THEN McpTools(reg, {n}) ELSE {n}) = {}
<1> DEFINE delegates == Names(reg) \cap Agents
           direct    == Names(reg \ McpRecords(reg)) \ Agents
           mcp       == Names(McpRecords(reg))
           routed    == ~Advanced(cfg) /\ delegates # {}
           tools1    == IF Advanced(cfg) THEN DefaultTools \cap direct
                        ELSE IF routed THEN {} ELSE direct
           mcps1     == IF routed THEN {} ELSE mcp
           own       == Resolve(cfg.tools, direct, tools1)
           served    == ResolveMcp(cfg.mcps, reg, mcps1)
<1>1. SupervisorTools(cfg, reg)
        = own \cup served \cup delegates \cup (Names(reg \ McpRecords(reg)) \cap {Ask})
  BY DEF SupervisorTools
<1>2. tools1 \subseteq direct /\ mcps1 \subseteq mcp
  OBVIOUS
<1>3. own \subseteq direct /\ own \cap cfg.tools.remove = {}
  BY <1>2, ScopeHides
<1>4. served \subseteq mcp /\ (n \in cfg.mcps.remove => served \cap McpTools(reg, {n}) = {})
  BY <1>2, ServerScopeHides
<1>5. /\ mcp \cap Names(reg \ McpRecords(reg)) = {} /\ mcp \cap Agents = {}
      /\ McpTools(reg, {n}) \subseteq mcp
  BY NamesApart
<1> HIDE DEF own, served
<1> QED
  BY <1>1, <1>3, <1>4, <1>5

LEMMA SubAgentHides ==
  ASSUME NEW cfg, NEW reg, Apart(reg), NEW a, NEW definition, NEW kind \in {"tools", "mcps"}, NEW n,
         n \in Profile(cfg, a)[kind].remove,
         kind = "mcps" \/ n \notin Names(McpRecords(reg)) \cup Agents \cup {Ask}
  PROVE  SubAgentTools(cfg, reg, a, definition)
           \cap (IF kind = "mcps" THEN McpTools(reg, {n}) ELSE {n}) = {}
<1> DEFINE profile    == Profile(cfg, a)
           candidates == Names(reg \ McpRecords(reg)) \ (Agents \cup {Ask})
           tools1     == IF definition.tools = {} THEN candidates
                         ELSE candidates \cap UNION definition.tools
           mcp        == Names(McpRecords(reg))
           mcps1      == IF definition.mcps THEN mcp ELSE {}
           own        == Resolve(profile.tools, candidates, tools1)
           served     == ResolveMcp(profile.mcps, reg, mcps1)
<1>1. SubAgentTools(cfg, reg, a, definition) = own \cup served
  BY DEF SubAgentTools
<1>2. tools1 \subseteq candidates /\ mcps1 \subseteq mcp
  OBVIOUS
<1> HIDE DEF tools1, mcps1
<1>3. own \subseteq candidates /\ own \cap profile.tools.remove = {}
  BY <1>2, ScopeHides
<1>4. served \subseteq mcp /\ (n \in profile.mcps.remove => served \cap McpTools(reg, {n}) = {})
  BY <1>2, ServerScopeHides
<1>5. mcp \cap Names(reg \ McpRecords(reg)) = {} /\ McpTools(reg, {n}) \subseteq mcp
  BY NamesApart
<1> HIDE DEF own, served, profile
<1>6. n \in profile[kind].remove
  BY DEF profile
<1> QED
  BY <1>1, <1>3, <1>4, <1>5, <1>6

(* What was hidden from an agent by command stays hidden, whatever other   *)
(* commands were run, while the configuration in force is that of the      *)
(* files: tools, sub-agents' tools and the tools of servers alike.         *)
THEOREM DenialsAreKept == Spec => []HiddenStaysHidden
<1>1. ASSUME HiddenInv, Apart(registry) PROVE HiddenStaysHidden
  <2> SUFFICES ASSUME InForce, NEW denial \in hidden,
                      Hideable(denial[2], denial[3]),
                      denial[1] = Supervisor \/ denial[1] \in Names(registry)
               PROVE  Visible(denial[1]) \cap Hides(denial[2], denial[3]) = {}
    BY DEF HiddenStaysHidden
  <2> DEFINE agent == denial[1]  kind == denial[2]  n == denial[3]
  <2>1. /\ agent \in Agents \cup {Supervisor} /\ kind \in {"tools", "mcps"}
        /\ Removes(local, agent, kind, n)
    BY <1>1 DEF HiddenInv, Denials
  <2>2. kind = "mcps" \/ n \notin Names(McpRecords(registry)) \cup Agents \cup {Ask}
    BY DEF Hideable
  <2>3. config = Merged(global, local)
    BY DEF InForce
  <2> HIDE DEF agent, kind, n
  <2>4. CASE agent = Supervisor
    <3>1. n \in local[kind].remove
      BY <2>1, <2>4 DEF Removes
    <3>2. n \in config[kind].remove
      BY <2>1, <2>3, <3>1 DEF Merged, OverScope, Over
    <3> QED
      BY <1>1, <2>1, <2>2, <2>4, <3>2, SupervisorHides DEF Visible, Hides, agent, kind, n
  <2>5. CASE agent # Supervisor
    <3>1. /\ Own(local.profiles, agent) # {}
          /\ n \in local.profiles[Min(Own(local.profiles, agent))][kind].remove
      BY <2>1, <2>5 DEF Removes
    <3>2. local.profiles # <<>>
      BY <3>1 DEF Own
    <3>3. config.profiles = local.profiles
      BY <2>3, <3>2 DEF Merged
    <3>4. Profile(config, agent) = local.profiles[Min(Own(local.profiles, agent))]
      BY <3>1, <3>3 DEF Profile, Own
    <3>5. n \in Profile(config, agent)[kind].remove
      BY <3>1, <3>4
    <3>6. SubAgentTools(config, registry, agent, Definition(agent))
            \cap (IF kind = "mcps" THEN McpTools(registry, {n}) ELSE {n}) = {}
      BY <1>1, <2>1, <2>2, <3>5, SubAgentHides
    <3> QED
      BY <2>5, <3>6 DEF Visible, Hides, agent, kind, n
  <2> QED
    BY <2>4, <2>5
<1>2. HiddenInv /\ WellNamed /\ Apart(registry) /\ [Next]_vars
        => (HiddenInv /\ WellNamed /\ Apart(registry))'
  BY HiddenInvStep, RegistryStep, ApartStep
<1>3. Init => HiddenInv /\ WellNamed /\ Apart(registry)
  BY HiddenInvInit, WellNamedInit, ApartInit
<1> QED
  BY <1>1, <1>2, <1>3, PTL DEF Spec
-----------------------------------------------------------------------------
(***************************************************************************)
(* Edits of providers and profiles.  What is validated is a catalogue in   *)
(* memory, what is loaded the merge of two files; LoadsWell says what the  *)
(* merged tables have to satisfy, and each edit is followed to them.       *)
(***************************************************************************)
Act(g, l) == Over(g.active, l.active)
Mod(g, l) == DeepMerge(g.models, l.models)
Ena(g, l) == EnabledIn(g.providers, l.providers)
Top(g, l) == Value(Over(g.provider, l.provider), DefaultProvider)

LoadsWell(g, l) ==
  /\ Act(g, l) # {} =>
       /\ Value(Act(g, l), Legacy) \in DOMAIN Mod(g, l)
       /\ Mod(g, l)[Value(Act(g, l), Legacy)].provider \subseteq Ena(g, l)
       /\ \A p \in DOMAIN Mod(g, l) : Whole(Mod(g, l)[p])
  /\ Act(g, l) = {} =>
       /\ Top(g, l) \in Ena(g, l)
       /\ \A p \in (DOMAIN Mod(g, l)) \ {Legacy} : Whole(Mod(g, l)[p])

LEMMA CatalogFields ==
  ASSUME NEW g, NEW l
  PROVE  /\ Catalog(g, l).enabled = Ena(g, l)
         /\ Catalog(g, l).active = Value(Act(g, l), Legacy)
         /\ Catalog(g, l).legacy <=> Act(g, l) = {}
         /\ Act(g, l) # {} => Catalog(g, l).models = Mod(g, l)
         /\ Act(g, l) = {} =>
              /\ DOMAIN Catalog(g, l).models = {Legacy} \cup DOMAIN Mod(g, l)
              /\ Catalog(g, l).models[Legacy] = Complete(Top(g, l))
              /\ \A p \in (DOMAIN Mod(g, l)) \ {Legacy} : Catalog(g, l).models[p] = Mod(g, l)[p]
BY DEF Catalog, Act, Mod, Ena, Top, WithEntry

LEMMA CompleteIsWhole ==
  ASSUME NEW q PROVE Complete(q).provider = {q} /\ Whole(Complete(q))
BY DEF Complete, Whole

LEMMA Loading ==
  ASSUME NEW g, NEW l
  PROVE  Valid(Catalog(g, l), Catalog(g, l).active) <=> LoadsWell(g, l)
<1>1. CASE Act(g, l) # {}
  BY <1>1, CatalogFields DEF Valid, LoadsWell
<1>2. CASE Act(g, l) = {}
  <2>1. Catalog(g, l).active = Legacy
    BY <1>2, CatalogFields DEF Value
  <2>2. /\ Catalog(g, l).models[Legacy].provider = {Top(g, l)}
        /\ Whole(Catalog(g, l).models[Legacy])
    BY <1>2, CatalogFields, CompleteIsWhole
  <2> QED
    BY <1>2, <2>1, <2>2, CatalogFields DEF Valid, LoadsWell
<1> QED
  BY <1>1, <1>2

\* An entry of the merged tables.
LEMMA Merging ==
  ASSUME NEW g, NEW l
  PROVE  /\ DOMAIN Mod(g, l) = (DOMAIN g.models) \cup (DOMAIN l.models)
         /\ \A p \in DOMAIN Mod(g, l) :
              Mod(g, l)[p] = Refine(Entry(g.models, p, Unset), Entry(l.models, p, Unset))
BY DEF Mod, DeepMerge

LEMMA Refining ==
  ASSUME NEW a, NEW b
  PROVE  /\ Refine(a, b).provider = (IF b.provider # {} THEN b.provider ELSE a.provider)
         /\ Refine(a, b).named <=> (a.named \/ b.named)
         /\ Whole(Refine(a, b)) <=> (a.provider # {} \/ b.provider # {}) /\ (a.named \/ b.named)
BY DEF Refine, Over, Whole

LEMMA RefiningComplete ==
  ASSUME NEW q, NEW b, NEW r, r = Refine(Complete(q), b)
  PROVE  /\ Whole(r)
         /\ r.provider = (IF b.provider # {} THEN b.provider ELSE {q})
<1> DEFINE full == Complete(q)
<1>1. full.provider = {q} /\ full.named
  BY DEF Complete
<1>2. r = Refine(full, b)
  OBVIOUS
<1> HIDE DEF full
<1>3. /\ Refine(full, b).provider = (IF b.provider # {} THEN b.provider ELSE full.provider)
      /\ Whole(Refine(full, b)) <=> (full.provider # {} \/ b.provider # {}) /\ (full.named \/ b.named)
  BY Refining
<1> QED
  BY <1>1, <1>2, <1>3

\* Fields that are refined twice.
LEMMA RefiningTwice ==
  ASSUME NEW a, NEW b, NEW c
  PROVE  /\ Refine(a, Refine(b, c)).provider = Refine(Refine(a, b), c).provider
         /\ Whole(Refine(a, Refine(b, c))) <=> Whole(Refine(Refine(a, b), c))
<1>1. /\ Refine(b, c).provider = (IF c.provider # {} THEN c.provider ELSE b.provider)
      /\ Refine(b, c).named <=> (b.named \/ c.named)
      /\ Refine(a, b).provider = (IF b.provider # {} THEN b.provider ELSE a.provider)
      /\ Refine(a, b).named <=> (a.named \/ b.named)
  BY Refining
<1> DEFINE bc == Refine(b, c)  ab == Refine(a, b)
<1>2. /\ Refine(a, bc).provider = (IF bc.provider # {} THEN bc.provider ELSE a.provider)
      /\ Whole(Refine(a, bc)) <=> (a.provider # {} \/ bc.provider # {}) /\ (a.named \/ bc.named)
      /\ Refine(ab, c).provider = (IF c.provider # {} THEN c.provider ELSE ab.provider)
      /\ Whole(Refine(ab, c)) <=> (ab.provider # {} \/ c.provider # {}) /\ (ab.named \/ c.named)
  BY Refining
<1> HIDE DEF bc, ab
<1>3. /\ bc.provider = (IF c.provider # {} THEN c.provider ELSE b.provider)
      /\ ab.provider = (IF b.provider # {} THEN b.provider ELSE a.provider)
      /\ bc.named <=> (b.named \/ c.named)
      /\ ab.named <=> (a.named \/ b.named)
  BY <1>1 DEF bc, ab
<1>4. Refine(a, bc).provider = Refine(ab, c).provider
  BY <1>2, <1>3
<1>5. Whole(Refine(a, bc)) <=> Whole(Refine(ab, c))
  BY <1>2, <1>3
<1> QED
  BY <1>4, <1>5 DEF bc, ab

LEMMA SameFieldsLoad ==
  ASSUME NEW g, NEW l, NEW h, NEW k, LoadsWell(g, l),
         h.active = g.active, h.models = g.models, h.providers = g.providers, h.provider = g.provider,
         k.active = l.active, k.models = l.models, k.providers = l.providers, k.provider = l.provider
  PROVE  LoadsWell(h, k)
BY DEF LoadsWell, Act, Mod, Ena, Top

(* /provider use *)
LEMMA UseLoads ==
  ASSUME NEW g, NEW l, NEW k, NEW p, LoadsWell(g, l), Valid(Catalog(g, l), p),
         Act(g, l) = {} => (p # Legacy /\ (Legacy \in DOMAIN Mod(g, l) => Whole(Mod(g, l)[Legacy]))),
         k.active = {p}, k.models = l.models, k.providers = l.providers
  PROVE  LoadsWell(g, k)
<1>1. Act(g, k) = {p} /\ Value(Act(g, k), Legacy) = p
  BY DEF Act, Over, Value
<1>2. Mod(g, k) = Mod(g, l) /\ Ena(g, k) = Ena(g, l)
  BY DEF Mod, Ena
<1>3. p \in DOMAIN Mod(g, l) /\ Mod(g, l)[p] = Catalog(g, l).models[p]
  BY CatalogFields DEF Valid
<1>4. \A x \in DOMAIN Mod(g, l) : Whole(Mod(g, l)[x])
  BY DEF LoadsWell
<1>5. Mod(g, l)[p].provider \subseteq Ena(g, l)
  BY <1>3, CatalogFields DEF Valid
<1> QED
  BY <1>1, <1>2, <1>3, <1>4, <1>5 DEF LoadsWell

(* /provider set, of a field of the active profile *)
LEMMA SetLoads ==
  ASSUME NEW g, NEW l, NEW k, NEW p, NEW fields, LoadsWell(g, l),
         Act(g, l) # {}, p = Value(Act(g, l), Legacy),
         Refine(Mod(g, l)[p], fields).provider \subseteq Ena(g, l),
         Whole(Refine(Mod(g, l)[p], fields)),
         k.models = UpdateFields(l.models, p, fields),
         k.active = l.active, k.providers = l.providers
  PROVE  LoadsWell(g, k)
<1>1. Act(g, k) = Act(g, l) /\ Ena(g, k) = Ena(g, l)
  BY DEF Act, Ena
<1>2. p \in DOMAIN Mod(g, l)
  BY DEF LoadsWell
<1> DEFINE own == Entry(l.models, p, Unset)
<1>0. k.models = WithEntry(l.models, p, Refine(own, fields))
  BY DEF UpdateFields
<1> HIDE DEF own
<1>3. /\ DOMAIN k.models = {p} \cup DOMAIN l.models
      /\ Entry(k.models, p, Unset) = Refine(own, fields)
      /\ \A x : x # p => Entry(k.models, x, Unset) = Entry(l.models, x, Unset)
  BY <1>0 DEF WithEntry, Entry
<1>m. /\ DOMAIN Mod(g, l) = (DOMAIN g.models) \cup (DOMAIN l.models)
      /\ DOMAIN Mod(g, k) = (DOMAIN g.models) \cup (DOMAIN k.models)
      /\ \A x \in DOMAIN Mod(g, l) :
           Mod(g, l)[x] = Refine(Entry(g.models, x, Unset), Entry(l.models, x, Unset))
      /\ \A x \in DOMAIN Mod(g, k) :
           Mod(g, k)[x] = Refine(Entry(g.models, x, Unset), Entry(k.models, x, Unset))
  BY Merging
<1>4. DOMAIN Mod(g, k) = DOMAIN Mod(g, l)
  BY <1>2, <1>3, <1>m
<1>5. ASSUME NEW x \in DOMAIN Mod(g, l), x # p PROVE Mod(g, k)[x] = Mod(g, l)[x]
  BY <1>3, <1>4, <1>5, <1>m
<1>6. /\ Mod(g, l)[p] = Refine(Entry(g.models, p, Unset), own)
      /\ Mod(g, k)[p] = Refine(Entry(g.models, p, Unset), Refine(own, fields))
  BY <1>2, <1>3, <1>4, <1>m DEF own
<1>7. Mod(g, k)[p].provider \subseteq Ena(g, l) /\ Whole(Mod(g, k)[p])
  BY <1>6, RefiningTwice
<1>8. \A x \in DOMAIN Mod(g, k) : Whole(Mod(g, k)[x])
  BY <1>4, <1>5, <1>7 DEF LoadsWell
<1> QED
  BY <1>1, <1>2, <1>4, <1>7, <1>8 DEF LoadsWell

(* A provider is enabled or disabled. *)
LEMMA ProviderLoads ==
  ASSUME NEW g, NEW l, NEW h, NEW q, NEW enabled \in BOOLEAN, LoadsWell(g, l),
         Valid([Catalog(g, l) EXCEPT !.enabled = IF enabled THEN @ \cup {q} ELSE @ \ {q}],
               Catalog(g, l).active),
         h.providers = WithEntry(g.providers, q, {enabled}),
         h.active = g.active, h.models = g.models, h.provider = g.provider
  PROVE  LoadsWell(h, l)
<1>1. Act(h, l) = Act(g, l) /\ Mod(h, l) = Mod(g, l) /\ Top(h, l) = Top(g, l)
  BY DEF Act, Mod, Top
<1> DEFINE tried == [Catalog(g, l) EXCEPT !.enabled = IF enabled THEN @ \cup {q} ELSE @ \ {q}]
           active == Catalog(g, l).active
<1>2. /\ tried.models = Catalog(g, l).models
      /\ ~enabled => tried.enabled = Ena(g, l) \ {q}
  BY CatalogFields DEF Catalog
<1>3. ~enabled => Catalog(g, l).models[active].provider \subseteq Ena(g, l) \ {q}
  BY <1>2 DEF Valid
<1>4. ASSUME NEW x \in Ena(g, l), x # q \/ enabled PROVE x \in Ena(h, l)
  <2>1. CASE x # q
    <3>1. Entry(h.providers, x, {}) = Entry(g.providers, x, {})
      BY <2>1 DEF Entry, WithEntry
    <3> QED
      BY <3>1 DEF Ena, EnabledIn
  <2>2. CASE x = q
    <3>1. Entry(h.providers, q, {}) = {TRUE}
      BY <1>4, <2>2 DEF Entry, WithEntry
    <3>2. CASE Entry(l.providers, q, {}) # {}
      BY <2>2, <3>2 DEF Ena, EnabledIn, Over
    <3>3. CASE Entry(l.providers, q, {}) = {}
      <4>1. Value(Over(Entry(h.providers, q, {}), Entry(l.providers, q, {})), TRUE) = TRUE
        BY <3>1, <3>3 DEF Over, Value
      <4> QED
        BY <2>2, <4>1 DEF Ena, EnabledIn
    <3> QED
      BY <3>2, <3>3
  <2> QED
    BY <2>1, <2>2
<1>5. CASE Act(g, l) # {}
  <2>1. Mod(g, l)[Value(Act(g, l), Legacy)].provider \subseteq Ena(h, l)
    BY <1>3, <1>4, <1>5, CatalogFields DEF LoadsWell
  <2> QED
    BY <1>1, <1>5, <2>1 DEF LoadsWell
<1>6. CASE Act(g, l) = {}
  <2>1. Catalog(g, l).models[active].provider = {Top(g, l)}
    BY <1>6, CatalogFields, CompleteIsWhole DEF Value
  <2>2. Top(g, l) \in Ena(h, l)
    BY <1>3, <1>4, <1>6, <2>1 DEF LoadsWell
  <2> QED
    BY <1>1, <1>6, <2>2 DEF LoadsWell
<1> QED
  BY <1>5, <1>6

(* A profile is saved whole. *)
LEMMA SaveLoads ==
  ASSUME NEW g, NEW l, NEW h, NEW p, NEW q, LoadsWell(g, l),
         Act(g, l) # {} /\ p = Value(Act(g, l), Legacy) => q \in Ena(g, l),
         h.models = WithEntry(g.models, p, Complete(q)),
         h.active = g.active, h.providers = g.providers, h.provider = g.provider
  PROVE  LoadsWell(h, l)
<1>1. Act(h, l) = Act(g, l) /\ Ena(h, l) = Ena(g, l) /\ Top(h, l) = Top(g, l)
  BY DEF Act, Ena, Top
<1>2. /\ DOMAIN h.models = {p} \cup DOMAIN g.models
      /\ Entry(h.models, p, Unset) = Complete(q)
      /\ \A x : x # p => Entry(h.models, x, Unset) = Entry(g.models, x, Unset)
  BY DEF WithEntry, Entry
<1>m. /\ DOMAIN Mod(g, l) = (DOMAIN g.models) \cup (DOMAIN l.models)
      /\ DOMAIN Mod(h, l) = (DOMAIN h.models) \cup (DOMAIN l.models)
      /\ \A x \in DOMAIN Mod(g, l) :
           Mod(g, l)[x] = Refine(Entry(g.models, x, Unset), Entry(l.models, x, Unset))
      /\ \A x \in DOMAIN Mod(h, l) :
           Mod(h, l)[x] = Refine(Entry(h.models, x, Unset), Entry(l.models, x, Unset))
  BY Merging
<1>3. DOMAIN Mod(h, l) = {p} \cup DOMAIN Mod(g, l)
  BY <1>2, <1>m
<1>4. ASSUME NEW x \in DOMAIN Mod(g, l), x # p PROVE Mod(h, l)[x] = Mod(g, l)[x]
  BY <1>2, <1>3, <1>4, <1>m
<1> DEFINE own == Entry(l.models, p, Unset)
<1>5. Mod(h, l)[p] = Refine(Complete(q), own)
  BY <1>2, <1>3, <1>m
<1> HIDE DEF own
<1>6. /\ Whole(Mod(h, l)[p])
      /\ Mod(h, l)[p].provider = IF own.provider # {} THEN own.provider ELSE {q}
  <2> DEFINE r == Mod(h, l)[p]
  <2>1. r = Refine(Complete(q), own)
    BY <1>5
  <2> HIDE DEF r
  <2>2. Whole(r)
    BY <2>1, RefiningComplete
  <2>3. r.provider = IF own.provider # {} THEN own.provider ELSE {q}
    BY <2>1, RefiningComplete
  <2> QED
    BY <2>2, <2>3 DEF r
<1>7. ASSUME Act(g, l) # {}, p = Value(Act(g, l), Legacy)
      PROVE  Mod(h, l)[p].provider \subseteq Ena(g, l)
  <2>1. CASE own.provider = {}
    BY <1>6, <1>7, <2>1
  <2>2. CASE own.provider # {}
    <3>1. p \in DOMAIN Mod(g, l) /\ Mod(g, l)[p].provider \subseteq Ena(g, l)
      BY <1>7 DEF LoadsWell
    <3>2. Mod(g, l)[p].provider = own.provider
      BY <1>m, <2>2, <3>1, Refining DEF own
    <3> QED
      BY <1>6, <2>2, <3>1, <3>2
  <2> QED
    BY <2>1, <2>2
<1> HIDE DEF own
<1>8. CASE Act(g, l) # {}
  <2> DEFINE a == Value(Act(g, l), Legacy)
  <2>1. /\ a \in DOMAIN Mod(g, l) /\ Mod(g, l)[a].provider \subseteq Ena(g, l)
        /\ \A x \in DOMAIN Mod(g, l) : Whole(Mod(g, l)[x])
    BY <1>8 DEF LoadsWell
  <2>2. a = p => Mod(h, l)[p].provider \subseteq Ena(g, l)
    BY <1>7, <1>8
  <2> HIDE DEF a
  <2>3. Mod(h, l)[a].provider \subseteq Ena(g, l)
    BY <1>4, <2>1, <2>2
  <2>4. \A x \in DOMAIN Mod(h, l) : Whole(Mod(h, l)[x])
    BY <1>3, <1>4, <1>6, <2>1
  <2> QED
    BY <1>1, <1>3, <1>8, <2>1, <2>3, <2>4 DEF LoadsWell, a
<1>9. CASE Act(g, l) = {}
  <2>1. \A x \in (DOMAIN Mod(h, l)) \ {Legacy} : Whole(Mod(h, l)[x])
    BY <1>3, <1>4, <1>6, <1>9 DEF LoadsWell
  <2> QED
    BY <1>1, <1>9, <2>1 DEF LoadsWell
<1> QED
  BY <1>8, <1>9

(* A profile that only the global file has is deleted. *)
LEMMA DeleteLoads ==
  ASSUME NEW g, NEW l, NEW h, NEW p, LoadsWell(g, l),
         Act(g, l) # {} => p # Value(Act(g, l), Legacy),
         p \in DOMAIN g.models => p \notin DOMAIN l.models,
         h.models = WithoutModel(g.models, p),
         h.active = g.active, h.providers = g.providers, h.provider = g.provider
  PROVE  LoadsWell(h, l)
<1>1. Act(h, l) = Act(g, l) /\ Ena(h, l) = Ena(g, l) /\ Top(h, l) = Top(g, l)
  BY DEF Act, Ena, Top
<1>2. /\ DOMAIN h.models = (DOMAIN g.models) \ {p}
      /\ \A x : x # p => Entry(h.models, x, Unset) = Entry(g.models, x, Unset)
  BY DEF WithoutModel, Entry
<1>m. /\ DOMAIN Mod(g, l) = (DOMAIN g.models) \cup (DOMAIN l.models)
      /\ DOMAIN Mod(h, l) = (DOMAIN h.models) \cup (DOMAIN l.models)
      /\ \A x \in DOMAIN Mod(g, l) :
           Mod(g, l)[x] = Refine(Entry(g.models, x, Unset), Entry(l.models, x, Unset))
      /\ \A x \in DOMAIN Mod(h, l) :
           Mod(h, l)[x] = Refine(Entry(h.models, x, Unset), Entry(l.models, x, Unset))
  BY Merging
<1>3. CASE p \notin DOMAIN g.models
  <2>1. \A x : Entry(h.models, x, Unset) = Entry(g.models, x, Unset)
    BY <1>2, <1>3 DEF Entry
  <2>2. DOMAIN Mod(h, l) = DOMAIN Mod(g, l) /\ \A x \in DOMAIN Mod(g, l) : Mod(h, l)[x] = Mod(g, l)[x]
    BY <1>2, <1>3, <1>m, <2>1
  <2> QED
    BY <1>1, <2>2 DEF LoadsWell
<1>4. CASE p \in DOMAIN g.models
  <2>1. DOMAIN Mod(h, l) = (DOMAIN Mod(g, l)) \ {p}
    BY <1>2, <1>4, <1>m
  <2>2. \A x \in DOMAIN Mod(h, l) : Mod(h, l)[x] = Mod(g, l)[x]
    BY <1>2, <1>m, <2>1
  <2> QED
    BY <1>1, <2>1, <2>2 DEF LoadsWell
<1> QED
  BY <1>3, <1>4

(* /config upgrade *)
LEMMA UpgradeLoads ==
  ASSUME NEW g, NEW l, LoadsWell(g, l),
         {"provider", "active", "providers", "models"} \subseteq DOMAIN g
  PROVE  LoadsWell(UpgradedModels(g), l)
<1> DEFINE h == UpgradedModels(g)
           legacy == Value(g.provider, DefaultProvider)
<1> SUFFICES LoadsWell(h, l)
  OBVIOUS
<1>0. /\ h.active = g.active
      /\ h.provider = Given(g.provider, DefaultProvider)
      /\ h.providers = IF DOMAIN g.providers # {} THEN g.providers
                       ELSE [q \in {DefaultProvider} \cup (IF g.active = {} THEN {legacy} ELSE {}) |-> {TRUE}]
      /\ h.models = IF DOMAIN g.models # {} THEN g.models
                    ELSE IF g.active = {} THEN [p \in {Legacy} |-> Complete(legacy)]
                    ELSE [p \in {TemplateProfile} |-> Complete(DefaultProvider)]
  BY DEF UpgradedModels
<1> HIDE DEF h
<1>1. Act(h, l) = Act(g, l)
  BY <1>0 DEF Act
<1>2. Top(h, l) = Top(g, l)
  <2>1. CASE g.provider # {}
    BY <1>0, <2>1 DEF Given, Top
  <2>2. CASE g.provider = {} /\ l.provider # {}
    BY <2>2 DEF Top, Over
  <2>3. CASE g.provider = {} /\ l.provider = {}
    BY <1>0, <2>3 DEF Top, Over, Given, Value
  <2> QED
    BY <2>1, <2>2, <2>3
<1>3. Ena(g, l) \subseteq Ena(h, l)
  <2>1. CASE DOMAIN g.providers # {}
    BY <1>0, <2>1 DEF Ena
  <2>2. CASE DOMAIN g.providers = {}
    <3> SUFFICES ASSUME NEW x \in Ena(g, l) PROVE x \in Ena(h, l)
      OBVIOUS
    <3>1. Entry(h.providers, x, {}) \in {{}, {TRUE}}
      BY <1>0, <2>2 DEF Entry
    <3>2. CASE Entry(l.providers, x, {}) # {}
      BY <3>2 DEF Ena, EnabledIn, Over
    <3>3. CASE Entry(l.providers, x, {}) = {}
      <4>1. Value(Over(Entry(h.providers, x, {}), Entry(l.providers, x, {})), TRUE) = TRUE
        BY <3>1, <3>3 DEF Over, Value
      <4> QED
        BY <4>1 DEF Ena, EnabledIn
    <3> QED
      BY <3>2, <3>3
  <2> QED
    BY <2>1, <2>2
<1>4. CASE DOMAIN g.models # {}
  <2>1. Mod(h, l) = Mod(g, l)
    BY <1>0, <1>4 DEF Mod
  <2>2. CASE Act(g, l) # {}
    <3> DEFINE a == Value(Act(g, l), Legacy)
    <3>1. Value(Act(h, l), Legacy) = a
      BY <1>1
    <3>2. /\ a \in DOMAIN Mod(h, l) /\ Mod(h, l)[a].provider \subseteq Ena(h, l)
          /\ \A p \in DOMAIN Mod(h, l) : Whole(Mod(h, l)[p])
      BY <1>3, <2>1, <2>2 DEF LoadsWell
    <3> HIDE DEF a
    <3> QED
      BY <1>1, <2>2, <3>1, <3>2 DEF LoadsWell
  <2>3. CASE Act(g, l) = {}
    BY <1>1, <1>2, <1>3, <2>1, <2>3 DEF LoadsWell
  <2> QED
    BY <2>2, <2>3
<1>5. CASE DOMAIN g.models = {}
  <2>m. /\ DOMAIN Mod(g, l) = (DOMAIN g.models) \cup (DOMAIN l.models)
        /\ DOMAIN Mod(h, l) = (DOMAIN h.models) \cup (DOMAIN l.models)
        /\ \A x \in DOMAIN Mod(g, l) :
             Mod(g, l)[x] = Refine(Entry(g.models, x, Unset), Entry(l.models, x, Unset))
        /\ \A x \in DOMAIN Mod(h, l) :
             Mod(h, l)[x] = Refine(Entry(h.models, x, Unset), Entry(l.models, x, Unset))
    BY Merging
  <2>1. PICK n, q : h.models = [p \in {n} |-> Complete(q)]
    <3>1. h.models = [p \in {Legacy} |-> Complete(legacy)]
            \/ h.models = [p \in {TemplateProfile} |-> Complete(DefaultProvider)]
      BY <1>0, <1>5
    <3> HIDE DEF legacy
    <3> QED
      BY <3>1
  <2>2. \A x : Entry(h.models, x, Unset) = IF x = n THEN Complete(q) ELSE Unset
    BY <2>1 DEF Entry
  <2>3. \A x : Entry(g.models, x, Unset) = Unset
    BY <1>5 DEF Entry
  <2>4. ASSUME NEW x \in DOMAIN Mod(g, l), Whole(Mod(g, l)[x])
        PROVE  Whole(Mod(h, l)[x]) /\ Mod(h, l)[x].provider = Mod(g, l)[x].provider
    <3>1. Mod(g, l)[x] = Refine(Unset, Entry(l.models, x, Unset))
      BY <2>3, <2>m
    <3>2. x \in DOMAIN Mod(h, l)
      BY <1>5, <2>m
    <3>3. CASE x # n
      BY <2>2, <2>4, <2>m, <3>1, <3>2, <3>3
    <3>4. CASE x = n
      <4>1. Mod(h, l)[x] = Refine(Complete(q), Entry(l.models, x, Unset))
        BY <2>2, <2>m, <3>2, <3>4
      <4>2. Unset.provider = {} /\ ~Unset.named
        BY DEF Unset
      <4>3. Entry(l.models, x, Unset).provider # {} /\ Entry(l.models, x, Unset).named
        BY <2>4, <3>1, <4>2, Refining
      <4> QED
        BY <3>1, <4>1, <4>3, Refining
    <3> QED
      BY <3>3, <3>4
  <2>5. ASSUME NEW x \in DOMAIN Mod(h, l), x \notin DOMAIN Mod(g, l) PROVE Whole(Mod(h, l)[x])
    <3>1. x = n
      BY <1>5, <2>1, <2>5, <2>m
    <3>2. Mod(h, l)[x] = Refine(Complete(q), Entry(l.models, x, Unset))
      BY <2>2, <2>m, <3>1
    <3> QED
      BY <3>2, RefiningComplete
  <2>6. DOMAIN Mod(g, l) \subseteq DOMAIN Mod(h, l)
    BY <1>5, <2>m
  <2>7. CASE Act(g, l) # {}
    <3> DEFINE a == Value(Act(g, l), Legacy)
    <3>1. /\ a \in DOMAIN Mod(g, l) /\ Mod(g, l)[a].provider \subseteq Ena(g, l)
          /\ \A x \in DOMAIN Mod(g, l) : Whole(Mod(g, l)[x])
      BY <2>7 DEF LoadsWell
    <3> HIDE DEF a
    <3>2. Mod(h, l)[a].provider \subseteq Ena(h, l)
      BY <1>3, <2>4, <3>1
    <3>3. \A x \in DOMAIN Mod(h, l) : Whole(Mod(h, l)[x])
      BY <2>4, <2>5, <3>1
    <3>4. Value(Act(h, l), Legacy) = a
      BY <1>1 DEF a
    <3> QED
      BY <1>1, <2>6, <2>7, <3>1, <3>2, <3>3, <3>4 DEF LoadsWell
  <2>8. CASE Act(g, l) = {}
    <3>1. \A x \in (DOMAIN Mod(h, l)) \ {Legacy} : Whole(Mod(h, l)[x])
      BY <2>4, <2>5, <2>8 DEF LoadsWell
    <3> QED
      BY <1>1, <1>2, <1>3, <2>8, <3>1 DEF LoadsWell
  <2> QED
    BY <2>7, <2>8
<1> QED
  BY <1>4, <1>5

-----------------------------------------------------------------------------
\* The files have the keys that the edits write.
ModelKeys(llm) == {"provider", "active", "providers", "models"} \subseteq DOMAIN llm
Keys(f) == "llm" \in DOMAIN f /\ ModelKeys(f.llm)
FilesShaped == Keys(global) /\ Keys(local)

\* The two files as a step leaves them, as far as models are concerned.
ModelsKept     == Keys(global') /\ Keys(local') /\ global'.llm = global.llm /\ local'.llm = local.llm
GlobalUpgraded == global' = UpgradedGlobal(global) /\ UNCHANGED local
GlobalAnew     == global' = GlobalTemplate /\ UNCHANGED local
LocalAnew      == local' = LocalTemplate /\ UNCHANGED global
ModelsEdited ==
  \/ \E p : UseProfile(p) \/ DeleteProfile(p)
  \/ \E fields : SetField(fields)
  \/ \E q : SetTopLevel(q)
  \/ \E p, q : SaveProfile(p, q)
  \/ \E q : \E enabled \in BOOLEAN : SaveProvider(q, enabled)
ModelsChange == ModelsKept \/ GlobalUpgraded \/ GlobalAnew \/ LocalAnew \/ ModelsEdited

LEMMA TemplateKeys == Keys(NoFile) /\ Keys(LocalTemplate) /\ Keys(GlobalTemplate)
<1>1. Keys(NoFile)
  BY DEF Keys, ModelKeys, NoFile, NoModels
<1>2. "llm" \in DOMAIN LocalTemplate /\ LocalTemplate.llm = NoFile.llm
  BY DEF LocalTemplate, UpgradedLocal, NoFile
<1>3. "llm" \in DOMAIN GlobalTemplate /\ DOMAIN GlobalTemplate.llm = DOMAIN NoModels
  BY DEF GlobalTemplate, NoFile
<1>4. {"provider", "active", "providers", "models"} \subseteq DOMAIN NoModels
  BY DEF NoModels
<1> QED
  BY <1>1, <1>2, <1>3, <1>4 DEF Keys, ModelKeys

LEMMA ModelsStep ==
  ASSUME FilesShaped, [Next]_vars
  PROVE  ModelsChange
<1> USE DEF ModelsChange
<1>k. ASSUME UNCHANGED <<global, local>> PROVE ModelsKept
  BY <1>k DEF ModelsKept, FilesShaped
<1>f. ASSUME UNCHANGED files PROVE ModelsKept
  BY <1>f, <1>k DEF files
<1>l. ASSUME NEW key, NEW value, key # "llm", UNCHANGED global, local' = [local EXCEPT ![key] = value]
      PROVE  ModelsKept
  BY <1>l DEF ModelsKept, FilesShaped, Keys, ModelKeys
<1>u. ASSUME NEW scope, Upgrade(scope) PROVE ModelsChange
  <2>1. CASE scope = "global"
    BY <1>u, <2>1 DEF Upgrade, GlobalUpgraded
  <2>2. CASE scope # "global" /\ broken
    BY <1>u, <2>2 DEF Upgrade, LocalAnew
  <2>3. CASE scope # "global" /\ ~broken
    BY <1>u, <2>3 DEF Upgrade, UpgradedLocal, ModelsKept, FilesShaped, Keys, ModelKeys
  <2> QED
    BY <2>1, <2>2, <2>3
<1>1. CASE AgentCommand
  <2>1. ASSUME NEW kind \in {"tools", "mcps"}, NEW allowed \in BOOLEAN, NEW n \in Resources(kind),
               SetAgentResource(kind, n, allowed)
        PROVE  ModelsKept
    BY <2>1, <1>l DEF SetAgentResource
  <2>2. CASE SwitchMode
    BY <2>2 DEF SwitchMode, ModelsKept, FilesShaped, Keys, ModelKeys
  <2> QED
    BY <1>1, <2>1, <2>2 DEF AgentCommand
<1>2. CASE SubAgentCommand
  <2>1. ASSUME NEW a \in Agents, NEW kind \in {"tools", "mcps"}, NEW allowed \in BOOLEAN,
               NEW n \in Resources(kind), SetSubAgentResource(a, kind, n, allowed)
        PROVE  ModelsKept
    BY <2>1 DEF SetSubAgentResource, ModelsKept, FilesShaped, Keys, ModelKeys
  <2>2. CASE \E a \in Agents, scope \in {"local", "global"} : YamlNew(a, scope)
    BY <2>2, <1>k DEF YamlNew
  <2>3. CASE \E a \in Agents, from, to \in {"local", "global"} : YamlMove(a, from, to)
    BY <2>3, <1>k DEF YamlMove, RescanYaml
  <2>4. CASE YamlReload
    BY <2>4, <1>k DEF YamlReload, RescanYaml
  <2> QED
    BY <1>2, <2>1, <2>2, <2>3, <2>4 DEF SubAgentCommand
<1>3. CASE McpCommand
  <2>1. CASE \E s \in Servers, active \in BOOLEAN : SetServerActive(s, active)
    BY <2>1 DEF SetServerActive, ModelsKept, FilesShaped, Keys, ModelKeys
  <2>2. CASE \E s \in Servers : McpRefresh(s)
    BY <2>2, <1>f DEF McpRefresh
  <2>3. CASE McpReload
    BY <2>3, <1>f DEF McpReload
  <2> QED
    BY <1>3, <2>1, <2>2, <2>3 DEF McpCommand
<1>4. CASE ToolsReload
  BY <1>4, <1>f DEF ToolsReload
<1>5. CASE SkillsReload
  BY <1>5, <1>f DEF SkillsReload
<1>6. CASE ProviderCommand
  <2>1. ModelsEdited
    <3>1. CASE \E p \in about.profiles : UseProfile(p)
      BY <3>1 DEF ModelsEdited
    <3>2. ASSUME NEW fields, SetField(fields) PROVE ModelsEdited
      BY <3>2 DEF ModelsEdited
    <3>3. ASSUME NEW q, SetTopLevel(q) PROVE ModelsEdited
      BY <3>3 DEF ModelsEdited
    <3> QED
      BY <1>6, <3>1, <3>2, <3>3 DEF ProviderCommand
  <2> QED
    BY <2>1
<1>7. CASE SettingsScreen
  <2>1. ModelsEdited
    <3>1. ASSUME NEW p, DeleteProfile(p) PROVE ModelsEdited
      BY <3>1 DEF ModelsEdited
    <3>2. ASSUME NEW p, NEW q, SaveProfile(p, q) PROVE ModelsEdited
      BY <3>2 DEF ModelsEdited
    <3>3. ASSUME NEW q, NEW enabled \in BOOLEAN, SaveProvider(q, enabled) PROVE ModelsEdited
      BY <3>3 DEF ModelsEdited
    <3> QED
      BY <1>7, <3>1, <3>2, <3>3 DEF SettingsScreen
  <2> QED
    BY <2>1
<1>8. CASE ConfigCommand
  <2>1. CASE ConfigReload
    BY <2>1, <1>f DEF ConfigReload
  <2>2. ASSUME NEW scope, ConfigUpgrade(scope) PROVE ModelsChange
    BY <2>2, <1>u DEF ConfigUpgrade
  <2>3. ASSUME NEW scope, ConfigReinit(scope) PROVE ModelsChange
    BY <2>3 DEF ConfigReinit, GlobalAnew, LocalAnew
  <2> QED
    BY <1>8, <2>1, <2>2, <2>3 DEF ConfigCommand
<1>9. CASE UpgradeAtStart
  BY <1>9, <1>u DEF UpgradeAtStart
<1>10. CASE \E a \in Agents, scope \in {"local", "global"} : EditYaml(a, scope)
  BY <1>10, <1>k DEF EditYaml
<1>11. CASE \E s \in Servers : ServerChanges(s)
  BY <1>11, <1>f DEF ServerChanges
<1>12. CASE DamageLocal \/ RepairLocal
  BY <1>12, <1>k DEF DamageLocal, RepairLocal
<1>13. CASE UNCHANGED vars
  BY <1>13, <1>f DEF vars
<1> QED
  BY <1>1, <1>2, <1>3, <1>4, <1>5, <1>6, <1>7, <1>8, <1>9, <1>10, <1>11, <1>12, <1>13 DEF Next

LEMMA FilesShapedStep == FilesShaped /\ [Next]_vars => FilesShaped'
<1> SUFFICES ASSUME FilesShaped, [Next]_vars PROVE FilesShaped'
  OBVIOUS
<1>0. ASSUME NEW llm, ModelKeys(llm), ToLocal(llm) \/ ToGlobal(llm) PROVE FilesShaped'
  BY <1>0 DEF FilesShaped, Keys, ModelKeys, ToLocal, ToGlobal
<1>1. CASE ModelsKept
  BY <1>1 DEF ModelsKept, FilesShaped
<1>2. CASE GlobalUpgraded
  <2>1. "llm" \in DOMAIN global' /\ DOMAIN global'.llm = DOMAIN global.llm
    BY <1>2 DEF GlobalUpgraded, UpgradedGlobal, UpgradedModels, FilesShaped, Keys, ModelKeys
  <2> QED
    BY <1>2, <2>1 DEF GlobalUpgraded, FilesShaped, Keys, ModelKeys
<1>3. CASE GlobalAnew \/ LocalAnew
  BY <1>3, TemplateKeys DEF GlobalAnew, LocalAnew, FilesShaped
<1>4. CASE ModelsEdited
  <2>1. ASSUME NEW f \in {global, local}, NEW key, NEW value
        PROVE  ModelKeys([f.llm EXCEPT ![key] = value])
    BY DEF FilesShaped, Keys, ModelKeys
  <2>2. ASSUME NEW p, UseProfile(p) PROVE FilesShaped'
    BY <2>2, <2>1, <1>0 DEF UseProfile
  <2>3. ASSUME NEW fields, SetField(fields) PROVE FilesShaped'
    BY <2>3, <2>1, <1>0 DEF SetField
  <2>4. ASSUME NEW q, SetTopLevel(q) PROVE FilesShaped'
    BY <2>4, <2>1, <1>0 DEF SetTopLevel
  <2>5. ASSUME NEW p, DeleteProfile(p) PROVE FilesShaped'
    BY <2>5, <2>1, <1>0 DEF DeleteProfile
  <2>6. ASSUME NEW p, NEW q, SaveProfile(p, q) PROVE FilesShaped'
    BY <2>6, <2>1, <1>0 DEF SaveProfile
  <2>7. ASSUME NEW q, NEW enabled, SaveProvider(q, enabled) PROVE FilesShaped'
    BY <2>7, <2>1, <1>0 DEF SaveProvider
  <2> QED
    BY <1>4, <2>2, <2>3, <2>4, <2>5, <2>6, <2>7 DEF ModelsEdited
<1> QED
  BY <1>1, <1>2, <1>3, <1>4, ModelsStep DEF ModelsChange

LEMMA FilesShapedInit == Init => FilesShaped
<1> SUFFICES ASSUME Init PROVE FilesShaped
  OBVIOUS
<1>1. DOMAIN global = DOMAIN NoFile /\ DOMAIN global.llm = DOMAIN NoModels
  BY CommandsAssumption DEF Init
<1>2. Keys(NoFile) /\ NoFile.llm = NoModels
  BY TemplateKeys DEF NoFile
<1> QED
  BY <1>1, <1>2 DEF Init, FilesShaped, Keys, ModelKeys

(* What the models of the two files say can be loaded after an edit.       *)
LEMMA ModelsLoadStep ==
  ASSUME FilesShaped, [Next]_vars, InForce, ~Escapes
  PROVE  LoadsWell(global'.llm, local'.llm)
<1> DEFINE g == global.llm  l == local.llm
<1>0. /\ LoadsWell(g, l)
      /\ config.llm = Catalog(g, l)
  BY Loading DEF InForce, Loads, Merged
<1>k. Keys(global) /\ Keys(local)
  BY DEF FilesShaped
<1>1. CASE ModelsKept
  BY <1>0, <1>1 DEF ModelsKept
<1>2. CASE GlobalUpgraded
  <2>1. global'.llm = UpgradedModels(g) /\ local' = local
    BY <1>2, <1>k DEF GlobalUpgraded, UpgradedGlobal, Keys, ModelKeys
  <2> QED
    BY <1>0, <1>k, <2>1, UpgradeLoads DEF Keys, ModelKeys
<1>3. CASE GlobalAnew \/ LocalAnew
  <2>1. global' = global /\ local' = local
    BY <1>3 DEF GlobalAnew, LocalAnew, Escapes, Anew
  <2> QED
    BY <1>0, <2>1
<1>l. ASSUME NEW llm, ToLocal(llm) PROVE global' = global /\ local'.llm = llm
  BY <1>l, <1>k DEF ToLocal, Keys, ModelKeys
<1>g. ASSUME NEW llm, ToGlobal(llm) PROVE local' = local /\ global'.llm = llm
  BY <1>g, <1>k DEF ToGlobal, Keys, ModelKeys
<1>e. ASSUME NEW f \in {g, l}
      PROVE  /\ \A v : /\ [f EXCEPT !.active = v].active = v
                       /\ [f EXCEPT !.active = v].models = f.models
                       /\ [f EXCEPT !.active = v].providers = f.providers
             /\ \A v : /\ [f EXCEPT !.models = v].models = v
                       /\ [f EXCEPT !.models = v].active = f.active
                       /\ [f EXCEPT !.models = v].providers = f.providers
                       /\ [f EXCEPT !.models = v].provider = f.provider
             /\ \A v : /\ [f EXCEPT !.providers = v].providers = v
                       /\ [f EXCEPT !.providers = v].active = f.active
                       /\ [f EXCEPT !.providers = v].models = f.models
                       /\ [f EXCEPT !.providers = v].provider = f.provider
             /\ \A v : /\ [f EXCEPT !.provider = v].provider = v
                       /\ [f EXCEPT !.provider = v].active = f.active
                       /\ [f EXCEPT !.provider = v].models = f.models
                       /\ [f EXCEPT !.provider = v].providers = f.providers
  BY <1>k DEF Keys, ModelKeys
<1>4. ASSUME NEW p, UseProfile(p) PROVE LoadsWell(global'.llm, local'.llm)
  <2> DEFINE k == [l EXCEPT !.active = {p}]
  <2>1. global' = global /\ local'.llm = k /\ Valid(Catalog(g, l), p)
    BY <1>0, <1>4, <1>l DEF UseProfile
  <2>2. k.active = {p} /\ k.models = l.models /\ k.providers = l.providers
    BY <1>e
  <2> HIDE DEF k
  <2>3. ASSUME Act(g, l) = {}
        PROVE  p # Legacy /\ (Legacy \in DOMAIN Mod(g, l) => Whole(Mod(g, l)[Legacy]))
    <3>1. l.active = {}
      BY <2>3 DEF Act, Over
    <3>2. local'.llm.active # local.llm.active /\ p \in local'.llm.active
      BY <2>1, <2>2, <3>1
    <3>3. ~MadeUp(p)
      BY <3>2 DEF Escapes
    <3>4. config.llm.legacy
      BY <1>0, <2>3, CatalogFields
    <3> QED
      BY <3>3, <3>4 DEF MadeUp, Written, Mod
  <2>4. LoadsWell(g, k)
    BY <1>0, <2>1, <2>2, <2>3, UseLoads
  <2> QED
    BY <2>1, <2>4
<1>5. ASSUME NEW fields, SetField(fields) PROVE LoadsWell(global'.llm, local'.llm)
  <2> DEFINE p == config.llm.active
             k == [l EXCEPT !.models = UpdateFields(@, p, fields)]
             tried == [config.llm EXCEPT !.models[p] = Refine(@, fields)]
  <2>1. global' = global /\ local'.llm = k /\ Valid(tried, p) /\ ~config.llm.legacy
    BY <1>5, <1>l DEF SetField
  <2>2. k.models = UpdateFields(l.models, p, fields) /\ k.active = l.active /\ k.providers = l.providers
    BY <1>e
  <2>3. Act(g, l) # {} /\ p = Value(Act(g, l), Legacy) /\ config.llm.models = Mod(g, l)
    BY <1>0, <2>1, CatalogFields
  <2>4. p \in DOMAIN Mod(g, l)
    BY <1>0, <2>3 DEF LoadsWell
  <2>5. /\ p \in DOMAIN tried.models /\ tried.models[p] = Refine(Mod(g, l)[p], fields)
        /\ tried.enabled = Ena(g, l)
    <3>1. {"models", "enabled"} \subseteq DOMAIN config.llm
      BY <1>0 DEF Catalog
    <3>2. config.llm.enabled = Ena(g, l)
      BY <1>0, CatalogFields
    <3> HIDE DEF p
    <3> QED
      BY <2>3, <2>4, <3>1, <3>2
  <2> HIDE DEF tried, k, p
  <2>6. Refine(Mod(g, l)[p], fields).provider \subseteq Ena(g, l) /\ Whole(Refine(Mod(g, l)[p], fields))
    BY <2>1, <2>5 DEF Valid
  <2>7. LoadsWell(g, k)
    BY <1>0, <2>2, <2>3, <2>6, SetLoads
  <2> QED
    BY <2>1, <2>7
<1>6. ASSUME NEW q, SetTopLevel(q) PROVE LoadsWell(global'.llm, local'.llm)
  <2> DEFINE k == [l EXCEPT !.provider = {q}]
  <2>1. global' = global /\ local'.llm = k
    BY <1>6, <1>l DEF SetTopLevel
  <2>2. k.active = l.active /\ k.models = l.models /\ k.providers = l.providers
    BY <1>e
  <2> HIDE DEF k
  <2>3. k.provider = l.provider
    BY <2>1 DEF Escapes
  <2>4. LoadsWell(g, k)
    BY <1>0, <2>2, <2>3, SameFieldsLoad
  <2> QED
    BY <2>1, <2>4
<1>7. ASSUME NEW p, DeleteProfile(p) PROVE LoadsWell(global'.llm, local'.llm)
  <2> DEFINE h == [g EXCEPT !.models = WithoutModel(@, p)]
  <2>1. local' = local /\ global'.llm = h /\ p # config.llm.active
    BY <1>7, <1>g DEF DeleteProfile
  <2>2. /\ h.models = WithoutModel(g.models, p)
        /\ h.active = g.active /\ h.providers = g.providers /\ h.provider = g.provider
    BY <1>e
  <2> HIDE DEF h
  <2>3. ASSUME p \in DOMAIN g.models PROVE p \notin DOMAIN l.models
    <3>1. p \notin DOMAIN global'.llm.models
      BY <2>1, <2>2 DEF WithoutModel
    <3> QED
      BY <2>3, <3>1 DEF Escapes
  <2>4. p # Value(Act(g, l), Legacy)
    BY <1>0, <2>1, CatalogFields
  <2>5. LoadsWell(h, l)
    BY <1>0, <2>2, <2>3, <2>4, DeleteLoads
  <2> QED
    BY <2>1, <2>5
<1>8. ASSUME NEW p, NEW q, SaveProfile(p, q) PROVE LoadsWell(global'.llm, local'.llm)
  <2> DEFINE h == [g EXCEPT !.models = WithEntry(@, p, Complete(q))]
             tried == [config.llm EXCEPT !.models = WithEntry(@, p, Complete(q))]
  <2>1. local' = local /\ global'.llm = h /\ Valid(tried, config.llm.active)
    BY <1>8, <1>g DEF SaveProfile
  <2>2. /\ h.models = WithEntry(g.models, p, Complete(q))
        /\ h.active = g.active /\ h.providers = g.providers /\ h.provider = g.provider
    BY <1>e
  <2>3. /\ tried.models = WithEntry(config.llm.models, p, Complete(q))
        /\ tried.enabled = Ena(g, l)
    <3>1. {"models", "enabled"} \subseteq DOMAIN config.llm
      BY <1>0 DEF Catalog
    <3>2. config.llm.enabled = Ena(g, l)
      BY <1>0, CatalogFields
    <3> QED
      BY <3>1, <3>2
  <2> HIDE DEF tried, h
  <2>4. ASSUME p = Value(Act(g, l), Legacy) PROVE q \in Ena(g, l)
    <3>1. p = config.llm.active
      BY <1>0, <2>4, CatalogFields
    <3>2. tried.models[p] = Complete(q)
      BY <2>3 DEF WithEntry
    <3>3. tried.models[p].provider \subseteq Ena(g, l)
      BY <2>1, <2>3, <3>1 DEF Valid
    <3> QED
      BY <3>2, <3>3, CompleteIsWhole
  <2>5. LoadsWell(h, l)
    BY <1>0, <2>2, <2>4, SaveLoads
  <2> QED
    BY <2>1, <2>5
<1>9. ASSUME NEW q, NEW enabled \in BOOLEAN, SaveProvider(q, enabled)
      PROVE  LoadsWell(global'.llm, local'.llm)
  <2> DEFINE h == [g EXCEPT !.providers = WithEntry(@, q, {enabled})]
  <2>1. local' = local /\ global'.llm = h
    BY <1>9, <1>g DEF SaveProvider
  <2>2. /\ h.providers = WithEntry(g.providers, q, {enabled})
        /\ h.active = g.active /\ h.models = g.models /\ h.provider = g.provider
    BY <1>e
  <2> HIDE DEF h
  <2>3. Valid([Catalog(g, l) EXCEPT !.enabled = IF enabled THEN @ \cup {q} ELSE @ \ {q}],
              Catalog(g, l).active)
    BY <1>0, <1>9 DEF SaveProvider
  <2>4. LoadsWell(h, l)
    BY <1>0, <2>2, <2>3, ProviderLoads
  <2> QED
    BY <2>1, <2>4
<1> QED
  BY <1>1, <1>2, <1>3, <1>4, <1>5, <1>6, <1>7, <1>8, <1>9, ModelsStep DEF ModelsChange, ModelsEdited

-----------------------------------------------------------------------------
(***************************************************************************)
(* The lists of the files: the mode, the tools allowed and denied, and the *)
(* entries of sub-agents.                                                  *)
(***************************************************************************)
IsList(s) ==
  \E n \in Nat : /\ DOMAIN s = 1..n /\ s = [i \in 1..n |-> s[i]]
                 /\ \A i \in 1..n : DOMAIN s[i] = {"name", "tools", "mcps"}
ListKeys == {"mode", "allowed", "denied", "profiles"}
Listed(f) == ListKeys \subseteq DOMAIN f /\ IsList(f.profiles)
FilesListed == Listed(global) /\ Listed(local)

(* The places of a finite set of numbers: each rank belongs to one of its  *)
(* elements.                                                               *)
LEMMA Places ==
  ASSUME NEW S \in SUBSET Nat, IsFiniteSet(S), NEW k \in 1..Cardinality(S)
  PROVE  \E i \in S : Cardinality({j \in S : j <= i}) = k
<1> DEFINE below(i) == {j \in S : j <= i}
           rank == [i \in S |-> Cardinality(below(i))]
           n == Cardinality(S)
<1>1. n \in Nat
  BY FS_CardinalityType
<1>2. ASSUME NEW i \in S
      PROVE  IsFiniteSet(below(i)) /\ Cardinality(below(i)) \in Nat /\ Cardinality(below(i)) \in 1..n
  <2>1. IsFiniteSet(below(i)) /\ Cardinality(below(i)) <= n
    BY FS_Subset
  <2>2. Cardinality(below(i)) \in Nat
    BY <2>1, FS_CardinalityType
  <2>3. i \in below(i)
    OBVIOUS
  <2>4. Cardinality(below(i)) # 0
    BY <2>1, <2>3, FS_EmptySet
  <2> QED
    BY <1>1, <2>1, <2>2, <2>4
<1>3. ASSUME NEW i \in S, NEW j \in S, i < j PROVE Cardinality(below(i)) # Cardinality(below(j))
  <2>0. i \in Nat /\ j \in Nat
    OBVIOUS
  <2>a. ASSUME NEW x \in S, x <= i PROVE x <= j
    <3>1. x \in Nat
      OBVIOUS
    <3> QED
      BY <1>3, <2>0, <2>a, <3>1
  <2>b. j <= j /\ ~(j <= i)
    BY <1>3, <2>0
  <2>1. below(i) \subseteq below(j) /\ j \in below(j) /\ j \notin below(i)
    BY <2>a, <2>b
  <2>2. IsFiniteSet(below(j)) /\ below(i) \in SUBSET below(j) /\ below(i) # below(j)
    BY <1>2, <2>1
  <2> HIDE DEF below
  <2> QED
    BY <2>2, FS_Subset
<1>4. rank \in Injection(S, 1..n)
  <2>1. rank \in [S -> 1..n]
    BY <1>2
  <2>2. ASSUME NEW i \in S, NEW j \in S, rank[i] = rank[j] PROVE i = j
    <3>1. Cardinality(below(i)) = Cardinality(below(j))
      BY <2>2
    <3>2. ~(i < j) /\ ~(j < i)
      BY <1>3, <3>1
    <3> QED
      BY <3>2
  <2> QED
    BY <2>1, <2>2 DEF Injection, IsInjective
<1>5. IsFiniteSet(1..n) /\ Cardinality(1..n) = n
  BY <1>1, FS_Interval
<1>6. rank \in Surjection(S, 1..n)
  BY <1>4, <1>5, FS_Injection
<1>7. PICK i \in S : rank[i] = k
  BY <1>6 DEF Surjection
<1> QED
  BY <1>7

(* Leaving out repetitions takes entries from different places.            *)
LEMMA DistinctPlaces ==
  ASSUME NEW entries, DOMAIN entries \in SUBSET Nat, IsFiniteSet(DOMAIN entries)
  PROVE  \E n \in Nat : \E at \in [1..n -> DOMAIN entries] :
           /\ \A k, m \in 1..n : at[k] = at[m] => k = m
           /\ Distinct(entries) = [k \in 1..n |-> entries[at[k]]]
<1> DEFINE first == {i \in DOMAIN entries : \A j \in DOMAIN entries : j < i => entries[j] # entries[i]}
           At(k) == CHOOSE i \in first : Cardinality({j \in first : j <= i}) = k
           n == Cardinality(first)
           at == [k \in 1..n |-> At(k)]
<1>1. first \in SUBSET Nat /\ first \subseteq DOMAIN entries
  OBVIOUS
<1>2. IsFiniteSet(first)
  BY <1>1, FS_Subset
<1>3. n \in Nat
  BY <1>2, FS_CardinalityType
<1>4. Distinct(entries) = [k \in 1..n |-> entries[At(k)]]
  BY DEF Distinct
<1> HIDE DEF first
<1>5. ASSUME NEW k \in 1..n PROVE At(k) \in first /\ Cardinality({j \in first : j <= At(k)}) = k
  <2>1. \E i \in first : Cardinality({j \in first : j <= i}) = k
    BY <1>1, <1>2, Places
  <2> QED
    BY <2>1
<1> HIDE DEF At
<1>6. at \in [1..n -> DOMAIN entries]
  BY <1>1, <1>5
<1>7. ASSUME NEW k \in 1..n, NEW m \in 1..n, at[k] = at[m] PROVE k = m
  <2>1. At(k) = At(m)
    BY <1>7
  <2> QED
    BY <1>5, <2>1
<1>8. Distinct(entries) = [k \in 1..n |-> entries[at[k]]]
  BY <1>4
<1> HIDE DEF at, n
<1> QED
  BY <1>3, <1>6, <1>7, <1>8

Twice(s) == \E i, j \in DOMAIN s : i # j /\ Canon[s[i].name] = Canon[s[j].name]

(* An upgraded list is a list, and without two names for one sub-agent in  *)
(* it none is listed twice.                                                *)
LEMMA UpgradedList ==
  ASSUME NEW s, IsList(s)
  PROVE  IsList(UpgradedProfiles(s)) /\ (~Twice(s) => Unambiguous(UpgradedProfiles(s)))
<1> DEFINE needed == {i \in DOMAIN s : ~Redundant(s[i])}
           compact == [i \in needed |-> CompactProfile(s[i])]
<1>1. CASE UpgradedProfiles(s) = s
  BY <1>1 DEF Twice, Unambiguous
<1>2. CASE UpgradedProfiles(s) = Distinct(compact)
  <2>1. DOMAIN s \in SUBSET Nat /\ IsFiniteSet(DOMAIN s)
    <3>1. PICK n \in Nat : DOMAIN s = 1..n
      BY DEF IsList
    <3>2. IsFiniteSet(1..n)
      BY FS_Interval
    <3> QED
      BY <3>1, <3>2
  <2>2. DOMAIN compact = needed /\ needed \in SUBSET Nat /\ IsFiniteSet(needed)
    BY <2>1, FS_Subset
  <2>3. ASSUME NEW i \in needed
        PROVE  /\ DOMAIN compact[i] = {"name", "tools", "mcps"}
               /\ compact[i].name = Canon[s[i].name]
    <3>1. DOMAIN s[i] = {"name", "tools", "mcps"}
      BY DEF IsList
    <3>2. DOMAIN Renamed(s[i]) = {"name", "tools", "mcps"} /\ Renamed(s[i]).name = Canon[s[i].name]
      BY <3>1 DEF Renamed
    <3>3. DOMAIN CompactProfile(s[i]) = {"name", "tools", "mcps"}
          /\ CompactProfile(s[i]).name = Canon[s[i].name]
      BY <3>2 DEF CompactProfile
    <3>4. compact[i] = CompactProfile(s[i])
      BY <2>2
    <3> QED
      BY <3>3, <3>4
  <2>4. needed \subseteq DOMAIN s
    OBVIOUS
  <2> HIDE DEF compact, needed
  <2>5. \E n \in Nat : \E at \in [1..n -> DOMAIN compact] :
           /\ \A k, m \in 1..n : at[k] = at[m] => k = m
           /\ Distinct(compact) = [k \in 1..n |-> compact[at[k]]]
    BY <2>2, DistinctPlaces
  <2>n. PICK n \in Nat : \E at \in [1..n -> DOMAIN compact] :
           /\ \A k, m \in 1..n : at[k] = at[m] => k = m
           /\ Distinct(compact) = [k \in 1..n |-> compact[at[k]]]
    BY <2>5
  <2>6. PICK at \in [1..n -> needed] :
           /\ \A k, m \in 1..n : at[k] = at[m] => k = m
           /\ UpgradedProfiles(s) = [k \in 1..n |-> compact[at[k]]]
    BY <1>2, <2>2, <2>n
  <2> DEFINE result == UpgradedProfiles(s)
  <2>7. DOMAIN result = 1..n /\ \A k \in 1..n : result[k] = compact[at[k]] /\ at[k] \in needed
    BY <2>6
  <2>8. result = [k \in 1..n |-> result[k]]
    BY <2>6
  <2> HIDE DEF result
  <2>l. \A k \in 1..n : DOMAIN result[k] = {"name", "tools", "mcps"}
    BY <2>3, <2>7
  <2>9. IsList(result)
    BY <2>7, <2>8, <2>l DEF IsList
  <2>10. ASSUME ~Twice(s), NEW k \in 1..n, NEW m \in 1..n, result[k].name = result[m].name PROVE k = m
    <3>1. Canon[s[at[k]].name] = Canon[s[at[m]].name]
      BY <2>3, <2>7, <2>10
    <3>2. at[k] = at[m]
      BY <2>4, <2>7, <2>10, <3>1 DEF Twice
    <3> QED
      BY <2>6, <3>2
  <2>11. ~Twice(s) => Unambiguous(result)
    BY <2>7, <2>10 DEF Unambiguous
  <2> QED
    BY <2>9, <2>11 DEF result
<1> QED
  BY <1>1, <1>2 DEF UpgradedProfiles

\* The lists of a file are as they were.
SameLists(before, after) ==
  /\ ListKeys \subseteq DOMAIN after
  /\ \A key \in ListKeys : after[key] = before[key]

\* The five things a step does to the lists of the two files.
ListsKept   == SameLists(global, global') /\ SameLists(local, local')
Upgraded    == \E scope \in {"local", "global"} : Upgrade(scope)
EntryEdited ==
  \E a \in Agents, kind \in {"tools", "mcps"}, allowed \in BOOLEAN,
     n \in Resources("tools") \cup Resources("mcps") :
    SetSubAgentResource(a, kind, n, allowed)
ListsChange == ListsKept \/ Upgraded \/ EntryEdited \/ SwitchMode \/ GlobalAnew \/ LocalAnew

LEMMA ListsStep ==
  ASSUME FilesListed, [Next]_vars
  PROVE  ListsChange
<1> USE DEF ListsChange
<1>k. ASSUME UNCHANGED <<global, local>> PROVE ListsKept
  BY <1>k DEF ListsKept, SameLists, FilesListed, Listed
<1>f. ASSUME UNCHANGED files PROVE ListsKept
  BY <1>f, <1>k DEF files
<1>l. ASSUME NEW key, NEW value, key \notin ListKeys, UNCHANGED global,
             local' = [local EXCEPT ![key] = value]
      PROVE  ListsKept
  BY <1>l DEF ListsKept, SameLists, FilesListed, Listed
<1>g. ASSUME NEW key, NEW value, key \notin ListKeys, UNCHANGED local,
             global' = [global EXCEPT ![key] = value]
      PROVE  ListsKept
  BY <1>g DEF ListsKept, SameLists, FilesListed, Listed
<1>n. "llm" \notin ListKeys /\ "tools" \notin ListKeys /\ "mcps" \notin ListKeys
  BY DEF ListKeys
<1>t. ASSUME NEW llm, ToLocal(llm) PROVE ListsKept
  BY <1>t, <1>l, <1>n DEF ToLocal
<1>s. ASSUME NEW llm, ToGlobal(llm) PROVE ListsKept
  BY <1>s, <1>g, <1>n DEF ToGlobal
<1>1. CASE AgentCommand
  <2>1. ASSUME NEW kind \in {"tools", "mcps"}, NEW allowed \in BOOLEAN, NEW n \in Resources(kind),
               SetAgentResource(kind, n, allowed)
        PROVE  ListsKept
    BY <2>1, <1>l, <1>n DEF SetAgentResource
  <2> QED
    BY <1>1, <2>1 DEF AgentCommand
<1>2. CASE SubAgentCommand
  <2>1. ASSUME NEW a \in Agents, NEW kind \in {"tools", "mcps"}, NEW allowed \in BOOLEAN,
               NEW n \in Resources(kind), SetSubAgentResource(a, kind, n, allowed)
        PROVE  EntryEdited
    BY <2>1 DEF EntryEdited
  <2>2. CASE \E a \in Agents, scope \in {"local", "global"} : YamlNew(a, scope)
    BY <2>2, <1>k DEF YamlNew
  <2>3. CASE \E a \in Agents, from, to \in {"local", "global"} : YamlMove(a, from, to)
    BY <2>3, <1>k DEF YamlMove, RescanYaml
  <2>4. CASE YamlReload
    BY <2>4, <1>k DEF YamlReload, RescanYaml
  <2> QED
    BY <1>2, <2>1, <2>2, <2>3, <2>4 DEF SubAgentCommand
<1>3. CASE McpCommand
  <2>1. CASE \E s \in Servers, active \in BOOLEAN : SetServerActive(s, active)
    BY <2>1 DEF SetServerActive, ListsKept, SameLists, FilesListed, Listed, ListKeys
  <2>2. CASE \E s \in Servers : McpRefresh(s)
    BY <2>2, <1>f DEF McpRefresh
  <2>3. CASE McpReload
    BY <2>3, <1>f DEF McpReload
  <2> QED
    BY <1>3, <2>1, <2>2, <2>3 DEF McpCommand
<1>4. CASE ToolsReload
  BY <1>4, <1>f DEF ToolsReload
<1>5. CASE SkillsReload
  BY <1>5, <1>f DEF SkillsReload
<1>6. CASE ProviderCommand
  <2>1. ASSUME NEW p, UseProfile(p) PROVE ListsKept
    BY <2>1, <1>t DEF UseProfile
  <2>2. ASSUME NEW fields, SetField(fields) PROVE ListsKept
    BY <2>2, <1>t DEF SetField
  <2>3. ASSUME NEW q, SetTopLevel(q) PROVE ListsKept
    BY <2>3, <1>t DEF SetTopLevel
  <2> QED
    BY <1>6, <2>1, <2>2, <2>3 DEF ProviderCommand
<1>7. CASE SettingsScreen
  <2>1. ASSUME NEW p, DeleteProfile(p) PROVE ListsKept
    BY <2>1, <1>s DEF DeleteProfile
  <2>2. ASSUME NEW p, NEW q, SaveProfile(p, q) PROVE ListsKept
    BY <2>2, <1>s DEF SaveProfile
  <2>3. ASSUME NEW q, NEW enabled \in BOOLEAN, SaveProvider(q, enabled) PROVE ListsKept
    BY <2>3, <1>s DEF SaveProvider
  <2> QED
    BY <1>7, <2>1, <2>2, <2>3 DEF SettingsScreen
<1>8. CASE ConfigCommand
  <2>1. CASE ConfigReload
    BY <2>1, <1>f DEF ConfigReload
  <2>2. ASSUME NEW scope \in {"local", "global"}, ConfigUpgrade(scope) PROVE Upgraded
    BY <2>2 DEF ConfigUpgrade, Upgraded
  <2>3. ASSUME NEW scope, ConfigReinit(scope) PROVE ListsChange
    BY <2>3 DEF ConfigReinit, GlobalAnew, LocalAnew
  <2> QED
    BY <1>8, <2>1, <2>2, <2>3 DEF ConfigCommand
<1>9. CASE UpgradeAtStart
  BY <1>9 DEF UpgradeAtStart, Upgraded
<1>10. CASE \E a \in Agents, scope \in {"local", "global"} : EditYaml(a, scope)
  BY <1>10, <1>k DEF EditYaml
<1>11. CASE \E s \in Servers : ServerChanges(s)
  BY <1>11, <1>f DEF ServerChanges
<1>12. CASE DamageLocal \/ RepairLocal
  BY <1>12, <1>k DEF DamageLocal, RepairLocal
<1>13. CASE UNCHANGED vars
  BY <1>13, <1>f DEF vars
<1> QED
  BY <1>1, <1>2, <1>3, <1>4, <1>5, <1>6, <1>7, <1>8, <1>9, <1>10, <1>11, <1>12, <1>13 DEF Next

(* What an upgrade and a switch of the mode make of the lists of a file.   *)
LEMMA LocalUpgraded ==
  ASSUME NEW f, Listed(f)
  PROVE  LET u == UpgradedLocal(f) IN
         /\ Listed(u)
         /\ u.mode = Given(f.mode, "basic") /\ u.denied = Given(f.denied, {})
         /\ u.allowed = f.allowed /\ u.profiles = UpgradedProfiles(f.profiles)
<1>1. IsList(UpgradedProfiles(f.profiles))
  BY UpgradedList DEF Listed
<1> QED
  BY <1>1 DEF UpgradedLocal, Listed, ListKeys

LEMMA GlobalLists ==
  ASSUME NEW f, Listed(f)
  PROVE  LET u == UpgradedGlobal(f) IN
         /\ Listed(u)
         /\ u.mode = f.mode /\ u.denied = f.denied
         /\ u.allowed = f.allowed /\ u.profiles = UpgradedProfiles(f.profiles)
<1>1. IsList(UpgradedProfiles(f.profiles))
  BY UpgradedList DEF Listed
<1> QED
  BY <1>1 DEF UpgradedGlobal, Listed, ListKeys

LEMMA TemplateLists == Listed(NoFile) /\ Listed(LocalTemplate) /\ Listed(GlobalTemplate)
<1>1. IsList(<<>>)
  <2>1. DOMAIN <<>> = 1..0 /\ <<>> = [i \in 1..0 |-> <<>>[i]]
    OBVIOUS
  <2> QED
    BY <2>1 DEF IsList
<1>2. Listed(NoFile)
  BY <1>1 DEF Listed, ListKeys, NoFile
<1>3. Listed(LocalTemplate)
  BY <1>2, LocalUpgraded DEF LocalTemplate
<1>4. ListKeys \subseteq DOMAIN GlobalTemplate /\ GlobalTemplate.profiles = <<>>
  BY DEF GlobalTemplate, NoFile, ListKeys
<1> QED
  BY <1>1, <1>2, <1>3, <1>4 DEF Listed

(* An entry edited keeps its name, and a new one is of a new name.         *)
LEMMA EditedList ==
  ASSUME NEW s, IsList(s), NEW a, NEW kind \in {"tools", "mcps"}, NEW n, NEW allowed
  PROVE  LET t == WithProfile(s, a, kind, n, allowed) IN
         IsList(t) /\ t # <<>> /\ (Unambiguous(s) => Unambiguous(t))
<1> DEFINE own == {i \in DOMAIN s : s[i].name = a}
           m == Min(own)
           t == WithProfile(s, a, kind, n, allowed)
<1>1. PICK len \in Nat : /\ DOMAIN s = 1..len /\ s = [i \in 1..len |-> s[i]]
                         /\ \A i \in 1..len : DOMAIN s[i] = {"name", "tools", "mcps"}
  BY DEF IsList
<1>2. CASE own # {}
  <2>1. t = [s EXCEPT ![m][kind] = Delta(@, n, allowed)]
    BY <1>2 DEF WithProfile
  <2> HIDE DEF m, own, t
  <2>a. /\ DOMAIN t = 1..len /\ t = [i \in 1..len |-> t[i]]
        /\ \A i \in 1..len : t[i] = IF i = m THEN [s[i] EXCEPT ![kind] = Delta(@, n, allowed)] ELSE s[i]
    BY <1>1, <2>1
  <2>2. /\ DOMAIN t = 1..len /\ t = [i \in 1..len |-> t[i]]
        /\ \A i \in 1..len : DOMAIN t[i] = {"name", "tools", "mcps"} /\ t[i].name = s[i].name
    BY <1>1, <2>a
  <2>3. \E i : i \in 1..len
    BY <1>1, <1>2 DEF own
  <2>4. t # <<>>
    BY <2>2, <2>3
  <2>5. IsList(t)
    BY <2>2 DEF IsList
  <2>6. Unambiguous(s) => Unambiguous(t)
    BY <1>1, <2>2 DEF Unambiguous
  <2> QED
    BY <2>4, <2>5, <2>6 DEF t
<1>3. CASE own = {}
  <2> DEFINE e == [NoProfile(a) EXCEPT ![kind] = Delta(@, n, allowed)]
             T == {s[i] : i \in 1..len} \cup {e}
  <2>1. t = Append(s, e)
    BY <1>3 DEF WithProfile
  <2>2. DOMAIN e = {"name", "tools", "mcps"} /\ e.name = a
    BY DEF NoProfile
  <2> HIDE DEF e
  <2>3. s \in [1..len -> T] /\ e \in T
    BY <1>1
  <2>4. s \in Seq(T) /\ Len(s) = len
    BY <1>1, <2>3, SeqDef
  <2> HIDE DEF t, T
  <2>a. t \in Seq(T) /\ Len(t) = len + 1
    BY <2>1, <2>3, <2>4, AppendProperties
  <2>b. (\A i \in 1..len : t[i] = s[i]) /\ t[len + 1] = e /\ t # <<>>
    BY <2>1, <2>3, <2>4, AppendProperties
  <2>c. DOMAIN t = 1..(len + 1) /\ t = [i \in 1..(len + 1) |-> t[i]]
    BY <2>a
  <2>5. /\ DOMAIN t = 1..(len + 1) /\ t = [i \in 1..(len + 1) |-> t[i]] /\ t # <<>>
        /\ \A i \in 1..len : t[i] = s[i]
        /\ t[len + 1] = e
    BY <2>b, <2>c
  <2>d. \A i \in 1..len : s[i].name # a
    BY <1>1, <1>3
  <2> HIDE DEF own
  <2>6. ASSUME NEW i \in 1..(len + 1)
        PROVE  DOMAIN t[i] = {"name", "tools", "mcps"} /\ (t[i].name = a <=> i = len + 1)
               /\ (i # len + 1 => i \in 1..len)
    <3>1. CASE i \in 1..len
      <4>1. t[i] = s[i] /\ s[i].name # a /\ DOMAIN s[i] = {"name", "tools", "mcps"}
        BY <1>1, <2>5, <2>d, <3>1
      <4>2. i # len + 1
        BY <3>1
      <4> QED
        BY <3>1, <4>1, <4>2
    <3>2. CASE i = len + 1
      BY <2>2, <2>5, <3>2
    <3> QED
      BY <3>1, <3>2
  <2>7. IsList(t)
    <3>1. len + 1 \in Nat
      OBVIOUS
    <3> QED
      BY <2>5, <2>6, <3>1 DEF IsList
  <2>8. Unambiguous(s) => Unambiguous(t)
    <3> SUFFICES ASSUME Unambiguous(s), NEW i \in 1..(len + 1), NEW j \in 1..(len + 1), t[i].name = t[j].name
                 PROVE  i = j
      BY <2>5 DEF Unambiguous
    <3>1. CASE t[i].name = a
      BY <2>6, <3>1
    <3>2. CASE t[i].name # a
      <4>1. i \in 1..len /\ j \in 1..len
        BY <2>6, <3>2
      <4>2. s[i].name = s[j].name
        BY <2>5, <4>1
      <4> QED
        BY <1>1, <4>1, <4>2 DEF Unambiguous
    <3> QED
      BY <3>1, <3>2
  <2> QED
    BY <2>5, <2>7, <2>8 DEF t
<1> QED
  BY <1>2, <1>3

LEMMA FilesListedStep == FilesListed /\ [Next]_vars => FilesListed'
<1> SUFFICES ASSUME FilesListed, [Next]_vars PROVE FilesListed'
  OBVIOUS
<1>1. CASE ListsKept
  BY <1>1 DEF ListsKept, SameLists, FilesListed, Listed, ListKeys
<1>2. CASE Upgraded
  <2>1. PICK scope \in {"local", "global"} : Upgrade(scope)
    BY <1>2 DEF Upgraded
  <2>2. CASE scope = "global"
    BY <2>1, <2>2, GlobalLists DEF Upgrade, FilesListed
  <2>3. CASE scope # "global"
    BY <2>1, <2>3, LocalUpgraded, TemplateLists DEF Upgrade, FilesListed
  <2> QED
    BY <2>2, <2>3
<1>3. CASE EntryEdited
  <2>1. PICK a \in Agents, kind \in {"tools", "mcps"}, allowed \in BOOLEAN,
             n \in Resources("tools") \cup Resources("mcps") :
             SetSubAgentResource(a, kind, n, allowed)
    BY <1>3 DEF EntryEdited
  <2>2. IsList(WithProfile(local.profiles, a, kind, n, allowed))
    BY EditedList DEF FilesListed, Listed
  <2>3. /\ global' = global
        /\ local' = [local EXCEPT !.profiles = WithProfile(@, a, kind, n, allowed)]
    BY <2>1 DEF SetSubAgentResource
  <2> QED
    BY <2>2, <2>3 DEF FilesListed, Listed, ListKeys
<1>4. CASE SwitchMode
  BY <1>4 DEF SwitchMode, FilesListed, Listed, ListKeys
<1>5. CASE GlobalAnew \/ LocalAnew
  BY <1>5, TemplateLists DEF GlobalAnew, LocalAnew, FilesListed
<1> QED
  BY <1>1, <1>2, <1>3, <1>4, <1>5, ListsStep DEF ListsChange

LEMMA FilesListedInit == Init => FilesListed
<1> SUFFICES ASSUME Init PROVE FilesListed
  OBVIOUS
<1>1. PICK s \in Starts : global = s.file
  BY DEF Init
<1> DEFINE T == {p \in Range(s.file.profiles) : DOMAIN p = {"name", "tools", "mcps"}}
<1>2. DOMAIN global = DOMAIN NoFile /\ global.profiles \in Seq(T)
  BY <1>1, CommandsAssumption
<1>3. \A p \in T : DOMAIN p = {"name", "tools", "mcps"}
  OBVIOUS
<1> HIDE DEF T
<1>4. PICK n \in Nat : global.profiles \in [1..n -> T]
  BY <1>2, SeqDef
<1>5. IsList(global.profiles)
  BY <1>3, <1>4 DEF IsList
<1>6. ListKeys \subseteq DOMAIN global
  BY <1>2, TemplateLists DEF Listed
<1> QED
  BY <1>5, <1>6, TemplateLists DEF Init, FilesListed, Listed

(* What the tools of two files come to does not change with the rest.      *)
Only(g, l)   == Value(Over(g.allowed, l.allowed), {})
Denied(g, l) == Value(Over(g.denied, l.denied), {})

LEMMA ToolsOfFiles ==
  ASSUME NEW g, NEW l
  PROVE  /\ Merged(g, l).mode = Mode(g, l)
         /\ Merged(g, l).denied = Denied(g, l)
         /\ Mode(g, l) = "advanced" /\ Only(g, l) # {} => Merged(g, l).allowed = Only(g, l) \cup Required
         /\ ~(Mode(g, l) = "advanced" /\ Only(g, l) # {}) => Merged(g, l).allowed = Only(g, l)
         /\ Only(g, l) \subseteq Merged(g, l).allowed
BY DEF Merged, Allowed, Only, Denied

LEMMA ToolsLoadStep ==
  ASSUME FilesListed, [Next]_vars, InForce, ~Escapes
  PROVE  Merged(global', local').allowed \cap Merged(global', local').denied = {}
<1> DEFINE g == global  l == local  h == global'  k == local'
           Apart2(a, b) == Merged(a, b).allowed \cap Merged(a, b).denied = {}
<1>0. Apart2(g, l) /\ config = Merged(g, l)
  BY DEF InForce, Loads
<1>s. ASSUME NEW a, NEW b, Only(a, b) = Only(g, l), Denied(a, b) = Denied(g, l),
             Mode(a, b) = "advanced" => Mode(g, l) = "advanced"
      PROVE  Apart2(a, b)
  BY <1>0, <1>s, ToolsOfFiles
<1>1. CASE ListsKept
  <2>1. /\ h.allowed = g.allowed /\ h.denied = g.denied /\ h.mode = g.mode
        /\ k.allowed = l.allowed /\ k.denied = l.denied /\ k.mode = l.mode
    BY <1>1 DEF ListsKept, SameLists, ListKeys
  <2> QED
    BY <1>s, <2>1 DEF Only, Denied, Mode
<1>2. CASE Upgraded
  <2>1. PICK scope \in {"local", "global"} : Upgrade(scope)
    BY <1>2 DEF Upgraded
  <2>2. CASE scope = "global"
    <3>1. h = UpgradedGlobal(g) /\ k = l
      BY <2>1, <2>2 DEF Upgrade
    <3>2. h.allowed = g.allowed /\ h.denied = g.denied /\ h.mode = g.mode
      BY <3>1, GlobalLists DEF FilesListed
    <3> QED
      BY <1>s, <3>1, <3>2 DEF Only, Denied, Mode
  <2>3. CASE scope # "global" /\ broken
    <3>1. h = g /\ k = l
      BY <2>1, <2>3 DEF Upgrade, Escapes, Anew
    <3> QED
      BY <1>0, <3>1
  <2>4. CASE scope # "global" /\ ~broken
    <3>1. h = g /\ k = UpgradedLocal(l)
      BY <2>1, <2>4 DEF Upgrade
    <3>2. k.allowed = l.allowed /\ k.denied = Given(l.denied, {}) /\ k.mode = Given(l.mode, "basic")
      BY <3>1, LocalUpgraded DEF FilesListed
    <3>3. Only(h, k) = Only(g, l)
      BY <3>1, <3>2 DEF Only
    <3>4. Mode(h, k) = "advanced" => Mode(g, l) = "advanced"
      BY <3>1, <3>2 DEF Mode, Given, Over, Value
    <3>5. CASE l.denied = {}
      <4>1. k.denied = {{}}
        BY <3>2, <3>5 DEF Given
      <4>2. Denied(h, k) = {}
        BY <4>1 DEF Denied, Over, Value
      <4> QED
        BY <4>2, ToolsOfFiles
    <3>6. CASE l.denied # {}
      <4>1. Denied(h, k) = Denied(g, l)
        BY <3>1, <3>2, <3>6 DEF Given, Denied
      <4> QED
        BY <1>s, <3>3, <3>4, <4>1
    <3> QED
      BY <3>5, <3>6
  <2> QED
    BY <2>1, <2>2, <2>3, <2>4
<1>3. CASE EntryEdited
  <2>1. PICK a \in Agents, kind \in {"tools", "mcps"}, allowed \in BOOLEAN,
             n \in Resources("tools") \cup Resources("mcps") :
             SetSubAgentResource(a, kind, n, allowed)
    BY <1>3 DEF EntryEdited
  <2>2. h = g /\ k = [l EXCEPT !.profiles = WithProfile(@, a, kind, n, allowed)]
    BY <2>1 DEF SetSubAgentResource
  <2>3. k.allowed = l.allowed /\ k.denied = l.denied /\ k.mode = l.mode
    BY <2>2 DEF FilesListed, Listed, ListKeys
  <2> QED
    BY <1>s, <2>2, <2>3 DEF Only, Denied, Mode
<1>4. CASE SwitchMode
  <2>1. h = g /\ k = [l EXCEPT !.mode = {IF Advanced(config) THEN "basic" ELSE "advanced"}]
    BY <1>4 DEF SwitchMode
  <2>2. /\ k.allowed = l.allowed /\ k.denied = l.denied
        /\ k.mode = {IF Advanced(config) THEN "basic" ELSE "advanced"}
    BY <2>1 DEF FilesListed, Listed, ListKeys
  <2>3. Only(h, k) = Only(g, l) /\ Denied(h, k) = Denied(g, l)
    BY <2>1, <2>2 DEF Only, Denied
  <2>4. CASE Advanced(config)
    <3>1. Mode(g, l) = "advanced"
      BY <1>0, <2>4, ToolsOfFiles DEF Advanced
    <3> QED
      BY <1>s, <2>3, <3>1
  <2>5. CASE ~Advanced(config)
    <3>1. Mode(g, l) # "advanced"
      BY <1>0, <2>5, ToolsOfFiles DEF Advanced
    <3>2. l.mode # {"advanced"}
      BY <3>1 DEF Mode, Over, Value
    <3>3. k.mode = {"advanced"}
      BY <2>2, <2>5
    <3>4. config.allowed = {} \/ config.denied \cap Required = {}
      BY <3>2, <3>3 DEF Escapes
    <3>5. Only(g, l) = {} \/ Denied(g, l) \cap Required = {}
      BY <1>0, <3>4, ToolsOfFiles
    <3>6. Only(g, l) \cap Denied(g, l) = {}
      BY <1>0, ToolsOfFiles
    <3> QED
      BY <2>3, <3>5, <3>6, ToolsOfFiles
  <2> QED
    BY <2>4, <2>5
<1>5. CASE GlobalAnew \/ LocalAnew
  <2>1. h = g /\ k = l
    BY <1>5 DEF GlobalAnew, LocalAnew, Escapes, Anew
  <2> QED
    BY <1>0, <2>1
<1> QED
  BY <1>1, <1>2, <1>3, <1>4, <1>5, ListsStep DEF ListsChange

LEMMA EntriesLoadStep ==
  ASSUME FilesListed, [Next]_vars, InForce, ~Escapes
  PROVE  Unambiguous(Merged(global', local').profiles)
<1> DEFINE g == global  l == local  h == global'  k == local'
           InUse(a, b) == IF b.profiles # <<>> THEN b.profiles ELSE a.profiles
<1>0. Unambiguous(InUse(g, l)) /\ \A a, b : Merged(a, b).profiles = InUse(a, b)
  BY DEF InForce, Loads, Merged
<1> SUFFICES Unambiguous(InUse(h, k))
  BY <1>0
<1>t. ASSUME NEW f, ~ListedTwice(f) PROVE ~Twice(f.profiles)
  BY <1>t DEF ListedTwice, Twice
<1>u. ASSUME NEW s, ~Twice(s) PROVE Unambiguous(s)
  BY <1>u DEF Twice, Unambiguous
<1>1. CASE ListsKept
  BY <1>0, <1>1 DEF ListsKept, SameLists, ListKeys
<1>2. CASE Upgraded
  <2>1. PICK scope \in {"local", "global"} : Upgrade(scope)
    BY <1>2 DEF Upgraded
  <2>2. ~Twice(g.profiles) /\ ~Twice(l.profiles)
    BY <1>t, <2>1 DEF Escapes
  <2>3. CASE scope = "global"
    <3>1. h.profiles = UpgradedProfiles(g.profiles) /\ k = l
      BY <2>1, <2>3, GlobalLists DEF Upgrade, FilesListed
    <3>2. Unambiguous(h.profiles)
      BY <2>2, <3>1, UpgradedList DEF FilesListed, Listed
    <3> QED
      BY <1>u, <2>2, <3>1, <3>2
  <2>4. CASE scope # "global" /\ broken
    <3>1. h = g /\ k = l
      BY <2>1, <2>4 DEF Upgrade, Escapes, Anew
    <3> QED
      BY <1>0, <3>1
  <2>5. CASE scope # "global" /\ ~broken
    <3>1. k.profiles = UpgradedProfiles(l.profiles) /\ h = g
      BY <2>1, <2>5, LocalUpgraded DEF Upgrade, FilesListed
    <3>2. Unambiguous(k.profiles)
      BY <2>2, <3>1, UpgradedList DEF FilesListed, Listed
    <3> QED
      BY <1>u, <2>2, <3>1, <3>2
  <2> QED
    BY <2>1, <2>3, <2>4, <2>5
<1>3. CASE EntryEdited
  <2>1. PICK a \in Agents, kind \in {"tools", "mcps"}, allowed \in BOOLEAN,
             n \in Resources("tools") \cup Resources("mcps") :
             SetSubAgentResource(a, kind, n, allowed)
    BY <1>3 DEF EntryEdited
  <2> DEFINE t == WithProfile(l.profiles, a, kind, n, allowed)
  <2>2. h = g /\ k.profiles = t
    BY <2>1 DEF SetSubAgentResource, FilesListed, Listed, ListKeys
  <2>3. t # <<>> /\ (Unambiguous(l.profiles) => Unambiguous(t))
    BY EditedList DEF FilesListed, Listed
  <2> HIDE DEF t
  <2>4. Unambiguous(l.profiles)
    <3>1. CASE l.profiles = <<>>
      BY <3>1 DEF Unambiguous
    <3>2. CASE l.profiles # <<>>
      BY <1>0, <3>2
    <3> QED
      BY <3>1, <3>2
  <2> QED
    BY <2>2, <2>3, <2>4
<1>4. CASE SwitchMode
  <2>1. h = g /\ k.profiles = l.profiles
    BY <1>4 DEF SwitchMode, FilesListed, Listed, ListKeys
  <2> QED
    BY <1>0, <2>1
<1>5. CASE GlobalAnew \/ LocalAnew
  <2>1. h = g /\ k = l
    BY <1>5 DEF GlobalAnew, LocalAnew, Escapes, Anew
  <2> QED
    BY <1>0, <2>1
<1> QED
  BY <1>1, <1>2, <1>3, <1>4, <1>5, ListsStep DEF ListsChange

LEMMA EditsLoadStep ==
  ASSUME FilesShaped, FilesListed, [Next]_vars, InForce, ~Escapes
  PROVE  Loads(global', local')
<1>1. Valid(Catalog(global'.llm, local'.llm), Catalog(global'.llm, local'.llm).active)
  BY ModelsLoadStep, Loading
<1>2. Merged(global', local').llm = Catalog(global'.llm, local'.llm)
  BY DEF Merged
<1> QED
  BY <1>1, <1>2, ToolsLoadStep, EntriesLoadStep DEF Loads

(* The commands leave files that load: what is not covered are the seven   *)
(* cases that nothing validates.                                           *)
THEOREM EditsKeepLoading == Spec => EditsLoad
<1>1. FilesShaped /\ FilesListed /\ [Next]_vars
        => ((commands' # commands /\ InForce /\ ~Escapes) => Loads(global', local'))
  BY EditsLoadStep
<1> QED
  BY <1>1, FilesShapedInit, FilesShapedStep, FilesListedInit, FilesListedStep, PTL DEF Spec, EditsLoad

=============================================================================
