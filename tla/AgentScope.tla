----------------------------- MODULE AgentScope -----------------------------
(***************************************************************************)
(* What each agent can see (runtime/agent_scope.py): the tools of the      *)
(* supervisor and of a sub-agent, computed from the loaded configuration   *)
(* and the records of the tool registry.                                   *)
(*                                                                         *)
(* A registry is a set of records with distinct names.  The name of a      *)
(* sub-agent's tool, "subagent_" and the sub-agent's name, is the          *)
(* sub-agent's name.  A scope is what the configuration says of one kind   *)
(* of resource for one agent: its allowed_* list (empty when it is not     *)
(* given, with All in it when it is the word "all") and the add_* and      *)
(* remove_* deltas.                                                        *)
(***************************************************************************)
EXTENDS Naturals, Sequences, FiniteSetsExt

CONSTANTS
  Ask,           \* the tool of kind USER_INPUT (ask_user)
  Agents,        \* names of sub-agents
  Canon,         \* canonical_builtin_subagent_name, as a function
  All,           \* ALL_SCOPE_SENTINEL
  DefaultTools   \* SUPERVISOR_DEFAULT_TOOLS

ASSUME CanonAssumption == Canon \in [Agents -> Agents]

NoScope == [base |-> {}, add |-> {}, remove |-> {}]

Names(records) == {r.name : r \in records}
McpRecords(reg) == {r \in reg : r.source = "mcp"}

\* mcp_tool_names_for_servers
McpTools(reg, servers) == Names({r \in McpRecords(reg) : r.origin \in servers})

\* _apply_scope_delta
ApplyDelta(base, scope, candidates) ==
  (base \cup (scope.add \cap candidates)) \ (scope.remove \cap candidates)

\* The list a scope starts from: everything, the names given, or the default.
Base(scope, candidates, default) ==
  IF All \in scope.base THEN candidates
  ELSE IF scope.base # {} THEN scope.base \cap candidates
  ELSE default

Resolve(scope, candidates, default) ==
  ApplyDelta(Base(scope, candidates, default), scope, candidates)

\* The scope of MCP servers as a scope of the tools they registered.
Expand(scope, reg) ==
  [base   |-> IF All \in scope.base THEN {All} ELSE McpTools(reg, scope.base),
   add    |-> McpTools(reg, scope.add),
   remove |-> McpTools(reg, scope.remove)]

\* MCP tools that a scope of servers allows.  A list of servers none of whose
\* tools is registered allows nothing, it does not fall back to the default.
ResolveMcp(scope, reg, default) ==
  LET all == Names(McpRecords(reg)) IN
  IF scope.base # {} /\ All \notin scope.base
  THEN ApplyDelta(McpTools(reg, scope.base), Expand(scope, reg), all)
  ELSE Resolve(Expand(scope, reg), all, default)

Advanced(config) == config.mode = "advanced"

(***************************************************************************)
(* supervisor_tool_names: explicit lists and deltas bound the direct tools *)
(* and the MCP tools; sub-agents and questions to the user always stay.    *)
(***************************************************************************)
SupervisorTools(config, reg) ==
  LET delegates == Names(reg) \cap Agents
      direct    == Names(reg \ McpRecords(reg)) \ Agents
      mcp       == Names(McpRecords(reg))
      routed    == ~Advanced(config) /\ delegates # {}
      tools     == IF Advanced(config) THEN DefaultTools \cap direct
                   ELSE IF routed THEN {} ELSE direct
  IN  Resolve(config.tools, direct, tools)
        \cup ResolveMcp(config.mcps, reg, IF routed THEN {} ELSE mcp)
        \cup delegates
        \cup (Names(reg \ McpRecords(reg)) \cap {Ask})

(***************************************************************************)
(* subagent_profile: the entry with the sub-agent's own name, or else the  *)
(* last one whose name is an older name of the same built-in agent.        *)
(***************************************************************************)
NoProfile(a) == [name |-> a, tools |-> NoScope, mcps |-> NoScope]

Profile(config, a) ==
  LET profiles == config.profiles
      exact == {i \in DOMAIN profiles : profiles[i].name = a}
      alias == {i \in DOMAIN profiles : Canon[profiles[i].name] = Canon[a]}
  IN  IF exact # {} THEN profiles[Min(exact)]
      ELSE IF alias # {} THEN profiles[Max(alias)]
      ELSE NoProfile(a)

\* configured_subagent_names
ConfiguredNames(config) ==
  UNION {{config.profiles[i].name, Canon[config.profiles[i].name]} : i \in DOMAIN config.profiles}

(***************************************************************************)
(* subagent_tool_names: a sub-agent is offered neither another sub-agent   *)
(* nor a tool that asks the user.  The default is what its definition      *)
(* says: tools is {} when it allows every tool and the singleton of its    *)
(* list otherwise, mcps tells whether it allows every server or none.      *)
(***************************************************************************)
SubAgentTools(config, reg, a, definition) ==
  LET profile    == Profile(config, a)
      candidates == Names(reg \ McpRecords(reg)) \ (Agents \cup {Ask})
      tools      == IF definition.tools = {} THEN candidates
                    ELSE candidates \cap UNION definition.tools
  IN  Resolve(profile.tools, candidates, tools)
        \cup ResolveMcp(profile.mcps, reg, IF definition.mcps THEN Names(McpRecords(reg)) ELSE {})
=============================================================================
