# Nexus: a TLA+ development

Nexus is an interactive coding agent: the user sends messages, a language model
answers with text or with tool calls, and the program runs the tools, asks the
user before it runs those that need consent, and keeps the conversation. This
directory holds TLA+ modules for the parts of it where order, interruption and
failure matter, the TLC configurations that check them, and proofs for TLAPS.
Paths below are relative to `src/nexus/` unless they start with `src/`.

    tlc -workers 2 -config AgentTurn_turn.cfg MCAgentTurn.tla
    tlapm AgentTurn_proofs.tla

`PROJECT.json` maps every definition to the lines it models and lists the runs,
the hazards with the properties about them, and the theorems.

## 1. Inventory

| component | files | state | operations | what makes it correct |
|---|---|---|---|---|
| Turn runner | `runtime/turn_runner.py` | committed events, working history, pending calls, paused turn | run a model batch, commit the safe prefix, ask, resume, finish, cancel | a call runs at most once and only with consent; what ran is remembered |
| Agent loop, schedulers | `runtime/agent.py` | counters, retries, paths mutated and reads seen in a batch, read cache, lanes, tasks | request, check, ask, execute, stop at limits | limits hold, cached reads are current, nothing but a read runs ahead of a question |
| Histories | `runtime/repl_state.py`, `runtime/sessions.py`, `context/compactor.py`, `integrations/*` | `history`, session messages, usage | apply events, sanitize, compact, write in a request format | every conversation sent is one a provider accepts |
| Approval ledger | `security/manager.py` | six tables of approvals and refusals | record, consume, query, begin a turn | authorises nothing the user did not say |
| Permission checker | `security/permissions.py`, `policy.py` | policy | `evaluate` | plan is read-only, high risk always asks |
| Interactive loop | `runtime/repl.py` | the running turn | message, `continue`, abort, exception | a turn starts without the approvals of the last one |
| Sessions, memory, post-session files | `runtime/sessions.py`, `memory/store.py`, `runtime/post_session.py` | JSON files, pointer to the latest session | save, load, prune, set, delete, import, end | a crash loses nothing that was acknowledged |
| Textual interface | `ui/textual_app.py` | prompt task, question slot, preview futures, early answers | submit, type, click, abort, quit | no question is left waiting, no answer goes to another question |
| Sub-agents | `sandbox/agent_tool.py`, `runtime/context_state.py` | continuations, task and agent records, packets | delegate, run, ask, resume a task, give up | a delegate's calls need the same consent; a task keeps what it learnt; a delegation ends |
| Scopes, registry, configuration | `runtime/slash_commands.py`, `runtime/agent_scope.py`, `tools/registry.py`, `tools/subagents.py`, `config/*`, `agents/loader.py` | two configuration files, YAML agents, the registry, the configuration in force | the commands that change or reload them | what is hidden stays hidden; a rebuild is what a start would build |
| MCP client | `tools/mcp.py` | child process, stream, request ids, adapters | connect, call, read, time out, refresh, close | calls end, one process per server, adapters are current |
| Provider clients | `integrations/*` | attempts, reader thread, bounded queue, accumulated calls | request, stream, retry, assemble, cancel | one whole answer per request |
| Tools | `tools/builtin/*` | files, processes | read, edit, insert, patch, write, run a command | an edit removes only what it quotes and does what was shown |
| Clarifications | `runtime/clarifications.py` | request records | create, answer | the bound per turn holds |
| Headless runs | `cli/headless.py` | none | one turn, exit code | nobody is asked, nothing unasked runs |
| Classifier, hooks, orchestration, skills, sandboxes, terminal, observability, prompts | the rest | registries, text | - | - |

How they interact. `repl.py` (or the Textual app, or `headless.py`) appends the
user's message to `ReplState.history`, clears the turn's approvals and awaits
`run_agent_turn`. That loops: `prepare_turn` builds and compacts the messages
for the model, `Agent.run` streams events from a provider client, the runner
collects them up to the first confirmation request, commits the completed
prefix, awaits the approval callback, records the answer in the ledger, and lets
`Agent.run` execute the pending calls with `resume_tool_calls`. At the end of
the turn the caller applies all committed events to the durable history and
saves the session. The ledger is one object shared by the runner (records), the
agent (queries, consumes), the sub-agent tool (both) and the caller
(`begin_turn`). A sub-agent is a tool whose execution is an agent loop of its
own in the supervisor's turn. The registry is shared by the loop, the MCP
adapters and every command that reloads something.

What is hard. Everything but the readers of the provider clients happens in one
event loop, so the interleavings are those of awaits: tasks of a window, tasks a
failed window leaves behind, a keyboard and a mouse that answer the same
question, two calls that read one pipe, an abort at any of them. A response may
be interrupted between any two of its calls, several times, and the history must
come out acceptable each time. Tools, servers and streams fail before or after
their effect. The process may be killed between two file operations. Commands
edit one file and reload from two.

## 2. Modules

| module | models | actions |
|---|---|---|
| `Permissions` | `PermissionChecker.evaluate` | pure: `Evaluate` over classes of calls |
| `PermissionModes` | modes and policies a checker meets (`CheckerSpec`) | `HandleMode`, `EvaluateCall` |
| `ApprovalManager` | the ledger's tables and methods | the methods, as operators |
| `ApprovalUse` | the ledger with its users | answers, executions, turns |
| `Messages` | events, `apply_events_to_messages`, the safe prefix, sanitizing, preparing, compaction | pure; `WellFormed` is what providers accept |
| `WireFormats` | how each provider client writes a history | pure; `Understood` says which call a result is taken for |
| `Consent` | nothing: the abstract promise of the approval flow | answers, refusals, executions |
| `AgentTurn` | turn runner, agent loop, both schedulers, interactive loop; composes the six modules on calls above | see below |
| `Storage` | session files, memory, post-session files, and the commands that reach them | a file operation each, `Crash` |
| `Delegates` | delegation to sub-agents on the supervisor's ledger (extends `ApprovalManager`) | delegate, resume, calls, approvals, deadline, abort |
| `AgentScope`, `ModelProfiles`, `ConfigUpgrade` | which tools an agent sees, how profiles merge and load, the upgrade and the templates | pure |
| `Commands` | the commands that change or reload configuration, agents, servers, registry | one action per command |
| `McpClient` | one server's client, its pipe, concurrent calls, refreshes | server, call, reader, timeout, abort |
| `Providers` | one completion: generator, reader threads, queue, retries | generator and reader steps, abort |
| `Textual` | the full-screen interface around a prompt | user events, prompt task, `keyboard_task` |
| `FileEdits` | the matching and patching algorithms, on lines | pure |
| `Workspace` | the tools that change files or run commands, and a user who edits too | propose, preview, apply, refuse, commands |
| `MC*` | instances for TLC | - |
| `*_proofs` | theorems | - |

**AgentTurn.** Its variables are the program's: `history` and `paused` (ReplState
and the session's metadata), `turn` (the locals of `run_agent_turn` and
`_resume_approved_tool_calls`), `run` (the locals of the `Agent.run` in
progress), `cache` (the context's read cache), `running` (tasks), the ledger.
`issued` gives each requested call its id: call ids are indices, so that one
call requested twice is two calls. `version` counts the mutations of a file and
stands for its contents. `phase` says where the coroutine is:

    idle -> model -> calls ------------------> model / asking / idle
                  -> prepare -> windows -> items -> model / asking / idle
    asking -> resume -> model / asking / idle

Everything between two awaits is one action. An action of a call (`CallAnswered`,
`CallAsks`, `CallExecutes`, `CallRaises`; the same four for resumed calls and
for the items of the parallel-first scheduler) makes all the checks in the
order of the code (`Decide`) and does all that follows: the result event, the
counters, the cache, the consumption of an approval. `AskUser` commits the
prefix and computes the pending calls; `ResumeAsks` and `ResumeDone` commit what
was completed. `FinishTurn` includes the caller's `apply_events`. The
configuration is the variable `config`, chosen at the start from `Configs` and
never changed, so that one run covers several.

A call is one of a few model values with a kind, the class the permission
checker sees, the file it touches and whether its result is cached. The model is
free to request any calls in any order. A tool may answer, answer with an error,
or raise; error results are cached and clear the cache like good ones, so the
model only leaves open (`Effect`) whether the file changed.

**Storage.** `write_text` is two operations, opening (which truncates) and
writing; `replace` and `unlink` are atomic. `proc` holds where the process is and
what it still has to write; `Crash` sets it to `Off` at any point and leaves the
files. A session's contents are the number of turns it holds and the stamp of
its save; memory is a set of keys; each post-session file counts the sessions it
has seen. Written but unflushed data is not lost: the code never calls `fsync`,
and a failure of the operating system is outside the model.

**Delegates.** `d` is the delegation in progress; its batches are
what `AgentTurn` proves about turns, reduced to responses, calls and the way they
end. A call is identified with the file it is about and a task with the number
of the call that began it. `granted` and `denied` are what the user said.

**Commands.** Optional keys are sets: empty when the key is absent, a singleton
otherwise. Lists with deltas are records of base, added and removed names. A
command runs between turns and alone, hence is one action with its reload. The
field `about` of a start is the bound of a behaviour: which names, profiles and
providers its commands mention. A server is active only when a file declares it
(`ActiveServers`). Auxiliary are `hidden`, the denials given by command as triples of
agent, kind and name; `scan`, the YAML sub-agents of the last scan; `answered`, the servers that
answered when last asked; and `skipped`, the tools of theirs that were not registered because
their names were taken. From outside, YAML files vanish, servers stop and answer again, and the
local file is damaged and repaired (`DamageLocal`, `RepairLocal`). Two restrictions are
assumed: tools of different servers have different names, and no tool has the name of a
sub-agent's tool.

**McpClient.** The pipe is a sequence of heads, bodies and lines. `waiter` is the
task that waits in asyncio's reader, which admits one; a second one raises. The
server answers in any order, notifies, crashes, stops. **Providers.** Each attempt has
a reader thread with a bounded queue; a client is a style and a number of
attempts; an answer is a sequence of parts that may break off anywhere. **Textual.**
`keyboard` is the progress of the task that waits for a typed answer, `queued` the
table of early answers, `open` the previews that are still on the screen.
**Workspace.** A line is its stripped text and its indentation; `seen` is what the
conversation last showed the model, `preview` the diff the user was asked about.

## 3. Runs

| run | cfg | asks |
|---|---|---|
| `ledger` | `ApprovalUse_ledger` | does every authorisation go back to an answer? (`ApprovalTraceable`, `NeverMoreThanSaid`, `OnceAtMostTwice`) |
| `permissions` | `PermissionModes_all` | do the rules of `evaluate`, in their order, keep plan read-only and high risk asked? (`PlanIsReadOnly`, `HighRiskNeverUnasked`) |
| `turn` | `AgentTurn_turn` | do interruptions, resumptions and failures keep consent, histories, cache and usage? (`EachCallOnce`, `ProviderSafe`, `ReplaySafe`, `UsageOnce`, `Remembered`, `CacheFresh`, `ConsentKept`) |
| `turn_live` | `AgentTurn_live` | does every turn end? (`TurnEnds`) |
| `storage` | `Storage_files` | what is left after a crash between any two file operations? (`SavedKept`, `LatestIsNewest`, `MemoryKept`, `EndCatchesUp`) |
| `delegates` | `Delegates_tasks` | do delegations keep consent and their tasks, and end? (`HistoryAnswered`, `TaskKept`, `DelegatedConsent`, `FilesKept`, `DelegateEnds`) |
| `commands` | `Commands_scopes` | do commands in any order keep what they were told? (`HiddenStaysHidden`, `YamlKept`, `McpKept`, `RebuildLikeStartup`, `EditsLoad`) |
| `mcp` | `McpClient_calls` | do calls and refreshes survive a server that does anything? (`AdapterCurrent`, `NoStrayProcess`, `CallsEnd`) |
| `stream` | `Providers_stream` | is one whole answer delivered through retries, a full queue and an abort? (`OneAnswer`, `WholeAnswer`, `CompletionEnds`) |
| `textual` | `Textual_asks` | is each question answered, by the user, about that question, and is the session saved as it was? (`AnsweredNow`, `LeftAsKnown`, `QuestionEnds`) |
| `tools` | `Workspace_tools` | do edits do what was quoted and shown while the user edits too? (`SeenIsCurrent`, `OnlyQuotedRemoved`, `AppliedAsShown`, `CommandEnds`) |
| `config_upgrade` | `Commands_upgrade` | does the upgrade keep the scope? It does not: section 4 |

**What the properties say, where it is not obvious.** `ConsentKept` is
refinement: with the ledger's refusals, the recorded answers and the executions
mapped to `Consent`, every behaviour of the turn is one of the promise, nothing
refused included, even under a blanket approval given later. The promise has one
exception, which the mapping states (`FreeUnder`): with parallel tools a read may start
before the question about it, because the parallel lane runs every call of a window that has no result yet
(`runtime/agent.py:1437-1466`); one that was denied or refused before has a result and does
not start. The exception matters where reads need consent, that is with
`auto_confirm_read_only` off in the default mode, and one configuration of the run is of this kind.
`EachCallOnce`
excepts reads that ran ahead of a question in the parallel lane, which the
resumption repeats. `ProviderSafe` and `ReplaySafe` leave out the same case, in
which one call id is answered twice; and `ProviderSafe` leaves the formats that
match results by position or name out of the parallel scheduler, which does not
keep the order of the calls (section 4). `Remembered` leaves out the turns that
end at the tool call limit, with an unusable call, with a failure or an abort:
there the code keeps nothing of a response that was cut short. It also leaves out the
configurations under which the parallel lane asks about reads (`LaneAsks`): a read that was started
before another call asked has no result anywhere. `ReplaySafe` holds
in all these cases. `SavedKept` allows a file to be gone only if as many newer
sessions as are retained exist. `MemoryKept` excepts a write that was cut:
`MemoryStore` writes in place. `DelegateEnds` is a rank that every step lowers,
which is stronger than termination and needs no fairness. `HiddenStaysHidden`
speaks of what a command can hide (section 4). `FilesKept` compares what a task holds with
all its delegations reported (`reports`): it is the first `ItemLimit` of it, so a report is
lost exactly at the limit. `EditsLoad` names the seven cases
that escape the validation; "loads" means three checks of `_validate_config_values`: the active profile
is complete and permitted, no tool is both allowed and denied (the advanced mode adds tools it needs), and no
sub-agent is listed twice. `CallsEnd` is about calls whose request was written, and assumes that the
server stops notifying: the timeout starts anew with each message read
(`tools/mcp.py:263-301`), so a server that never stops keeps a call for ever, and `drain` has no timeout
(`tools/mcp.py:251-257`), so one that does not read does too. `OnlyQuotedRemoved` speaks of calls that promise to
touch nothing else (`Precise`). `CommandEnds` lets `run_tests` and its kind wait
for a process the command left behind.

**Bounds and why they suffice.** *turn*: three calls in batches of two reach an
interruption before, between and after the calls of a response, a second one
during the resumption of the first, and a batch after an interrupted one; three
in one batch reach two windows of the parallel lane and a sequential item behind them. Two
messages are needed for what survives a turn; no state of a turn outlives the
next one. The eight configurations separate consent, questions with unusable
and denied calls, headless auto mode, approvals for the session, and the
parallel scheduler with confirmations, with questions, with confirmations of reads and without any.
`RetryLimit` is 1 instead of 2, the limits 2 or 3, so that they are met.
*turn_live*: `MaxIssued` never binds: under approve-turn a call asks at most
once, so a turn ends by the program's limits and not by the model's.
*ledger*: two answers per key and two turns let the two tables of one-time
approvals drift apart and be cleared again. *storage*: two sessions with one
retained is the least that prunes; three saves and two ends let a save follow a
crashed one. *delegates*: two delegations with the limits of the records at 1 let each
limit drop what the other task left; a task holds up to two files and may report three. *commands*: three commands and one change from
outside (repairs of the local file are not counted), from eight starts with two sets of YAML files, one of
which lists a sub-agent under two names and denies a tool the advanced mode needs; a scope that a third
command brings back needs two before it. *mcp*: two calls are the least that
share the stream; `MaxUnread` bounds what lies unread in the pipe and not the notifications, which
may go on for ever; a third refresh follows a reconnection that failed. *stream*:
no, one or two attempts, a queue of two for answers of up to four parts, so that
it fills. *textual*: two prompts for an answer that outlives one, two
requests for a preview left by another. *tools*: one call with the user's edit
before it or while it is being decided, on files whose lines repeat or not, one in the
root and one of the same name in a directory (for the prefixes of patches).

**Deadlock.** It is checked in `permissions` and `storage`, where the process can
always start again. The other cfgs say `CHECK_DEADLOCK FALSE` because
their bounds (messages, delegations, commands, calls, prompts) or the end of a
completion stop every behaviour; that nothing gets stuck on the way is the
business of `TurnEnds`, `DelegateEnds`, `CallsEnd`, `CompletionEnds`, `QuestionEnds`
and `CommandEnds`.

**Symmetry** is used in `storage` only, over sessions; its temporal property
is about single steps and names no session.

**Fairness.** `AgentTurn`: weak fairness of `TurnStep`: the event loop runs a
coroutine that can run, the model client and the tools return or raise (both
have time-outs), and the user answers. Nothing is assumed of which answer, of new
messages or of aborts. Under on-request a turn has no bound, as each
confirmation starts the agent afresh with fresh counters; hence approve-turn.
`McpClient`: weak fairness of each task's steps, its timeout among them; nothing of
the server, which may never read a request. `Providers`: weak fairness of the generator and of the reader
threads, whose sockets have timeouts. `Textual`: weak fairness of the two tasks and
strong fairness of the user typing a valid answer, because an unclear answer
closes the slot and opens it again. `Workspace`: weak fairness of the timer and of noticing
that a process is gone; processes need not end.

The type invariants of the modules hold in the same instances; those of the
ledger, of `PermissionModes`, and the parts of the others that the proofs need
are proved.

## 4. The finding, and observations

**The finding** (`config_upgrade`, `UpgradeKeepsScope`). `/config upgrade` replaces a
list of allowed tools by its differences from the default tools
(`config/upgrade.py:478`). In the basic mode, where every registered tool is
allowed unless it is removed, `allowed_tools = ["read_file"]` thereby lets in every tool
the defaults do not name. The docstring of the command says "Existing user values are
preserved except for mechanical migrations" (`runtime/slash_commands.py:2009-2010`).

What follows was seen while modelling. It is in the models (or noted as left out) but no
run speaks of it; most of it explains why a property is stated as it is.

*Turns.*
- The parallel-first scheduler starts a read it is about to ask for
  (`runtime/agent.py:1440`); the calls pending after a "yes" are the suffix of the
  response, with the reads that ran ahead, so these run again and one call id is
  answered twice (`runtime/turn_runner.py:781`). Calls answered ahead of
  a question are answered again too.
- The same scheduler appends the results of a window before those of the sequential
  items (`runtime/agent.py:1473-1522`, `1548-1594`), while `integrations/ollama.py:15-16`
  says that results are matched by position.
- The guards against a second mutation of a file (`runtime/agent.py:200`) and the tool call
  limit start afresh with each run of the agent, so both are weaker across a
  resumption than within a response; the notice at `runtime/agent.py:2228` speaks of the turn.
- In [read, edit, read] the last call is told to use the result from before the
  edit (`runtime/agent.py:986`).
- The usage of a response none of whose calls completed before a "no" is never counted.
- `once` stores an exact and a normalised token, and an execution takes one of each
  of its own keys, so one answer may explain two look-alike calls
  (`security/manager.py:5` says "a single invocation"; `OnceAtMostTwice` is what holds).
  The normalised key is lower-cased as a whole, paths included.
- `approval_policy = plan` reaches the ledger and not the agent's checker
  (`runtime/agent.py:117`; `src/README.md:657` says "Deny mutating actions"). `/mode auto`
  announces "no confirmation prompts" (`runtime/slash_commands.py:555`), and full overwrites and
  high-risk commands still ask.
- The hard limit has no effect in `ContextCompactor.compact`, which keeps every recent message
  (`context/compactor.py:103-104` says otherwise), and compaction is run
  anew on the whole history before every request; a compacted conversation may begin
  with an assistant message.

*Commands and configuration.*
- The upgrade also puts a default tool into `remove_tools` that `add_tools` names, turns
  an empty list into the removal of all defaults, drops "all" for servers, and drops an
  entry equal to the defaults, whose sub-agent the basic mode then no longer loads.
  On the local file it writes explicit empty lists and `agent_mode = "basic"`, which override
  the global file. The upgrade at the start reloads the configuration and not the tools;
  `/config reinit` does not rebuild the tools either.
- Hiding a server's tool, a sub-agent or `ask_user` by its own name is reported and has no
  effect. Lists of the local file replace those of the global one.
- `_reload_tools` passes no model client factory, so sub-agents it rebuilds use the
  client for tests (`runtime/slash_commands.py:2101-2114`, `sandbox/agent_tool.py:299`), while
  `src/docs/sub-agents-integration.md:139` recommends the command. A name collision
  raises in it and leaves a partial registry. Command-line overrides are lost in `_reload_config`.
- A YAML agent that replaced a built-in one is not restored until `/tools reload`; built-in
  sub-agents get no MCP tools, unlike `src/docs/mcp-integration.md:341` says.
- `/provider use legacy-current` writes a made-up profile that later loads refuse;
  deleting a profile the local file refines makes the pair unreadable; the legacy
  `/provider set provider` is not validated; leaving the made-up profile for another uncovers a
  profile of its name that the local file refines and the global one no longer holds
  (`config/loader.py:867`), and the files do not load; saving a profile that the local file overrides
  has no effect.
- `/agent switch advanced` is refused by no check, and where `allowed_tools` is given and a tool the mode
  needs is denied, the files no longer load (`config/loader.py:681-685`, `920-926`). `/config upgrade` gives
  two entries of `subagent_profiles` one name where they are two names of one sub-agent, and only equal
  ones are merged (`config/upgrade.py:658-663`), so that they do not load either (`config/loader.py:696-705`).
- An unknown mode, a count that is no number and a missing session raise out of the
  dispatcher and end the loop without its last save.

*Files.* A headless run applies the events of its turn and does not save the session
afterwards. `MemoryStore.save` writes in place; a torn file is set aside and the older
memory file imported again. The post-session files are replaced atomically, but each is
read, changed and written, and errors on the way are swallowed.

*Sub-agents.* The clarification branch is not reachable, as a sub-agent is never offered
`ask_user`. Events of a batch that stopped to ask are dropped. A file that was
read counts as modified (its `path` metadata). The deadline is a moment fixed at the start
(`sandbox/agent_tool.py:375`, `792-793`): a question is not cancelled by it, but the time the user takes to
answer counts, and a late answer is followed by a batch that is cut at once. Of the files of a task the first twelve
are kept (`runtime/context_state.py:1043`), so a task resumed at the limit forgets what is new. A continuation saved again keeps its place in
the dictionary, and so in the order of dropping.

*MCP.* Two parallel reads of one server make the second reader raise, and its answer is
dropped; a timeout in the middle of a message leaves the stream off its framing; the timeout counts
per message read, while `src/docs/mcp-integration.md:167` calls it the "Timeout for `tools/call` execution"; a refresh that fails leaves the registered tools on a closed client.

*Providers.* A connection closed without the terminator counts as a complete answer
(hence `WholeAnswer` compares with what was sent). With `max_retries = 0`, which is
Ollama's default (`integrations/registry.py:78`), its client sends nothing at all. The
plain request of the OpenAI client may raise out of the generator. Cohere's reader
is never cancelled. Ids made by the Gemini and Ollama clients recur after a restart.

*Textual.* An `/abort` that arrives while the cancelled `keyboard_task` is awaited is swallowed
(`ui/textual_app.py:1905-1909`). One during the hooks of a submitted prompt is not acknowledged,
and quitting then, after `continue`, loses the paused task.

*Tools.* `apply_patch` strips a prefix twice; its hunks use the line numbers of the
old file on lines that earlier hunks shifted, insertions without context land
one line early, and a deletion does not look at the content. Edits by
`context_anchors` or similarity replace the lines in between, and `replace_all` over matches that
overlap corrupts the file (`Precise` leaves these out). `insert_edit` with one marker
deletes what is between its anchors, and its confirmation shows the snippet as
the whole file. A shell command whose leader has exited leaves its children alive at the timeout,
and `/abort` leaves them all.

## 5. Proofs

TLAPS proves, for every value of the constants that the modules' named
assumptions admit (TLC evaluates them in the runs):

| module | theorem | property |
|---|---|---|
| `AgentTurn_proofs` | `LedgerOnlyWhatWasSaid` | `ApprovalsSaid`: in the whole system a call passes without asking only under an answer in force |
| | `CachedReadsAreCurrent` | `CacheFresh`: a cached read is the file's present contents |
| | `ConsentIsKept` | `ConsentKept`: the turn runner implements the promise of `Consent`, under every configuration |
| | `CallsRunOnce` | `EachCallOnce`: no call is executed twice |
| | `UsageIsCountedOnce` | `UsageOnce`: the tokens of a response are counted once |
| | `CallsAreRemembered` | `Remembered`: the next turn replays every call that was executed, where the lane does not ask about reads |
| `AgentHistory_proofs` | `HistoriesStayReplayable` | `ReplaySafe`: what the next message replays is a conversation that a provider accepts |
| | `ConversationsUnderstood` | `ProviderSafe`: every request is a conversation the provider accepts and understands, in each format |
| `Answers_proofs` | `TypeCorrect`, `LedgerNeverExceedsAnswers`, `AuthorisationsAreTraceable`, `AnswersServeTwice` (of `ApprovalUse`) | types, `NeverMoreThanSaid`, `ApprovalTraceable`, `OnceAtMostTwice` |
| | `PlanNeverMutates`, `HighRiskAsks` (of `PermissionModes`) | `PlanIsReadOnly`, `HighRiskNeverUnasked` |
| | `AnswersAreOfThisPrompt`, `LeavesWhatItKnew` (of `Textual`) | `AnsweredNow`, `LeftAsKnown` |
| `Commands_proofs` | `DenialsAreKept` | `HiddenStaysHidden`: what a command hid stays hidden |
| | `YamlAgentsAreKept`, `ServerToolsAreKept` | `YamlKept`, `McpKept` |
| | `EditsKeepLoading` | `EditsLoad`: a command leaves files that load, but for seven named cases |
| | `RebuildsAreLikeStarts` | `RebuildLikeStartup`: a rebuild registers what a start would |
| `Tools_proofs` | `OneProcess`, `AdaptersHoldTheClient` (of `McpClient`) | `NoStrayProcess`, `AdapterCurrent` |
| | `PictureCurrent`, `WritesWhatWasShown` (of `Workspace`) | `SeenIsCurrent`, `AppliedAsShown` |
| `Providers_proofs` | `OneRequest`, `AnswersAreWhole` | `OneAnswer`, `WholeAnswer` |
| `Storage_proofs` | `MemoryIsKept`, `EndsCatchUp`, `PointerIsNewest`, `SavesStay` | `MemoryKept`, `EndCatchesUp`, `LatestIsNewest`, `SavedKept` |
| `Delegates_proofs` | `HistoryIsAnswered`, `TasksAreKept`, `ChangesAreApproved`, `FilesAreKept`, `EveryDelegationEnds` | `HistoryAnswered`, `TaskKept`, `DelegatedConsent`, `FilesKept`, `DelegateEnds` |

None of these properties is inductive. What is added, and why:

*The ledger in the turn.* `ApprovalsSaid` does not say which table an approval came
from. `AnswersRecorded` ties each table to the answers of its own kind. `LedgerStep` shows
that every step of the system does one of six things to the ledger and the
recorded answers: nothing, consume, begin a turn, record a yes, a blanket, a no;
`AnswersRecordedStep` treats the six. No typing of the rest of the state is needed.

*The read cache.* A step does one of three things (`CacheStep`): it leaves the cache and
the versions of all files alone; it stores the version it has just read; or it empties the
cache, whatever it did to the files. The assumption on the tools says what the
registry's metadata say: only reads of a file are cacheable, and a read mutates nothing.

*The promise.* The invariant (`ConsentBase`,
`TurnInv`) says that a refusal of the turn is in the ledger's table of refusals, that
calls in flight may run, and that a call the resumption holds was granted. What the lane asks
about is a read that the promise lets start (`LaneDecides`): its outcome is a question only if the
permissions do not deny it and the user has not refused it, and neither changes before the window opens.

*Calls once.* The ids of a batch grow. What has not run yet is kept in that order in
four places: the queue of calls, the lane, the items that follow it, and
the calls pending after a question; `OnceInv` says of each that it is increasing and
lies above what has run. The exception, `Again`, is made exact: of a batch, only reads of
the parallel lane run ahead of the items before them. The filters that carve a lane or
the pending calls out of a batch are recursive functions (`KeepIn`, `Sorted`), about which
`KeepInSteps` and `SortedSteps` say once what each step of the recursion does; `Climb` carries
a fact along the steps.

*Usage once.* `EventsCounted` separates what is committed from the events of the run: each reports
its usages once, neither reports the other's, and all are of calls that were requested, so a new
response reports a new one. `OfBatch` says that the calls asked about, pending or resumed are
calls of the last response. That makes `UsageCommitted`, the test the code makes before it
repeats the usage with a resumed part, the right one: if it fails, no committed event has this
usage, and if it succeeds, the usage of just these calls is committed already.

*Memory.* `RememberInv` places each executed call (`RanKept`): in what is committed (`Replays`), among
the results of the run, or in the window in progress. `RunAnswers` adds that a run answers
all calls of its responses, after them, unless a limit or a question interrupts the batch; then the
turn ends in a way that `Remembered` leaves out, or asks, and a question commits the
narrowed responses (`SafeReplays`). The filters of the history keep a result
together with its response (`EventsApplied`, `FollowKept`, `FollowPrepared`). All this is an invariant where
the lane does not ask (`LaneRemembers`), which is a matter of the configuration.

*Histories.* That a filtered conversation is well formed is no invariant: a history may
hold a result whose response was left out, and it is the replay that drops it. `Shaped` says what
stays true of the history itself: a response with calls is followed at once by the results of just
these calls, a result elsewhere belongs to no response of the history, and later messages
are about later calls (`ShapedReplays` shows that this is enough). The events that make the
history have to come in `Blocks`: the calls of a response grow, no two responses share
one, and nothing but its own results stands between a response and one of its results. Then the
responses that `apply_events` keeps, those with all their results, make shaped messages (`BlocksApplied`), and
`_history_safe_completed_events` leaves blocks (`SafeBlocks`). `ReplayShape` keeps the blocks apart:
the events of a run are about later calls than those committed (`Fits`), calls
that are queued, sorted or in a window have no result yet, and pending calls come after
all that is committed or resumed. Here the order of `OnceInv` is used again: a question cuts a
response at the asked call, so the part committed lies below the part that is pending. Where a lane
runs ahead of a question it does not, and the same call is answered twice; hence `~RunsAhead`.

*Requests.* `SpokenInv` puts together what a request rests on. From `ReplayShape`: the working
history is a conversation in shape. From `RememberInv`: when the model is asked, a run has
answered all calls of its responses. So the sanitized history and the messages of the run are
`Neat`: in shape, and no result stands without its call. Neat is kept by the compaction, which
steps back to a response or forward over results that have lost theirs, and by the warnings,
which come after all results of a batch (`NeatMoved`: whatever keeps each batch together and
adds only messages of the user). `NeatFormed` is the first half of `ProviderSafe`. The other
half is about how a provider finds the call of a result. With ids it suffices that calls
differ. Gemini tells the calls of one function apart by their order and Ollama all calls by
theirs, and for these the invariant says more: one call after the other, later results are
results of later calls (`TalkRises`, which each way of committing, resuming and refusing calls
keeps; under the parallel scheduler it is false). In a neat conversation whose results rise, a
result stands at the place of its call (`RiseInPlace`), and then it is the n-th result of a
function exactly if its call is the n-th call (`FoundByCount`, `FoundByPlace`).

*The ledger in use.* The same with counts: each counter is at most the number of
answers, and the sets are contained in what was said. `OnceAtMostTwice` counts
executions, normalised entries and exact entries of calls that look alike together: an answer
adds at most two entries and an execution takes at least one.

*Permissions.* The decision recorded is `Evaluate` of the recorded call and mode
(`DecidedInv`); the rest is a case analysis of `Evaluate`.

*MCP.* `Inv` counts processes by whether the client is open, and says for each phase of
a refresh what the adapters hold and which task may be waiting.

*Workspace.* `WorkInv` adds to `SeenIsCurrent` that a call waiting for its confirmation has a diff
made by the function that will write (`PreviewOfCall`). How a snippet or a hunk finds its
place is left open: the theorems hold for any matching. A patch is followed file by file
(`PatchSpares`): it leaves files it does not name alone, and all of them while none could be
patched, which is the case in which the result shows nothing anew.

*Providers.* `OneAnswer`: everything buffered while the generator reads comes from the
latest attempt, and nothing was given out while it may still start another one. `WholeAnswer`:
`WholeInv` follows each token from the stream to the answer. The queue is the end of what the
reader has read; the delivered events, the buffer and the fragments of the calls being
assembled are, put together, what the generator has taken of it. `Flat`, which joins
fragments, distributes over concatenation (`FlatJoins`).

*Textual.* An answer passes through four places (typed text, the future of a
preview, the table of early answers, the response). `AnswerInv` says of each that what lies there
was said about its request in this prompt; the table counts only once the turn has
begun, because it is cleared then. `SavedInv` says where the message of the prompt is in
each stage: in the history and not yet in the session.

*Storage.* `MemoryInv`: what remains to be written ends with what was asked,
and an import before it writes what is remembered already. `PostInv`: each
stage of a session's end finds the earlier files brought up to date.
`NewestInv`: stamps are bounded by the clock, a file is in place before the pointer
names it, and pruning spares the newest. `KeptInv` adds that for
a session whose file is gone or about to be removed, as many later ones as are retained will stay:
if too few of the later ones were spared, the newest of the others would be spared
too (`SparedSuffice`).

*Delegates.* `OpenInv`: a call without its result is the call being resumed,
and only in that phase. `LedgerInv` ties each table of the ledger to what was granted, and `PendingInv`
says of the call asked about that it was not refused before and, once resumed, is granted. The
rank of `DelegateEnds` is the number of responses left, times `MaxCalls + 4`, plus a phase.
`TaskInv`: the sequence of continuations holds no task twice and is within its limit, a task
that exists has one, and the delegation in progress either began its task or holds the very
record it resumed. For `FilesKept` that record holds the first `ItemLimit` of what was reported so far, and to
merge the new files after it and cut is to cut what was reported in all. The number of files is assumed finite, since the limits
on what is merged count them.

*Commands.* Every step does one of six things to the registry (`RegistryStep`): nothing, a rebuild, a
restart of the servers, a refresh of one, a scan of the YAML files, a reload of the skills. The
lemmas on registration say of each layer which sources it adds and that it leaves the others alone.
`ServersInv` says that a server's tool in the registry is one the server offers, and that of the
servers that answered every tool is registered or in `skipped`. Writing it corrected
`McpKept`, which held within the bounds of the run and not beyond: a server's tool
that was passed over because a core tool had its name stays away after the core tool is
disabled, until the server is asked again, and `RebuildLikeStartup` has the same exception.
For `HiddenStaysHidden`, `HiddenInv` says that the local file holds deltas and no lists
of its own (`DeltasOnly`) and that each denial is among the removals of the entry that counts
(`Removes`): of several entries for one sub-agent the first, which is the one
that is edited, and which the upgrade's renaming and
removal of duplicates leave first (`UpgradeKeepsEntries`). `Apart` keeps the three kinds of tools
under different names. That the local file is merged over the global one gives the rest.
For `EditsLoad`, `LoadsWell` says what the merged tables must satisfy, and each edit is
followed from the catalogue its validation saw to the merge of the written files. The attempt
found an exception that takes three commands from a global file that no start of the
run had (a made-up profile that hides an incomplete one); one was added. For the other two checks, no
edit adds a denied tool or, except the upgrade, gives an entry another name; the upgrade's renamings
collide only in a file with two names of one sub-agent.

**How sequences are treated.** Induction over data is out of the prover's reach, as the
induction theorems take an operator. Where a theorem needs what a recursive function computes for
every sequence, the set of lengths at which it is right is shown to contain 0 and each
successor, and has no least element outside it, because the natural numbers are well founded
(`WFMin`, a theorem without operator parameters).

**Only model-checked.** `OnlyQuotedRemoved`, which rests on the matching algorithms: they are folds
over the candidate places, with operators for arguments. Liveness
under fairness (`TurnEnds`, `CallsEnd`, `CompletionEnds`, `QuestionEnds`,
`CommandEnds`) is out of the proof system's reach.

## 6. Not modelled

- The command classifier: regular expressions on command lines. The checker's model takes any verdict.
- Hooks, observability, terminal, prompts, rendering and transcripts: they change nothing a turn reads.
- Sandboxes (process and container start-up), orchestration (a wrapper of the turn
  runner and keyword heuristics), loading of skills and extensions (files into registries).
- Of parts that are modelled: the stored records of clarifications; token counts (where
  a conversation is cut is a choice); output pruning; rolling summaries, artifacts and events of the context
  state (written only); exit codes and JSON of headless runs; scalar options, environment
  overrides and the text of TOML, hence the loader's checks of numbers and of `delegation_subagents`; `/config set` and
  `/config reset` of a single key, which may write anything; commands that only print; the reading of a sub-agent's JSON report;
  searching, web, git and todo tools.
- Branches nothing reaches: a clarification request of a tool other than `ask_user`, an approval
  request under `auto_confirm`, clarifications of sub-agents, `should_auto_approve`.
- Loss of written data by the operating system.

## 7. What could follow

1. The records of clarifications, with their bound and expiry, composed with `AgentTurn`.
2. Two sub-agents whose turns are those of `AgentTurn` instead of the batches of `Delegates`.
3. `Storage` with two processes on one directory, which the code does not exclude.
4. The rolling summaries of the context state and their size bounds.
