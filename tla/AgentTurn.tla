----------------------------- MODULE AgentTurn -----------------------------
(***************************************************************************)
(* One conversation: the user sends messages, the turn runner              *)
(* (runtime/turn_runner.py) runs the agent (runtime/agent.py) until the    *)
(* turn ends, asks the user where a tool call needs consent, resumes the   *)
(* pending calls after a "yes", and hands the events to the durable        *)
(* history (runtime/repl_state.py).                                        *)
(*                                                                         *)
(* The coroutines are interleaved where they await something: the model,   *)
(* a tool, the user.  Everything between two awaits is one action.  The    *)
(* model is free: it may request any calls, answer with text, return an    *)
(* empty truncated response, or fail.  Tools may raise, with or without    *)
(* their effect, and the user may abort whenever a turn is running.        *)
(***************************************************************************)
EXTENDS ApprovalManager, Permissions, WireFormats

CONSTANTS
    Tool,          \* what a call is: [kind, perm, path, cacheable]
    Paths,         \* the files of the workspace
    NoPath,        \* the path of a call that touches no file
    Configs,       \* the configurations a session may run under
    RetryLimit,    \* INVALID_TOOL_CALL_RETRY_LIMIT
    MaxIssued,     \* bound: calls the model requests in all
    MaxMessages    \* bound: messages of the user

Kinds == {"tool", "unknown", "invalid", "question"}

ASSUME ToolAssumption ==
    /\ Tool \in [Calls -> [kind : Kinds, perm : ToolCalls,
                           path : Paths \cup {NoPath}, cacheable : BOOLEAN]]
    \* _read_result_cache_key: only reads are cached, and of a file.
    /\ \A c \in Calls : Tool[c].cacheable =>
          ~Tool[c].perm.mutating /\ Tool[c].path \in Paths

\* What a session is configured with, and what the model may ask for.
Configurations ==
    [policy : ApprovalPolicies,   \* config.approval_policy
     mode : Modes,                \* ReplState.mode during the turns
     autoConfirm : BOOLEAN,       \* --auto-confirm
     autoReads : BOOLEAN,         \* config.auto_confirm_read_only
     callback : BOOLEAN,          \* somebody can be asked
     parallel : BOOLEAN,          \* config.parallel_tools
     window : Nat \ {0},          \* config.parallel_tool_window
     toolCalls : Nat \ {0},       \* config.max_tool_calls_per_turn
     loops : Nat \ {0},           \* config.max_loop_iterations
     questions : Nat \ {0},       \* config.ask_user_max_questions_per_turn
     batch : Nat \ {0},           \* bound: calls in one model response
     requests : SUBSET Calls]     \* bound: the calls the model chooses from

ASSUME ConfigAssumption ==
    /\ NoPath \notin Paths
    /\ Configs \subseteq Configurations
    /\ {RetryLimit, MaxIssued, MaxMessages} \subseteq Nat

VARIABLES
    config,    \* the session's configuration
    history,   \* ReplState.history, the durable conversation
    paused,    \* the reason of the paused turn in the session's metadata
    phase,     \* where the running turn is
    turn,      \* the locals of run_agent_turn
    run,       \* the locals of the Agent.run in progress
    issued,    \* the calls the model requested; a call id is an index
    cache,     \* the read-result cache of the execution context
    running,   \* ids of tasks of a parallel window that have not finished
    version,   \* the files' contents, as a count of their mutations
    ended,     \* how the last turn ended
    messages,  \* user messages so far
    said,      \* auxiliary: the user's answers
    ran        \* auxiliary: ids of the calls executed in this turn

world == <<issued, cache, running, version, ran>>
user == <<config, messages, said>>
vars == <<ledger, history, paused, phase, turn, run, world, ended, user>>

Phases == {"idle", "model", "prepare", "windows", "items", "calls", "resume",
           "asking"}
Limits == {"tool_call_limit", "max_turns"}
Ends == Limits \cup {"", "stop", "invalid_tool_call", "failed", "stopped",
                     "awaiting_confirmation", "aborted", "raised"}

FreshTurn(start) ==
    [working |-> start,    \* working_history
     committed |-> <<>>,   \* committed_events
     pending |-> <<>>,     \* pending_tool_calls, while resuming
     asked |-> 0,          \* the call the user is asked about
     resuming |-> FALSE,   \* the question comes from resumed calls
     questions |-> 0,      \* clarifications counted for this turn
     batch |-> <<>>]       \* the calls of the last response of the batch

FreshRun ==
    [events |-> <<>>,      \* the events of this run
     queue |-> <<>>,       \* calls of the response not yet processed
     executed |-> 0,       \* tool_calls_executed
     loops |-> 0,          \* turn_index
     muts |-> {},          \* mutating_paths_this_batch
     seen |-> {},          \* read_keys_this_batch
     retries |-> [c \in Calls |-> 0],
     lane |-> <<>>,        \* parallel_items not yet in a window
     window |-> <<>>,      \* the window in progress
     items |-> <<>>,       \* sequential_items not yet processed
     cut |-> FALSE]        \* hit_limit

NoCache == [c \in Calls |-> 0]

Init ==
    /\ LedgerInit
    /\ config \in Configs
    /\ history = <<>>
    /\ paused = ""
    /\ phase = "idle"
    /\ turn = FreshTurn(<<>>)
    /\ run = FreshRun
    /\ issued = <<>>
    /\ cache = NoCache
    /\ running = {}
    /\ version = [p \in Paths |-> 0]
    /\ ended = ""
    /\ messages = 0
    /\ said = [agreed |-> {}, always |-> {}, wide |-> FALSE]
    /\ ran = <<>>

-----------------------------------------------------------------------------
(* What the agent decides about a call.                                    *)

Mutating(c) == Tool[c].perm.mutating

\* The agent's checker keeps its default policy (see PermissionModes).
VerdictUnder(rules, c) ==
    Evaluate(Tool[c].perm, rules.mode, "on-request", rules.autoReads)

Verdict(c) == VerdictUnder(config, c)

\* _affected_file_paths
Affected(c) ==
    IF Mutating(c) /\ Tool[c].path # NoPath THEN {Tool[c].path} ELSE {}

\* _missing_required_fields
Incomplete(c) == Tool[c].kind = "invalid"

\* create_request refuses a question over the limit of the turn.
Asked == IF turn.questions < config.questions THEN "question" ELSE "limit"

\* Mutant of Decide: a pre-approval is looked up before the refusals.
DecideApprovalFirst(c, muts) ==
    IF Incomplete(c) THEN "missing"
    ELSE IF Tool[c].kind = "question" THEN Asked
    ELSE IF Verdict(c) = "deny" THEN "denied"
    ELSE IF IsToolPreapproved(c) THEN "run"
    ELSE IF IsRefused(c) THEN "refused"
    ELSE IF Affected(c) \cap muts # {} THEN "blocked"
    ELSE IF Verdict(c) = "confirm" /\ ~config.autoConfirm THEN "confirm"
    ELSE "run"

\* The checks every path makes, in the order of the code: required fields,
\* ask_user, permission, refusal, same-file mutation, consent.
Decide(c, muts) ==
    IF Incomplete(c) THEN "missing"
    ELSE IF Tool[c].kind = "question" THEN Asked
    ELSE IF Verdict(c) = "deny" THEN "denied"
    ELSE IF IsRefused(c) THEN "refused"
    ELSE IF Affected(c) \cap muts # {} THEN "blocked"
    ELSE IF /\ Verdict(c) = "confirm"
            /\ ~config.autoConfirm
            /\ ~IsToolPreapproved(c) THEN "confirm"
    ELSE "run"

Known(c) == Tool[c].kind # "unknown"

\* The sequential loop also skips a read that is already in the batch.
SequentialOutcome(c) ==
    IF ~Known(c) THEN "unknown"
    ELSE IF Tool[c].cacheable /\ c \in run.seen THEN "duplicate"
    ELSE Decide(c, run.muts)

\* _execute_approved_tool_calls
ResumeOutcome(c) == IF Known(c) THEN Decide(c, run.muts) ELSE "unknown"

\* Outcomes that need neither the tool nor the user: the model is told to
\* repair the call, that it may not make it, or that it need not.
Repairs == {"unknown", "missing"}
Denials == {"denied", "refused", "limit"}
Immediate == Repairs \cup Denials \cup {"blocked", "duplicate"}
Asking == {"question", "confirm"}

\* The repair attempts of a hallucinated or incomplete call are used up.
OutOfRetries(c, out) ==
    out \in Repairs /\ run.retries[c] >= RetryLimit

\* The tool a call names, and what is wrong with its arguments.
Named(c) == <<Tool[c].perm.name, Tool[c].kind>>

\* unknown_tool_retries counts by name, invalid_argument_retries by name and
\* missing fields.
Retried(retries, c, out) ==
    [d \in Calls |-> IF out \in Repairs /\ Named(d) = Named(c)
                     THEN retries[d] + 1 ELSE retries[d]]

\* create_request counts a clarification when the request is created.
Counted(out) == turn.questions + (IF out = "question" THEN 1 ELSE 0)

-----------------------------------------------------------------------------
(* The turn runner.                                                        *)

\* prepare_turn and a new Agent.run on the working history: a fresh context,
\* so an empty read cache, and fresh counters.
StartRun ==
    /\ phase' = "model"
    /\ run' = FreshRun
    /\ cache' = NoCache

\* consume_turn_prompt: `continue` stands for the paused task.
ResumesPaused(continue) == continue /\ paused # ""

MarkPaused(reason) == paused' = reason

\* _sync_paused_turn_state: only the limits leave a turn to be continued.
SyncPaused(status) == MarkPaused(IF status \in Limits THEN status ELSE "")

\* A new user message.  `continue` after a pause resumes the paused task and
\* leaves the approvals as they are; any message ends the pause.
UserMessage(continue) ==
    LET resumed == ResumesPaused(continue)
    IN  /\ phase = "idle"
        /\ messages < MaxMessages
        /\ messages' = messages + 1
        /\ history' = Append(history, User)
        /\ paused' = ""
        /\ IF resumed
           THEN UNCHANGED <<ledger, said>>
           ELSE /\ BeginTurn
                /\ said' = [said EXCEPT !.agreed = {}, !.wide = FALSE]
        /\ turn' = FreshTurn(history')
        /\ StartRun
        /\ ran' = <<>>
        /\ UNCHANGED <<config, issued, running, version, ended>>

\* Mutant of FinishTurn: run_agent_turn returns the last batch only.
FinishTurnLastBatch(events, status) ==
    /\ history' = ApplyEvents(history, events)
    /\ SyncPaused(status)
    /\ ended' = status
    /\ phase' = "idle"
    /\ turn' = FreshTurn(<<>>)
    /\ run' = FreshRun

\* _finish_turn with the committed events and the last ones, and apply_events
\* in the caller.
FinishTurn(events, status) ==
    /\ history' = ApplyEvents(history, turn.committed \o events)
    /\ SyncPaused(status)
    /\ ended' = status
    /\ phase' = "idle"
    /\ turn' = FreshTurn(<<>>)
    /\ run' = FreshRun

\* A run that ends with a message of the agent's own.
EndWithNotice(events, reason) ==
    FinishTurn(events \o <<Response(<<>>, <<>>), Done(reason)>>, reason)

\* The calls of the last response before a confirmation, from id on.
PendingFrom(events, id) ==
    LET last == SelectLastInSeq(events, LAMBDA e : e.kind = "response")
        calls == events[last].calls
    IN  KeepIn(calls, {i \in ToSet(calls) : i >= id})

\* Events go to the working history and to those committed so far.
Committed(events) ==
    [turn EXCEPT !.working = ApplyEvents(@, events), !.committed = @ \o events]

\* A confirmation request after the given events of a run: the completed
\* part is committed, then the user is asked, or the turn ends.
AskUser(events, id, questions) ==
    LET safe == HistorySafe(events)
    IN  IF config.callback
        THEN /\ phase' = "asking"
             /\ turn' = [Committed(safe) EXCEPT
                           !.pending = PendingFrom(events, id),
                           !.asked = id,
                           !.resuming = FALSE,
                           !.questions = questions]
             /\ run' = FreshRun
             /\ UNCHANGED <<history, paused, ended>>
        ELSE FinishTurn(Append(safe, Ask(id)), "awaiting_confirmation")

\* The last response was committed in part, with its usage.
UsageCommitted == \E e \in ToSet(turn.committed) : e.usage = turn.batch

\* Mutant of ResponseFor: every part of a response reports its usage.
ResponseForCounting(calls) == Response(calls, turn.batch)

\* _model_response_for_pending_tool_calls: the part of the last response with
\* these calls, with its usage unless that was committed before.
ResponseFor(calls) ==
    Response(calls, IF UsageCommitted THEN <<>> ELSE turn.batch)

\* The resumed calls that have a result, as one narrowed response with its
\* results; none when nothing was completed.
Resumed(events) ==
    LET done == ResultIds(events)
        calls == KeepIn(turn.pending, done)
    IN  IF calls = <<>> THEN <<>>
        ELSE <<ResponseFor(calls)>> \o HistorySafe(events)

\* Mutant of CommitResumed: the completed calls stay pending.
CommitResumedKeepsPending(events) == Committed(Resumed(events))

CommitResumed(events) ==
    [Committed(Resumed(events)) EXCEPT
        !.pending = KeepIn(@, ToSet(@) \ ResultIds(events))]

\* Agent.run(resume_tool_calls = ids), in the context of the batch.
StartResume(ids) ==
    /\ phase' = "resume"
    /\ run' = [FreshRun EXCEPT !.queue = ids]
    /\ UNCHANGED cache

-----------------------------------------------------------------------------
(* The user's answers.                                                     *)

Question == Tool[issued[turn.asked]].kind = "question"

AnswerYes ==
    LET c == issued[turn.asked]
        scope == ScopeForPolicy(config.policy)
    IN  /\ phase = "asking"
        /\ ~Question
        /\ RecordApproval(c, scope)
        /\ said' = [said EXCEPT !.agreed = @ \cup {c},
                                !.always = IF scope = "session"
                                           THEN @ \cup {c} ELSE @]
        /\ StartResume(turn.pending)
        /\ UNCHANGED <<config, history, paused, turn, issued, running, version,
                       ended, messages, ran>>

\* "yes, this turn" is offered under on-request only.
AnswerYesThisTurn ==
    /\ phase = "asking"
    /\ ~Question
    /\ config.policy = "on-request"
    /\ RecordTurnWideMutatingApproval
    /\ said' = [said EXCEPT !.wide = TRUE]
    /\ StartResume(turn.pending)
    /\ UNCHANGED <<config, history, paused, turn, issued, running, version,
                   ended, messages, ran>>

\* Mutant of AnswerNo: a "no" between resumed calls is not recorded.
AnswerNoForgotten ==
    /\ phase = "asking"
    /\ ~Question
    /\ IF turn.resuming
       THEN UNCHANGED ledger /\ StartResume(turn.pending)
       ELSE RecordRefusal(issued[turn.asked]) /\ StartRun
    /\ UNCHANGED <<history, paused, turn, issued, running, version, ended,
                   user, ran>>

\* "no": the model is asked again, or the resumed calls go on without it.
AnswerNo ==
    /\ phase = "asking"
    /\ ~Question
    /\ RecordRefusal(issued[turn.asked])
    /\ IF turn.resuming THEN StartResume(turn.pending) ELSE StartRun
    /\ UNCHANGED <<history, paused, turn, issued, running, version, ended,
                   user, ran>>

\* answer_request: the result that stands for the answer.
Answer(id) == Result(id, "answered")

\* An answer to ask_user becomes the result of the call; the calls after it
\* are dropped and the model decides again.
AnswerQuestion ==
    /\ phase = "asking"
    /\ Question
    /\ turn' = [Committed(<<ResponseFor(<<turn.asked>>), Answer(turn.asked)>>)
                  EXCEPT !.pending = <<>>, !.asked = 0]
    /\ StartRun
    /\ UNCHANGED <<ledger, history, paused, issued, running, version, ended,
                   user, ran>>

\* End of input at an ask_user prompt.
NoAnswer ==
    /\ phase = "asking"
    /\ Question
    /\ FinishTurn(<<Ask(turn.asked)>>,
                  IF turn.resuming THEN "awaiting_confirmation" ELSE "stopped")
    /\ UNCHANGED <<ledger, world, user>>

-----------------------------------------------------------------------------
(* The model.                                                              *)

\* What the provider may receive: the working history made fit for a model,
\* whole or compacted to some number of recent messages (texts decide when),
\* and the responses and results of the run, with or without the warnings.
ModelMessages ==
    LET prepared == PrepareForModel(turn.working)
        own == ApplyEvents(<<>>, run.events)
    IN  {replayed \o mine :
            replayed \in {prepared} \cup
                {Compact(prepared, keep, 1) : keep \in 0..Len(prepared)},
            mine \in {own, Warned(own)}}

CanAsk == phase = "model" /\ run.loops < config.loops

ModelRequestsTools ==
    /\ CanAsk
    /\ \E n \in 1..config.batch : \E calls \in [1..n -> config.requests] :
          LET ids == [i \in 1..n |-> Len(issued) + i]
          IN  /\ Len(issued) + n <= MaxIssued
              /\ issued' = issued \o calls
              /\ run' = [run EXCEPT !.events = Append(@, Response(ids, ids)),
                                    !.queue = ids,
                                    !.loops = @ + 1,
                                    !.muts = {},
                                    !.seen = {}]
    /\ turn' = [turn EXCEPT !.batch =
                  [i \in 1..(Len(issued') - Len(issued)) |-> Len(issued) + i]]
    /\ phase' = IF config.parallel THEN "prepare" ELSE "calls"
    /\ UNCHANGED <<ledger, history, paused, cache, running, version, ended,
                   user, ran>>

ModelAnswersText ==
    /\ CanAsk
    /\ FinishTurn(run.events \o <<Response(<<>>, <<Len(issued) + 1>>),
                                  Done("stop")>>, "stop")
    /\ UNCHANGED <<ledger, world, user>>

\* Empty response at the output limit: the agent prunes and asks again.
ModelTruncated ==
    /\ CanAsk
    /\ run' = [run EXCEPT !.loops = @ + 1]
    /\ UNCHANGED <<ledger, history, paused, phase, turn, world, ended, user>>

\* A stream error, an empty response or an exception of the client.
ModelFails ==
    /\ CanAsk
    /\ FinishTurn(Append(run.events, Error), "failed")
    /\ UNCHANGED <<ledger, world, user>>

LoopLimit ==
    /\ phase = "model"
    /\ run.loops = config.loops
    /\ EndWithNotice(run.events, "max_turns")
    /\ UNCHANGED <<ledger, world, user>>

-----------------------------------------------------------------------------
(* Executing a call: _execute_tool_call.                                   *)

\* _read_result_cache_key, _cached_read_result: the same call was answered.
CachedRead(c) == cache[c] # 0

\* _store_read_result: with what the file held when it was read.
StoreRead(c) == [cache EXCEPT ![c] = version[Tool[c].path] + 1]

\* A tool that raises, is cancelled or answers with an error may have changed
\* its file or not.
Effect(c) ==
    \E changed \in {{}, Affected(c)} :
        version' = [p \in Paths |-> IF p \in changed THEN version[p] + 1
                                                     ELSE version[p]]

\* Mutant of ExecuteTool: a mutation leaves the cached reads in place.
ExecuteToolKeepsCache(id) ==
    LET c == issued[id]
    IN  /\ ran' = Append(ran, id)
        /\ Effect(c)
        /\ cache' = IF Tool[c].cacheable THEN StoreRead(c) ELSE cache
        /\ ConsumeApproval(c)

\* A cached read returns without running the tool or consuming an approval.
\* Results are cached, and mutations clear the cache, errors included.
ExecuteTool(id) ==
    LET c == issued[id]
    IN  IF CachedRead(c)
        THEN UNCHANGED <<ran, version, cache, ledger>>
        ELSE /\ ran' = Append(ran, id)
             /\ Effect(c)
             /\ cache' = IF Mutating(c) THEN NoCache
                         ELSE IF Tool[c].cacheable THEN StoreRead(c)
                         ELSE cache
             /\ ConsumeApproval(c)

\* The tool starts and does not return: it raised, or the turn was aborted.
ToolInterrupted(id) ==
    LET c == issued[id]
    IN  /\ ~CachedRead(c)
        /\ ran' = Append(ran, id)
        /\ Effect(c)
        /\ UNCHANGED <<ledger, issued, cache, running>>

-----------------------------------------------------------------------------
(* The sequential loop over the calls of a response.                       *)

InBatch == phase = "calls" /\ run.queue # <<>>
NextId == Head(run.queue)
NextCall == issued[NextId]

\* The run after a result for the next call of the queue.
Processed(out) ==
    LET c == NextCall
    IN  [run EXCEPT
           !.events = Append(@, Result(NextId, out)),
           !.queue = Tail(@),
           !.executed = @ + 1,
           !.muts = IF out = "run" THEN @ \cup Affected(c) ELSE @,
           !.seen = IF Known(c) /\ Tool[c].cacheable THEN @ \cup {c} ELSE @,
           !.retries = Retried(@, c, out)]

WithinBudget == run.executed < config.toolCalls

CallLimit ==
    /\ InBatch
    /\ ~WithinBudget
    /\ EndWithNotice(run.events, "tool_call_limit")
    /\ UNCHANGED <<ledger, world, user>>

CallAnswered ==
    LET out == SequentialOutcome(NextCall)
    IN  /\ InBatch
        /\ WithinBudget
        /\ out \in Immediate
        /\ IF OutOfRetries(NextCall, out)
           THEN EndWithNotice(Processed(out).events, "invalid_tool_call")
           ELSE /\ run' = Processed(out)
                /\ UNCHANGED <<history, paused, phase, turn, ended>>
        /\ UNCHANGED <<ledger, world, user>>

CallAsks ==
    LET out == SequentialOutcome(NextCall)
    IN  /\ InBatch
        /\ WithinBudget
        /\ out \in Asking
        /\ AskUser(run.events, NextId, Counted(out))
        /\ UNCHANGED <<ledger, world, user>>

CallExecutes ==
    /\ InBatch
    /\ WithinBudget
    /\ SequentialOutcome(NextCall) = "run"
    /\ ExecuteTool(NextId)
    /\ run' = Processed("run")
    /\ UNCHANGED <<history, paused, phase, turn, issued, running, ended, user>>

\* _run_model_batch turns the exception into an error event.
CallRaises ==
    /\ InBatch
    /\ WithinBudget
    /\ SequentialOutcome(NextCall) = "run"
    /\ ToolInterrupted(NextId)
    /\ FinishTurn(Append(run.events, Error), "failed")
    /\ UNCHANGED user

BatchDone ==
    /\ phase = "calls"
    /\ run.queue = <<>>
    /\ phase' = "model"
    /\ UNCHANGED <<ledger, history, paused, turn, run, world, ended, user>>

-----------------------------------------------------------------------------
(* Resumed calls: _execute_approved_tool_calls, no budget, no retries.     *)

InResume == phase = "resume" /\ run.queue # <<>>

\* The run after a result for the next resumed call; nothing is counted.
ResumeProcessed(out) ==
    [Processed(out) EXCEPT !.executed = run.executed, !.retries = run.retries]

ResumeAnswered ==
    LET out == ResumeOutcome(NextCall)
    IN  /\ InResume
        /\ out \in Immediate
        /\ run' = ResumeProcessed(out)
        /\ UNCHANGED <<ledger, history, paused, phase, turn, world, ended,
                       user>>

ResumeExecutes ==
    /\ InResume
    /\ ResumeOutcome(NextCall) = "run"
    /\ ExecuteTool(NextId)
    /\ run' = ResumeProcessed("run")
    /\ UNCHANGED <<history, paused, phase, turn, issued, running, ended, user>>

\* Completed calls are committed, then the user is asked about the next one.
ResumeAsks ==
    LET out == ResumeOutcome(NextCall)
    IN  /\ InResume
        /\ out \in Asking
        /\ phase' = "asking"
        /\ turn' = [CommitResumed(run.events) EXCEPT
                      !.asked = NextId,
                      !.resuming = TRUE,
                      !.questions = Counted(out)]
        /\ run' = FreshRun
        /\ UNCHANGED <<ledger, history, paused, world, ended, user>>

\* All pending calls have a result: the model is asked again.
ResumeDone ==
    /\ phase = "resume"
    /\ run.queue = <<>>
    /\ turn' = [CommitResumed(run.events) EXCEPT !.asked = 0,
                                                 !.resuming = FALSE]
    /\ StartRun
    /\ UNCHANGED <<ledger, history, paused, issued, running, version, ended,
                   user, ran>>

\* The turn is over without its events: the exception leaves run_agent_turn,
\* and the caller takes the user's message back.
ForgetTurn(status) ==
    /\ history' = Front(history)
    /\ ended' = status
    /\ phase' = "idle"
    /\ turn' = FreshTurn(<<>>)
    /\ run' = FreshRun

ResumeRaises ==
    /\ InResume
    /\ ResumeOutcome(NextCall) = "run"
    /\ ToolInterrupted(NextId)
    /\ ForgetTurn("raised")
    /\ UNCHANGED <<paused, user>>

-----------------------------------------------------------------------------
(* The parallel-first scheduler: _execute_parallel_first_tool_batch.       *)

\* _prepared_tool_prefers_parallel
ParallelCall(c) == Known(c) /\ ~Mutating(c) /\ Tool[c].kind # "question"

\* _prepare_parallel_first_tool_call and the sorting into the two lanes, for
\* one call after the others have been prepared.
Prepare(acc, id) ==
    LET c == issued[id]
        first == IF Known(c) THEN Decide(c, acc.muts) ELSE "unknown"
        reads == first = "run" /\ Tool[c].cacheable
        out == IF reads /\ c \in acc.seen THEN "duplicate" ELSE first
        item == [id |-> id, out |-> out,
                 stop |-> first \in Repairs
                             /\ acc.retries[c] >= RetryLimit]
        parallel == ParallelCall(c)
    IN  IF acc.asks THEN acc
        ELSE [lane |-> IF parallel THEN Append(acc.lane, item) ELSE acc.lane,
              items |-> IF parallel THEN acc.items ELSE Append(acc.items, item),
              muts |-> acc.muts \cup
                         IF first \in Repairs THEN {}
                                                             ELSE Affected(c),
              seen |-> IF reads THEN acc.seen \cup {c} ELSE acc.seen,
              retries |-> Retried(acc.retries, c, first),
              asks |-> first = "question"]

RemainingBudget == config.toolCalls - run.executed

\* The calls sorted one after the other.
Sorted(calls) ==
    LET prepared[n \in 0..Len(calls)] ==
            IF n = 0
            THEN [lane |-> <<>>, items |-> <<>>, muts |-> {}, seen |-> {},
                  retries |-> run.retries, asks |-> FALSE]
            ELSE Prepare(prepared[n - 1], calls[n])
    IN  prepared[Len(calls)]

PrepareBatch ==
    LET budget == RemainingBudget
        sorted == Sorted(IF budget < Len(run.queue)
                         THEN SubSeq(run.queue, 1, budget) ELSE run.queue)
    IN  /\ phase = "prepare"
        /\ IF budget <= 0
           THEN EndWithNotice(run.events, "tool_call_limit")
           ELSE /\ phase' = "windows"
                /\ run' = [run EXCEPT !.queue = <<>>,
                                      !.lane = sorted.lane,
                                      !.items = sorted.items,
                                      !.retries = sorted.retries,
                                      !.cut = budget < Len(run.queue)]
                /\ turn' = [turn EXCEPT !.questions =
                              @ + (IF sorted.asks THEN 1 ELSE 0)]
                /\ UNCHANGED <<history, paused, ended>>
        /\ UNCHANGED <<ledger, world, user>>

\* The items of a window that get a task: every item without a result, those
\* the user is to be asked about included.
Runnable(window) == {i \in ToSet(window) : i.out \notin Immediate}

LaneAfter(size) == SubSeq(run.lane, size + 1, Len(run.lane))

\* The next window starts: one task for each runnable item.  A cached read
\* is done at once, the other tools begin.
OpenWindow ==
    LET size == IF Len(run.lane) < config.window THEN Len(run.lane)
                                                 ELSE config.window
        window == SubSeq(run.lane, 1, size)
        tasks == {i.id : i \in Runnable(window)}
        starting == KeepIn([k \in DOMAIN window |-> window[k].id],
                           {id \in tasks : ~CachedRead(issued[id])})
    IN  /\ phase = "windows"
        /\ run.window = <<>>
        /\ run.lane # <<>>
        /\ run' = [run EXCEPT !.window = window,
                              !.lane = LaneAfter(size)]
        /\ running' = running \cup ToSet(starting)
        /\ ran' = ran \o starting
        /\ UNCHANGED <<ledger, history, paused, phase, turn, issued, cache,
                       version, ended, user>>

WindowIds == {i.id : i \in ToSet(run.window)}

\* A task of the window, or one left over from a failed window, finishes:
\* the read is cached in its own context, the approval is consumed.
TaskFinishes(id) ==
    LET c == issued[id]
    IN  /\ running' = running \ {id}
        /\ cache' = IF Tool[c].cacheable /\ id \in WindowIds
                    THEN StoreRead(c) ELSE cache
        /\ ConsumeApproval(c)
        /\ UNCHANGED <<history, paused, phase, turn, run, issued, version,
                       ended, user, ran>>

\* asyncio.gather passes the first exception on and leaves the other tasks
\* running; an exception of a left-over task is never seen.
TaskRaises(id) ==
    /\ running' = running \ {id}
    /\ IF id \in WindowIds
       THEN FinishTurn(Append(run.events, Error), "failed")
       ELSE UNCHANGED <<history, paused, phase, turn, run, ended>>
    /\ UNCHANGED <<ledger, issued, cache, version, user, ran>>

ResultsOf(items) ==
    LET results == [k \in DOMAIN items |-> Result(items[k].id, items[k].out)]
    IN  KeepIn(results, {r \in ToSet(results) : r.note # "confirm"})

\* All tasks of the window are done: results in the order of the calls, up
\* to a call that used up its retries; then the first confirmation, if any.
CollectWindow ==
    LET window == run.window
        stop == SelectInSeq(window, LAMBDA i : i.stop)
        ask == SelectInSeq(window, LAMBDA i : i.out = "confirm")
        results == ResultsOf(IF stop = 0 THEN window
                             ELSE SubSeq(window, 1, stop))
        events == run.events \o results
    IN  /\ phase = "windows"
        /\ window # <<>>
        /\ WindowIds \cap running = {}
        /\ CASE stop # 0 -> EndWithNotice(events, "invalid_tool_call")
             [] stop = 0 /\ ask # 0 ->
                   AskUser(events, window[ask].id, turn.questions)
             [] stop = 0 /\ ask = 0 ->
                   /\ run' = [run EXCEPT !.events = events,
                                         !.executed = @ + Len(results),
                                         !.window = <<>>]
                   /\ UNCHANGED <<history, paused, phase, turn, ended>>
        /\ UNCHANGED <<ledger, world, user>>

\* The windows are drained, the remaining items run one after the other.
WindowsDone ==
    /\ phase = "windows"
    /\ run.window = <<>>
    /\ run.lane = <<>>
    /\ phase' = "items"
    /\ UNCHANGED <<ledger, history, paused, turn, run, world, ended, user>>

InItems == phase = "items" /\ run.items # <<>>
Item == Head(run.items)

ItemProcessed ==
    [run EXCEPT !.events = Append(@, Result(Item.id, Item.out)),
                !.items = Tail(@),
                !.executed = @ + 1]

ItemAnswered ==
    /\ InItems
    /\ Item.out \in Immediate
    /\ IF Item.stop
       THEN EndWithNotice(ItemProcessed.events, "invalid_tool_call")
       ELSE /\ run' = ItemProcessed
            /\ UNCHANGED <<history, paused, phase, turn, ended>>
    /\ UNCHANGED <<ledger, world, user>>

ItemAsks ==
    /\ InItems
    /\ Item.out \in Asking
    /\ AskUser(run.events, Item.id, turn.questions)
    /\ UNCHANGED <<ledger, world, user>>

ItemExecutes ==
    /\ InItems
    /\ Item.out = "run"
    /\ ExecuteTool(Item.id)
    /\ run' = ItemProcessed
    /\ UNCHANGED <<history, paused, phase, turn, issued, running, ended, user>>

ItemRaises ==
    /\ InItems
    /\ Item.out = "run"
    /\ ToolInterrupted(Item.id)
    /\ FinishTurn(Append(run.events, Error), "failed")
    /\ UNCHANGED user

ItemsDone ==
    /\ phase = "items"
    /\ run.items = <<>>
    /\ IF run.cut
       THEN EndWithNotice(run.events, "tool_call_limit")
       ELSE /\ phase' = "model"
            /\ UNCHANGED <<history, paused, turn, run, ended>>
    /\ UNCHANGED <<ledger, world, user>>

-----------------------------------------------------------------------------
\* Abort of the running turn (/abort, ctrl-c): the tasks of the window are
\* cancelled, the user's message is taken back, the turn is marked paused.
\* A tool that was running may or may not have had its effect.
Abort ==
    /\ phase # "idle"
    /\ ForgetTurn("aborted")
    /\ MarkPaused("aborted")
    /\ \/ /\ running' = running \ WindowIds
          /\ UNCHANGED <<ledger, issued, cache, version, ran>>
       \/ /\ InBatch /\ WithinBudget /\ SequentialOutcome(NextCall) = "run"
          /\ ToolInterrupted(NextId)
       \/ /\ InResume /\ ResumeOutcome(NextCall) = "run"
          /\ ToolInterrupted(NextId)
       \/ /\ InItems /\ Item.out = "run"
          /\ ToolInterrupted(Item.id)
    /\ UNCHANGED user

ModelStep ==
    \/ ModelRequestsTools \/ ModelAnswersText \/ ModelTruncated \/ ModelFails
    \/ LoopLimit

SequentialStep ==
    CallLimit \/ CallAnswered \/ CallAsks \/ CallExecutes \/ CallRaises
    \/ BatchDone

ResumeStep ==
    ResumeAnswered \/ ResumeExecutes \/ ResumeAsks \/ ResumeDone
    \/ ResumeRaises

ParallelStep ==
    \/ PrepareBatch \/ OpenWindow \/ CollectWindow \/ WindowsDone
    \/ ItemAnswered \/ ItemAsks \/ ItemExecutes \/ ItemRaises \/ ItemsDone
    \/ \E id \in running : TaskFinishes(id) \/ TaskRaises(id)

UserAnswer ==
    AnswerYes \/ AnswerYesThisTurn \/ AnswerNo \/ AnswerQuestion \/ NoAnswer

TurnStep ==
    ModelStep \/ SequentialStep \/ ResumeStep \/ ParallelStep \/ UserAnswer

Next ==
    \/ \E continue \in BOOLEAN : UserMessage(continue)
    \/ TurnStep
    \/ Abort

Spec == Init /\ [][Next]_vars

\* The event loop runs whatever can run, the model and the tools return, and
\* the user answers the questions the turn waits for.
FairSpec == Spec /\ WF_vars(TurnStep)

-----------------------------------------------------------------------------
Ids == 1..Len(issued)
EventNotes == Immediate \cup Ends \cup {"run", "answered"}
Events == [kind : {"response", "result", "ask", "done", "error"},
           calls : Seq(Ids), usage : Seq(Nat), id : Ids \cup {0}, note : EventNotes]
MessageRecords == [role : {"user", "assistant", "tool"}, calls : Seq(Ids),
                   id : Ids \cup {0}]
Items == [id : Ids, out : Immediate \cup Asking \cup {"run"}, stop : BOOLEAN]

TypeOK ==
    /\ LedgerTypeOK
    /\ history \in Seq(MessageRecords)
    /\ paused \in Limits \cup {"", "aborted"}
    /\ config \in Configs
    /\ phase \in Phases
    /\ ended \in Ends
    /\ turn \in [working : Seq(MessageRecords), committed : Seq(Events),
                 pending : Seq(Ids), asked : Ids \cup {0},
                 resuming : BOOLEAN, questions : 0..config.questions,
                 batch : Seq(Ids)]
    /\ run \in [events : Seq(Events), queue : Seq(Ids), executed : Nat,
                loops : 0..config.loops, muts : SUBSET Paths,
                seen : SUBSET Calls, retries : [Calls -> Nat], lane : Seq(Items),
                window : Seq(Items), items : Seq(Items), cut : BOOLEAN]
    /\ issued \in Seq(Calls)
    /\ cache \in [Calls -> Nat]
    /\ running \subseteq Ids
    /\ version \in [Paths -> Nat]
    /\ ran \in Seq(Ids)

-----------------------------------------------------------------------------
\* The parallel lane does not wait: it starts a read and asks afterwards.
FreeUnder(rules) ==
    {c \in Calls : \/ rules.autoConfirm
                   \/ VerdictUnder(rules, c) = "allow"
                   \/ rules.parallel /\ ParallelCall(c)}
DeniedUnder(rules) == {c \in Calls : VerdictUnder(rules, c) = "deny"}

Promise == INSTANCE Consent WITH
    Free <- FreeUnder,
    Denied <- DeniedUnder,
    rules <- config,
    agreed <- said.agreed,
    always <- said.always,
    wide <- said.wide,
    refused <- turnRefused,
    executed <- [i \in DOMAIN ran |-> issued[ran[i]]]

(* The whole machinery of ledger, batches, resumption and scheduling keeps *)
(* the promise of the approval flow: no call that needs consent starts     *)
(* without an answer in force, except a read in the parallel lane, which   *)
(* starts before the question about it (_execute_parallel_first_tool_batch *)
(* runs every call of a window that has no result yet); and nothing that   *)
(* was refused starts in the rest of the turn, such a read included, not   *)
(* even under a blanket approval given later.                              *)
ConsentKept == Promise!Spec

(* The ledger authorises no more than the user said: a call passes without *)
(* asking only under an answer about a call that looks alike, about the    *)
(* turn, or for the session, whatever was consumed, refused, resumed or    *)
(* left running since, and answers for a turn do not outlive it.           *)
ApprovalsSaid ==
    \A c \in Calls : IsToolPreapproved(c) =>
        \/ said.wide
        \/ \E d \in said.agreed \cup said.always : Norm[d] = Norm[c]

\* Under this configuration a response may be interrupted for the user after
\* the parallel lane has run some of its calls.
RunsAhead ==
    /\ config.parallel
    /\ \E c \in config.requests :
          \/ Tool[c].kind = "question"
          \/ Verdict(c) = "confirm" /\ ~config.autoConfirm

\* Under this configuration the parallel lane asks about reads it started.
LaneAsks ==
    /\ config.parallel
    /\ ~config.autoConfirm
    /\ \E c \in config.requests : ParallelCall(c) /\ Verdict(c) = "confirm"

(* A call the model requested is executed at most once, however often the  *)
(* turn is interrupted for consent and resumed (README, approval flow:     *)
(* Nexus resumes with the exact pending tool call).  Only a read that ran  *)
(* ahead of a question in the parallel lane may be repeated by the         *)
(* resumption, never a mutation.                                           *)
EachCallOnce ==
    \A i, j \in DOMAIN ran :
        i # j /\ ran[i] = ran[j] => RunsAhead /\ ~Mutating(issued[ran[i]])

NameOf == [id \in Ids |-> Named(issued[id])]

(* Every conversation the agent sends is one that a provider accepts and   *)
(* understands, in each request format: each tool call of an assistant     *)
(* message is answered once, right after it, no result comes without its   *)
(* call, and the provider takes it for that of its call, whatever          *)
(* interruptions, refusals, limits and failures lie behind and wherever    *)
(* compaction cuts the history.  Only calls that ran ahead of a question   *)
(* are answered a second time by the resumption, and the formats without   *)
(* call ids rely on the order of the calls, which the parallel scheduler   *)
(* does not keep.                                                          *)
ProviderSafe ==
    CanAsk /\ ~RunsAhead
    => \A sent \in ModelMessages :
          /\ WellFormed(sent)
          /\ \A format \in Formats :
                (config.parallel => format \notin WithoutIds)
                => Understood(format, sent, NameOf)

(* The tokens of a model response are added to the session's usage once,   *)
(* with the first of its calls that is committed, in however many parts    *)
(* questions to the user cut the response.                                 *)
UsageOnce ==
    LET all == turn.committed
    IN  /\ \A j, k \in DOMAIN all :
              j # k /\ all[j].usage # <<>> => all[j].usage # all[k].usage
        /\ \A j \in DOMAIN all : all[j].calls # <<>> =>
              \E k \in 1..j : Head(all[j].calls) \in ToSet(all[k].usage)

(* What the next message will replay of the durable history is acceptable  *)
(* too, however the last turn ended.                                       *)
ReplaySafe ==
    phase = "idle" /\ ~RunsAhead
    => WellFormed(PrepareForModel(Append(history, User)))

RememberedIds ==
    {m.id : m \in ToSet(PrepareForModel(Append(history, User)))}

(* A turn that ends of itself, waits for the user or pauses at the loop    *)
(* limit forgets none of its executed calls: each of them is in the part   *)
(* of the durable history that the next turn replays to the model.  Only   *)
(* where the parallel lane asks about a read that it has started may the   *)
(* result of that read, and with it the read, be left out.                 *)
Remembered ==
    phase = "idle" /\ ~LaneAsks
    /\ ended \in {"stop", "max_turns", "awaiting_confirmation", "stopped"}
    => ToSet(ran) \subseteq RememberedIds

(* A read served from the cache shows what the file holds now: no mutation *)
(* the agent made, in whichever path of execution, outlives the cache.     *)
CacheFresh ==
    phase # "idle" =>
        \A c \in Calls : cache[c] # 0 => cache[c] = version[Tool[c].path] + 1

(* A turn ends, with an answer, a pause, a failure or a question left to   *)
(* the user.                                                               *)
TurnEnds == phase # "idle" ~> phase = "idle"

=============================================================================
