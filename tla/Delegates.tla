----------------------------- MODULE Delegates -----------------------------
(***************************************************************************)
(* Delegation to cognitive sub-agents: SubAgentTool.execute                *)
(* (sandbox/agent_tool.py) and the logical-task records, handoff packets   *)
(* and agent records it leaves in the session (runtime/context_state.py).  *)
(* Delegations run one at a time (runtime/tool_execution_policy.py), in    *)
(* the turn of the supervisor, on the supervisor's approval ledger.  The   *)
(* agent loop that the sub-agent runs is the one of AgentTurn; here its    *)
(* batches are the responses of the model, the calls they make and the way *)
(* the batch ends.  A call is identified with the file it is about, and a  *)
(* logical task with the number of the call that began it.                 *)
(*                                                                         *)
(* A sub-agent is never offered ask_user (AgentScope), so its batches end  *)
(* in approval requests only, not in clarifications.                       *)
(***************************************************************************)
EXTENDS ApprovalManager, SequencesExt

CONSTANTS
  Agents,           \* the registered sub-agents
  Reads,            \* calls of tools that need no approval
  Policy,           \* approval policy
  MaxTurns,         \* max_turns of the sub-agent's definition
  ContLimit,        \* _CONTINUATION_LIMIT
  ItemLimit,        \* _CONTINUATION_ITEM_LIMIT
  PacketLimit,      \* _PACKET_LIMIT
  MaxDelegations, MaxUserTurns, MaxCalls  \* bounds: delegations, turns, calls of a response

ASSUME DelegatesAssumption ==
  /\ IsFiniteSet(Calls) /\ Reads \subseteq Calls
  /\ {MaxTurns, ContLimit, ItemLimit, PacketLimit, MaxDelegations, MaxUserTurns, MaxCalls}
       \subseteq Nat \ {0}
  /\ Agents # {}

VARIABLES
  conts,      \* continuations of the session, oldest entry first
  tasks,      \* ids that have a TaskContext
  worksOn,    \* the task of each agent's AgentSessionState
  packets,    \* retained packets: id and task
  counter,    \* the packet counter of the session
  shown,      \* packets whose summary this turn can hand to a sub-agent
  d,          \* the delegation in progress
  begun,      \* number of delegation calls
  userTurn,   \* number of user turns
  changed, granted, denied, given, reports   \* auxiliary, see below

context == <<conts, tasks, worksOn, packets, counter, shown>>
aux     == <<changed, granted, denied, given, reports>>
vars    == <<context, d, begun, userTurn, aux, ledger>>

\* Auxiliary: changed holds the files that the calls of the delegation changed,
\* granted the keys the user approved and for how long, denied the calls the user
\* refused in this turn, given[t] the answer the last resumption of task t brought,
\* reports[t] all the files that the delegations on t reported, in that order.

Ids == 1..MaxDelegations
Cont == [id : Ids, agent : Agents, files : Seq(Calls), answers : Seq(Ids), packets : SUBSET Nat]

(***************************************************************************)
(* The delegation: pc says where execute is; prev is the continuation it   *)
(* resumes, as a sequence of at most one; turns is remaining_model_turns;  *)
(* files and failing are modified_files and whether failed_tool_outputs    *)
(* has any; open holds the calls of the history that have no result.  The  *)
(* batch in progress has used so many responses, has the calls in queue    *)
(* still to run, last made the calls in asked, and its results name the    *)
(* files in found, the last of them as outcome tells.                      *)
(***************************************************************************)
Batch == [used : 0..MaxTurns, queue : Seq(Calls), asked : SUBSET Calls,
          found : SUBSET Calls, outcome : {"none", "ok", "error"}]
NewBatch == [used |-> 0, queue |-> <<>>, asked |-> {}, found |-> {}, outcome |-> "none"]

Begin(t, a, prev) ==
  [pc |-> "run", task |-> t, agent |-> a, prev |-> prev, turns |-> MaxTurns,
   files |-> {}, failing |-> FALSE, status |-> "completed", open |-> {}, batch |-> NewBatch]
NoAgent == CHOOSE a \in Agents : TRUE
Idle == [Begin(0, NoAgent, <<>>) EXCEPT !.pc = "idle"]

At(pc) == d.pc = pc
b == d.batch

Init ==
  /\ LedgerInit
  /\ conts = <<>> /\ tasks = {} /\ worksOn = [a \in Agents |-> 0]
  /\ packets = <<>> /\ counter = 0 /\ shown = {}
  /\ d = Idle
  /\ begun = 0 /\ userTurn = 1
  /\ changed = {} /\ granted = {} /\ denied = {}
  /\ given = [t \in Ids |-> 0] /\ reports = [t \in Ids |-> <<>>]

(***************************************************************************)
(* The records of the session (context_state.py)                           *)
(***************************************************************************)
PacketIds == {packets[i].id : i \in DOMAIN packets}
IdsOf(s) == {s[i].id : i \in DOMAIN s}
Retained(t) == t \in IdsOf(conts)
ContOf(t) == conts[CHOOSE i \in DOMAIN conts : conts[i].id = t]

Suffix(s, n) == IF Len(s) <= n THEN s ELSE SubSeq(s, Len(s) - n + 1, Len(s))
Prefix(s, n) == IF Len(s) <= n THEN s ELSE SubSeq(s, 1, n)

\* A dictionary entry keeps its place when it is stored again; a new one goes last.
Stored(c) == IF c.id \in IdsOf(conts)
             THEN [i \in DOMAIN conts |-> IF conts[i].id = c.id THEN c ELSE conts[i]]
             ELSE Append(conts, c)

\* save_subagent_continuation
SaveContinuation(c) ==
  LET kept == Suffix(Stored(c), ContLimit)
      dropped == IdsOf(Stored(c)) \ IdsOf(kept)
  IN  /\ conts' = kept
      /\ tasks' = (tasks \ dropped) \cup {c.id}
      /\ worksOn' = [worksOn EXCEPT ![c.agent] = c.id]

\* The items with the new ones after them; those of one report have some order.
WithNew(items, new) == items \o SetToSeq(new \ ToSet(items))

\* Mutant of MergeCompact: a task that has items gets no new ones.
MergeCompactOnce(old, new) == IF old = <<>> THEN Prefix(WithNew(old, new), ItemLimit) ELSE old
\* _merge_compact: what is beyond the limit is dropped.
MergeCompact(old, new) == Prefix(WithNew(old, new), ItemLimit)

\* append_subagent_clarification_answer
WithAnswer(c, n) == [c EXCEPT !.answers = Suffix(Append(@, n), ItemLimit)]

\* Mutant of NextContinuation: the answers of the task so far are forgotten.
NextContinuationForgetful(reported, out) ==
  LET old == IF d.prev = <<>> THEN <<>> ELSE Head(d.prev).files
      had == IF d.prev = <<>> THEN {} ELSE Head(d.prev).packets
  IN  [id |-> d.task, agent |-> d.agent, files |-> MergeCompact(old, reported),
       answers |-> <<>>, packets |-> had \cup out]

\* make_subagent_continuation
NextContinuation(reported, out) ==
  LET old == IF d.prev = <<>> THEN <<>> ELSE Head(d.prev).files
      had == IF d.prev = <<>> THEN {} ELSE Head(d.prev).packets
  IN  [id |-> d.task, agent |-> d.agent, files |-> MergeCompact(old, reported),
       answers |-> IF d.prev = <<>> THEN <<>> ELSE Head(d.prev).answers,
       packets |-> had \cup out]

(***************************************************************************)
(* The call                                                                *)
(***************************************************************************)

\* A new user turn: the ledger forgets what the last one allowed, and the
\* summaries of all retained packets are made available.
NextUserTurn ==
  /\ At("idle") /\ userTurn < MaxUserTurns
  /\ userTurn' = userTurn + 1
  /\ BeginTurn
  /\ shown' = PacketIds
  /\ granted' = {g \in granted : g[2] = "session"} /\ denied' = {}
  /\ UNCHANGED <<conts, tasks, worksOn, packets, counter, d, begun, changed, given, reports>>

\* execute with a title and instructions: a new logical task
Delegate(a) ==
  /\ At("idle") /\ begun < MaxDelegations
  /\ begun' = begun + 1
  /\ d' = Begin(begun + 1, a, <<>>)
  /\ changed' = {}
  /\ UNCHANGED <<context, userTurn, granted, denied, given, reports, ledger>>

CanResume(t, a) == Retained(t) /\ ContOf(t).agent = a

\* execute with resume_task_id: the answer is stored before the sub-agent runs.
\* An unknown task, another agent's task or an empty answer is an error result.
Resume(t, a) ==
  /\ At("idle") /\ begun < MaxDelegations
  /\ begun' = begun + 1
  /\ \/ /\ CanResume(t, a)
        /\ LET c == WithAnswer([ContOf(t) EXCEPT !.agent = a], begun + 1) IN
             /\ SaveContinuation(c)
             /\ d' = Begin(t, a, <<c>>)
             /\ given' = [given EXCEPT ![t] = begun + 1]
        /\ changed' = {}
        /\ UNCHANGED <<packets, counter, shown>>
     \/ UNCHANGED <<context, d, changed, given>>
  /\ UNCHANGED <<userTurn, granted, denied, reports, ledger>>

-----------------------------------------------------------------------------
(* One batch: agent.run with max_turns = remaining_model_turns.            *)

\* d after the loop has read the events of a batch that did not stop to ask
Folded(fault) ==
  LET status == IF fault \/ b.outcome = "error" THEN "failed"
                ELSE IF b.outcome = "ok" THEN "completed" ELSE d.status
  IN  [d EXCEPT !.pc = "report", !.status = status,
                !.failing = IF b.outcome = "none" THEN @ ELSE b.outcome = "error",
                !.files = @ \cup b.found, !.turns = @ - b.used, !.batch = NewBatch]

\* The model answers with calls, or with its final text, which ends the batch.
Respond(calls) ==
  /\ At("run") /\ b.queue = <<>> /\ b.used < d.turns
  /\ d' = IF calls = <<>>
          THEN [Folded(FALSE) EXCEPT !.turns = @ - 1]
          ELSE [d EXCEPT !.batch.used = @ + 1, !.batch.queue = calls,
                         !.batch.asked = ToSet(calls)]
  /\ UNCHANGED <<context, begun, userTurn, changed, granted, denied, given, reports, ledger>>

Answered(c, outcome, names) ==
  [d EXCEPT !.batch.queue = Tail(@), !.batch.outcome = outcome,
            !.batch.found = IF names THEN @ \cup {c} ELSE @]

\* The next call is made: a read, or a call that was approved.  Every result
\* with a path counts as a modified file, a read's too.
RunCall ==
  /\ At("run") /\ b.queue # <<>>
  /\ LET c == Head(b.queue) IN
       /\ ~IsRefused(c) /\ (c \in Reads \/ IsToolPreapproved(c))
       /\ \E outcome \in {"ok", "error"} :
            /\ d' = Answered(c, outcome, outcome = "ok")
            /\ changed' = IF c \in Reads \/ outcome = "error" THEN changed ELSE changed \cup {c}
       /\ ConsumeApproval(c)
  /\ UNCHANGED <<context, begun, userTurn, granted, denied, given, reports>>

RefuseCall ==
  /\ At("run") /\ b.queue # <<>> /\ IsRefused(Head(b.queue))
  /\ d' = Answered(Head(b.queue), "error", FALSE)
  /\ UNCHANGED <<context, begun, userTurn, aux, ledger>>

\* The next call needs approval: the batch ends, what follows it is not run.
Ask ==
  /\ At("run") /\ b.queue # <<>>
  /\ LET c == Head(b.queue) IN c \notin Reads /\ ~IsRefused(c) /\ ~IsToolPreapproved(c)
  /\ d' = [d EXCEPT !.pc = "asking"]
  /\ UNCHANGED <<context, begun, userTurn, aux, ledger>>

\* The batch stops at its turn limit, at the tool call limit or with an error.
Stop ==
  /\ At("run")
  /\ \/ b.queue = <<>> /\ b.used = d.turns /\ d' = [Folded(TRUE) EXCEPT !.turns = 0]
     \/ b.queue # <<>> /\ d' = Folded(TRUE)
     \/ b.queue = <<>> /\ d' = Folded(TRUE)
  /\ UNCHANGED <<context, begun, userTurn, aux, ledger>>

\* The deadline passes while a batch runs: its events are lost, its effects stay.
\* It is a moment, fixed when the delegation began: the time the user took to
\* answer counts, and a batch that starts after the deadline ends at once.
Timeout ==
  /\ d.pc \in {"run", "resume"}
  /\ d' = [d EXCEPT !.pc = "report", !.status = "failed", !.batch = NewBatch, !.open = {}]
  /\ UNCHANGED <<context, begun, userTurn, aux, ledger>>

-----------------------------------------------------------------------------
(* The answer to an approval request.  Nothing is cancelled while the user *)
(* is asked: the deadline is looked at when the next batch starts.         *)

Asked == Head(b.queue)

\* _approval_scope_from_response
Scope(answer) == IF answer = "" THEN ScopeForPolicy(Policy) ELSE answer

\* _record_inner_approval: for the turn means every mutating call under on-request
RecordInnerApproval(c, answer) ==
  IF Scope(answer) = "turn" /\ Policy = "on-request"
  THEN /\ RecordTurnWideMutatingApproval
       /\ granted' = granted \cup (NormKeys \X {"turn"})
  ELSE /\ RecordApproval(c, Scope(answer))
       /\ granted' = granted \cup {<<Norm[c], IF Scope(answer) = "session" THEN "session" ELSE "turn">>}

\* Mutant of PendingCalls: the message keeps all the calls of the response.
PendingCallsAll == b.asked
\* The message that goes into the history has the approved call only.
PendingCalls == {Asked}

\* Mutant of TurnsLeft: the batch that asked is not counted.
TurnsLeftUncounted == d.turns
TurnsLeft == d.turns - b.used

Approve(answer) ==
  /\ At("asking")
  /\ RecordInnerApproval(Asked, answer)
  /\ d' = [d EXCEPT !.pc = "resume", !.turns = TurnsLeft, !.open = PendingCalls]
  /\ UNCHANGED <<context, begun, userTurn, changed, denied, given, reports>>

Finished(status) ==
  [d EXCEPT !.pc = "report", !.status = status, !.turns = TurnsLeft, !.batch = NewBatch]

\* Mutant of Deny: the refusal is not recorded.
DenyUnrecorded ==
  /\ At("asking")
  /\ d' = Finished("failed")
  /\ denied' = denied \cup {Asked}
  /\ UNCHANGED <<context, begun, userTurn, changed, granted, given, reports, ledger>>

Deny ==
  /\ At("asking")
  /\ RecordRefusal(Asked)
  /\ d' = Finished("failed")
  /\ denied' = denied \cup {Asked}
  /\ UNCHANGED <<context, begun, userTurn, changed, granted, given, reports>>

\* No callback, or an answer that is neither: the task comes back as needs_approval.
LeaveOpen ==
  /\ At("asking")
  /\ d' = Finished("needs_approval")
  /\ UNCHANGED <<context, begun, userTurn, aux, ledger>>

\* agent.run with resume_tool_calls: the approved call and nothing else, then a
\* new batch if the model has turns left.  What the batch that asked had done
\* before is neither in the history nor among the modified files.
RunApproved ==
  /\ At("resume")
  /\ \E outcome \in {"ok", "error"} :
       /\ changed' = IF outcome = "ok" THEN changed \cup {Asked} ELSE changed
       /\ d' = [d EXCEPT !.pc = IF d.turns = 0 THEN "report" ELSE "run",
                         !.status = IF outcome = "error" \/ d.turns = 0 THEN "failed"
                                    ELSE "completed",
                         !.failing = (outcome = "error"),
                         !.files = IF outcome = "ok" THEN @ \cup {Asked} ELSE @,
                         !.open = @ \ {Asked},
                         !.batch = NewBatch]
  /\ ConsumeApproval(Asked)
  /\ UNCHANGED <<context, begun, userTurn, granted, denied, given, reports>>

-----------------------------------------------------------------------------
(* The result                                                              *)

\* _subagent_result_envelope: the changed files are those the final text names,
\* if it is a JSON object that names any, and the modified files otherwise.
Reports == {d.files} \cup (IF d.failing THEN {} ELSE SUBSET Calls \ {{}})

\* The handoff packet, if there is something to hand over
PersistPacket(reported, out) ==
  \/ /\ out = {counter + 1}
     /\ counter' = counter + 1
     /\ packets' = Suffix(Append(packets, [id |-> counter + 1, task |-> d.task]), PacketLimit)
     /\ shown' = shown \cup out
  \/ /\ out = {} /\ reported = {}
     /\ UNCHANGED <<packets, counter, shown>>

Report ==
  /\ At("report")
  /\ \E reported \in Reports, out \in SUBSET {counter + 1} :
       /\ PersistPacket(reported, out)
       /\ SaveContinuation(NextContinuation(reported, out))
       /\ reports' = [reports EXCEPT ![d.task] = WithNew(@, reported)]
  /\ d' = Idle
  /\ UNCHANGED <<begun, userTurn, changed, granted, denied, given, ledger>>

\* The user stops the turn: the delegation is cancelled wherever it waits.
Abort ==
  /\ ~At("idle")
  /\ d' = Idle
  /\ UNCHANGED <<context, begun, userTurn, aux, ledger>>

-----------------------------------------------------------------------------
Answers == {"", "once", "turn", "session"}
Responses == {s \in BoundedSeq(Calls, MaxCalls) : IsInjective(s)}

UserAnswers == (\E answer \in Answers : Approve(answer)) \/ Deny \/ LeaveOpen
SubAgentStep ==
  \/ \E calls \in Responses : Respond(calls)
  \/ RunCall \/ RefuseCall \/ Ask \/ Stop \/ Timeout \/ RunApproved \/ Report
Next ==
  \/ NextUserTurn
  \/ \E a \in Agents : Delegate(a) \/ \E t \in Ids : Resume(t, a)
  \/ SubAgentStep \/ UserAnswers \/ Abort

Spec == Init /\ [][Next]_vars

-----------------------------------------------------------------------------
(* Properties                                                              *)

\* The types of the variables.
TypeOK ==
  /\ LedgerTypeOK
  /\ conts \in Seq(Cont) /\ tasks \subseteq Ids /\ worksOn \in [Agents -> 0..MaxDelegations]
  /\ packets \in Seq([id : Nat, task : Ids]) /\ counter \in Nat /\ shown \subseteq Nat
  /\ d \in [pc : {"idle", "run", "asking", "resume", "report"}, task : 0..MaxDelegations,
            agent : Agents, prev : Seq(Cont), turns : 0..MaxTurns, files : SUBSET Calls,
            failing : BOOLEAN, status : {"completed", "failed", "needs_approval"},
            open : SUBSET Calls, batch : Batch]
  /\ begun \in 0..MaxDelegations /\ userTurn \in 1..MaxUserTurns
  /\ changed \subseteq Calls /\ denied \subseteq Calls
  /\ granted \subseteq NormKeys \X {"turn", "session"} /\ given \in [Ids -> 0..MaxDelegations]
  /\ reports \in [Ids -> Seq(Calls)]

\* When the model of a sub-agent is asked, every call in its history has its
\* result (providers refuse a conversation that lacks one).
HistoryAnswered == At("run") => d.open = {}

\* A call that changes something runs only if the user approved it, in this turn
\* or for the session, and did not refuse it in this turn - whichever sub-agent
\* made it, and whatever became of the delegation the user was asked in.
DelegatedConsent ==
  [][\A c \in changed' \ changed :
       c \notin denied /\ \E g \in granted : g[1] = Norm[c]]_vars

\* A task that is still retained keeps its TaskContext and the last answer the
\* user gave to it, however the limits of the records drop others.
TaskKept ==
  /\ \A i \in DOMAIN conts : LET c == conts[i] IN
       /\ c.id \in tasks
       /\ given[c.id] # 0 => c.answers # <<>> /\ Last(c.answers) = given[c.id]
  /\ tasks \subseteq IdsOf(conts)

\* What a retained task holds of the files its delegations reported, the earlier
\* ones and those of its resumptions, are the first ItemLimit of them: below the
\* limit none is lost, at the limit the later ones are.  And no step gives the
\* task to another agent.
FilesKept ==
  [][\A j \in DOMAIN conts' :
       /\ conts'[j].files = Prefix(reports'[conts'[j].id], ItemLimit)
       /\ \A i \in DOMAIN conts :
            conts[i].id = conts'[j].id => conts[i].agent = conts'[j].agent]_vars

\* How far the delegation is from its result: the responses its model may still
\* give, then what is left of the batch
Rank ==
  LET left == IF At("resume") THEN d.turns ELSE d.turns - b.used
      phase == CASE At("run") /\ b.queue # <<>> -> Len(b.queue) + 3
                 [] At("asking") -> 3
                 [] At("resume") -> 2
                 [] OTHER -> 1
  IN  IF d.pc \in {"idle", "report"} THEN 0 ELSE left * (MaxCalls + 4) + phase

\* Every delegation ends: each step of the sub-agent, of its tools and of the
\* user brings it nearer to its result, however approvals interrupt it.
DelegateEnds == [][~At("idle") /\ d'.pc # "idle" => Rank' < Rank]_d
=============================================================================
