-------------------------- MODULE Delegates_proofs --------------------------
(***************************************************************************)
(* Five properties of delegations for any calls, sub-agents and limits:    *)
(* the history a sub-agent's model is shown has the result of every call,  *)
(* what a sub-agent changes was approved by the user and not refused,      *)
(* every step of a delegation brings it nearer to its result, and what is  *)
(* retained of a task keeps its answers, the files of its reports up to    *)
(* the limit of the list, and its agent.                                   *)
(*                                                                         *)
(* The first invariant follows the call that is asked about from the batch *)
(* that stopped to the resumption.  The second ties each entry of the      *)
(* approval ledger, which outlives the delegation, to an answer.           *)
(* The third bounds what is left by the responses the model may still give *)
(* and the calls of the batch; a batch that asks and is resumed is counted *)
(* in both halves.  The last one says that a delegation in progress either *)
(* began its task or holds the very record it resumed, which no other      *)
(* delegation can change meanwhile.                                        *)
(***************************************************************************)
EXTENDS Delegates, FiniteSetTheorems, TLAPS

Phases == {"idle", "run", "asking", "resume", "report"}

\* The fields of a batch and of a delegation.
BatchFields == {"used", "queue", "asked", "found", "outcome"}
Fields == {"pc", "task", "agent", "prev", "turns", "files", "failing", "status", "open", "batch"}
BatchFormed(r) == r = [f \in BatchFields |-> r[f]]
Formed(r) == r = [f \in Fields |-> r[f]] /\ BatchFormed(r.batch)

OpenInv ==
    /\ Formed(d)
    /\ d.pc \in Phases
    /\ d.batch.queue \in Seq(Calls)
    /\ d.pc \in {"asking", "resume"} => d.batch.queue # <<>>
    /\ d.pc \in {"idle", "run", "asking"} => d.open = {}
    /\ d.pc = "resume" => d.open = {Asked}

-----------------------------------------------------------------------------
LEMMA BeginFormed ==
    ASSUME NEW t, NEW a, NEW prev
    PROVE  /\ Formed(Begin(t, a, prev)) /\ Begin(t, a, prev).pc = "run"
           /\ Begin(t, a, prev).open = {} /\ Begin(t, a, prev).batch.queue = <<>>
  BY DEF Formed, BatchFormed, Fields, BatchFields, Begin, NewBatch

LEMMA IdleFormed ==
    /\ Formed(Idle) /\ Idle.pc = "idle" /\ Idle.open = {} /\ Idle.batch.queue = <<>>
  BY DEF Idle, Formed, BatchFormed, Fields, BatchFields, Begin, NewBatch

LEMMA OpenInit == Init => OpenInv
<1>1. <<>> \in Seq(Calls)
  OBVIOUS
<1>2. QED
  BY <1>1, IdleFormed DEF Init, OpenInv, Phases

\* A delegation that is not asking about a call.
LEMMA OpenAside ==
    ASSUME OpenInv, Formed(d'), d'.pc \in {"idle", "run", "report"},
           d'.pc = "report" \/ d'.open = {}, d'.batch.queue \in Seq(Calls)
    PROVE  OpenInv'
  BY DEF OpenInv, Phases

\* What the operators that end a batch make of the delegation.
LEMMA FoldedFormed ==
    ASSUME OpenInv, NEW fault
    PROVE  /\ Formed(Folded(fault)) /\ Folded(fault).pc = "report"
           /\ Folded(fault).batch.queue = <<>>
  BY DEF OpenInv, Formed, BatchFormed, Fields, BatchFields, Folded, NewBatch

LEMMA FinishedFormed ==
    ASSUME OpenInv, NEW status
    PROVE  /\ Formed(Finished(status)) /\ Finished(status).pc = "report"
           /\ Finished(status).batch.queue = <<>>
  BY DEF OpenInv, Formed, BatchFormed, Fields, BatchFields, Finished, NewBatch

LEMMA AnsweredFormed ==
    ASSUME OpenInv, d.pc = "run", d.batch.queue # <<>>, NEW c, NEW o, NEW names
    PROVE  /\ Formed(Answered(c, o, names)) /\ Answered(c, o, names).pc = "run"
           /\ Answered(c, o, names).open = {}
           /\ Answered(c, o, names).batch.queue \in Seq(Calls)
<1>1. Tail(d.batch.queue) \in Seq(Calls)
  BY DEF OpenInv
<1>2. QED
  BY <1>1 DEF OpenInv, Formed, BatchFormed, Fields, BatchFields, Answered

-----------------------------------------------------------------------------
\* Each step of the batch keeps the pending call and the history together.
LEMMA OpenStep == ASSUME OpenInv, SubAgentStep PROVE OpenInv'
<1> USE DEF b, At
<1>0. <<>> \in Seq(Calls)
  OBVIOUS
<1>1. ASSUME NEW calls \in Responses, Respond(calls) PROVE OpenInv'
  <2>1. CASE calls = <<>>
    <3>1. d' = [Folded(FALSE) EXCEPT !.turns = @ - 1]
      BY <1>1, <2>1 DEF Respond
    <3>2. Formed(d') /\ d'.pc = "report" /\ d'.batch.queue = <<>>
      BY <3>1, FoldedFormed DEF Formed, BatchFormed, Fields, BatchFields
    <3>3. QED
      BY <1>0, <3>2, OpenAside
  <2>2. CASE calls # <<>>
    <3>1. d' = [d EXCEPT !.batch.used = @ + 1, !.batch.queue = calls,
                         !.batch.asked = ToSet(calls)]
      BY <1>1, <2>2 DEF Respond
    <3>2. d.pc = "run" /\ d.open = {}
      BY <1>1 DEF Respond, OpenInv
    <3>3. Formed(d') /\ d'.pc = "run" /\ d'.open = {} /\ d'.batch.queue = calls
      BY <3>1, <3>2 DEF OpenInv, Formed, BatchFormed, Fields, BatchFields
    <3>4. calls \in Seq(Calls)
      <4>1. PICK m \in 0..MaxCalls : calls \in [1..m -> Calls]
        BY DEF Responses, BoundedSeq, SeqOf
      <4>2. QED
        BY <4>1, DelegatesAssumption
    <3>5. QED
      BY <3>3, <3>4, OpenAside
  <2>3. QED
    BY <2>1, <2>2
<1>2. CASE RunCall
  <2>1. /\ d.pc = "run" /\ d.batch.queue # <<>>
        /\ \E o : d' = Answered(Head(d.batch.queue), o, o = "ok")
    BY <1>2 DEF RunCall
  <2>2. QED
    BY <2>1, AnsweredFormed, OpenAside
<1>3. CASE RefuseCall
  <2>1. /\ d.pc = "run" /\ d.batch.queue # <<>>
        /\ d' = Answered(Head(d.batch.queue), "error", FALSE)
    BY <1>3 DEF RefuseCall
  <2>2. QED
    BY <2>1, AnsweredFormed, OpenAside
<1>4. CASE Ask
  <2>1. d' = [d EXCEPT !.pc = "asking"] /\ d.pc = "run" /\ d.batch.queue # <<>>
    BY <1>4 DEF Ask
  <2>2. /\ Formed(d') /\ d'.pc = "asking" /\ d'.open = d.open /\ d'.batch = d.batch
    BY <2>1 DEF OpenInv, Formed, Fields
  <2>3. d.open = {} /\ d.batch.queue \in Seq(Calls)
    BY <2>1 DEF OpenInv
  <2> DEFINE now == d'
  <2>4. /\ Formed(now) /\ now.pc = "asking" /\ now.open = {}
        /\ now.batch.queue \in Seq(Calls) /\ now.batch.queue # <<>>
    BY <2>1, <2>2, <2>3
  <2> HIDE DEF now
  <2>5. /\ Formed(now) /\ now.pc \in Phases
        /\ now.batch.queue \in Seq(Calls) /\ now.batch.queue # <<>>
        /\ now.open = {} /\ now.pc # "resume"
    BY <2>4 DEF Phases
  <2>6. QED
    BY <2>5 DEF OpenInv, now
<1>5. CASE Stop
  <2>1. d' = Folded(TRUE) \/ d' = [Folded(TRUE) EXCEPT !.turns = 0]
    BY <1>5 DEF Stop
  <2>2. Formed(d') /\ d'.pc = "report" /\ d'.batch.queue = <<>>
    BY <2>1, FoldedFormed DEF Formed, BatchFormed, Fields, BatchFields
  <2>3. QED
    BY <1>0, <2>2, OpenAside
<1>6. CASE Timeout
  <2>1. d' = [d EXCEPT !.pc = "report", !.status = "failed", !.batch = NewBatch, !.open = {}]
    BY <1>6 DEF Timeout
  <2>2. Formed(d') /\ d'.pc = "report" /\ d'.batch.queue = <<>>
    BY <2>1 DEF OpenInv, Formed, BatchFormed, Fields, BatchFields, NewBatch
  <2>3. QED
    BY <1>0, <2>2, OpenAside
<1>7. CASE RunApproved
  <2>1. d.pc = "resume" /\ d.open = {Asked}
    BY <1>7 DEF RunApproved, OpenInv
  <2>2. PICK outcome \in {"ok", "error"} :
           d' = [d EXCEPT !.pc = IF d.turns = 0 THEN "report" ELSE "run",
                          !.status = IF outcome = "error" \/ d.turns = 0 THEN "failed"
                                     ELSE "completed",
                          !.failing = (outcome = "error"),
                          !.files = IF outcome = "ok" THEN @ \cup {Asked} ELSE @,
                          !.open = @ \ {Asked},
                          !.batch = NewBatch]
    BY <1>7, Zenon DEF RunApproved
  <2> DEFINE next == IF d.turns = 0 THEN "report" ELSE "run"
             status == IF outcome = "error" \/ d.turns = 0 THEN "failed" ELSE "completed"
             failing == (outcome = "error")
             modified == IF outcome = "ok" THEN d.files \cup {Asked} ELSE d.files
             left == d.open \ {Asked}
  <2>3. d' = [d EXCEPT !.pc = next, !.status = status, !.failing = failing,
                       !.files = modified, !.open = left, !.batch = NewBatch]
    BY <2>2, Zenon
  <2>4. next \in {"run", "report"} /\ left = {}
    BY <2>1
  <2> HIDE DEF next, status, failing, modified, left
  <2>5. /\ Formed(d') /\ d'.pc = next /\ d'.batch.queue = <<>> /\ d'.open = left
    BY <2>3 DEF OpenInv, Formed, BatchFormed, Fields, BatchFields, NewBatch
  <2>6. QED
    BY <1>0, <2>4, <2>5, OpenAside
<1>8. CASE Report
  BY <1>0, <1>8, IdleFormed, OpenAside DEF Report
<1>9. QED
  BY <1>1, <1>2, <1>3, <1>4, <1>5, <1>6, <1>7, <1>8 DEF SubAgentStep

LEMMA OpenNext == OpenInv /\ [Next]_vars => OpenInv'
<1> SUFFICES ASSUME OpenInv, [Next]_vars PROVE OpenInv'
  OBVIOUS
<1>0. <<>> \in Seq(Calls)
  OBVIOUS
<1>1. CASE NextUserTurn \/ UNCHANGED vars
  <2>1. d' = d
    BY <1>1 DEF NextUserTurn, vars
  <2>2. QED
    BY <2>1 DEF OpenInv, Asked, b
<1>2. ASSUME NEW a \in Agents, Delegate(a) PROVE OpenInv'
  <2>1. d' = Begin(begun + 1, a, <<>>)
    BY <1>2 DEF Delegate
  <2>2. Formed(d') /\ d'.pc = "run" /\ d'.open = {} /\ d'.batch.queue = <<>>
    BY <2>1, BeginFormed
  <2>3. QED
    BY <1>0, <2>2, OpenAside
<1>3. ASSUME NEW a \in Agents, NEW t \in Ids, Resume(t, a) PROVE OpenInv'
  <2>1. CASE \E prev : d' = Begin(t, a, prev)
    BY <1>0, <2>1, BeginFormed, OpenAside
  <2>2. CASE d' = d
    BY <2>2 DEF OpenInv, Asked, b
  <2>3. QED
    BY <1>3, <2>1, <2>2 DEF Resume
<1>4. CASE SubAgentStep
  BY <1>4, OpenStep
<1>5. ASSUME NEW answer \in Answers, Approve(answer) PROVE OpenInv'
  <2>1. d' = [d EXCEPT !.pc = "resume", !.turns = TurnsLeft, !.open = {Asked}]
    BY <1>5 DEF Approve, PendingCalls
  <2>2. Formed(d') /\ d'.pc = "resume" /\ d'.open = {Asked} /\ d'.batch = d.batch
    BY <2>1 DEF OpenInv, Formed, Fields
  <2>3. d.batch.queue # <<>>
    BY <1>5 DEF Approve, At, OpenInv
  <2>4. QED
    BY <2>2, <2>3 DEF OpenInv, Phases, Asked, b
<1>6. CASE Deny \/ LeaveOpen
  <2>1. \E status : d' = Finished(status)
    BY <1>6 DEF Deny, LeaveOpen
  <2>2. QED
    BY <1>0, <2>1, FinishedFormed, OpenAside
<1>7. CASE Abort
  BY <1>0, <1>7, IdleFormed, OpenAside DEF Abort
<1>8. QED
  BY <1>1, <1>2, <1>3, <1>4, <1>5, <1>6, <1>7 DEF Next, UserAnswers

\* Whenever the model of a sub-agent is asked, every call of its history has
\* its result: the message rebuilt after an approval holds the approved call
\* only (sandbox/agent_tool.py, execute).
THEOREM HistoryIsAnswered == Spec => []HistoryAnswered
<1>1. OpenInv => HistoryAnswered
  BY DEF OpenInv, HistoryAnswered, At
<1>2. QED
  BY <1>1, OpenInit, OpenNext, PTL DEF Spec

-----------------------------------------------------------------------------
\* The user said yes to a call with this key, and it still counts.
Granted(k) == \E g \in granted : g[1] = k

LedgerInv ==
    /\ LedgerTypeOK
    /\ \A c \in sessionApproved : <<Norm[c], "session">> \in granted
    /\ \A c \in turnApproved : Granted(Norm[c])
    /\ \A c \in Calls : onceApproved[c] > 0 => Granted(Norm[c])
    /\ \A k \in NormKeys : onceNormalized[k] > 0 => Granted(k)
    /\ turnWide => \A k \in NormKeys : Granted(k)
    /\ denied \subseteq turnRefused

PendingInv ==
    /\ d.pc \in {"asking", "resume"} => Asked \notin turnRefused
    /\ d.pc = "resume" => Granted(Norm[Asked])

ConsentInv == OpenInv /\ LedgerInv /\ PendingInv

LEMMA ConsentInit == Init => ConsentInv
<1> SUFFICES ASSUME Init PROVE ConsentInv
  OBVIOUS
<1>1. LedgerTypeOK
  <2>1. /\ sessionApproved = {} /\ turnApproved = {} /\ turnRefused = {}
        /\ onceApproved \in [Calls -> Nat] /\ onceNormalized \in [NormKeys -> Nat]
    BY DEF Init, LedgerInit
  <2>2. turnWide \in BOOLEAN
    BY Zenon DEF Init, LedgerInit
  <2>3. QED
    BY <2>1, <2>2 DEF LedgerTypeOK
<1>2. LedgerInv
  <2>1. /\ sessionApproved = {} /\ turnApproved = {} /\ denied = {} /\ ~turnWide
        /\ onceApproved = [c \in Calls |-> 0] /\ onceNormalized = [k \in NormKeys |-> 0]
    BY DEF Init, LedgerInit
  <2>2. QED
    BY <1>1, <2>1 DEF LedgerInv
<1>3. PendingInv
  BY IdleFormed DEF Init, PendingInv
<1>4. QED
  BY <1>2, <1>3, OpenInit DEF ConsentInv

\* A call that may run without asking was granted.
LEMMA PreapprovedGranted ==
    ASSUME LedgerInv, NEW c \in Calls, IsToolPreapproved(c)
    PROVE  Granted(Norm[c])
<1>1. Norm[c] \in NormKeys
  BY NormAssumption
<1>2. QED
  BY <1>1 DEF LedgerInv, LedgerTypeOK, IsToolPreapproved, IsPreApproved, Granted

\* The ledger after an execution.
LEMMA ConsumeLedger ==
    ASSUME LedgerInv, NEW c \in Calls, ConsumeApproval(c), UNCHANGED <<granted, denied>>
    PROVE  LedgerInv'
<1> USE NormAssumption DEF LedgerInv, LedgerTypeOK
<1>1. /\ UNCHANGED <<sessionApproved, turnApproved, turnWide, turnRefused>>
      /\ onceApproved' = [onceApproved EXCEPT ![c] = Decremented(@)]
      /\ onceNormalized' = [onceNormalized EXCEPT ![Norm[c]] = Decremented(@)]
  BY DEF ConsumeApproval
<1>2. \A n \in Nat : Decremented(n) \in Nat /\ Decremented(n) <= n
  BY DEF Decremented
<1>3. /\ onceApproved' \in [Calls -> Nat] /\ onceNormalized' \in [NormKeys -> Nat]
      /\ \A x \in Calls : onceApproved'[x] <= onceApproved[x]
      /\ \A k \in NormKeys : onceNormalized'[k] <= onceNormalized[k]
  BY <1>1, <1>2
<1>4. \A k : Granted(k)' <=> Granted(k)
  BY DEF Granted
<1>5. LedgerTypeOK'
  BY <1>1, <1>3
<1>6. /\ (\A x \in Calls : onceApproved[x] > 0 => Granted(Norm[x]))'
      /\ (\A k \in NormKeys : onceNormalized[k] > 0 => Granted(k))'
  BY <1>3, <1>4
<1>7. /\ (\A x \in sessionApproved : <<Norm[x], "session">> \in granted)'
      /\ (\A x \in turnApproved : Granted(Norm[x]))'
      /\ (turnWide => \A k \in NormKeys : Granted(k))'
      /\ (denied \subseteq turnRefused)'
  BY <1>1, <1>4
<1>8. QED
  BY <1>5, <1>6, <1>7

\* The ledger after an answer to a request of a sub-agent.
LEMMA AnswerLedger ==
    ASSUME LedgerInv, NEW c \in Calls, NEW answer \in Answers,
           RecordInnerApproval(c, answer), UNCHANGED denied
    PROVE  LedgerInv' /\ Granted(Norm[c])' /\ turnRefused' = turnRefused
<1> USE NormAssumption DEF LedgerInv, LedgerTypeOK
<1>0. Norm[c] \in NormKeys
  OBVIOUS
<1>1. Scope(answer) \in Scopes
  BY DEF Scope, Answers, Scopes, ScopeForPolicy
<1>2. CASE Scope(answer) = "turn" /\ Policy = "on-request"
  <2>1. /\ turnWide' = TRUE /\ granted' = granted \cup (NormKeys \X {"turn"})
        /\ UNCHANGED <<sessionApproved, turnApproved, onceApproved, onceNormalized,
                       turnRefused>>
    BY <1>2 DEF RecordInnerApproval, RecordTurnWideMutatingApproval
  <2>2. \A k \in NormKeys : Granted(k)'
    <3>1. \A k \in NormKeys : <<k, "turn">> \in granted'
      BY <2>1
    <3>2. QED
      BY <3>1 DEF Granted
  <2>3. QED
    BY <1>0, <2>1, <2>2
<1>3. CASE ~(Scope(answer) = "turn" /\ Policy = "on-request")
  <2> DEFINE g == <<Norm[c], IF Scope(answer) = "session" THEN "session" ELSE "turn">>
  <2>1. RecordApproval(c, Scope(answer)) /\ granted' = granted \cup {g}
    BY <1>3 DEF RecordInnerApproval
  <2>2. Granted(Norm[c])' /\ \A k : Granted(k) => Granted(k)'
    <3>1. g[1] = Norm[c]
      OBVIOUS
    <3> HIDE DEF g
    <3>2. g \in granted' /\ granted \subseteq granted'
      BY <2>1
    <3>3. QED
      BY <3>1, <3>2 DEF Granted
  <2>3. UNCHANGED <<turnWide, turnRefused>>
    BY <2>1 DEF RecordApproval
  <2>4. /\ (turnWide => \A k \in NormKeys : Granted(k))' /\ (denied \subseteq turnRefused)'
        /\ turnWide' \in BOOLEAN
    BY <2>2, <2>3
  <2>5. CASE Scope(answer) = "once"
    <3>1. /\ onceApproved' = [onceApproved EXCEPT ![c] = @ + 1]
          /\ onceNormalized' = [onceNormalized EXCEPT ![Norm[c]] = @ + 1]
          /\ UNCHANGED <<turnApproved, sessionApproved>>
      BY <2>1, <2>5 DEF RecordApproval
    <3>2. /\ onceApproved' \in [Calls -> Nat] /\ onceNormalized' \in [NormKeys -> Nat]
          /\ \A x \in Calls : x = c \/ onceApproved'[x] = onceApproved[x]
          /\ \A k \in NormKeys : k = Norm[c] \/ onceNormalized'[k] = onceNormalized[k]
      BY <1>0, <3>1
    <3>3. QED
      BY <2>1, <2>2, <2>3, <2>4, <3>1, <3>2
  <2>6. CASE Scope(answer) \in {"turn", "session"}
    <3>1. /\ turnApproved' = turnApproved \cup {c}
          /\ sessionApproved' = IF Scope(answer) = "session" THEN sessionApproved \cup {c}
                                ELSE sessionApproved
          /\ UNCHANGED <<onceApproved, onceNormalized>>
      BY <2>1, <2>6 DEF RecordApproval
    <3>2. \A x \in sessionApproved' : <<Norm[x], "session">> \in granted'
      BY <2>1, <3>1
    <3>3. \A x \in turnApproved' : Granted(Norm[x])'
      BY <2>2, <3>1
    <3>4. QED
      BY <2>2, <2>3, <2>4, <3>1, <3>2, <3>3
  <2>7. QED
    BY <1>1, <2>5, <2>6 DEF Scopes
<1>4. QED
  BY <1>2, <1>3

\* A new turn of the user: what was granted for the last one is forgotten.
LEMMA TurnLedger ==
    ASSUME LedgerInv, NextUserTurn
    PROVE  LedgerInv'
<1> USE NormAssumption DEF LedgerInv, LedgerTypeOK
<1>1. /\ onceApproved' = [c \in Calls |-> 0] /\ onceNormalized' = [n \in NormKeys |-> 0]
      /\ turnApproved' = {} /\ turnRefused' = {} /\ denied' = {}
      /\ UNCHANGED sessionApproved
      /\ granted' = {g \in granted : g[2] = "session"}
  BY DEF NextUserTurn, BeginTurn
<1>2. turnWide' = FALSE
  BY Zenon DEF NextUserTurn, BeginTurn
<1>3. \A c \in sessionApproved : <<Norm[c], "session">> \in granted'
  BY <1>1
<1>4. LedgerTypeOK'
  <2>1. /\ onceApproved' \in [Calls -> Nat] /\ onceNormalized' \in [NormKeys -> Nat]
        /\ sessionApproved' \subseteq Calls /\ turnApproved' \subseteq Calls
        /\ turnRefused' \subseteq Calls
    BY <1>1
  <2>2. turnWide' \in BOOLEAN
    BY <1>2, Zenon
  <2>3. QED
    BY <2>1, <2>2
<1>5. /\ \A c \in Calls : onceApproved'[c] = 0
      /\ \A k \in NormKeys : onceNormalized'[k] = 0
  BY <1>1
<1>6. QED
  BY <1>1, <1>2, <1>3, <1>4, <1>5

-----------------------------------------------------------------------------
\* A step that leaves the ledger and the answers alone.
LEMMA LedgerAside ==
    ASSUME LedgerInv, UNCHANGED <<ledger, granted, denied>>
    PROVE  LedgerInv'
  BY DEF LedgerInv, LedgerTypeOK, ledger, Granted

\* The call that is asked about is one of the calls.
LEMMA AskedIsCall ==
    ASSUME OpenInv, d.batch.queue # <<>>
    PROVE  Asked \in Calls /\ Asked = Head(d.batch.queue)
  BY DEF OpenInv, Asked, b

\* A step whose delegation does not wait for an approval afterwards.
LEMMA PendingAside == ASSUME d'.pc \notin {"asking", "resume"} PROVE PendingInv'
  BY DEF PendingInv

LEMMA ConsentStep == ASSUME ConsentInv, SubAgentStep PROVE LedgerInv' /\ PendingInv'
<1> USE DEF b, At
<1>1. ASSUME NEW calls \in Responses, Respond(calls) PROVE LedgerInv' /\ PendingInv'
  <2>1. d'.pc \in {"run", "report"}
    <3>1. CASE calls = <<>>
      <4>1. d' = [Folded(FALSE) EXCEPT !.turns = @ - 1]
        BY <1>1, <3>1 DEF Respond
      <4>2. QED
        BY <4>1, FoldedFormed DEF ConsentInv, Formed, Fields
    <3>2. CASE calls # <<>>
      BY <1>1, <3>2 DEF Respond, ConsentInv, OpenInv, Formed, Fields
    <3>3. QED
      BY <3>1, <3>2
  <2>2. UNCHANGED <<ledger, granted, denied>>
    BY <1>1 DEF Respond
  <2>3. QED
    BY <2>1, <2>2, LedgerAside, PendingAside DEF ConsentInv
<1>2. CASE RunCall
  <2>1. d.pc = "run" /\ d.batch.queue # <<>> /\ Asked = Head(d.batch.queue)
    BY <1>2 DEF RunCall, Asked
  <2>2. \E o : d' = Answered(Asked, o, o = "ok")
    BY <1>2, <2>1 DEF RunCall
  <2>3. d'.pc = "run"
    BY <2>1, <2>2, AnsweredFormed DEF ConsentInv
  <2>4. ConsumeApproval(Asked) /\ UNCHANGED <<granted, denied>>
    BY <1>2, <2>1 DEF RunCall
  <2>5. Asked \in Calls
    BY <2>1, AskedIsCall DEF ConsentInv
  <2>6. QED
    BY <2>3, <2>4, <2>5, ConsumeLedger, PendingAside DEF ConsentInv
<1>3. CASE RefuseCall
  <2>1. /\ d.pc = "run" /\ d.batch.queue # <<>>
        /\ d' = Answered(Head(d.batch.queue), "error", FALSE)
        /\ UNCHANGED <<ledger, granted, denied>>
    BY <1>3 DEF RefuseCall, aux
  <2>2. d'.pc = "run"
    BY <2>1, AnsweredFormed DEF ConsentInv
  <2>3. QED
    BY <2>1, <2>2, LedgerAside, PendingAside DEF ConsentInv
<1>4. CASE Ask
  <2>1. /\ d' = [d EXCEPT !.pc = "asking"] /\ ~IsRefused(Head(d.batch.queue))
        /\ UNCHANGED <<ledger, granted, denied>>
    BY <1>4 DEF Ask, aux
  <2>2. d'.pc = "asking" /\ d'.batch = d.batch
    BY <2>1 DEF ConsentInv, OpenInv, Formed, Fields
  <2>3. PendingInv'
    BY <2>1, <2>2 DEF PendingInv, Asked, IsRefused, ledger
  <2>4. QED
    BY <2>1, <2>3, LedgerAside DEF ConsentInv
<1>5. CASE Stop
  <2>1. d' = Folded(TRUE) \/ d' = [Folded(TRUE) EXCEPT !.turns = 0]
    BY <1>5 DEF Stop
  <2>2. d'.pc = "report"
    BY <2>1, FoldedFormed DEF ConsentInv, Formed, Fields
  <2>3. UNCHANGED <<ledger, granted, denied>>
    BY <1>5 DEF Stop, aux
  <2>4. QED
    BY <2>2, <2>3, LedgerAside, PendingAside DEF ConsentInv
<1>6. CASE Timeout
  <2>1. d'.pc = "report" /\ UNCHANGED <<ledger, granted, denied>>
    BY <1>6 DEF Timeout, aux, ConsentInv, OpenInv, Formed, Fields
  <2>2. QED
    BY <2>1, LedgerAside, PendingAside DEF ConsentInv
<1>7. CASE RunApproved
  <2>1. d'.pc \in {"run", "report"}
    BY <1>7 DEF RunApproved, ConsentInv, OpenInv, Formed, Fields
  <2>2. ConsumeApproval(Asked) /\ UNCHANGED <<granted, denied>> /\ Asked \in Calls
    BY <1>7, AskedIsCall DEF RunApproved, ConsentInv, OpenInv
  <2>3. QED
    BY <2>1, <2>2, ConsumeLedger, PendingAside DEF ConsentInv
<1>8. CASE Report
  <2>1. d' = Idle /\ UNCHANGED <<ledger, granted, denied>>
    BY <1>8 DEF Report, aux
  <2>2. QED
    BY <2>1, IdleFormed, LedgerAside, PendingAside DEF ConsentInv
<1>9. QED
  BY <1>1, <1>2, <1>3, <1>4, <1>5, <1>6, <1>7, <1>8 DEF SubAgentStep

LEMMA ConsentNext == ConsentInv /\ [Next]_vars => ConsentInv'
<1> SUFFICES ASSUME ConsentInv, [Next]_vars PROVE ConsentInv'
  OBVIOUS
<1>0. OpenInv'
  BY OpenNext DEF ConsentInv
<1> SUFFICES LedgerInv' /\ PendingInv'
  BY <1>0 DEF ConsentInv
<1>1. CASE NextUserTurn
  <2>1. d'.pc = "idle"
    BY <1>1 DEF NextUserTurn, At
  <2>2. QED
    BY <1>1, <2>1, TurnLedger, PendingAside DEF ConsentInv
<1>2. ASSUME NEW a \in Agents, Delegate(a) PROVE LedgerInv' /\ PendingInv'
  <2>1. d' = Begin(begun + 1, a, <<>>) /\ UNCHANGED <<ledger, granted, denied>>
    BY <1>2 DEF Delegate
  <2>2. d'.pc = "run"
    BY <2>1, BeginFormed
  <2>3. QED
    BY <2>1, <2>2, LedgerAside, PendingAside DEF ConsentInv
<1>3. ASSUME NEW a \in Agents, NEW t \in Ids, Resume(t, a) PROVE LedgerInv' /\ PendingInv'
  <2>1. UNCHANGED <<ledger, granted, denied>> /\ d.pc = "idle"
    BY <1>3 DEF Resume, At
  <2>2. (\E prev : d' = Begin(t, a, prev)) \/ d' = d
    BY <1>3 DEF Resume
  <2>3. d'.pc \in {"idle", "run"}
    BY <2>1, <2>2, BeginFormed
  <2>4. QED
    BY <2>1, <2>3, LedgerAside, PendingAside DEF ConsentInv
<1>4. CASE SubAgentStep
  BY <1>4, ConsentStep
<1>5. ASSUME NEW answer \in Answers, Approve(answer) PROVE LedgerInv' /\ PendingInv'
  <2>1. d.pc = "asking" /\ Asked \in Calls /\ Asked \notin turnRefused
    BY <1>5, AskedIsCall DEF Approve, At, ConsentInv, OpenInv, PendingInv
  <2>2. RecordInnerApproval(Asked, answer) /\ UNCHANGED denied
    BY <1>5 DEF Approve
  <2>3. LedgerInv' /\ Granted(Norm[Asked])' /\ turnRefused' = turnRefused
    <3> DEFINE c == Asked
    <3>1. c \in Calls /\ RecordInnerApproval(c, answer)
      BY <2>1, <2>2
    <3>2. d'.batch = d.batch
      BY <1>5 DEF Approve, ConsentInv, OpenInv, Formed, Fields
    <3>3. Asked' = Asked
      BY <3>2 DEF Asked, b
    <3> HIDE DEF c
    <3>4. LedgerInv' /\ turnRefused' = turnRefused /\ \E g \in granted' : g[1] = Norm[c]
      BY <2>2, <3>1, AnswerLedger DEF ConsentInv, Granted
    <3>5. QED
      BY <3>3, <3>4 DEF c, Granted
  <2>4. QED
    <3>1. Asked' = Asked
      BY <1>5 DEF Approve, ConsentInv, OpenInv, Formed, Fields, Asked, b
    <3>2. QED
      BY <2>1, <2>3, <3>1 DEF PendingInv
<1>6. CASE Deny
  <2>1. \E status : d' = Finished(status)
    BY <1>6 DEF Deny
  <2>2. d'.pc = "report"
    BY <2>1, FinishedFormed DEF ConsentInv
  <2>3. /\ turnRefused' = turnRefused \cup {Asked} /\ denied' = denied \cup {Asked}
        /\ UNCHANGED <<sessionApproved, turnApproved, onceApproved, onceNormalized, turnWide,
                       granted>>
    BY <1>6 DEF Deny, RecordRefusal
  <2>4. Asked \in Calls
    BY <1>6, AskedIsCall DEF Deny, At, ConsentInv, OpenInv
  <2>5. LedgerInv'
    BY <2>3, <2>4 DEF ConsentInv, LedgerInv, LedgerTypeOK, Granted
  <2>6. QED
    BY <2>2, <2>5, PendingAside
<1>7. CASE LeaveOpen
  <2>1. (\E status : d' = Finished(status)) /\ UNCHANGED <<ledger, granted, denied>>
    BY <1>7 DEF LeaveOpen, aux
  <2>2. d'.pc = "report"
    BY <2>1, FinishedFormed DEF ConsentInv
  <2>3. QED
    BY <2>1, <2>2, LedgerAside, PendingAside DEF ConsentInv
<1>8. CASE Abort
  <2>1. d' = Idle /\ UNCHANGED <<ledger, granted, denied>>
    BY <1>8 DEF Abort, aux
  <2>2. QED
    BY <2>1, IdleFormed, LedgerAside, PendingAside DEF ConsentInv
<1>9. CASE UNCHANGED vars
  <2>1. d' = d /\ UNCHANGED <<ledger, granted, denied>>
    BY <1>9 DEF vars, aux
  <2>2. QED
    BY <2>1, LedgerAside DEF ConsentInv, PendingInv, Asked, b, ledger, Granted
<1>10. QED
  BY <1>1, <1>2, <1>3, <1>4, <1>5, <1>6, <1>7, <1>8, <1>9 DEF Next, UserAnswers

LEMMA ConsentedStep ==
    ASSUME ConsentInv, [Next]_vars, NEW c \in changed' \ changed
    PROVE  c \notin denied /\ \E g \in granted : g[1] = Norm[c]
<1>1. CASE RunCall
  <2>1. /\ c = Head(d.batch.queue) /\ ~IsRefused(c) /\ IsToolPreapproved(c)
        /\ d.batch.queue # <<>>
    BY <1>1 DEF RunCall, b
  <2>2. c \in Calls
    BY <2>1, AskedIsCall DEF ConsentInv, Asked, b
  <2>3. Granted(Norm[c])
    BY <2>1, <2>2, PreapprovedGranted DEF ConsentInv
  <2>4. QED
    BY <2>1, <2>3 DEF ConsentInv, LedgerInv, Granted, IsRefused
<1>2. CASE RunApproved
  <2>1. c = Asked /\ d.pc = "resume"
    BY <1>2 DEF RunApproved, At
  <2>2. QED
    BY <2>1 DEF ConsentInv, PendingInv, LedgerInv, Granted
<1>3. CASE ~RunCall /\ ~RunApproved
  <2>1. changed' \subseteq changed
    <3>1. CASE \/ RefuseCall \/ Ask \/ Stop \/ Timeout \/ Report
               \/ \E calls \in Responses : Respond(calls)
      BY <3>1 DEF RefuseCall, Ask, Stop, Timeout, Report, Respond, aux
    <3>2. CASE \/ Deny \/ LeaveOpen \/ Abort \/ NextUserTurn \/ UNCHANGED vars
               \/ \E answer \in Answers : Approve(answer)
      BY <3>2 DEF Deny, LeaveOpen, Abort, NextUserTurn, Approve, vars, aux
    <3>3. CASE \E a \in Agents : Delegate(a) \/ \E t \in Ids : Resume(t, a)
      BY <3>3 DEF Delegate, Resume
    <3>4. QED
      BY <1>3, <3>1, <3>2, <3>3 DEF Next, SubAgentStep, UserAnswers
  <2>2. QED
    BY <2>1
<1>4. QED
  BY <1>1, <1>2, <1>3

\* What a sub-agent changes, the user approved in this turn or for the session
\* and did not refuse in this turn, however the delegation it was asked in
\* ended (sandbox/agent_tool.py, execute and _record_inner_approval, on the
\* supervisor's ApprovalManager).
THEOREM ChangesAreApproved == Spec => DelegatedConsent
<1>1. ConsentInv /\ [Next]_vars =>
        [\A c \in changed' \ changed :
            c \notin denied /\ \E g \in granted : g[1] = Norm[c]]_vars
  BY ConsentedStep
<1>2. QED
  BY <1>1, ConsentInit, ConsentNext, PTL DEF Spec, DelegatedConsent

-----------------------------------------------------------------------------
(* How far a delegation is from its result.                                *)

Left == IF d.pc = "resume" THEN d.turns ELSE d.turns - d.batch.used

CountInv ==
    /\ d.turns \in Nat /\ d.batch.used \in Nat /\ d.batch.used <= d.turns
    /\ Len(d.batch.queue) <= MaxCalls

BoundInv == OpenInv /\ d.turns \in Nat /\ (d.pc # "resume" => CountInv)

LEMMA Limits == MaxTurns \in Nat /\ MaxCalls \in Nat
  BY DelegatesAssumption

\* The rank, phase by phase.
RankTable ==
    /\ d.pc \in {"idle", "report"} => Rank = 0
    /\ d.pc = "run" /\ d.batch.queue = <<>> => Rank = Left * (MaxCalls + 4) + 1
    /\ d.pc = "run" /\ d.batch.queue # <<>>
         => Rank = Left * (MaxCalls + 4) + (Len(d.batch.queue) + 3)
    /\ d.pc = "asking" => Rank = Left * (MaxCalls + 4) + 3
    /\ d.pc = "resume" => Rank = Left * (MaxCalls + 4) + 2

LEMMA RankValue == OpenInv => RankTable
<1> SUFFICES ASSUME OpenInv PROVE RankTable
  OBVIOUS
<1> USE DEF Rank, Left, At, b, RankTable
<1>1. CASE d.pc \in {"idle", "report"}
  BY <1>1
<1>2. CASE d.pc = "run" /\ d.batch.queue = <<>>
  BY <1>2, Zenon
<1>3. CASE d.pc = "run" /\ d.batch.queue # <<>>
  BY <1>3, Zenon
<1>4. CASE d.pc = "asking"
  BY <1>4, Zenon
<1>5. CASE d.pc = "resume"
  BY <1>5, Zenon
<1>6. QED
  BY <1>1, <1>2, <1>3, <1>4, <1>5, Zenon DEF OpenInv, Phases

LEMMA OneLess ==
    ASSUME NEW n \in Nat, NEW m \in Nat
    PROVE  n * m \in Nat /\ (n > 0 => (n - 1) * m = n * m - m)
  OBVIOUS

\* What each operator leaves of the numbers.
LEMMA NewBatchCount ==
    ASSUME d'.turns \in Nat, d'.batch = NewBatch PROVE CountInv'
<1>1. d'.batch.used = 0 /\ Len(d'.batch.queue) = 0
  BY DEF NewBatch
<1>2. QED
  BY <1>1, Limits DEF CountInv

LEMMA FoldedCount ==
    ASSUME BoundInv, d.pc # "resume", NEW fault
    PROVE  Folded(fault).turns \in Nat /\ Folded(fault).batch = NewBatch
<1>1. Folded(fault).turns = d.turns - d.batch.used /\ Folded(fault).batch = NewBatch
  BY DEF BoundInv, OpenInv, Formed, Fields, Folded, b
<1>2. QED
  BY <1>1 DEF BoundInv, CountInv

LEMMA FinishedCount ==
    ASSUME BoundInv, d.pc # "resume", NEW status
    PROVE  Finished(status).turns \in Nat /\ Finished(status).batch = NewBatch
<1>1. Finished(status).turns = d.turns - d.batch.used /\ Finished(status).batch = NewBatch
  BY DEF BoundInv, OpenInv, Formed, Fields, Finished, TurnsLeft, b
<1>2. QED
  BY <1>1 DEF BoundInv, CountInv

LEMMA AnsweredCount ==
    ASSUME BoundInv, d.pc = "run", d.batch.queue # <<>>, NEW c, NEW o, NEW names
    PROVE  /\ Answered(c, o, names).turns = d.turns
           /\ Answered(c, o, names).batch.used = d.batch.used
           /\ Answered(c, o, names).batch.queue = Tail(d.batch.queue)
  BY DEF BoundInv, OpenInv, Formed, BatchFormed, Fields, BatchFields, Answered

LEMMA BeginCount ==
    ASSUME NEW t, NEW a, NEW prev
    PROVE  Begin(t, a, prev).turns \in Nat /\ Begin(t, a, prev).batch = NewBatch
  BY Limits DEF Begin

LEMMA IdleCount == Idle.turns \in Nat /\ Idle.batch = NewBatch
  BY Limits DEF Idle, Begin

\* Nearer: the numbers stay in range and the rank falls.
Nearer == /\ d'.turns \in Nat /\ (d'.pc # "resume" => CountInv')
          /\ d.pc # "idle" /\ d'.pc # "idle" => Rank' < Rank

\* The delegation has its result, or is gone.
LEMMA ResultNearer ==
    ASSUME BoundInv, OpenInv', d'.pc \in {"report", "idle"}, d'.turns \in Nat,
           d'.batch = NewBatch, d.pc \notin {"idle", "report"} \/ d'.pc = "idle"
    PROVE  Nearer
<1>1. CountInv'
  BY NewBatchCount
<1>2. ASSUME d'.pc # "idle" PROVE Rank' < Rank
  <2>1. Rank' = 0
    <3>1. (OpenInv => RankTable)'
      BY RankValue, PTL
    <3>2. QED
      BY <1>2, <3>1 DEF RankTable
  <2>2. d.pc \in {"run", "asking", "resume"}
    BY <1>2 DEF BoundInv, OpenInv, Phases
  <2>3. Left \in Nat
    BY <2>2 DEF BoundInv, CountInv, Left
  <2>4. Left * (MaxCalls + 4) \in Nat
    BY <2>3, Limits, OneLess
  <2>5. Len(d.batch.queue) \in Nat
    BY DEF BoundInv, OpenInv
  <2>6. Rank \in Nat /\ Rank > 0
    <3>1. /\ d.pc = "run" /\ d.batch.queue = <<>> => Rank = Left * (MaxCalls + 4) + 1
          /\ d.pc = "run" /\ d.batch.queue # <<>>
               => Rank = Left * (MaxCalls + 4) + (Len(d.batch.queue) + 3)
          /\ d.pc = "asking" => Rank = Left * (MaxCalls + 4) + 3
          /\ d.pc = "resume" => Rank = Left * (MaxCalls + 4) + 2
      BY RankValue DEF BoundInv, RankTable
    <3> DEFINE n == Left * (MaxCalls + 4)
    <3> HIDE DEF n
    <3>2. QED
      BY <2>2, <2>4, <2>5, <3>1 DEF n
  <2>7. QED
    BY <2>1, <2>6
<1>3. QED
  BY <1>1, <1>2 DEF Nearer

\* Inside a batch: the numbers before and after.
LEMMA BatchNearer ==
    ASSUME BoundInv, OpenInv', d.pc = "run", d.batch.queue # <<>>, d'.pc = "run",
           d'.turns = d.turns, d'.batch.used = d.batch.used,
           d'.batch.queue = Tail(d.batch.queue)
    PROVE  Nearer
<1>1. /\ Len(d.batch.queue) \in Nat /\ Len(d.batch.queue) > 0
      /\ Len(d'.batch.queue) = Len(d.batch.queue) - 1
  BY DEF BoundInv, OpenInv
<1>2. CountInv'
  BY <1>1, Limits DEF BoundInv, CountInv
<1>3. Left \in Nat /\ Left' = Left
  BY DEF BoundInv, CountInv, Left
<1>4. /\ Rank = Left * (MaxCalls + 4) + (Len(d.batch.queue) + 3)
      /\ d'.batch.queue = <<>> => Rank' = Left * (MaxCalls + 4) + 1
      /\ d'.batch.queue # <<>> => Rank' = Left * (MaxCalls + 4) + (Len(d'.batch.queue) + 3)
  <2>1. Rank = Left * (MaxCalls + 4) + (Len(d.batch.queue) + 3)
    BY RankValue DEF BoundInv, RankTable
  <2>2. /\ d'.batch.queue = <<>> => Rank' = Left' * (MaxCalls + 4) + 1
        /\ d'.batch.queue # <<>> => Rank' = Left' * (MaxCalls + 4) + (Len(d'.batch.queue) + 3)
    <3>1. (OpenInv => RankTable)'
      BY RankValue, PTL
    <3>2. QED
      BY <3>1 DEF RankTable
  <2>3. QED
    BY <1>3, <2>1, <2>2
<1>5. Rank' < Rank
  <2> DEFINE n == Left * (MaxCalls + 4)
  <2>1. n \in Nat
    BY <1>3, Limits, OneLess
  <2> HIDE DEF n
  <2>2. QED
    BY <1>1, <1>4, <2>1 DEF n
<1>6. QED
  BY <1>2, <1>5 DEF Nearer, BoundInv

\* A response with calls: one response fewer is left.
LEMMA RespondNearer ==
    ASSUME BoundInv, OpenInv', NEW calls \in Responses, calls # <<>>, Respond(calls)
    PROVE  Nearer
<1>1. /\ d' = [d EXCEPT !.batch.used = @ + 1, !.batch.queue = calls, !.batch.asked = ToSet(calls)]
      /\ d.pc = "run" /\ d.batch.queue = <<>> /\ d.batch.used < d.turns
  BY DEF Respond, At, b
<1>2. /\ d'.pc = "run" /\ d'.turns = d.turns /\ d'.batch.used = d.batch.used + 1
      /\ d'.batch.queue = calls
  BY <1>1 DEF BoundInv, OpenInv, Formed, BatchFormed, Fields, BatchFields
<1>3. Len(calls) \in Nat /\ Len(calls) <= MaxCalls
  <2>1. PICK m \in 0..MaxCalls : calls \in [1..m -> Calls]
    BY DEF Responses, BoundedSeq, SeqOf
  <2>2. QED
    BY <2>1, Limits
<1>4. CountInv'
  BY <1>1, <1>2, <1>3 DEF BoundInv, CountInv
<1>5. Left \in Nat /\ Left > 0 /\ Left' = Left - 1
  BY <1>1, <1>2 DEF BoundInv, CountInv, Left
<1>6. Rank = Left * (MaxCalls + 4) + 1 /\ Rank' = (Left - 1) * (MaxCalls + 4) + (Len(calls) + 3)
  <2>1. (OpenInv => RankTable)'
    BY RankValue, PTL
  <2>2. QED
    BY <1>1, <1>2, <1>5, <2>1, RankValue DEF BoundInv, RankTable
<1>7. Rank' < Rank
  <2> DEFINE m == MaxCalls + 4
             n == Left * m
  <2>1. n \in Nat /\ (Left - 1) * m = n - m
    BY <1>5, Limits, OneLess
  <2>2. m \in Nat /\ Len(calls) + 4 <= m
    BY <1>3, Limits
  <2>3. Rank = n + 1 /\ Rank' = (n - m) + (Len(calls) + 3)
    BY <1>6, <2>1
  <2> HIDE DEF m, n
  <2>4. QED
    BY <1>3, <2>1, <2>2, <2>3
<1>8. QED
  BY <1>2, <1>4, <1>7 DEF Nearer, BoundInv

\* The steps that ask, approve and resume.
LEMMA AskingNearer ==
    ASSUME BoundInv, OpenInv', Ask \/ \E answer \in Answers : Approve(answer)
    PROVE  Nearer
<1>0. (OpenInv => RankTable)'
  BY RankValue, PTL
<1>1. CASE Ask
  <2>1. d' = [d EXCEPT !.pc = "asking"] /\ d.pc = "run" /\ d.batch.queue # <<>>
    BY <1>1 DEF Ask, At, b
  <2>2. d'.pc = "asking" /\ d'.turns = d.turns /\ d'.batch = d.batch
    BY <2>1 DEF BoundInv, OpenInv, Formed, Fields
  <2>3. CountInv'
    BY <2>1, <2>2 DEF BoundInv, CountInv
  <2>4. Left \in Nat /\ Left' = Left
    BY <2>1, <2>2 DEF BoundInv, CountInv, Left
  <2>5. /\ Rank = Left * (MaxCalls + 4) + (Len(d.batch.queue) + 3)
        /\ Rank' = Left * (MaxCalls + 4) + 3
    BY <1>0, <2>1, <2>2, <2>4, RankValue DEF BoundInv, RankTable
  <2>6. Len(d.batch.queue) \in Nat /\ Len(d.batch.queue) > 0
    BY <2>1 DEF BoundInv, OpenInv
  <2>7. Left * (MaxCalls + 4) \in Nat
    BY <2>4, Limits, OneLess
  <2>8. Rank' < Rank
    <3> DEFINE n == Left * (MaxCalls + 4)
    <3> HIDE DEF n
    <3>1. QED
      BY <2>5, <2>6, <2>7 DEF n
  <2>9. QED
    BY <2>2, <2>3, <2>8 DEF Nearer, BoundInv
<1>2. ASSUME NEW answer \in Answers, Approve(answer) PROVE Nearer
  <2>1. d' = [d EXCEPT !.pc = "resume", !.turns = d.turns - d.batch.used, !.open = {Asked}]
        /\ d.pc = "asking"
    BY <1>2 DEF Approve, At, TurnsLeft, PendingCalls, b
  <2>2. d'.pc = "resume" /\ d'.turns = d.turns - d.batch.used
    BY <2>1 DEF BoundInv, OpenInv, Formed, Fields
  <2>3. Left \in Nat /\ Left' = Left /\ d'.turns \in Nat
    BY <2>1, <2>2 DEF BoundInv, CountInv, Left
  <2>4. Rank = Left * (MaxCalls + 4) + 3 /\ Rank' = Left * (MaxCalls + 4) + 2
    BY <1>0, <2>1, <2>2, <2>3, RankValue DEF BoundInv, RankTable
  <2>5. Left * (MaxCalls + 4) \in Nat
    BY <2>3, Limits, OneLess
  <2>6. Rank' < Rank
    <3> DEFINE n == Left * (MaxCalls + 4)
    <3> HIDE DEF n
    <3>1. QED
      BY <2>4, <2>5 DEF n
  <2>7. QED
    BY <2>2, <2>3, <2>6 DEF Nearer
<1>3. QED
  BY <1>1, <1>2

LEMMA ResumeNearer == ASSUME BoundInv, OpenInv', RunApproved PROVE Nearer
<1>0. (OpenInv => RankTable)'
  BY RankValue, PTL
<1>1. d.pc = "resume" /\ d.turns \in Nat
  BY DEF RunApproved, At, BoundInv
<1>2. d'.turns = d.turns /\ d'.batch = NewBatch
  BY DEF RunApproved, BoundInv, OpenInv, Formed, Fields
<1>3. d'.pc \in {"run", "report"}
  BY DEF RunApproved, BoundInv, OpenInv, Formed, Fields
<1>4. CASE d'.pc = "report"
  BY <1>1, <1>2, <1>4, ResultNearer
<1>5. CASE d'.pc = "run"
  <2>1. CountInv' /\ d'.batch.used = 0 /\ d'.batch.queue = <<>>
    BY <1>1, <1>2, NewBatchCount DEF NewBatch
  <2>2. Left \in Nat /\ Left' = Left
    BY <1>1, <1>2, <1>5, <2>1 DEF Left
  <2>3. Rank = Left * (MaxCalls + 4) + 2 /\ Rank' = Left * (MaxCalls + 4) + 1
    BY <1>0, <1>1, <1>5, <2>1, <2>2, RankValue DEF BoundInv, RankTable
  <2>4. Left * (MaxCalls + 4) \in Nat
    BY <2>2, Limits, OneLess
  <2>5. Rank' < Rank
    <3> DEFINE n == Left * (MaxCalls + 4)
    <3> HIDE DEF n
    <3>1. QED
      BY <2>3, <2>4 DEF n
  <2>6. QED
    BY <1>1, <1>2, <2>1, <2>5 DEF Nearer
<1>6. QED
  BY <1>3, <1>4, <1>5

LEMMA NearerNext == ASSUME BoundInv, OpenInv', [Next]_vars, d' # d PROVE Nearer
<1> USE DEF At
<1>1. ASSUME NEW calls \in Responses, Respond(calls) PROVE Nearer
  <2>1. CASE calls = <<>>
    <3>1. d' = [Folded(FALSE) EXCEPT !.turns = @ - 1] /\ d.pc = "run" /\ d.batch.used < d.turns
      BY <1>1, <2>1 DEF Respond, b
    <3>2. /\ d'.turns = Folded(FALSE).turns - 1 /\ d'.batch = NewBatch
          /\ d'.pc = "report" /\ Folded(FALSE).turns = d.turns - d.batch.used
      <4>1. Formed(Folded(FALSE)) /\ Folded(FALSE).pc = "report"
        BY FoldedFormed DEF BoundInv
      <4>2. Folded(FALSE).batch = NewBatch
        BY <3>1, FoldedCount
      <4>3. Folded(FALSE).turns = d.turns - d.batch.used
        BY DEF BoundInv, OpenInv, Formed, Fields, Folded, b
      <4> DEFINE f == Folded(FALSE)
      <4>4. f = [x \in Fields |-> f[x]] /\ d' = [f EXCEPT !.turns = @ - 1]
        BY <3>1, <4>1 DEF Formed
      <4> HIDE DEF f
      <4>5. d'.turns = f.turns - 1 /\ d'.batch = f.batch /\ d'.pc = f.pc
        BY <4>4 DEF Fields
      <4>6. QED
        BY <4>1, <4>2, <4>3, <4>5 DEF f
    <3>3. d'.turns \in Nat
      <4>1. d.turns \in Nat /\ d.batch.used \in Nat /\ d.batch.used < d.turns
        BY <3>1 DEF BoundInv, CountInv
      <4>2. d'.turns = (d.turns - d.batch.used) - 1
        BY <3>2
      <4>3. QED
        BY <4>1, <4>2
    <3>4. QED
      BY <3>1, <3>2, <3>3, ResultNearer
  <2>2. CASE calls # <<>>
    BY <1>1, <2>2, RespondNearer
  <2>3. QED
    BY <2>1, <2>2
<1>2. CASE RunCall \/ RefuseCall
  <2>1. /\ d.pc = "run" /\ d.batch.queue # <<>>
        /\ \E c, o, names : d' = Answered(c, o, names)
    <3>1. CASE RunCall
      <4>1. \E o : d' = Answered(Head(d.batch.queue), o, o = "ok")
        BY <3>1 DEF RunCall, b
      <4>2. QED
        BY <3>1, <4>1 DEF RunCall, b
    <3>2. CASE RefuseCall
      <4>1. d' = Answered(Head(d.batch.queue), "error", FALSE)
        BY <3>2 DEF RefuseCall, b
      <4>2. QED
        BY <3>2, <4>1 DEF RefuseCall, b
    <3>3. QED
      BY <1>2, <3>1, <3>2
  <2>2. d'.pc = "run"
    BY <2>1, AnsweredFormed DEF BoundInv
  <2>3. /\ d'.turns = d.turns /\ d'.batch.used = d.batch.used
        /\ d'.batch.queue = Tail(d.batch.queue)
    BY <2>1, AnsweredCount
  <2>4. QED
    BY <2>1, <2>2, <2>3, BatchNearer
<1>3. CASE Ask \/ \E answer \in Answers : Approve(answer)
  BY <1>3, AskingNearer
<1>4. CASE Stop
  <2>1. d.pc = "run" /\ (d' = Folded(TRUE) \/ d' = [Folded(TRUE) EXCEPT !.turns = 0])
    BY <1>4 DEF Stop
  <2>2. Folded(TRUE).turns \in Nat /\ Folded(TRUE).batch = NewBatch
    BY <2>1, FoldedCount
  <2>3. d'.pc = "report" /\ d'.turns \in Nat /\ d'.batch = NewBatch
    <3> DEFINE f == Folded(TRUE)
    <3>1. f = [x \in Fields |-> f[x]] /\ f.pc = "report"
      BY FoldedFormed DEF BoundInv, Formed
    <3>2. d' = f \/ d' = [f EXCEPT !.turns = 0]
      BY <2>1
    <3>3. f.turns \in Nat /\ f.batch = NewBatch
      BY <2>2
    <3> HIDE DEF f
    <3>4. QED
      BY <3>1, <3>2, <3>3 DEF Fields
  <2>4. QED
    BY <2>1, <2>3, ResultNearer
<1>5. CASE Timeout
  <2>1. d.pc \in {"run", "resume"}
    BY <1>5 DEF Timeout
  <2>2. d'.pc = "report" /\ d'.turns = d.turns /\ d'.batch = NewBatch
    BY <1>5 DEF Timeout, BoundInv, OpenInv, Formed, Fields
  <2>3. QED
    BY <2>1, <2>2, ResultNearer DEF BoundInv
<1>6. CASE RunApproved
  BY <1>6, ResumeNearer
<1>7. CASE Deny \/ LeaveOpen
  <2>1. d.pc = "asking" /\ \E status : d' = Finished(status)
    BY <1>7 DEF Deny, LeaveOpen
  <2>2. d'.pc = "report"
    BY <2>1, FinishedFormed DEF BoundInv
  <2>3. d'.turns \in Nat /\ d'.batch = NewBatch
    BY <2>1, FinishedCount
  <2>4. QED
    BY <2>1, <2>2, <2>3, ResultNearer
<1>8. CASE Report \/ Abort
  <2>1. d' = Idle
    BY <1>8 DEF Report, Abort
  <2>2. QED
    BY <2>1, IdleFormed, IdleCount, ResultNearer
<1>9. CASE \E a \in Agents : Delegate(a) \/ \E t \in Ids : Resume(t, a)
  <2>1. d.pc = "idle" /\ \E t, a, prev : d' = Begin(t, a, prev)
    BY <1>9 DEF Delegate, Resume
  <2>2. d'.turns \in Nat /\ CountInv'
    BY <2>1, BeginCount, NewBatchCount
  <2>3. QED
    BY <2>1, <2>2 DEF Nearer
<1>10. CASE NextUserTurn \/ UNCHANGED vars
  BY <1>10 DEF NextUserTurn, vars
<1>11. QED
  BY <1>1, <1>2, <1>3, <1>4, <1>5, <1>6, <1>7, <1>8, <1>9, <1>10
     DEF Next, SubAgentStep, UserAnswers

LEMMA BoundInit == Init => BoundInv
<1>1. Init => d.turns \in Nat /\ d.batch.used = 0 /\ Len(d.batch.queue) = 0
  BY IdleCount DEF Init, NewBatch
<1>2. QED
  BY <1>1, OpenInit, Limits DEF BoundInv, CountInv

LEMMA BoundNext == BoundInv /\ [Next]_vars => BoundInv'
<1> SUFFICES ASSUME BoundInv, [Next]_vars PROVE BoundInv'
  OBVIOUS
<1>1. OpenInv'
  BY OpenNext DEF BoundInv
<1>2. CASE d' = d
  BY <1>1, <1>2 DEF BoundInv, CountInv
<1>3. CASE d' # d
  BY <1>1, <1>3, NearerNext DEF Nearer, BoundInv
<1>4. QED
  BY <1>2, <1>3

\* Every step of a delegation, whoever takes it, brings it nearer to its
\* result: approvals that interrupt it give it no more responses of its model
\* than max_turns (sandbox/agent_tool.py, execute, remaining_model_turns).
THEOREM EveryDelegationEnds == Spec => DelegateEnds
<1>1. BoundInv /\ [Next]_vars => [~At("idle") /\ d'.pc # "idle" => Rank' < Rank]_d
  <2> SUFFICES ASSUME BoundInv, [Next]_vars, d' # d, d.pc # "idle", d'.pc # "idle"
               PROVE  Rank' < Rank
    BY DEF At
  <2>1. OpenInv'
    BY OpenNext DEF BoundInv
  <2>2. QED
    BY <2>1, NearerNext DEF Nearer
<1>2. QED
  BY <1>1, BoundInit, BoundNext, PTL DEF Spec, DelegateEnds

-----------------------------------------------------------------------------
(* The records of tasks.                                                   *)

(* The last elements of a sequence.                                        *)
LEMMA SuffixOf ==
    ASSUME NEW S, NEW s \in Seq(S), NEW n \in Nat \ {0}
    PROVE  /\ Suffix(s, n) \in Seq(S)
           /\ Len(Suffix(s, n)) = IF Len(s) <= n THEN Len(s) ELSE n
           /\ \A k \in 1..Len(Suffix(s, n)) :
                 /\ k + (Len(s) - Len(Suffix(s, n))) \in 1..Len(s)
                 /\ Suffix(s, n)[k] = s[k + (Len(s) - Len(Suffix(s, n)))]
  <1> USE DEF Suffix
  <1>1. CASE Len(s) <= n
    BY <1>1
  <1>2. CASE ~(Len(s) <= n)
    <2>1. Suffix(s, n) = SubSeq(s, Len(s) - n + 1, Len(s))
      BY <1>2
    <2>2. Len(s) - n + 1 \in 1..Len(s) /\ Len(s) \in Nat
      BY <1>2
    <2>3. /\ SubSeq(s, Len(s) - n + 1, Len(s)) \in Seq(S)
          /\ Len(SubSeq(s, Len(s) - n + 1, Len(s))) = n
          /\ \A k \in 1..n : SubSeq(s, Len(s) - n + 1, Len(s))[k] = s[k + (Len(s) - n)]
      BY <2>2
    <2> QED
      BY <1>2, <2>1, <2>2, <2>3
  <1> QED
    BY <1>1, <1>2

(* A finite set can be put in a sequence.                                  *)
LEMMA SequenceOf ==
    ASSUME NEW S, IsFiniteSet(S)
    PROVE  SetToSeq(S) \in Seq(S)
  <1>1. Cardinality(S) \in Nat /\ ExistsBijection(1..Cardinality(S), S)
    BY FS_CardinalityType
  <1>2. \E f \in [1..Cardinality(S) -> S] : IsInjective(f)
    <2>1. PICK f \in [1..Cardinality(S) -> S] :
             \A x, y \in 1..Cardinality(S) : f[x] = f[y] => x = y
      BY <1>1 DEF ExistsBijection, Bijection, Injection, IsInjective
    <2> QED
      BY <2>1 DEF IsInjective
  <1>3. SetToSeq(S) \in [1..Cardinality(S) -> S]
    BY <1>2 DEF SetToSeq
  <1> QED
    BY <1>1, <1>3

(* What is stored of the items, merged with new ones, is what is stored of *)
(* all of them: nothing that a limit dropped before would be stored now.   *)
LEMMA MergedPrefix ==
    ASSUME NEW S, IsFiniteSet(S), NEW items \in Seq(S), NEW new \in SUBSET S
    PROVE  /\ WithNew(items, new) \in Seq(S)
           /\ Prefix(items, ItemLimit) \in Seq(S)
           /\ MergeCompact(Prefix(items, ItemLimit), new) = Prefix(WithNew(items, new), ItemLimit)
  <1> DEFINE more(s) == SetToSeq(new \ ToSet(s))
  <1>1. ASSUME NEW s PROVE more(s) \in Seq(S)
    <2>1. IsFiniteSet(new \ ToSet(s)) /\ new \ ToSet(s) \subseteq S
      BY FS_Subset
    <2> QED
      BY <2>1, SequenceOf
  <1>2. \A s : WithNew(s, new) = s \o more(s)
    BY DEF WithNew
  <1> HIDE DEF more
  <1>3. ItemLimit \in Nat
    BY DelegatesAssumption
  <1>4. Prefix(items, ItemLimit) \in Seq(S) /\ WithNew(items, new) \in Seq(S)
    <2>1. Prefix(items, ItemLimit) \in Seq(S)
      BY <1>3 DEF Prefix
    <2>2. items \o more(items) \in Seq(S)
      BY <1>1
    <2> QED
      BY <1>2, <2>1, <2>2
  <1>5. CASE Len(items) <= ItemLimit
    <2>1. Prefix(items, ItemLimit) = items
      BY <1>5 DEF Prefix
    <2> QED
      BY <1>4, <2>1 DEF MergeCompact
  <1>6. CASE Len(items) > ItemLimit
    <2> DEFINE kept == SubSeq(items, 1, ItemLimit)
               one == kept \o more(kept)
               all == items \o more(items)
    <2>1. kept = Prefix(items, ItemLimit) /\ kept \in Seq(S) /\ Len(kept) = ItemLimit
          /\ \A k \in 1..ItemLimit : kept[k] = items[k]
      BY <1>3, <1>6 DEF Prefix
    <2> HIDE DEF kept
    <2>2. one \in Seq(S) /\ Len(one) >= ItemLimit /\ \A k \in 1..ItemLimit : one[k] = items[k]
      BY <1>1, <1>3, <2>1
    <2>3. all \in Seq(S) /\ Len(all) > ItemLimit /\ \A k \in 1..ItemLimit : all[k] = items[k]
      BY <1>1, <1>3, <1>6
    <2>4. one = WithNew(kept, new) /\ all = WithNew(items, new)
      BY <1>2
    <2> HIDE DEF one, all
    <2>5. ASSUME NEW s \in Seq(S), Len(s) >= ItemLimit
          PROVE  /\ Prefix(s, ItemLimit) \in Seq(S) /\ Len(Prefix(s, ItemLimit)) = ItemLimit
                 /\ \A k \in 1..ItemLimit : Prefix(s, ItemLimit)[k] = s[k]
      BY <1>3, <2>5 DEF Prefix
    <2>6. Prefix(one, ItemLimit) = Prefix(all, ItemLimit)
      <3> DEFINE x == Prefix(one, ItemLimit)
                 y == Prefix(all, ItemLimit)
      <3>1. x \in Seq(S) /\ Len(x) = ItemLimit /\ \A k \in 1..ItemLimit : x[k] = items[k]
        BY <2>2, <2>5
      <3>2. y \in Seq(S) /\ Len(y) = ItemLimit /\ \A k \in 1..ItemLimit : y[k] = items[k]
        BY <1>3, <2>3, <2>5
      <3> HIDE DEF x, y
      <3>3. x = y
        BY <1>3, <3>1, <3>2
      <3> QED
        BY <3>3 DEF x, y
    <2> QED
      <3>1. MergeCompact(Prefix(items, ItemLimit), new) = Prefix(WithNew(items, new), ItemLimit)
        BY <2>1, <2>4, <2>6 DEF MergeCompact
      <3> QED
        BY <1>4, <3>1
  <1>7. Len(items) <= ItemLimit \/ Len(items) > ItemLimit
    <2>1. Len(items) \in Nat
      OBVIOUS
    <2> QED
      BY <1>3, <2>1
  <1> QED
    BY <1>5, <1>6, <1>7

\* The last answer the user gave to the task is the last it was shown.
AnsweredLast(c, answer) == answer # 0 => c.answers # <<>> /\ Last(c.answers) = answer

\* The task holds the first of the files that were reported for it.
Stores(c, files) == c.files = Prefix(files, ItemLimit)

\* The records of the session: one continuation for a task, within the limits.
RecordsInv ==
    /\ conts \in Seq(Cont) /\ Len(conts) <= ContLimit
    /\ \A i, j \in DOMAIN conts : conts[i].id = conts[j].id => i = j
    /\ \A i \in DOMAIN conts :
          /\ conts[i].id <= begun /\ conts[i].id \in tasks
          /\ Stores(conts[i], reports[conts[i].id])
          /\ AnsweredLast(conts[i], given[conts[i].id])
    /\ tasks \subseteq IdsOf(conts)
    /\ begun \in 0..MaxDelegations
    /\ given \in [Ids -> Nat]
    /\ reports \in [Ids -> Seq(Calls)]
    /\ \A t \in Ids : given[t] # 0 \/ reports[t] # <<>> => t <= begun

\* The delegation in progress began a task, or holds the record it resumed.
TaskInv ==
    /\ OpenInv
    /\ RecordsInv
    /\ counter \in Nat
    /\ d.files \subseteq Calls /\ d.batch.found \subseteq Calls
    /\ d.pc # "idle" =>
          /\ d.task \in 1..begun /\ d.agent \in Agents
          /\ \/ d.prev = <<>> /\ given[d.task] = 0 /\ reports[d.task] = <<>>
                /\ d.task \notin IdsOf(conts)
             \/ \E i \in DOMAIN conts :
                   /\ d.prev = <<conts[i]>>
                   /\ conts[i].id = d.task /\ conts[i].agent = d.agent

(* What storing a continuation makes of the others.                        *)
LEMMA StoredRecords ==
    ASSUME RecordsInv, NEW c \in Cont
    PROVE  /\ Stored(c) \in Seq(Cont)
           /\ Len(Stored(c)) <= ContLimit + 1
           /\ \A i, j \in 1..Len(Stored(c)) : Stored(c)[i].id = Stored(c)[j].id => i = j
           /\ \A i \in 1..Len(Stored(c)) :
                 \/ Stored(c)[i] = c
                 \/ \E j \in 1..Len(conts) : Stored(c)[i] = conts[j] /\ conts[j].id # c.id
           /\ \E i \in 1..Len(Stored(c)) :
                 Stored(c)[i] = c /\ (Len(Stored(c)) > ContLimit => i = Len(Stored(c)))
           /\ IdsOf(conts) \subseteq IdsOf(Stored(c))
  <1> DEFINE st == Stored(c)
  <1>1. /\ conts \in Seq(Cont) /\ Len(conts) <= ContLimit /\ Len(conts) \in Nat
        /\ \A i, j \in 1..Len(conts) : conts[i].id = conts[j].id => i = j
        /\ ContLimit \in Nat /\ ContLimit >= 1
    BY DelegatesAssumption DEF RecordsInv
  <1>2. CASE c.id \in IdsOf(conts)
    <2>1. st = [i \in DOMAIN conts |-> IF conts[i].id = c.id THEN c ELSE conts[i]]
      BY <1>2 DEF Stored
    <2>2. PICK n \in 1..Len(conts) : conts[n].id = c.id
      BY <1>1, <1>2 DEF IdsOf
    <2> HIDE DEF st
    <2>3. st \in Seq(Cont) /\ Len(st) = Len(conts) /\ DOMAIN st = 1..Len(conts)
          /\ \A i \in 1..Len(conts) : st[i] = IF conts[i].id = c.id THEN c ELSE conts[i]
      BY <1>1, <2>1
    <2>4. \A i \in 1..Len(conts) : st[i].id = conts[i].id
      BY <2>3
    <2>5. IdsOf(conts) \subseteq IdsOf(st)
      BY <1>1, <2>3, <2>4 DEF IdsOf
    <2>6. \A i, j \in 1..Len(st) : st[i].id = st[j].id => i = j
      BY <1>1, <2>3, <2>4
    <2>7. \A i \in 1..Len(st) :
            \/ st[i] = c
            \/ \E j \in 1..Len(conts) : st[i] = conts[j] /\ conts[j].id # c.id
      BY <2>3
    <2>8. st[n] = c /\ n \in 1..Len(st) /\ ~(Len(st) > ContLimit) /\ Len(st) <= ContLimit + 1
      BY <1>1, <2>2, <2>3
    <2> QED
      BY <2>3, <2>5, <2>6, <2>7, <2>8 DEF st
  <1>3. CASE c.id \notin IdsOf(conts)
    <2>1. st = Append(conts, c)
      BY <1>3 DEF Stored
    <2>2. \A i \in 1..Len(conts) : conts[i].id # c.id
      BY <1>1, <1>3 DEF IdsOf
    <2> HIDE DEF st
    <2>3. st \in Seq(Cont) /\ Len(st) = Len(conts) + 1 /\ st[Len(conts) + 1] = c
          /\ \A i \in 1..Len(conts) : st[i] = conts[i]
      BY <1>1, <2>1
    <2>4. IdsOf(conts) \subseteq IdsOf(st)
      BY <1>1, <2>3 DEF IdsOf
    <2>5. \A i \in 1..Len(st) : i = Len(conts) + 1 \/ i \in 1..Len(conts)
      BY <1>1, <2>3
    <2>6. \A i, j \in 1..Len(st) : st[i].id = st[j].id => i = j
      BY <1>1, <2>2, <2>3, <2>5
    <2>7. \A i \in 1..Len(st) :
            \/ st[i] = c
            \/ \E j \in 1..Len(conts) : st[i] = conts[j] /\ conts[j].id # c.id
      BY <2>2, <2>3, <2>5
    <2>8. Len(st) \in 1..Len(st) /\ st[Len(st)] = c /\ Len(st) <= ContLimit + 1
      BY <1>1, <2>3
    <2> QED
      BY <2>3, <2>4, <2>6, <2>7, <2>8 DEF st
  <1> QED
    BY <1>2, <1>3

(* The records after a continuation was saved.                             *)
LEMMA SavedRecords ==
    ASSUME RecordsInv, NEW c \in Cont, SaveContinuation(c),
           c.id <= begun', Stores(c, reports'[c.id]), AnsweredLast(c, given'[c.id]),
           begun' \in begun..MaxDelegations,
           given' \in [Ids -> Nat], reports' \in [Ids -> Seq(Calls)],
           \A t \in Ids : given'[t] # 0 \/ reports'[t] # <<>> => t <= begun',
           \A t \in Ids \ {c.id} : given'[t] = given[t] /\ reports'[t] = reports[t]
    PROVE  /\ RecordsInv'
           /\ \E i \in DOMAIN conts' : conts'[i] = c
           /\ \A i \in DOMAIN conts' :
                 \/ conts'[i] = c
                 \/ \E j \in DOMAIN conts : conts'[i] = conts[j] /\ conts[j].id # c.id
  <1> DEFINE st == Stored(c)
             kept == Suffix(st, ContLimit)
             off == Len(st) - Len(kept)
             dropped == IdsOf(st) \ IdsOf(kept)
  <1>0. ContLimit \in Nat \ {0}
    BY DelegatesAssumption
  <1>1. /\ st \in Seq(Cont)
        /\ \A i, j \in 1..Len(st) : st[i].id = st[j].id => i = j
        /\ \A i \in 1..Len(st) :
              \/ st[i] = c
              \/ \E j \in 1..Len(conts) : st[i] = conts[j] /\ conts[j].id # c.id
        /\ \E i \in 1..Len(st) : st[i] = c /\ (Len(st) > ContLimit => i = Len(st))
        /\ IdsOf(conts) \subseteq IdsOf(st)
    BY StoredRecords
  <1>2. conts' = kept /\ tasks' = (tasks \ dropped) \cup {c.id}
    BY DEF SaveContinuation
  <1> HIDE DEF st
  <1>3. /\ kept \in Seq(Cont) /\ Len(kept) = (IF Len(st) <= ContLimit THEN Len(st) ELSE ContLimit)
        /\ Len(st) \in Nat
        /\ \A k \in 1..Len(kept) : k + off \in 1..Len(st) /\ kept[k] = st[k + off]
    <2>1. /\ Suffix(st, ContLimit) \in Seq(Cont)
          /\ Len(Suffix(st, ContLimit)) = IF Len(st) <= ContLimit THEN Len(st) ELSE ContLimit
          /\ \A k \in 1..Len(Suffix(st, ContLimit)) :
                 /\ k + (Len(st) - Len(Suffix(st, ContLimit))) \in 1..Len(st)
                 /\ Suffix(st, ContLimit)[k] = st[k + (Len(st) - Len(Suffix(st, ContLimit)))]
      BY <1>0, <1>1, SuffixOf
    <2> QED
      BY <1>1, <2>1
  <1> HIDE DEF kept, dropped
  <1>4. Len(kept) <= ContLimit /\ Len(kept) \in Nat /\ DOMAIN kept = 1..Len(kept)
    BY <1>0, <1>3
  <1>5. ASSUME NEW i \in 1..Len(kept), NEW j \in 1..Len(kept), kept[i].id = kept[j].id
        PROVE  i = j
    <2>1. i + off \in 1..Len(st) /\ j + off \in 1..Len(st) /\ off \in Nat
          /\ st[i + off].id = st[j + off].id
      <3>1. i + off \in 1..Len(st) /\ kept[i] = st[i + off]
        BY <1>3
      <3>2. j + off \in 1..Len(st) /\ kept[j] = st[j + off]
        BY <1>3
      <3>3. off \in Nat
        BY <1>0, <1>3, <1>4
      <3> QED
        BY <1>5, <3>1, <3>2, <3>3
    <2> HIDE DEF off
    <2>2. i + off = j + off
      BY <1>1, <2>1
    <2> QED
      BY <1>4, <2>1, <2>2
  <1>6. \A i \in 1..Len(kept) :
          \/ kept[i] = c
          \/ \E j \in 1..Len(conts) : kept[i] = conts[j] /\ conts[j].id # c.id
    BY <1>1, <1>3
  <1>7. \E i \in 1..Len(kept) : kept[i] = c
    <2>1. PICK i \in 1..Len(st) : st[i] = c /\ (Len(st) > ContLimit => i = Len(st))
      BY <1>1
    <2>2. i - off \in 1..Len(kept) /\ (i - off) + off = i
      BY <1>0, <1>3, <1>4, <2>1
    <2> QED
      BY <1>3, <2>1, <2>2
  <1>8. c.id \in IdsOf(kept)
    BY <1>4, <1>7 DEF IdsOf
  <1>9. tasks' \subseteq IdsOf(kept)
    BY <1>1, <1>2, <1>8 DEF RecordsInv, dropped
  <1>10. DOMAIN conts = 1..Len(conts) /\ conts \in Seq(Cont)
    BY DEF RecordsInv
  <1>11. ASSUME NEW i \in 1..Len(kept)
         PROVE  /\ kept[i].id <= begun' /\ kept[i].id \in tasks'
                /\ Stores(kept[i], reports'[kept[i].id])
                /\ AnsweredLast(kept[i], given'[kept[i].id])
    <2>0. kept[i].id \in IdsOf(kept)
      BY <1>4 DEF IdsOf
    <2>1. CASE kept[i] = c
      BY <1>2, <2>1
    <2>2. CASE kept[i] # c
      <3>1. PICK j \in 1..Len(conts) : kept[i] = conts[j] /\ conts[j].id # c.id
        BY <1>6, <2>2
      <3>2. /\ conts[j].id \in Ids /\ given'[conts[j].id] = given[conts[j].id]
            /\ reports'[conts[j].id] = reports[conts[j].id]
        <4>1. conts[j] \in Cont
          BY <1>10, <3>1
        <4>2. conts[j].id \in Ids
          BY <4>1 DEF Cont
        <4> QED
          BY <3>1, <4>2
      <3>3. /\ conts[j].id <= begun /\ conts[j].id \in tasks
            /\ Stores(conts[j], reports[conts[j].id])
            /\ AnsweredLast(conts[j], given[conts[j].id])
        BY <1>10, <3>1 DEF RecordsInv
      <3>4. conts[j].id <= begun'
        BY <3>2, <3>3 DEF Ids, RecordsInv
      <3>5. conts[j].id \in tasks'
        BY <1>2, <2>0, <3>1, <3>3 DEF dropped
      <3>6. AnsweredLast(conts[j], given'[conts[j].id])
        BY <3>2, <3>3
      <3>7. Stores(conts[j], reports'[conts[j].id])
        BY <3>2, <3>3 DEF Stores
      <3> QED
        BY <3>1, <3>4, <3>5, <3>6, <3>7
    <2> QED
      BY <2>1, <2>2
  <1>12. RecordsInv'
    <2>1. conts' = kept /\ DOMAIN conts' = 1..Len(kept)
      BY <1>2, <1>4
    <2>2. conts' \in Seq(Cont) /\ Len(conts') <= ContLimit
      BY <1>3, <1>4, <2>1
    <2>3. \A i, j \in DOMAIN conts' : conts'[i].id = conts'[j].id => i = j
      BY <1>5, <2>1
    <2>4. \A i \in DOMAIN conts' :
             /\ conts'[i].id <= begun' /\ conts'[i].id \in tasks'
             /\ Stores(conts'[i], reports'[conts'[i].id])
             /\ AnsweredLast(conts'[i], given'[conts'[i].id])
      BY <1>11, <2>1
    <2>5. tasks' \subseteq IdsOf(conts')
      BY <1>9, <2>1
    <2>6. begun' \in 0..MaxDelegations
      BY DelegatesAssumption DEF RecordsInv
    <2> QED
      BY <2>2, <2>3, <2>4, <2>5, <2>6 DEF RecordsInv
  <1> QED
    BY <1>2, <1>4, <1>6, <1>7, <1>10, <1>12

\* The same delegation, with files that are about calls.
SameTask(r) ==
    /\ r.pc # "idle" /\ r.task = d.task /\ r.agent = d.agent /\ r.prev = d.prev
    /\ r.files \subseteq Calls /\ r.batch.found \subseteq Calls

(* What the operators that go on with a delegation leave alone.            *)
LEMMA FoldedTask ==
    ASSUME TaskInv, NEW fault
    PROVE  SameTask(Folded(fault))
  BY DEF TaskInv, OpenInv, Formed, BatchFormed, Fields, BatchFields, SameTask, Folded,
     NewBatch, b

LEMMA FinishedTask ==
    ASSUME TaskInv, NEW status
    PROVE  SameTask(Finished(status))
  BY DEF TaskInv, OpenInv, Formed, BatchFormed, Fields, BatchFields, SameTask, Finished,
     NewBatch, b

LEMMA AnsweredTask ==
    ASSUME TaskInv, d.pc # "idle", NEW c \in Calls, NEW outcome, NEW names
    PROVE  SameTask(Answered(c, outcome, names))
  BY DEF TaskInv, OpenInv, Formed, BatchFormed, Fields, BatchFields, SameTask, Answered, b

(* The steps of a sub-agent before its result, and the user's answers.     *)
LEMMA WorkSameTask ==
    ASSUME TaskInv,
           \/ \E calls \in Responses : Respond(calls)
           \/ RunCall \/ RefuseCall \/ Ask \/ Stop \/ Timeout \/ RunApproved \/ UserAnswers
    PROVE  SameTask(d')
  <1> USE DEF b, At
  <1>0. /\ Formed(d) /\ d.files \subseteq Calls /\ d.batch.found \subseteq Calls
        /\ d.batch.queue \in Seq(Calls)
        /\ d.pc \in {"asking", "resume"} => d.batch.queue # <<>>
    BY DEF TaskInv, OpenInv
  <1>a. d.batch.queue # <<>> => Head(d.batch.queue) \in Calls
    BY <1>0
  <1>1. ASSUME NEW calls \in Responses, Respond(calls) PROVE SameTask(d')
    <2>1. CASE calls = <<>>
      <3>1. d' = [Folded(FALSE) EXCEPT !.turns = @ - 1]
        BY <1>1, <2>1 DEF Respond
      <3>2. Formed(Folded(FALSE)) /\ SameTask(Folded(FALSE))
        BY FoldedFormed, FoldedTask DEF TaskInv
      <3> QED
        BY <3>1, <3>2 DEF SameTask, Formed, Fields
    <2>2. CASE calls # <<>>
      <3>1. d' = [d EXCEPT !.batch.used = @ + 1, !.batch.queue = calls,
                           !.batch.asked = ToSet(calls)] /\ d.pc = "run"
        BY <1>1, <2>2 DEF Respond
      <3> QED
        BY <1>0, <3>1 DEF SameTask, Formed, BatchFormed, Fields, BatchFields
    <2> QED
      BY <2>1, <2>2
  <1>2. CASE RunCall \/ RefuseCall
    <2>1. /\ d.pc = "run" /\ d.batch.queue # <<>>
          /\ \E o, names : d' = Answered(Head(d.batch.queue), o, names)
      BY <1>2 DEF RunCall, RefuseCall
    <2> QED
      BY <1>a, <2>1, AnsweredTask
  <1>3. CASE Ask
    BY <1>0, <1>3 DEF Ask, SameTask, Formed, Fields
  <1>4. CASE Stop
    <2>1. d' = Folded(TRUE) \/ d' = [Folded(TRUE) EXCEPT !.turns = 0]
      BY <1>4 DEF Stop
    <2>2. Formed(Folded(TRUE)) /\ SameTask(Folded(TRUE))
      BY FoldedFormed, FoldedTask DEF TaskInv
    <2> QED
      BY <2>1, <2>2 DEF SameTask, Formed, Fields
  <1>5. CASE Timeout
    BY <1>0, <1>5 DEF Timeout, SameTask, Formed, Fields, NewBatch
  <1>6. CASE RunApproved
    <2>1. d.pc = "resume" /\ Asked \in Calls
      BY <1>0, <1>6 DEF RunApproved, Asked
    <2>2. PICK outcome \in {"ok", "error"} :
            d' = [d EXCEPT !.pc = IF d.turns = 0 THEN "report" ELSE "run",
                           !.status = IF outcome = "error" \/ d.turns = 0 THEN "failed"
                                      ELSE "completed",
                           !.failing = (outcome = "error"),
                           !.files = IF outcome = "ok" THEN @ \cup {Asked} ELSE @,
                           !.open = @ \ {Asked},
                           !.batch = NewBatch]
      BY <1>6 DEF RunApproved
    <2> QED
      BY <1>0, <2>1, <2>2 DEF SameTask, Formed, Fields, NewBatch
  <1>7. ASSUME NEW answer, Approve(answer) PROVE SameTask(d')
    <2>1. d' = [d EXCEPT !.pc = "resume", !.turns = TurnsLeft, !.open = PendingCalls]
      BY <1>7 DEF Approve
    <2> QED
      BY <1>0, <2>1 DEF SameTask, Formed, Fields
  <1>8. CASE Deny \/ LeaveOpen
    <2>1. \E status : d' = Finished(status)
      BY <1>8 DEF Deny, LeaveOpen
    <2> QED
      BY <2>1, FinishedTask
  <1> QED
    BY <1>1, <1>2, <1>3, <1>4, <1>5, <1>6, <1>7, <1>8 DEF UserAnswers

\* What the task records do in a step.
RecordsAside == UNCHANGED <<conts, tasks, given, reports, begun, counter>>

(* Work on a delegation does not touch the records.                        *)
LEMMA WorkAside ==
    ASSUME \/ \E calls \in Responses : Respond(calls)
           \/ RunCall \/ RefuseCall \/ Ask \/ Stop \/ Timeout \/ RunApproved \/ UserAnswers
    PROVE  RecordsAside /\ d.pc # "idle"
  BY DEF Respond, RunCall, RefuseCall, Ask, Stop, Timeout, RunApproved, UserAnswers,
     Approve, Deny, LeaveOpen, RecordsAside, context, aux, At

(* Nothing changes for the records.                                        *)
LEMMA AsideKept ==
    ASSUME TaskInv, OpenInv', RecordsAside,
           \/ d' = Idle
           \/ d.pc # "idle" /\ SameTask(d')
           \/ d' = d
    PROVE  TaskInv'
  <1>1. UNCHANGED <<conts, tasks, given, reports, begun, counter>>
    BY DEF RecordsAside
  <1>2. RecordsInv'
    BY <1>1 DEF TaskInv, RecordsInv, IdsOf
  <1>3. counter' \in Nat
    BY <1>1 DEF TaskInv
  <1>4. CASE d' = Idle
    <2>1. d'.pc = "idle" /\ d'.files = {} /\ d'.batch.found = {}
      BY <1>4 DEF Idle, Begin, NewBatch
    <2> QED
      BY <1>2, <1>3, <2>1 DEF TaskInv
  <1>5. CASE d.pc # "idle" /\ SameTask(d')
    BY <1>1, <1>2, <1>3, <1>5 DEF TaskInv, SameTask, IdsOf
  <1>6. CASE d' = d
    BY <1>1, <1>2, <1>3, <1>6 DEF TaskInv, IdsOf
  <1> QED
    BY <1>4, <1>5, <1>6

\* What a step must not do to the continuations it leaves in the session.
AgentStays ==
    \A i \in DOMAIN conts, j \in DOMAIN conts' :
       conts[i].id = conts'[j].id => conts[i].agent = conts'[j].agent

(* Saving keeps the agent of every task that stays.                        *)
LEMMA SavedAgent ==
    ASSUME RecordsInv, NEW c \in Cont,
           \A i \in DOMAIN conts : conts[i].id = c.id => conts[i].agent = c.agent,
           \A i \in DOMAIN conts' :
              \/ conts'[i] = c
              \/ \E j \in DOMAIN conts : conts'[i] = conts[j] /\ conts[j].id # c.id
    PROVE  AgentStays
  <1> SUFFICES ASSUME NEW i \in DOMAIN conts, NEW j \in DOMAIN conts',
                      conts[i].id = conts'[j].id
               PROVE  conts[i].agent = conts'[j].agent
    BY DEF AgentStays
  <1>1. CASE conts'[j] = c
    BY <1>1
  <1>2. ASSUME NEW k \in DOMAIN conts, conts'[j] = conts[k] PROVE conts'[j] = conts[i]
    <2>1. i = k
      BY <1>2 DEF RecordsInv
    <2> QED
      BY <1>2, <2>1
  <1> QED
    BY <1>1, <1>2

(* A new task has no record and no answer yet.                             *)
LEMMA DelegateTask ==
    ASSUME TaskInv, OpenInv', NEW a \in Agents, Delegate(a)
    PROVE  TaskInv'
  <1>1. /\ begun < MaxDelegations /\ begun' = begun + 1
        /\ d' = Begin(begun + 1, a, <<>>)
        /\ UNCHANGED <<conts, tasks, counter, given, reports>>
    BY DEF Delegate, context
  <1>2. begun \in Nat /\ MaxDelegations \in Nat
    BY DelegatesAssumption DEF TaskInv, RecordsInv
  <1>3. \A i \in DOMAIN conts : conts[i] \in Cont /\ conts[i].id \in Nat
    <2>1. \A i \in DOMAIN conts : conts[i] \in Cont
      BY DEF TaskInv, RecordsInv
    <2> QED
      BY <2>1 DEF Cont, Ids
  <1>4. begun' \in 0..MaxDelegations /\ \A x \in Nat : x <= begun => x <= begun'
    BY <1>1, <1>2
  <1>5. RecordsInv'
    <2>1. /\ conts' \in Seq(Cont) /\ Len(conts') <= ContLimit
          /\ \A i, j \in DOMAIN conts' : conts'[i].id = conts'[j].id => i = j
          /\ tasks' \subseteq IdsOf(conts')
          /\ given' \in [Ids -> Nat] /\ reports' \in [Ids -> Seq(Calls)]
      BY <1>1 DEF TaskInv, RecordsInv, IdsOf
    <2>2. \A i \in DOMAIN conts' :
             /\ conts'[i].id <= begun' /\ conts'[i].id \in tasks'
             /\ Stores(conts'[i], reports'[conts'[i].id])
             /\ AnsweredLast(conts'[i], given'[conts'[i].id])
      BY <1>1, <1>3, <1>4 DEF TaskInv, RecordsInv
    <2>3. \A t \in Ids : given'[t] # 0 \/ reports'[t] # <<>> => t <= begun'
      BY <1>1, <1>4 DEF TaskInv, RecordsInv, Ids
    <2> QED
      BY <1>4, <2>1, <2>2, <2>3 DEF RecordsInv
  <1>6. begun + 1 \in Ids /\ ~(begun + 1 <= begun) /\ begun + 1 \in 1..begun'
    BY <1>1, <1>2 DEF Ids
  <1>7. given'[begun + 1] = 0 /\ reports'[begun + 1] = <<>>
    BY <1>1, <1>6 DEF TaskInv, RecordsInv
  <1>8. begun + 1 \notin IdsOf(conts')
    BY <1>1, <1>6 DEF TaskInv, RecordsInv, IdsOf
  <1>9. /\ d'.task = begun + 1 /\ d'.agent = a /\ d'.prev = <<>>
        /\ d'.files = {} /\ d'.batch.found = {}
    BY <1>1 DEF Begin, NewBatch
  <1> QED
    BY <1>1, <1>5, <1>6, <1>7, <1>8, <1>9 DEF TaskInv

(* A resumed task keeps its record and shows the new answer last.          *)
LEMMA ResumeTask ==
    ASSUME TaskInv, OpenInv', NEW a \in Agents, NEW t \in Ids, Resume(t, a)
    PROVE  TaskInv' /\ AgentStays
  <1>1. begun < MaxDelegations /\ begun' = begun + 1 /\ counter' \in Nat /\ reports' = reports
    BY DEF Resume, TaskInv, context
  <1>2. begun \in Nat /\ MaxDelegations \in Nat /\ ItemLimit \in Nat \ {0}
    BY DelegatesAssumption DEF TaskInv, RecordsInv
  <1>3. conts \in Seq(Cont) /\ DOMAIN conts = 1..Len(conts)
        /\ \A i \in DOMAIN conts : conts[i] \in Cont /\ conts[i].id \in Nat
    <2>1. conts \in Seq(Cont)
      BY DEF TaskInv, RecordsInv
    <2>2. \A i \in DOMAIN conts : conts[i] \in Cont
      BY <2>1
    <2> QED
      BY <2>1, <2>2 DEF Cont, Ids
  <1>4. begun' \in 0..MaxDelegations /\ begun' \in Ids
        /\ \A x \in Nat : x <= begun => x <= begun'
    BY <1>1, <1>2 DEF Ids
  <1>5. CASE UNCHANGED <<context, d, given>>
    <2>1. UNCHANGED <<conts, tasks, counter, given, d>> /\ d.pc = "idle"
      BY <1>5 DEF context, Resume, At
    <2>2. RecordsInv'
      <3>1. /\ conts' \in Seq(Cont) /\ Len(conts') <= ContLimit
            /\ \A i, j \in DOMAIN conts' : conts'[i].id = conts'[j].id => i = j
            /\ tasks' \subseteq IdsOf(conts')
            /\ given' \in [Ids -> Nat] /\ reports' \in [Ids -> Seq(Calls)]
        BY <1>1, <2>1 DEF TaskInv, RecordsInv, IdsOf
      <3>2. \A i \in DOMAIN conts' :
               /\ conts'[i].id <= begun' /\ conts'[i].id \in tasks'
               /\ Stores(conts'[i], reports'[conts'[i].id])
               /\ AnsweredLast(conts'[i], given'[conts'[i].id])
        BY <1>1, <1>3, <1>4, <2>1 DEF TaskInv, RecordsInv
      <3>3. \A x \in Ids : given'[x] # 0 \/ reports'[x] # <<>> => x <= begun'
        <4>1. \A x \in Ids : given[x] # 0 \/ reports[x] # <<>> => x <= begun
          BY DEF TaskInv, RecordsInv
        <4>2. \A x \in Ids : x \in Nat
          BY DEF Ids
        <4> QED
          BY <1>1, <1>4, <2>1, <4>1, <4>2
      <3> QED
        BY <1>4, <3>1, <3>2, <3>3 DEF RecordsInv
    <2>3. AgentStays
      BY <2>1 DEF AgentStays, TaskInv, RecordsInv
    <2> QED
      BY <2>1, <2>2, <2>3 DEF TaskInv
  <1>6. ASSUME CanResume(t, a),
               LET c == WithAnswer([ContOf(t) EXCEPT !.agent = a], begun + 1) IN
                 /\ SaveContinuation(c)
                 /\ d' = Begin(t, a, <<c>>)
                 /\ given' = [given EXCEPT ![t] = begun + 1]
        PROVE  TaskInv' /\ AgentStays
    <2> DEFINE old == ContOf(t)
               c == WithAnswer([old EXCEPT !.agent = a], begun + 1)
    <2>1. /\ SaveContinuation(c) /\ d' = Begin(t, a, <<c>>)
          /\ given' = [given EXCEPT ![t] = begun + 1]
      BY <1>6
    <2>2. old.agent = a /\ \E i \in DOMAIN conts : old = conts[i] /\ conts[i].id = t
      BY <1>6 DEF CanResume, Retained, IdsOf, ContOf
    <2> HIDE DEF old
    <2>3. PICK n \in DOMAIN conts : old = conts[n] /\ conts[n].id = t
      BY <2>2
    <2>4. old \in Cont /\ old.id = t /\ old.agent = a
      BY <1>3, <2>2, <2>3
    <2> DEFINE said == Append(old.answers, begun')
               answers == Suffix(said, ItemLimit)
    <2>5. /\ answers \in Seq(Ids) /\ answers # <<>> /\ Last(answers) = begun'
      <3>1. old.answers \in Seq(Ids)
        BY <2>4 DEF Cont
      <3>2. said \in Seq(Ids) /\ Len(said) \in Nat /\ Len(said) >= 1 /\ said[Len(said)] = begun'
        BY <1>4, <3>1
      <3> HIDE DEF said
      <3>3. /\ answers \in Seq(Ids)
            /\ Len(answers) = IF Len(said) <= ItemLimit THEN Len(said) ELSE ItemLimit
            /\ \A k \in 1..Len(answers) :
                 answers[k] = said[k + (Len(said) - Len(answers))]
        BY <1>2, <3>2, SuffixOf
      <3> HIDE DEF answers
      <3>4. Len(answers) \in 1..Len(answers)
            /\ Len(answers) + (Len(said) - Len(answers)) = Len(said)
        BY <1>2, <3>2, <3>3
      <3>5. answers[Len(answers)] = begun'
        BY <3>2, <3>3, <3>4
      <3> QED
        BY <3>3, <3>4, <3>5 DEF Last
    <2>6. c = [[old EXCEPT !.agent = a] EXCEPT !.answers = answers]
      BY <1>1, <2>4 DEF WithAnswer, Cont
    <2> HIDE DEF answers, c
    <2>7. c \in Cont /\ c.id = t /\ c.agent = a /\ c.files = old.files
          /\ c.answers = answers
      BY <2>4, <2>5, <2>6 DEF Cont
    <2>8. /\ given' \in [Ids -> Nat] /\ given'[t] = begun'
          /\ \A x \in Ids \ {t} : given'[x] = given[x]
      BY <1>1, <1>2, <2>1 DEF TaskInv, RecordsInv
    <2>9. t <= begun /\ Stores(old, reports[t])
      BY <2>3 DEF TaskInv, RecordsInv
    <2>10. t <= begun' /\ \A x \in Ids : given'[x] # 0 \/ reports'[x] # <<>> => x <= begun'
      <3>1. \A x \in Ids : given[x] # 0 \/ reports[x] # <<>> => x <= begun
        BY DEF TaskInv, RecordsInv
      <3>2. \A x \in Ids : x \in Nat
        BY DEF Ids
      <3>3. t <= begun'
        BY <1>4, <2>9, <3>2
      <3> QED
        BY <1>1, <1>4, <2>8, <3>1, <3>2, <3>3
    <2>11. begun' \in begun..MaxDelegations
      BY <1>1, <1>2
    <2>12. AnsweredLast(c, given'[c.id])
      BY <2>5, <2>7, <2>8 DEF AnsweredLast
    <2>13. RecordsInv
      BY DEF TaskInv
    <2>14. /\ Stores(c, reports'[c.id]) /\ c.id <= begun'
           /\ reports' \in [Ids -> Seq(Calls)]
           /\ \A x \in Ids \ {c.id} : given'[x] = given[x] /\ reports'[x] = reports[x]
      BY <1>1, <2>7, <2>8, <2>9, <2>10, <2>13 DEF RecordsInv, Stores
    <2>15. /\ RecordsInv'
           /\ \E i \in DOMAIN conts' : conts'[i] = c
           /\ \A i \in DOMAIN conts' :
                 \/ conts'[i] = c
                 \/ \E j \in DOMAIN conts : conts'[i] = conts[j] /\ conts[j].id # c.id
      BY <2>1, <2>7, <2>8, <2>10, <2>11, <2>12, <2>13, <2>14, SavedRecords
    <2>16. AgentStays
      <3>1. ASSUME NEW i \in DOMAIN conts, conts[i].id = c.id
            PROVE  conts[i].agent = c.agent
        <4>1. i = n
          BY <2>3, <2>7, <2>13, <3>1 DEF RecordsInv
        <4> QED
          BY <2>3, <2>4, <2>7, <4>1
      <3> QED
        BY <2>7, <2>13, <2>15, <3>1, SavedAgent
    <2>17. /\ d'.task = t /\ d'.agent = a /\ d'.prev = <<c>>
           /\ d'.files = {} /\ d'.batch.found = {}
      BY <2>1 DEF Begin, NewBatch
    <2>18. t \in 1..begun'
      BY <2>10 DEF Ids
    <2> QED
      BY <1>1, <2>7, <2>15, <2>16, <2>17, <2>18 DEF TaskInv
  <1> QED
    BY <1>5, <1>6 DEF Resume

(* The result of a delegation is stored over what it resumed.              *)
LEMMA ReportTask ==
    ASSUME TaskInv, OpenInv', Report
    PROVE  TaskInv' /\ AgentStays
  <1>1. PICK reported \in Reports, out \in SUBSET {counter + 1} :
          /\ PersistPacket(reported, out) /\ SaveContinuation(NextContinuation(reported, out))
          /\ reports' = [reports EXCEPT ![d.task] = WithNew(@, reported)]
    BY DEF Report
  <1>2. d' = Idle /\ d.pc # "idle" /\ UNCHANGED <<begun, given>>
    BY DEF Report, At, aux
  <1>3. /\ RecordsInv /\ counter \in Nat /\ begun \in Nat /\ begun <= MaxDelegations
        /\ MaxDelegations \in Nat /\ IsFiniteSet(Calls)
        /\ conts \in Seq(Cont) /\ DOMAIN conts = 1..Len(conts)
    BY DelegatesAssumption DEF TaskInv, RecordsInv
  <1>4. counter' \in Nat
    BY <1>1, <1>3 DEF PersistPacket
  <1>5. reported \in SUBSET Calls /\ out \in SUBSET Nat
    BY <1>1, <1>3 DEF Reports, TaskInv
  <1> DEFINE prev == IF d.prev = <<>> THEN <<>> ELSE Head(d.prev).files
             had == IF d.prev = <<>> THEN {} ELSE Head(d.prev).packets
             answers == IF d.prev = <<>> THEN <<>> ELSE Head(d.prev).answers
             c == NextContinuation(reported, out)
  <1>6. c = [id |-> d.task, agent |-> d.agent, files |-> MergeCompact(prev, reported),
             answers |-> answers, packets |-> had \cup out]
    BY DEF NextContinuation
  <1> DEFINE Fits ==
             /\ prev = Prefix(reports[d.task], ItemLimit) /\ had \in SUBSET Nat
             /\ answers \in Seq(Ids)
             /\ AnsweredLast([answers |-> answers], given[d.task])
             /\ \A i \in DOMAIN conts : conts[i].id = d.task => d.agent = conts[i].agent
  <1>7. Fits
    <2>1. CASE /\ d.prev = <<>> /\ given[d.task] = 0 /\ reports[d.task] = <<>>
               /\ d.task \notin IdsOf(conts)
      <3>1. \A i \in DOMAIN conts : conts[i].id # d.task
        BY <2>1 DEF IdsOf
      <3>2. prev = <<>> /\ had = {} /\ answers = <<>>
        BY <2>1
      <3> HIDE DEF prev, had, answers
      <3>3. answers \in Seq(Ids)
        BY <3>2
      <3>4. prev = Prefix(reports[d.task], ItemLimit)
        BY <2>1, <3>2, DelegatesAssumption DEF Prefix
      <3>5. AnsweredLast([answers |-> answers], given[d.task])
        BY <2>1 DEF AnsweredLast
      <3> QED
        BY <3>1, <3>2, <3>3, <3>4, <3>5
    <2>2. ASSUME NEW n \in DOMAIN conts, d.prev = <<conts[n]>>,
                 conts[n].id = d.task, conts[n].agent = d.agent
          PROVE  Fits
      <3>1. prev = conts[n].files /\ had = conts[n].packets /\ answers = conts[n].answers
        BY <2>2
      <3> HIDE DEF prev, had, answers
      <3>2. conts[n] \in Cont
        BY <1>3
      <3>3. had \in SUBSET Nat /\ answers \in Seq(Ids)
        BY <3>1, <3>2 DEF Cont
      <3>4. prev = Prefix(reports[d.task], ItemLimit) /\ AnsweredLast(conts[n], given[d.task])
        BY <2>2, <3>1 DEF TaskInv, RecordsInv, Stores
      <3>5. AnsweredLast([answers |-> answers], given[d.task])
        BY <3>1, <3>4 DEF AnsweredLast
      <3>6. \A i \in DOMAIN conts : conts[i].id = d.task => i = n
        BY <1>3, <2>2 DEF RecordsInv
      <3> QED
        BY <2>2, <3>1, <3>3, <3>4, <3>5, <3>6
    <2> HIDE DEF Fits
    <2> QED
      BY <1>2, <2>1, <2>2 DEF TaskInv
  <1> HIDE DEF prev, had, answers
  <1>8. d.task \in Ids /\ d.task <= begun /\ d.agent \in Agents
    BY <1>2, <1>3 DEF TaskInv, Ids
  <1> DEFINE items == reports[d.task]
  <1>9. /\ items \in Seq(Calls) /\ WithNew(items, reported) \in Seq(Calls)
        /\ MergeCompact(prev, reported) \in Seq(Calls)
        /\ MergeCompact(prev, reported) = Prefix(WithNew(items, reported), ItemLimit)
    <2>1. items \in Seq(Calls)
      BY <1>3, <1>8 DEF RecordsInv
    <2> HIDE DEF items
    <2>2. /\ WithNew(items, reported) \in Seq(Calls)
          /\ MergeCompact(Prefix(items, ItemLimit), reported)
               = Prefix(WithNew(items, reported), ItemLimit)
      BY <1>3, <1>5, <2>1, MergedPrefix
    <2>3. Prefix(WithNew(items, reported), ItemLimit) \in Seq(Calls)
      BY <1>3, <2>2, MergedPrefix
    <2>4. prev = Prefix(items, ItemLimit)
      BY <1>7 DEF items
    <2> QED
      BY <2>1, <2>2, <2>3, <2>4
  <1>10. had \cup out \in SUBSET Nat /\ answers \in Seq(Ids)
    BY <1>5, <1>7
  <1> HIDE DEF c
  <1>11. c \in Cont /\ c.id = d.task /\ c.agent = d.agent
         /\ c.files = MergeCompact(prev, reported) /\ c.answers = answers
    BY <1>6, <1>8, <1>9, <1>10 DEF Cont
  <1>12. SaveContinuation(c)
    BY <1>1 DEF c
  <1>13. AnsweredLast(c, given'[c.id])
    BY <1>2, <1>7, <1>11 DEF AnsweredLast
  <1>14. /\ c.id <= begun' /\ Stores(c, reports'[c.id])
         /\ begun' \in begun..MaxDelegations
         /\ given' \in [Ids -> Nat] /\ reports' \in [Ids -> Seq(Calls)]
         /\ \A t \in Ids : given'[t] # 0 \/ reports'[t] # <<>> => t <= begun'
         /\ \A t \in Ids \ {c.id} : given'[t] = given[t] /\ reports'[t] = reports[t]
    <2>1. reports' = [reports EXCEPT ![d.task] = WithNew(items, reported)]
      BY <1>1
    <2> HIDE DEF items
    <2>2. /\ reports \in [Ids -> Seq(Calls)] /\ given \in [Ids -> Nat]
          /\ \A t \in Ids : given[t] # 0 \/ reports[t] # <<>> => t <= begun
      BY <1>3 DEF RecordsInv
    <2>3. /\ reports' \in [Ids -> Seq(Calls)] /\ reports'[d.task] = WithNew(items, reported)
          /\ \A t \in Ids \ {d.task} : reports'[t] = reports[t]
      BY <1>8, <1>9, <2>1, <2>2
    <2>4. Stores(c, reports'[c.id])
      BY <1>9, <1>11, <2>3 DEF Stores
    <2>5. \A t \in Ids : given'[t] # 0 \/ reports'[t] # <<>> => t <= begun'
      BY <1>2, <1>8, <2>2, <2>3
    <2>6. c.id <= begun' /\ begun' \in begun..MaxDelegations
      BY <1>2, <1>3, <1>8, <1>11
    <2> QED
      BY <1>2, <1>11, <2>2, <2>3, <2>4, <2>5, <2>6
  <1>15. /\ RecordsInv'
         /\ \A i \in DOMAIN conts' :
               \/ conts'[i] = c
               \/ \E j \in DOMAIN conts : conts'[i] = conts[j] /\ conts[j].id # c.id
    BY <1>3, <1>11, <1>12, <1>13, <1>14, SavedRecords
  <1>16. AgentStays
    <2>1. ASSUME NEW i \in DOMAIN conts, conts[i].id = c.id
          PROVE  conts[i].agent = c.agent
      BY <1>7, <1>11, <2>1
    <2> QED
      BY <1>3, <1>11, <1>15, <2>1, SavedAgent
  <1>17. d'.pc = "idle" /\ d'.files = {} /\ d'.batch.found = {}
    BY <1>2 DEF Idle, Begin, NewBatch
  <1> QED
    BY <1>4, <1>15, <1>16, <1>17 DEF TaskInv

(* Every step keeps the records of the tasks.                              *)
LEMMA TaskStep ==
    ASSUME TaskInv, OpenInv', [Next]_vars
    PROVE  TaskInv' /\ AgentStays
  <1>1. ASSUME RecordsAside PROVE AgentStays
    BY <1>1 DEF RecordsAside, AgentStays, TaskInv, RecordsInv
  <1>2. CASE UNCHANGED vars
    <2>1. RecordsAside /\ d' = d
      BY <1>2 DEF vars, context, aux, RecordsAside
    <2> QED
      BY <1>1, <2>1, AsideKept
  <1>3. CASE NextUserTurn
    <2>1. RecordsAside /\ d' = d
      BY <1>3 DEF NextUserTurn, RecordsAside
    <2> QED
      BY <1>1, <2>1, AsideKept
  <1>4. ASSUME NEW a \in Agents, Delegate(a) PROVE TaskInv' /\ AgentStays
    <2>1. AgentStays
      BY <1>4 DEF Delegate, context, AgentStays, TaskInv, RecordsInv
    <2> QED
      BY <1>4, <2>1, DelegateTask
  <1>5. ASSUME NEW a \in Agents, NEW t \in Ids, Resume(t, a) PROVE TaskInv' /\ AgentStays
    BY <1>5, ResumeTask
  <1>6. CASE \/ \E calls \in Responses : Respond(calls)
             \/ RunCall \/ RefuseCall \/ Ask \/ Stop \/ Timeout \/ RunApproved
             \/ UserAnswers
    BY <1>1, <1>6, WorkSameTask, WorkAside, AsideKept
  <1>7. CASE Report
    BY <1>7, ReportTask
  <1>8. CASE Abort
    <2>1. RecordsAside /\ d' = Idle
      BY <1>8 DEF Abort, RecordsAside, context, aux
    <2> QED
      BY <1>1, <2>1, AsideKept
  <1> QED
    BY <1>2, <1>3, <1>4, <1>5, <1>6, <1>7, <1>8 DEF Next, SubAgentStep

(* The session begins with no task.                                        *)
LEMMA TaskInit == Init => TaskInv
  <1> SUFFICES ASSUME Init PROVE TaskInv
    OBVIOUS
  <1>1. /\ conts = <<>> /\ tasks = {} /\ counter = 0 /\ d = Idle /\ begun = 0
        /\ given = [t \in Ids |-> 0] /\ reports = [t \in Ids |-> <<>>]
    BY DEF Init
  <1>2. OpenInv
    BY OpenInit
  <1>3. d.pc = "idle" /\ d.files = {} /\ d.batch.found = {}
    BY <1>1 DEF Idle, Begin, NewBatch
  <1>4. RecordsInv
    <2>1. \A S : <<>> \in Seq(S) /\ Len(<<>>) = 0 /\ DOMAIN <<>> = {}
      OBVIOUS
    <2>2. ContLimit \in Nat /\ MaxDelegations \in Nat
      BY DelegatesAssumption
    <2> QED
      BY <1>1, <2>1, <2>2 DEF RecordsInv
  <1> QED
    BY <1>1, <1>2, <1>3, <1>4 DEF TaskInv

(* A task that is still retained has its TaskContext and shows the last    *)
(* answer the user gave to it, whatever delegations, limits, timeouts and  *)
(* aborts came in between (sandbox/agent_tool.py, execute).                *)
THEOREM TasksAreKept == Spec => []TaskKept
  <1>1. TaskInv => TaskKept
    BY DEF TaskInv, RecordsInv, AnsweredLast, TaskKept
  <1>2. TaskInv /\ [Next]_vars => TaskInv'
    BY TaskStep, OpenNext DEF TaskInv
  <1> QED
    BY <1>1, <1>2, TaskInit, PTL DEF Spec

(* A retained task holds the first files of those its delegations reported *)
(* up to the limit, and stays with the agent that began it, through every  *)
(* resumption (_merge_compact drops what is reported beyond the limit).    *)
THEOREM FilesAreKept == Spec => FilesKept
  <1>1. TaskInv /\ [Next]_vars => TaskInv' /\ AgentStays
    BY TaskStep, OpenNext DEF TaskInv
  <1> DEFINE Held ==
        \A j \in DOMAIN conts' :
          /\ conts'[j].files = Prefix(reports'[conts'[j].id], ItemLimit)
          /\ \A i \in DOMAIN conts :
               conts[i].id = conts'[j].id => conts[i].agent = conts'[j].agent
  <1>2. TaskInv' /\ AgentStays => Held
    BY DEF TaskInv, RecordsInv, Stores, AgentStays
  <1> QED
    BY <1>1, <1>2, TaskInit, PTL DEF Spec, FilesKept
=============================================================================
