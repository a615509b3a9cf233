-------------------------- MODULE AgentTurn_proofs --------------------------
(***************************************************************************)
(* Six results about every step of the turn runner, the agent and its      *)
(* two schedulers, for every set of calls, every configuration and every   *)
(* bound:                                                                  *)
(*   - the approval ledger never runs ahead of the user: a step does one   *)
(*     of six things to it (LedgerStep), and AnswersRecorded is inductive; *)
(*   - a cached read shows what the file holds: a step leaves cache and    *)
(*     files alone, stores what it read, or clears the cache (CacheStep);  *)
(*   - but for the reads of the parallel lane nothing starts without       *)
(*     consent: the turn implements the promise of the approval flow       *)
(*     (ConsentStep, from what is known of the calls that are queued,      *)
(*     sorted, pending or asked about);                                    *)
(*   - no call is executed twice: what has not run is kept in the order of *)
(*     the batch, through interruptions and resumptions (OnceStep);        *)
(*   - the usage of a response is counted once: what a run reports is new, *)
(*     and a part of a response belongs to the last batch (UsageStep);     *)
(*   - where the lane does not ask, no executed call is forgotten: what    *)
(*     ran is replayed by what was committed or has its result in the      *)
(*     run, and a run answers its calls unless it is interrupted           *)
(*     (RememberStep).                                                     *)
(***************************************************************************)
EXTENDS AgentTurn, FiniteSetTheorems, WellFoundedInduction, TLAPS

SaidFields ==
    said = [agreed |-> said.agreed, always |-> said.always, wide |-> said.wide]

\* Each field of the ledger goes back to the answers of its own kind.
AnswersRecorded ==
    /\ SaidFields
    /\ onceApproved \in [Calls -> Nat]
    /\ onceNormalized \in [NormKeys -> Nat]
    /\ sessionApproved \subseteq said.always
    /\ turnApproved \subseteq said.agreed \cup said.always
    /\ \A c \in Calls : onceApproved[c] > 0 => c \in said.agreed
    /\ \A n \in NormKeys :
          onceNormalized[n] > 0 => \E d \in said.agreed : Norm[d] = n
    /\ turnWide => said.wide

LedgerKept == UNCHANGED <<ledger, said>>
Consumes == \E c : ConsumeApproval(c) /\ UNCHANGED said
NewTurn == BeginTurn /\ said' = [said EXCEPT !.agreed = {}, !.wide = FALSE]
Agrees ==
    \E c, scope :
        /\ RecordApproval(c, scope)
        /\ said' = [said EXCEPT !.agreed = @ \cup {c},
                                !.always = IF scope = "session"
                                           THEN @ \cup {c} ELSE @]
AgreesToAll ==
    RecordTurnWideMutatingApproval /\ said' = [said EXCEPT !.wide = TRUE]
Refuses == \E c : RecordRefusal(c) /\ UNCHANGED said

LedgerChange ==
    LedgerKept \/ Consumes \/ NewTurn \/ Agrees \/ AgreesToAll \/ Refuses

(* Executing a tool leaves the ledger alone or consumes an approval.       *)
LEMMA ExecuteToolLedger ==
    ASSUME NEW id, ExecuteTool(id), UNCHANGED said
    PROVE  LedgerKept \/ Consumes
  BY DEF ExecuteTool, LedgerKept, Consumes

(* A tool that does not return consumes nothing.                           *)
LEMMA ToolInterruptedLedger ==
    ASSUME NEW id, ToolInterrupted(id)
    PROVE  UNCHANGED ledger
  BY DEF ToolInterrupted

(* No model response and no end of a run touches the ledger.               *)
LEMMA ModelStepLedger == ModelStep => LedgerKept
  BY DEF ModelStep, ModelRequestsTools, ModelAnswersText, ModelTruncated,
         ModelFails, LoopLimit, LedgerKept, user

(* In the sequential loop only an execution does.                          *)
LEMMA SequentialStepLedger == SequentialStep => LedgerKept \/ Consumes
  <1>1. CASE CallLimit \/ CallAnswered \/ CallAsks \/ BatchDone
    BY <1>1 DEF CallLimit, CallAnswered, CallAsks, BatchDone, LedgerKept, user
  <1>2. CASE CallExecutes
    BY <1>2, ExecuteToolLedger DEF CallExecutes, user
  <1>3. CASE CallRaises
    BY <1>3, ToolInterruptedLedger DEF CallRaises, LedgerKept, user
  <1> QED
    BY <1>1, <1>2, <1>3 DEF SequentialStep

(* The same holds of resumed calls,                                        *)
LEMMA ResumeStepLedger == ResumeStep => LedgerKept \/ Consumes
  <1>1. CASE ResumeAnswered \/ ResumeAsks \/ ResumeDone
    BY <1>1 DEF ResumeAnswered, ResumeAsks, ResumeDone, LedgerKept, user
  <1>2. CASE ResumeExecutes
    BY <1>2, ExecuteToolLedger DEF ResumeExecutes, user
  <1>3. CASE ResumeRaises
    BY <1>3, ToolInterruptedLedger DEF ResumeRaises, LedgerKept, user
  <1> QED
    BY <1>1, <1>2, <1>3 DEF ResumeStep

(* and of the parallel-first scheduler, where a task consumes the approval *)
(* when it finishes, be its window still there or not.                     *)
LEMMA ParallelStepLedger == ParallelStep => LedgerKept \/ Consumes
  <1>1. CASE PrepareBatch \/ OpenWindow \/ CollectWindow \/ WindowsDone
             \/ ItemAnswered \/ ItemAsks \/ ItemsDone
    BY <1>1 DEF PrepareBatch, OpenWindow, CollectWindow, WindowsDone,
                ItemAnswered, ItemAsks, ItemsDone, LedgerKept, user
  <1>2. CASE ItemExecutes
    BY <1>2, ExecuteToolLedger DEF ItemExecutes, user
  <1>3. CASE ItemRaises
    BY <1>3, ToolInterruptedLedger DEF ItemRaises, LedgerKept, user
  <1>4. CASE \E id \in running : TaskFinishes(id)
    BY <1>4 DEF TaskFinishes, Consumes, user
  <1>5. CASE \E id \in running : TaskRaises(id)
    BY <1>5 DEF TaskRaises, LedgerKept, user
  <1> QED
    BY <1>1, <1>2, <1>3, <1>4, <1>5 DEF ParallelStep

(* The user's answers are the only source of approvals.                    *)
LEMMA UserAnswerLedger == UserAnswer => LedgerChange
  <1>1. CASE AnswerYes
    BY <1>1 DEF AnswerYes, Agrees, LedgerChange
  <1>2. CASE AnswerYesThisTurn
    BY <1>2 DEF AnswerYesThisTurn, AgreesToAll, LedgerChange
  <1>3. CASE AnswerNo
    BY <1>3 DEF AnswerNo, Refuses, LedgerChange, user
  <1>4. CASE AnswerQuestion \/ NoAnswer
    BY <1>4 DEF AnswerQuestion, NoAnswer, LedgerKept, LedgerChange, user
  <1> QED
    BY <1>1, <1>2, <1>3, <1>4 DEF UserAnswer

(* A new message opens a turn or, as `continue`, leaves the ledger alone.  *)
LEMMA UserMessageLedger ==
    ASSUME NEW continue \in BOOLEAN, UserMessage(continue)
    PROVE  LedgerKept \/ NewTurn
  BY DEF UserMessage, LedgerKept, NewTurn

(* An abort takes nothing back from the ledger.                            *)
LEMMA AbortLedger == Abort => LedgerKept
  BY ToolInterruptedLedger DEF Abort, LedgerKept, user

(* All in all, a step does one of six things to the ledger.                *)
LEMMA LedgerStep == [Next]_vars => LedgerChange
  <1>1. CASE \E continue \in BOOLEAN : UserMessage(continue)
    BY <1>1, UserMessageLedger DEF LedgerChange
  <1>2. CASE TurnStep
    BY <1>2, ModelStepLedger, SequentialStepLedger, ResumeStepLedger,
       ParallelStepLedger, UserAnswerLedger
    DEF TurnStep, LedgerChange
  <1>3. CASE Abort
    BY <1>3, AbortLedger DEF LedgerChange
  <1>4. CASE UNCHANGED vars
    BY <1>4 DEF vars, user, LedgerKept, LedgerChange
  <1> QED
    BY <1>1, <1>2, <1>3, <1>4 DEF Next

(* Updating a counter, at an argument it has or at another one.            *)
LEMMA CounterUpdated ==
    ASSUME NEW S, NEW f \in [S -> Nat], NEW x, NEW v, x \in S => v \in Nat
    PROVE  /\ [f EXCEPT ![x] = v] \in [S -> Nat]
           /\ \A y \in S : [f EXCEPT ![x] = v][y] = IF y = x THEN v ELSE f[y]
  <1>1. CASE x \in S
    BY <1>1
  <1>2. CASE x \notin S
    <2>1. [f EXCEPT ![x] = v] = f
      BY <1>2
    <2> QED
      BY <1>2, <2>1
  <1> QED
    BY <1>1, <1>2

(* A decremented counter is a counter and no larger.                       *)
LEMMA DecrementedLess ==
    ASSUME NEW n \in Nat
    PROVE  Decremented(n) \in Nat /\ Decremented(n) <= n
  BY DEF Decremented

(* AnswersRecorded holds before the first message.                         *)
LEMMA AnswersRecordedInit == Init => AnswersRecorded
  <1> SUFFICES ASSUME Init PROVE AnswersRecorded
    OBVIOUS
  <1>1. SaidFields
    BY DEF Init, SaidFields
  <1>2. /\ sessionApproved = {} /\ turnApproved = {} /\ turnWide = FALSE
        /\ onceApproved = [c \in Calls |-> 0]
        /\ onceNormalized = [n \in NormKeys |-> 0]
    BY DEF Init, LedgerInit
  <1> QED
    BY <1>1, <1>2 DEF AnswersRecorded

(* Each of the six changes keeps every approval tied to its answer.        *)
LEMMA AnswersRecordedStep == AnswersRecorded /\ LedgerChange => AnswersRecorded'
  <1> SUFFICES ASSUME AnswersRecorded, LedgerChange
               PROVE  AnswersRecorded'
    OBVIOUS
  <1> USE DEF AnswersRecorded, SaidFields
  <1>1. CASE LedgerKept
    BY <1>1 DEF LedgerKept, ledger
  <1>2. CASE Consumes
    <2>1. PICK c : ConsumeApproval(c) /\ UNCHANGED said
      BY <1>2 DEF Consumes
    <2>2. onceApproved' \in [Calls -> Nat]
          /\ \A d \in Calls : onceApproved'[d] <= onceApproved[d]
      <3>1. onceApproved' =
              [onceApproved EXCEPT ![c] = Decremented(onceApproved[c])]
        BY <2>1 DEF ConsumeApproval
      <3>2. c \in Calls => Decremented(onceApproved[c]) \in Nat
                           /\ Decremented(onceApproved[c]) <= onceApproved[c]
        BY DecrementedLess
      <3> HIDE DEF AnswersRecorded
      <3>3. onceApproved \in [Calls -> Nat]
        BY DEF AnswersRecorded
      <3> QED
        BY <3>1, <3>2, <3>3, CounterUpdated
    <2>3. onceNormalized' \in [NormKeys -> Nat]
          /\ \A n \in NormKeys : onceNormalized'[n] <= onceNormalized[n]
      <3>1. onceNormalized' =
              [onceNormalized EXCEPT
                 ![Norm[c]] = Decremented(onceNormalized[Norm[c]])]
        BY <2>1 DEF ConsumeApproval
      <3>2. Norm[c] \in NormKeys =>
              /\ Decremented(onceNormalized[Norm[c]]) \in Nat
              /\ Decremented(onceNormalized[Norm[c]]) <= onceNormalized[Norm[c]]
        BY DecrementedLess
      <3> HIDE DEF AnswersRecorded
      <3>3. onceNormalized \in [NormKeys -> Nat]
        BY DEF AnswersRecorded
      <3> QED
        BY <3>1, <3>2, <3>3, CounterUpdated
    <2> QED
      BY <2>1, <2>2, <2>3 DEF ConsumeApproval
  <1>3. CASE NewTurn
    <2>1. said' = [agreed |-> {}, always |-> said.always, wide |-> FALSE]
      BY <1>3 DEF NewTurn
    <2>2. /\ onceApproved' = [c \in Calls |-> 0]
          /\ onceNormalized' = [n \in NormKeys |-> 0]
          /\ turnApproved' = {}
          /\ turnWide' = FALSE
          /\ sessionApproved' = sessionApproved
      BY <1>3 DEF NewTurn, BeginTurn
    <2>3. SaidFields'
      BY <2>1
    <2>4. sessionApproved' \subseteq said'.always
      BY <2>1, <2>2
    <2> QED
      BY <2>2, <2>3, <2>4
  <1>4. CASE Agrees
    <2>1. PICK c, scope :
            /\ RecordApproval(c, scope)
            /\ said' = [said EXCEPT !.agreed = @ \cup {c},
                                    !.always = IF scope = "session"
                                               THEN @ \cup {c} ELSE @]
      BY <1>4 DEF Agrees
    <2>2. /\ said' = [agreed |-> said'.agreed, always |-> said'.always,
                      wide |-> said'.wide]
          /\ said'.agreed = said.agreed \cup {c}
          /\ said'.always = IF scope = "session" THEN said.always \cup {c}
                                                 ELSE said.always
          /\ said'.wide = said.wide
      BY <2>1
    <2>3. CASE scope = "once"
      <3>1. onceApproved' = [onceApproved EXCEPT ![c] = @ + 1]
            /\ onceNormalized' = [onceNormalized EXCEPT ![Norm[c]] = @ + 1]
            /\ UNCHANGED <<sessionApproved, turnApproved, turnWide>>
        BY <2>1, <2>3 DEF RecordApproval
      <3>2. onceApproved' \in [Calls -> Nat]
            /\ \A d \in Calls \ {c} : onceApproved'[d] = onceApproved[d]
        BY <3>1, CounterUpdated
      <3>3. onceNormalized' \in [NormKeys -> Nat]
            /\ \A n \in NormKeys \ {Norm[c]} :
                  onceNormalized'[n] = onceNormalized[n]
        BY <3>1, CounterUpdated
      <3> QED
        BY <2>2, <2>3, <3>1, <3>2, <3>3
    <2>4. CASE scope \in {"turn", "session"}
      BY <2>1, <2>2, <2>4 DEF RecordApproval
    <2> QED
      BY <2>1, <2>3, <2>4 DEF RecordApproval
  <1>5. CASE AgreesToAll
    BY <1>5 DEF AgreesToAll, RecordTurnWideMutatingApproval
  <1>6. CASE Refuses
    BY <1>6 DEF Refuses, RecordRefusal
  <1> QED
    BY <1>1, <1>2, <1>3, <1>4, <1>5, <1>6 DEF LedgerChange

(* AnswersRecorded suffices: a normalised approval names a call that looks *)
(* alike, an exact one the call itself.                                    *)
LEMMA AnswersSuffice == AnswersRecorded => ApprovalsSaid
  <1> SUFFICES ASSUME AnswersRecorded, NEW c \in Calls, IsToolPreapproved(c)
               PROVE  \/ said.wide
                      \/ \E d \in said.agreed \cup said.always :
                            Norm[d] = Norm[c]
    BY DEF ApprovalsSaid
  <1>1. Norm[c] \in NormKeys
    BY NormAssumption
  <1> QED
    BY <1>1 DEF AnswersRecorded, IsToolPreapproved, IsPreApproved

(* No interleaving of batches, resumed calls, detached tasks, refusals and *)
(* aborts lets the ledger authorise what the user did not say.             *)
THEOREM LedgerOnlyWhatWasSaid == Spec => []ApprovalsSaid
  <1>1. Init => AnswersRecorded
    BY AnswersRecordedInit
  <1>2. AnswersRecorded /\ [Next]_vars => AnswersRecorded'
    BY LedgerStep, AnswersRecordedStep
  <1>3. AnswersRecorded => ApprovalsSaid
    BY AnswersSuffice
  <1> QED
    BY <1>1, <1>2, <1>3, PTL DEF Spec

-----------------------------------------------------------------------------
(* The read cache.  A step that goes on with a turn keeps true what the    *)
(* cache holds of the files: it leaves both alone, stores what it just     *)
(* read, or changes a file and clears the cache.  A tool that is cut short *)
(* may leave the cache stale, and ends the turn.                           *)

CacheInv ==
    /\ cache \in [Calls -> Nat]
    /\ version \in [Paths -> Nat]
    /\ CacheFresh

CacheKept == UNCHANGED <<cache, version>>
CacheStores ==
    UNCHANGED version /\ \E c : Tool[c].cacheable /\ cache' = StoreRead(c)
CacheCleared == cache' = NoCache /\ version' \in [Paths -> Nat]
CacheLeft ==
    phase' = "idle" /\ UNCHANGED cache /\ version' \in [Paths -> Nat]

\* A turn begins with an empty cache, and only so.
CacheChange ==
    \/ /\ phase = "idle" => phase' = "idle"
       /\ CacheKept \/ CacheStores \/ CacheLeft
    \/ CacheCleared

(* What a tool does to the files, whether it returns or not.               *)
LEMMA EffectOnFiles ==
    ASSUME version \in [Paths -> Nat], NEW c, Effect(c)
    PROVE  /\ version' \in [Paths -> Nat]
           /\ ~Mutating(c) => version' = version
  BY DEF Effect, Affected

(* An execution that returns keeps the cache true or empties it.           *)
LEMMA ExecuteToolCache ==
    ASSUME version \in [Paths -> Nat], NEW id, ExecuteTool(id)
    PROVE  CacheKept \/ CacheStores \/ CacheCleared
  <1> DEFINE c == issued[id]
  <1>1. CASE CachedRead(c)
    BY <1>1 DEF ExecuteTool, CacheKept
  <1>2. CASE ~CachedRead(c) /\ Mutating(c)
    BY <1>2, EffectOnFiles DEF ExecuteTool, CacheCleared
  <1>3. CASE ~CachedRead(c) /\ ~Mutating(c)
    BY <1>3, EffectOnFiles DEF ExecuteTool, CacheKept, CacheStores
  <1> QED
    BY <1>1, <1>2, <1>3

(* A tool that does not return leaves the cache alone.                     *)
LEMMA ToolInterruptedCache ==
    ASSUME version \in [Paths -> Nat], NEW id, ToolInterrupted(id), phase' = "idle"
    PROVE  CacheLeft
  BY EffectOnFiles DEF ToolInterrupted, CacheLeft

(* A new run starts with an empty cache, a response of the model and the   *)
(* end of a turn do not touch it.                                          *)
LEMMA ModelStepCache == ModelStep => CacheChange
  BY DEF ModelStep, ModelRequestsTools, ModelAnswersText, ModelTruncated,
         ModelFails, LoopLimit, CanAsk, EndWithNotice, FinishTurn, CacheChange,
         CacheKept, world

(* The sequential loop,                                                    *)
LEMMA SequentialStepCache ==
    ASSUME version \in [Paths -> Nat], SequentialStep
    PROVE  CacheChange
  <1>1. CASE CallLimit \/ CallAnswered \/ CallAsks \/ BatchDone
    BY <1>1 DEF CallLimit, CallAnswered, CallAsks, BatchDone, InBatch, CacheChange,
       CacheKept, world
  <1>2. CASE CallExecutes
    BY <1>2, ExecuteToolCache DEF CallExecutes, CacheChange, InBatch
  <1>3. CASE CallRaises
    BY <1>3, ToolInterruptedCache DEF CallRaises, FinishTurn, CacheChange
  <1> QED
    BY <1>1, <1>2, <1>3 DEF SequentialStep

(* the resumed calls                                                       *)
LEMMA ResumeStepCache ==
    ASSUME version \in [Paths -> Nat], ResumeStep
    PROVE  CacheChange
  <1>1. CASE ResumeAnswered \/ ResumeAsks
    BY <1>1 DEF ResumeAnswered, ResumeAsks, InResume, CacheChange, CacheKept, world
  <1>2. CASE ResumeExecutes
    BY <1>2, ExecuteToolCache DEF ResumeExecutes, CacheChange, InResume
  <1>3. CASE ResumeDone
    BY <1>3 DEF ResumeDone, StartRun, CacheChange, CacheCleared
  <1>4. CASE ResumeRaises
    BY <1>4, ToolInterruptedCache DEF ResumeRaises, ForgetTurn, CacheChange
  <1> QED
    BY <1>1, <1>2, <1>3, <1>4 DEF ResumeStep

(* and the parallel-first scheduler, where the tasks only read.            *)
LEMMA ParallelStepCache ==
    ASSUME version \in [Paths -> Nat], ParallelStep
    PROVE  CacheChange
  <1>1. CASE PrepareBatch \/ OpenWindow \/ CollectWindow \/ WindowsDone
             \/ ItemAnswered \/ ItemAsks \/ ItemsDone
    BY <1>1 DEF PrepareBatch, OpenWindow, CollectWindow, WindowsDone, ItemAnswered,
                ItemAsks, ItemsDone, InItems, CacheChange, CacheKept, world
  <1>2. CASE ItemExecutes
    BY <1>2, ExecuteToolCache DEF ItemExecutes, CacheChange, InItems
  <1>3. CASE ItemRaises
    BY <1>3, ToolInterruptedCache DEF ItemRaises, FinishTurn, CacheChange
  <1>4. CASE \E id \in running : TaskFinishes(id)
    BY <1>4 DEF TaskFinishes, CacheChange, CacheKept, CacheStores
  <1>5. CASE \E id \in running : TaskRaises(id)
    BY <1>5 DEF TaskRaises, FinishTurn, CacheChange, CacheKept
  <1> QED
    BY <1>1, <1>2, <1>3, <1>4, <1>5 DEF ParallelStep

(* An answer resumes the batch with its cache, or the model with a new one.*)
LEMMA UserAnswerCache ==
    ASSUME version \in [Paths -> Nat], UserAnswer
    PROVE  CacheChange
  BY DEF UserAnswer, AnswerYes, AnswerYesThisTurn, AnswerNo, AnswerQuestion,
         NoAnswer, FinishTurn, StartRun, StartResume, CacheChange, CacheKept, CacheCleared,
         world

(* Whatever is running when a turn is aborted, the turn is over.           *)
LEMMA AbortCache ==
    ASSUME version \in [Paths -> Nat], Abort
    PROVE  CacheChange
  <1>1. phase' = "idle"
    BY DEF Abort, ForgetTurn
  <1>2. CacheKept \/ \E id : ToolInterrupted(id)
    BY DEF Abort, CacheKept
  <1> QED
    BY <1>1, <1>2, ToolInterruptedCache DEF CacheChange

(* So it is for every step.                                                *)
LEMMA CacheStep ==
    ASSUME version \in [Paths -> Nat], [Next]_vars
    PROVE  CacheChange
  <1>1. CASE \E continue \in BOOLEAN : UserMessage(continue)
    BY <1>1 DEF UserMessage, StartRun, CacheChange, CacheCleared
  <1>2. CASE TurnStep
    BY <1>2, ModelStepCache, SequentialStepCache, ResumeStepCache,
       ParallelStepCache, UserAnswerCache
    DEF TurnStep
  <1>3. CASE Abort
    BY <1>3, AbortCache
  <1>4. CASE UNCHANGED vars
    BY <1>4 DEF vars, world, CacheChange, CacheKept
  <1> QED
    BY <1>1, <1>2, <1>3, <1>4 DEF Next

(* The invariant holds with an empty cache,                                *)
LEMMA CacheInvInit == Init => CacheInv
  <1> SUFFICES ASSUME Init PROVE CacheInv
    OBVIOUS
  <1>1. cache = [c \in Calls |-> 0] /\ version = [p \in Paths |-> 0]
        /\ phase = "idle"
    BY DEF Init, NoCache
  <1> QED
    BY <1>1 DEF CacheInv, CacheFresh

(* and each kind of step keeps it.                                         *)
LEMMA CacheInvStep == CacheInv /\ [Next]_vars => CacheInv'
  <1> SUFFICES ASSUME CacheInv, [Next]_vars PROVE CacheInv'
    OBVIOUS
  <1>1. CacheChange
    BY CacheStep DEF CacheInv
  <1>2. CASE CacheKept /\ (phase = "idle" => phase' = "idle")
    BY <1>2 DEF CacheInv, CacheFresh, CacheKept
  <1>3. CASE CacheStores /\ (phase = "idle" => phase' = "idle")
    <2>1. PICK c : Tool[c].cacheable /\ cache' = StoreRead(c)
      BY <1>3 DEF CacheStores
    <2>2. CASE c \in Calls
      <3>1. Tool[c].path \in Paths
        BY <2>1, <2>2, ToolAssumption
      <3>2. version[Tool[c].path] + 1 \in Nat
        BY <3>1 DEF CacheInv
      <3>3. cache' = [cache EXCEPT ![c] = version[Tool[c].path] + 1]
        BY <2>1 DEF StoreRead
      <3>4. cache' \in [Calls -> Nat]
        BY <3>2, <3>3 DEF CacheInv
      <3>5. CacheFresh'
        BY <1>3, <3>3 DEF CacheInv, CacheFresh, CacheStores
      <3> QED
        BY <1>3, <3>4, <3>5 DEF CacheInv, CacheStores
    <2>3. CASE c \notin Calls
      BY <1>3, <2>1, <2>3 DEF CacheInv, CacheFresh, CacheStores, StoreRead
    <2> QED
      BY <2>2, <2>3
  <1>4. CASE CacheLeft
    BY <1>4 DEF CacheInv, CacheFresh, CacheLeft
  <1>5. CASE CacheCleared
    BY <1>5 DEF CacheInv, CacheFresh, CacheCleared, NoCache
  <1> QED
    BY <1>1, <1>2, <1>3, <1>4, <1>5 DEF CacheChange

(* A read served from the cache shows what the file holds now, through     *)
(* every interleaving of executions, resumptions, tasks left running and   *)
(* failures.                                                               *)
THEOREM CachedReadsAreCurrent == Spec => []CacheFresh
  <1>1. CacheInv => CacheFresh
    BY DEF CacheInv
  <1> QED
    BY <1>1, CacheInvInit, CacheInvStep, PTL DEF Spec

-----------------------------------------------------------------------------
(* Recursion over the naturals.  The operators that walk over a batch are  *)
(* recursive functions; what they return is known from the least place     *)
(* where it would go wrong.                                                *)

(* Every nonempty set of naturals has a least element.                     *)
LEMMA Least ==
    ASSUME NEW S \in SUBSET Nat, S # {}
    PROVE  \E m \in S : \A k \in S : m <= k
  <1> DEFINE T == {1..n : n \in S}
  <1>1. T \subseteq FiniteSubsetsOf(Nat) /\ T # {}
    <2>1. ASSUME NEW n \in S PROVE 1..n \in FiniteSubsetsOf(Nat)
      <3>1. IsFiniteSet(1..n) /\ 1..n \in SUBSET Nat
        BY FS_Interval
      <3> QED
        BY <3>1 DEF FiniteSubsetsOf
    <2> QED
      BY <2>1
  <1>2. \E v \in T : \A w \in T : ~(<<w, v>> \in StrictSubsetOrdering(Nat))
    BY <1>1, WFMin, FS_StrictSubsetOrderingWellFounded
  <1>3. PICK m \in S : \A k \in S : ~(<<1..k, 1..m>> \in StrictSubsetOrdering(Nat))
    BY <1>2
  <1>4. ASSUME NEW k \in S, ~(m <= k) PROVE FALSE
    <2>1. 1..k \subseteq 1..m /\ m \in 1..m /\ m \notin 1..k
      BY <1>4
    <2>2. 1..k # 1..m /\ 1..k \in SUBSET Nat /\ 1..m \in SUBSET Nat
      BY <2>1
    <2>3. <<1..k, 1..m>> \in StrictSubsetOrdering(Nat)
      BY <2>1, <2>2 DEF StrictSubsetOrdering
    <2> QED
      BY <1>3, <2>3
  <1> QED
    BY <1>4

(* What holds of 0 and passes from each number to the next holds up to n.  *)
LEMMA Climb ==
    ASSUME NEW n \in Nat, NEW G, 0 \in G, \A m \in 1..n : m - 1 \in G => m \in G
    PROVE  0..n \subseteq G
  <1> SUFFICES ASSUME (0..n) \ G # {} PROVE FALSE
    OBVIOUS
  <1>1. PICK m \in (0..n) \ G : \A k \in (0..n) \ G : m <= k
    <2>1. (0..n) \ G \in SUBSET Nat
      OBVIOUS
    <2> QED
      BY <2>1, Least
  <1>2. m # 0 /\ m - 1 \in 0..n /\ m \in 1..n
    OBVIOUS
  <1> QED
    BY <1>1, <1>2

\* f is built from b by the step, over 0..n.
Recurses(f, n, b, step) ==
    f[0] = b /\ \A m \in 1..n : f[m] = step[<<f[m - 1], m>>]

(* A function defined by recursion over 0..n exists.                       *)
LEMMA Recursion ==
    ASSUME NEW n \in Nat, NEW A, NEW b \in A, NEW step \in [A \X (1..n) -> A]
    PROVE  \E f \in [0..n -> A] : Recurses(f, n, b, step)
  <1> DEFINE Reaches(k) == \E f \in [0..k -> A] : Recurses(f, k, b, step)
             G == {k \in 0..n : Reaches(k)}
  <1> USE DEF Recurses
  <1>1. Reaches(0)
    <2> WITNESS [m \in 0..0 |-> b] \in [0..0 -> A]
    <2> QED
      OBVIOUS
  <1>2. ASSUME NEW k \in 1..n, k - 1 \in G PROVE k \in G
    <2>1. PICK f \in [0..(k - 1) -> A] :
              /\ f[0] = b
              /\ \A m \in 1..(k - 1) : f[m] = step[<<f[m - 1], m>>]
      BY <1>2
    <2> DEFINE g == [m \in 0..k |-> IF m = k THEN step[<<f[k - 1], k>>] ELSE f[m]]
    <2>2. step[<<f[k - 1], k>>] \in A
      OBVIOUS
    <2>3. g \in [0..k -> A]
      BY <2>2
    <2>4. g[0] = b
      BY <2>1
    <2>5. ASSUME NEW m \in 1..k PROVE g[m] = step[<<g[m - 1], m>>]
      BY <2>1, SMTT(30)
    <2>6. Reaches(k)
      BY <2>3, <2>4, <2>5
    <2> QED
      BY <2>6
  <1>3. 0 \in G
    BY <1>1
  <1> HIDE DEF G
  <1>4. 0..n \subseteq G
    BY <1>2, <1>3, Climb
  <1>5. n \in G
    BY <1>4
  <1> QED
    BY <1>5 DEF G

(* Its values stay where the step keeps them.                              *)
LEMMA RecursionTyped ==
    ASSUME NEW n \in Nat, NEW A, NEW f, NEW b \in A, f[0] = b,
           \A m \in 1..n : f[m - 1] \in A => f[m] \in A
    PROVE  f[n] \in A
  <1> DEFINE G == {k \in 0..n : f[k] \in A}
  <1>1. 0 \in G
    OBVIOUS
  <1>2. ASSUME NEW m \in 1..n, m - 1 \in G PROVE m \in G
    BY <1>2
  <1> HIDE DEF G
  <1>3. n \in G
    BY <1>1, <1>2, Climb
  <1> QED
    BY <1>3 DEF G

\* f[m] is what KeepIn keeps of the first m elements.
Keeps(f, s, K) ==
    /\ f[0] = <<>>
    /\ \A m \in 1..Len(s) :
          f[m] = IF s[m] \in K THEN Append(f[m - 1], s[m]) ELSE f[m - 1]
    /\ KeepIn(s, K) = f[Len(s)]

(* KeepIn goes through the sequence once.                                  *)
LEMMA KeepInSteps ==
    ASSUME NEW S, NEW s \in Seq(S), NEW K
    PROVE  \E f \in [0..Len(s) -> Seq(S \cap K)] : Keeps(f, s, K)
  <1> DEFINE N == Len(s)
             A == Seq(S \cap K)
             Next1(t, m) == IF s[m] \in K THEN Append(t, s[m]) ELSE t
             step == [p \in A \X (1..N) |-> Next1(p[1], p[2])]
             Kept(f) == f = [n \in 0..N |-> IF n = 0 THEN <<>> ELSE Next1(f[n - 1], n)]
             kept == CHOOSE f : Kept(f)
  <1>0. N \in Nat /\ <<>> \in A
    OBVIOUS
  <1>1. \A t \in A, m \in 1..N : Next1(t, m) \in A
    OBVIOUS
  <1> HIDE DEF N, A, Next1
  <1>2. step \in [A \X (1..N) -> A]
    BY <1>1
  <1>3. PICK f \in [0..N -> A] :
            f[0] = <<>> /\ \A m \in 1..N : f[m] = step[<<f[m - 1], m>>]
    <2> DEFINE b == <<>>
    <2>1. b \in A
      BY <1>0
    <2> HIDE DEF step, b
    <2>2. \E f \in [0..N -> A] : Recurses(f, N, b, step)
      BY <1>0, <1>2, <2>1, Recursion
    <2> QED
      BY <2>2 DEF b, Recurses
  <1>4. Kept(f)
    <2>1. ASSUME NEW m \in 1..N PROVE f[m] = Next1(f[m - 1], m)
      <3>1. <<f[m - 1], m>> \in A \X (1..N)
        BY <1>0
      <3> QED
        BY <1>3, <3>1
    <2>2. ASSUME NEW m \in 0..N, m # 0 PROVE m \in 1..N
      BY <1>0, <2>2
    <2> QED
      BY <1>3, <2>1, <2>2
  <1>5. Kept(kept)
    <2> HIDE DEF Kept
    <2> QED
      BY <1>4
  <1> HIDE DEF kept
  <1>6. kept[0] = <<>> /\ \A m \in 1..N : kept[m] = Next1(kept[m - 1], m)
    BY <1>0, <1>5
  <1>7. f = kept
    <2> DEFINE G == {m \in 0..N : f[m] = kept[m]}
    <2>1. 0 \in G
      BY <1>0, <1>3, <1>6
    <2>2. ASSUME NEW m \in 1..N, m - 1 \in G PROVE m \in G
      <3>1. <<f[m - 1], m>> \in A \X (1..N)
        BY <1>0
      <3>2. f[m] = Next1(f[m - 1], m) /\ m \in 0..N
        BY <1>0, <1>3, <3>1
      <3> QED
        BY <1>6, <2>2, <3>2
    <2> HIDE DEF G
    <2>3. 0..N \subseteq G
      BY <1>0, <2>1, <2>2, Climb
    <2>4. \A m \in 0..N : f[m] = kept[m]
      BY <2>3 DEF G
    <2>5. DOMAIN kept = 0..N /\ kept = [m \in 0..N |-> kept[m]]
      BY <1>5
    <2> QED
      BY <2>4, <2>5
  <1>8. KeepIn(s, K) = kept[N]
    <2> DEFINE KeptOf(these) ==
                   CHOOSE g : g = [n \in 0..Len(s) |->
                                      IF n = 0 THEN <<>>
                                      ELSE IF s[n] \in these
                                           THEN Append(g[n - 1], s[n])
                                      ELSE g[n - 1]]
               End(these) == KeptOf(these)[Len(s)]
               keep == [these \in {K} |-> End(these)]
    <2>1. KeepIn(s, K) = keep[K]
      BY DEF KeepIn
    <2>2. KeptOf(K) = kept
      BY DEF kept, N, Next1
    <2>3. keep[K] = End(K)
      <3> HIDE DEF End
      <3> QED
        OBVIOUS
    <2> QED
      BY <2>1, <2>2, <2>3 DEF N
  <1>9. kept \in [0..N -> A] /\ Keeps(kept, s, K)
    BY <1>6, <1>7, <1>8 DEF Keeps, N, Next1
  <1> QED
    BY <1>9 DEF A, N

(* KeepIn keeps elements of the sequence that are in K, and nothing else.  *)
LEMMA KeepInKeeps ==
    ASSUME NEW S, NEW s \in Seq(S), NEW K
    PROVE  KeepIn(s, K) \in Seq(S \cap K)
  <1>1. PICK f \in [0..Len(s) -> Seq(S \cap K)] : Keeps(f, s, K)
    BY KeepInSteps
  <1>2. Len(s) \in 0..Len(s)
    OBVIOUS
  <1>3. f[Len(s)] \in Seq(S \cap K)
    BY <1>2
  <1> QED
    BY <1>1, <1>3 DEF Keeps

-----------------------------------------------------------------------------
(* Consent.  What the turn knows of the calls it handles, by phase, and    *)
(* that every step is one the promise of the approval flow allows.         *)

\* What Consent!Execute asks of a call.
Allowed(c) == Promise!Covered(c) /\ c \notin turnRefused \cup DeniedUnder(config)

\* The events of a run.
EventRecords ==
    [kind : {"response", "result", "ask", "done", "error"}, calls : Seq(Nat),
     usage : Seq(Nat), id : Nat, note : EventNotes]

\* The items a batch is sorted into: what is to run may run, what asks comes
\* under a configuration that asks, and what asks in the lane is a read that
\* may start before its answer, under a configuration that asks about reads.
FitItems ==
    {x \in Items : /\ x.out = "run" => Allowed(issued[x.id])
                   /\ x.out \in Asking => RunsAhead}
LaneItems ==
    {x \in FitItems : /\ ParallelCall(issued[x.id])
                      /\ x.out # "question"
                      /\ x.out = "confirm" => LaneAsks /\ Allowed(issued[x.id])}
SideItems == {x \in FitItems : ~ParallelCall(issued[x.id])}

\* The calls of the last response among the events.
LastResponse(events, calls) ==
    \E k \in 1..Len(events) :
        /\ events[k].kind = "response"
        /\ events[k].calls = calls
        /\ \A j \in 1..Len(events) : j > k => events[j].kind # "response"

\* A record with these fields and no others.
HasFields(r, names) == r = [f \in names |-> r[f]]

RunFields ==
    HasFields(run, {"events", "queue", "executed", "loops", "muts", "seen", "retries",
                    "lane", "window", "items", "cut"})

TurnNames == {"working", "committed", "pending", "asked", "resuming", "questions",
              "batch"}
TurnFields == HasFields(turn, TurnNames)

\* What does not depend on where the turn is.
ConsentBase ==
    /\ AnswersRecorded
    /\ config \in Configs
    /\ issued \in Seq(Calls)
    /\ \A id \in Ids : issued[id] \in config.requests
    /\ ran \in Seq(Ids)

\* The calls executed in this turn.
Executed == [i \in DOMAIN ran |-> issued[ran[i]]]

\* The four things a step can do to what the promise is about.
Executing ==
    /\ UNCHANGED <<issued, said, turnRefused>>
    /\ \E new \in Seq(Ids) :
          /\ ran' = ran \o new
          /\ \A k \in 1..Len(new) : Allowed(issued[new[k]])

Requesting ==
    /\ UNCHANGED <<ran, said, turnRefused>>
    /\ \E calls \in Seq(config.requests) : issued' = issued \o calls

Beginning ==
    /\ UNCHANGED issued
    /\ ran' = <<>>
    /\ \/ UNCHANGED <<said, turnRefused>>
       \/ /\ turnRefused' = {}
          /\ said' = [said EXCEPT !.agreed = {}, !.wide = FALSE]

Answering ==
    /\ UNCHANGED <<issued, ran>>
    /\ \/ /\ UNCHANGED turnRefused
          /\ \E c \in Calls : \E scope :
                said' = [said EXCEPT !.agreed = @ \cup {c},
                                     !.always = IF scope = "session"
                                                THEN @ \cup {c} ELSE @]
       \/ /\ UNCHANGED turnRefused
          /\ said' = [said EXCEPT !.wide = TRUE]
       \/ /\ UNCHANGED said
          /\ \E c \in Calls : turnRefused' = turnRefused \cup {c}

ConsentChange ==
    /\ UNCHANGED config
    /\ Executing \/ Requesting \/ Beginning \/ Answering

(* The elements of two joined sequences.                                   *)
LEMMA Concatenated ==
    ASSUME NEW S, NEW s \in Seq(S), NEW t \in Seq(S)
    PROVE  /\ s \o t \in Seq(S)
           /\ Len(s \o t) = Len(s) + Len(t)
           /\ \A k \in 1..Len(s) : (s \o t)[k] = s[k]
           /\ \A k \in 1..Len(t) : (s \o t)[Len(s) + k] = t[k]
           /\ \A k \in 1..Len(s \o t) :
                 k > Len(s) => k - Len(s) \in 1..Len(t) /\ (s \o t)[k] = t[k - Len(s)]
  OBVIOUS

(* What is executed is a sequence of calls.                                *)
LEMMA ExecutedCalls ==
    ASSUME issued \in Seq(Calls), ran \in Seq(Ids)
    PROVE  Executed \in Seq(Calls) /\ Len(Executed) = Len(ran)
  BY DEF Executed, Ids

(* What a session may request are calls.                                   *)
LEMMA RequestedCalls ==
    ASSUME ConsentBase
    PROVE  config.requests \subseteq Calls /\ Seq(config.requests) \subseteq Seq(Calls)
  <1>1. config.requests \subseteq Calls
    BY ConfigAssumption DEF ConsentBase, Configurations
  <1>2. ASSUME NEW S, NEW T, S \subseteq T PROVE Seq(S) \subseteq Seq(T)
    BY <1>2
  <1> QED
    BY <1>1, <1>2

(* Each kind of step is a step of the promise, or none.                    *)
LEMMA BasePromise ==
    ASSUME ConsentBase, ConsentChange
    PROVE  [Promise!Next]_(Promise!consentVars)
  <1> USE DEF ConsentBase
  <1>1. CASE Executing
    <2>1. PICK new \in Seq(Ids) :
            ran' = ran \o new /\ \A k \in 1..Len(new) : Allowed(issued[new[k]])
      BY <1>1 DEF Executing
    <2>2. UNCHANGED <<config, issued, said, turnRefused>>
      BY <1>1 DEF Executing, ConsentChange
    <2>3. Len(ran') = Len(ran) + Len(new) /\ DOMAIN ran' = 1..Len(ran')
          /\ DOMAIN ran = 1..Len(ran) /\ ran' \in Seq(Ids)
      BY <2>1 DEF Ids
    <2>4. \A k \in 1..Len(ran) : ran'[k] = ran[k]
      BY <2>1, Concatenated
    <2>5. \A k \in DOMAIN ran' \ DOMAIN ran : Allowed(issued[ran'[k]])
      BY <2>1, <2>3, Concatenated
    <2>6. Executed \in Seq(Calls) /\ Len(Executed) = Len(ran)
      BY ExecutedCalls
    <2>7. Executed' \in Seq(Calls) /\ Len(Executed') = Len(ran')
      BY <2>2, <2>3, ExecutedCalls DEF Executed, Ids
    <2>8. \A k \in 1..Len(ran) : Executed'[k] = Executed[k]
      BY <2>2, <2>3, <2>4 DEF Executed
    <2>9. Promise!IsPrefix(Executed, Executed')
      BY <2>3, <2>6, <2>7, <2>8 DEF Promise!IsPrefix
    <2>10. Promise!Execute
      <3>1. UNCHANGED <<said.agreed, said.always, said.wide, turnRefused, config>>
        BY <2>2
      <3>2. DOMAIN Executed = DOMAIN ran /\ DOMAIN Executed' = DOMAIN ran'
            /\ \A k \in DOMAIN ran' : Executed'[k] = issued[ran'[k]]
        BY <2>2 DEF Executed
      <3>3. ASSUME NEW i \in DOMAIN Executed' \ DOMAIN Executed
            PROVE  /\ Promise!Covered(Executed'[i])
                   /\ Executed'[i] \notin turnRefused \cup DeniedUnder(config)
        BY <2>5, <3>2 DEF Allowed
      <3>4. UNCHANGED <<said.agreed, said.always, said.wide, turnRefused>>
        BY <3>1
      <3>5. UNCHANGED config
        BY <3>1
      <3> QED
        BY <2>9, <3>3, <3>4, <3>5 DEF Promise!Execute, Executed
    <2> QED
      BY <2>10 DEF Promise!Next
  <1>2. CASE Requesting
    <2>1. PICK calls \in Seq(Calls) : issued' = issued \o calls
      BY <1>2, RequestedCalls DEF Requesting
    <2>2. \A k \in Ids : issued'[k] = issued[k]
      <3>1. issued \in Seq(Calls)
        OBVIOUS
      <3>2. \A k \in 1..Len(issued) : (issued \o calls)[k] = issued[k]
        BY <3>1, Concatenated
      <3> QED
        BY <2>1, <3>2 DEF Ids
    <2>3. Executed' = Executed
      <3>1. ran' = ran
        BY <1>2 DEF Requesting
      <3>2. \A i \in DOMAIN ran : ran[i] \in Ids
        OBVIOUS
      <3>3. \A i \in DOMAIN ran : issued'[ran'[i]] = issued[ran[i]]
        BY <2>2, <3>1, <3>2
      <3> QED
        BY <3>1, <3>3 DEF Executed
    <2> QED
      BY <1>2, <2>3 DEF Promise!consentVars, Requesting, ConsentChange, Executed
  <1>3. CASE Beginning
    <2>1. Executed' = <<>>
      BY <1>3 DEF Beginning, Executed
    <2>2. CASE UNCHANGED <<said, turnRefused>>
      BY <1>3, <2>1, <2>2 DEF Promise!Next, Promise!Continue, ConsentChange, Executed
    <2>3. CASE turnRefused' = {}
               /\ said' = [said EXCEPT !.agreed = {}, !.wide = FALSE]
      <3>1. said'.agreed = {} /\ said'.always = said.always /\ said'.wide = FALSE
        BY <2>3 DEF AnswersRecorded, SaidFields
      <3> QED
        BY <1>3, <2>1, <2>3, <3>1 DEF Promise!Next, Promise!NewMessage, ConsentChange,
           Executed
    <2> QED
      BY <1>3, <2>2, <2>3 DEF Beginning
  <1>4. CASE Answering
    <2>1. Executed' = Executed
      BY <1>4 DEF Answering, Executed
    <2>2. ASSUME NEW c \in Calls, NEW scope, UNCHANGED turnRefused,
                 said' = [said EXCEPT !.agreed = @ \cup {c},
                                      !.always = IF scope = "session"
                                                 THEN @ \cup {c} ELSE @]
          PROVE  Promise!Next
      <3>1. /\ said'.agreed = said.agreed \cup {c}
            /\ said'.always \in {said.always, said.always \cup {c}}
            /\ said'.wide = said.wide
        BY <2>2 DEF AnswersRecorded, SaidFields
      <3> QED
        BY <2>1, <2>2, <3>1 DEF Promise!Next, Promise!SayYes, ConsentChange, Executed
    <2>3. CASE UNCHANGED turnRefused /\ said' = [said EXCEPT !.wide = TRUE]
      <3>1. /\ said'.agreed = said.agreed
            /\ said'.always = said.always
            /\ said'.wide = TRUE
        BY <2>3 DEF AnswersRecorded, SaidFields
      <3> QED
        BY <2>1, <2>3, <3>1 DEF Promise!Next, Promise!SayYesThisTurn, ConsentChange,
           Executed
    <2>4. ASSUME NEW c \in Calls, UNCHANGED said,
                 turnRefused' = turnRefused \cup {c}
          PROVE  Promise!Next
      BY <2>1, <2>4 DEF Promise!Next, Promise!SayNo, ConsentChange, Executed
    <2> QED
      BY <1>4, <2>2, <2>3, <2>4 DEF Answering
  <1> QED
    BY <1>1, <1>2, <1>3, <1>4 DEF ConsentChange

(* The answers, the requests and the executions keep their kind.           *)
LEMMA BaseKept ==
    ASSUME ConsentBase, ConsentChange, LedgerChange
    PROVE  ConsentBase'
  <1>1. AnswersRecorded'
    BY AnswersRecordedStep DEF ConsentBase
  <1>2. config' \in Configs
    BY DEF ConsentBase, ConsentChange
  <1>3. issued' \in Seq(Calls) /\ \A id \in Ids' : issued'[id] \in config'.requests
    <2>1. CASE issued' = issued
      BY <2>1 DEF ConsentBase, ConsentChange, Ids
    <2>2. CASE Requesting
      <3>1. PICK calls \in Seq(config.requests) : issued' = issued \o calls
        BY <2>2 DEF Requesting
      <3>2. config' = config /\ issued \in Seq(Calls) /\ calls \in Seq(Calls)
            /\ \A id \in 1..Len(issued) : issued[id] \in config.requests
        BY RequestedCalls DEF ConsentBase, ConsentChange, Ids
      <3>3. ASSUME NEW id \in Ids' PROVE issued'[id] \in config.requests
        <4>1. id \in 1..Len(issued \o calls)
          BY <3>1 DEF Ids
        <4>2. CASE id <= Len(issued)
          <5>1. id \in 1..Len(issued) /\ (issued \o calls)[id] = issued[id]
            BY <3>2, <4>1, <4>2, Concatenated
          <5> QED
            BY <3>1, <3>2, <5>1
        <4>3. CASE id > Len(issued)
          <5>1. id - Len(issued) \in 1..Len(calls)
                /\ (issued \o calls)[id] = calls[id - Len(issued)]
            BY <3>2, <4>1, <4>3, Concatenated
          <5> QED
            BY <3>1, <5>1
        <4> QED
          BY <3>2, <4>1, <4>2, <4>3
      <3> QED
        BY <3>1, <3>2, <3>3, Concatenated
    <2> QED
      BY <2>1, <2>2 DEF ConsentChange, Executing, Beginning, Answering
  <1>4. ran' \in Seq(Ids')
    <2> USE DEF ConsentBase, Ids
    <2>1. CASE Executing
      BY <2>1 DEF Executing
    <2>2. CASE Requesting
      <3>1. Len(issued') \in Nat /\ Len(issued') >= Len(issued)
        <4>1. PICK calls \in Seq(Calls) : issued' = issued \o calls
          BY <2>2, RequestedCalls DEF Requesting
        <4> QED
          BY <4>1
      <3>2. \A k \in 1..Len(ran) : ran[k] \in 1..Len(issued')
        BY <3>1
      <3> QED
        BY <2>2, <3>2 DEF Requesting
    <2>3. CASE Beginning
      BY <2>3 DEF Beginning
    <2>4. CASE Answering
      BY <2>4 DEF Answering
    <2> QED
      BY <2>1, <2>2, <2>3, <2>4 DEF ConsentChange
  <1> QED
    BY <1>1, <1>2, <1>3, <1>4 DEF ConsentBase

(* The permission checker knows three verdicts.                            *)
LEMMA EvaluateDecides ==
    ASSUME NEW t \in ToolCalls, NEW mode \in Modes, NEW policy, NEW autoReads
    PROVE  Evaluate(t, mode, policy, autoReads) \in Decisions
  <1> USE DEF Decisions
  <1>1. Mutation(mode, policy) \in Decisions /\ HighRisk(mode, policy) \in Decisions
        /\ ReadOnly(mode, autoReads) \in Decisions
    BY DEF Mutation, HighRisk, ReadOnly
  <1>2. t.name \in {"bash", "write_file", "edit", "memory", "other"}
        /\ (t.name = "bash" => t.risk \in Risks)
    BY DEF ToolCalls
  <1>3. CASE PathDenied(t)
    BY <1>3 DEF Evaluate, PathDenied
  <1>4. CASE ~PathDenied(t) /\ t.name = "bash"
    <2>1. Evaluate(t, mode, policy, autoReads) = BashPolicy(t, mode, policy)
      BY <1>4 DEF Evaluate
    <2> QED
      BY <1>1, <1>2, <1>4, <2>1 DEF BashPolicy, Risks
  <1>5. CASE ~PathDenied(t) /\ t.name # "bash"
    BY <1>1, <1>2, <1>5 DEF Evaluate
  <1> QED
    BY <1>3, <1>4, <1>5

(* A call that does not mutate is the business of ReadOnly alone.          *)
LEMMA ReadVerdict ==
    ASSUME NEW t \in ToolCalls, ~t.mutating, NEW mode, NEW policy, NEW autoReads
    PROVE  Evaluate(t, mode, policy, autoReads) = ReadOnly(mode, autoReads)
  <1>1. t.name = "other"
    BY DEF ToolCalls
  <1> QED
    BY <1>1 DEF Evaluate, PathDenied

Outcomes == Immediate \cup Asking \cup {"run"}

(* What the agent decides to run is covered, not refused and not denied.   *)
LEMMA DecideAllows ==
    ASSUME ConsentBase, NEW c \in Calls, NEW muts
    PROVE  /\ Decide(c, muts) \in Outcomes
           /\ Decide(c, muts) = "run" => Allowed(c)
  <1>1. Decide(c, muts) \in Outcomes
    BY DEF Decide, Outcomes, Immediate, Asking, Repairs, Denials, Asked
  <1>2. ASSUME Decide(c, muts) = "run" PROVE Allowed(c)
    <2>1. /\ Verdict(c) # "deny"
          /\ ~IsRefused(c)
          /\ Verdict(c) # "confirm" \/ config.autoConfirm \/ IsToolPreapproved(c)
      BY <1>2 DEF Decide, Asked
    <2>2. Verdict(c) \in Decisions
      BY ToolAssumption, ConfigAssumption, EvaluateDecides
      DEF Verdict, VerdictUnder, ConsentBase, Configurations
    <2>3. ApprovalsSaid
      BY AnswersSuffice DEF ConsentBase
    <2>4. \/ c \in FreeUnder(config)
          \/ said.wide
          \/ \E d \in said.agreed \cup said.always : Norm[d] = Norm[c]
      BY <2>1, <2>2, <2>3 DEF ApprovalsSaid, FreeUnder, Verdict, Decisions
    <2>5. c \notin turnRefused \cup DeniedUnder(config)
      BY <2>1 DEF IsRefused, DeniedUnder, Verdict
    <2> QED
      BY <2>4, <2>5 DEF Allowed, Promise!Covered
  <1> QED
    BY <1>1, <1>2

(* What the parallel lane asks about is a read that may start unanswered.  *)
LEMMA LaneDecides ==
    ASSUME ConsentBase, config.parallel, NEW c \in Calls, c \in config.requests,
           NEW muts, ParallelCall(c), Decide(c, muts) = "confirm"
    PROVE  LaneAsks /\ Allowed(c)
  <1>1. /\ Verdict(c) = "confirm" /\ ~config.autoConfirm
        /\ ~IsRefused(c)
    BY DEF Decide, Asked
  <1>2. LaneAsks
    BY <1>1 DEF LaneAsks
  <1>3. c \in FreeUnder(config)
    BY DEF FreeUnder
  <1>4. c \notin turnRefused \cup DeniedUnder(config)
    BY <1>1 DEF IsRefused, DeniedUnder, Verdict
  <1> QED
    BY <1>2, <1>3, <1>4 DEF Allowed, Promise!Covered

(* A question in a batch comes under a configuration that asks.            *)
LEMMA DecideAsks ==
    ASSUME NEW c \in Calls, NEW muts
    PROVE  /\ Decide(c, muts) = "question" => Tool[c].kind = "question"
           /\ Decide(c, muts) \in Asking /\ config.parallel /\ c \in config.requests
              => RunsAhead
  <1>1. Decide(c, muts) = "question" => Tool[c].kind = "question"
    BY DEF Decide, Asked
  <1>2. Decide(c, muts) = "confirm" => Verdict(c) = "confirm" /\ ~config.autoConfirm
    BY DEF Decide, Asked
  <1> QED
    BY <1>1, <1>2 DEF Asking, RunsAhead

\* A call goes to the end of a lane, or not into this lane.
Adds(new, old, id, S) ==
    new = old \/ \E x \in S : x.id = id /\ new = Append(old, x)

\* The two lanes while a batch is sorted.
Lanes ==
    [lane : Seq(LaneItems), items : Seq(SideItems), muts : SUBSET Paths,
     seen : SUBSET Calls, retries : [Calls -> Nat], asks : BOOLEAN]

(* Sorting one call keeps the lanes fit.                                   *)
LEMMA PrepareFits ==
    ASSUME ConsentBase, config.parallel, NEW acc \in Lanes, NEW id \in Ids
    PROVE  /\ Prepare(acc, id) \in Lanes
           /\ Adds(Prepare(acc, id).lane, acc.lane, id, LaneItems)
           /\ Adds(Prepare(acc, id).items, acc.items, id, SideItems)
  <1> DEFINE c == issued[id]
             first == IF Known(c) THEN Decide(c, acc.muts) ELSE "unknown"
             reads == first = "run" /\ Tool[c].cacheable
             out == IF reads /\ c \in acc.seen THEN "duplicate" ELSE first
             item == [id |-> id, out |-> out,
                      stop |-> first \in Repairs /\ acc.retries[c] >= RetryLimit]
             parallel == ParallelCall(c)
  <1>1. c \in Calls /\ c \in config.requests
    BY DEF ConsentBase, Ids
  <1>2. first \in Outcomes /\ (first = "run" => Allowed(c))
        /\ (first \in Asking => RunsAhead)
    BY <1>1, DecideAllows, DecideAsks DEF Outcomes, Immediate, Repairs, Asking
  <1>3. parallel => /\ first # "question"
                    /\ first = "confirm" => LaneAsks /\ Allowed(c)
    <2>1. ParallelCall(c) => Decide(c, acc.muts) # "question"
      BY <1>1, DecideAsks DEF ParallelCall
    <2>2. ParallelCall(c) /\ Decide(c, acc.muts) = "confirm" => LaneAsks /\ Allowed(c)
      BY <1>1, LaneDecides
    <2>3. ParallelCall(c) => first = Decide(c, acc.muts)
      BY DEF ParallelCall
    <2> QED
      BY <2>1, <2>2, <2>3
  <1>4. item \in FitItems
    <2>1. out \in Outcomes /\ (out = "run" => first = "run")
          /\ (out \in Asking => first = out)
      BY <1>2 DEF Outcomes, Immediate, Asking
    <2> HIDE DEF out, first
    <2>2. item \in Items
      BY <2>1 DEF Items, Outcomes
    <2> QED
      BY <1>2, <2>1, <2>2 DEF FitItems
  <1>5. (parallel => item \in LaneItems) /\ (~parallel => item \in SideItems)
    <2>1. item.out = "confirm" => first = "confirm"
      OBVIOUS
    <2>2. item.out = "question" => first = "question"
      OBVIOUS
    <2>3. item.id = id
      OBVIOUS
    <2> QED
      BY <1>3, <1>4, <2>1, <2>2, <2>3 DEF LaneItems, SideItems
  <1>6. Affected(c) \in SUBSET Paths
    BY <1>1, ToolAssumption DEF Affected
  <1>7. Retried(acc.retries, c, first) \in [Calls -> Nat]
    BY <1>1 DEF Retried, Lanes
  <1>10. item.id = id
    OBVIOUS
  <1> HIDE DEF c, first, item, parallel, reads
  <1>8. CASE acc.asks
    BY <1>8 DEF Prepare, Adds
  <1>9. CASE ~acc.asks
    <2>1. Prepare(acc, id) =
            [lane |-> IF parallel THEN Append(acc.lane, item) ELSE acc.lane,
             items |-> IF parallel THEN acc.items ELSE Append(acc.items, item),
             muts |-> acc.muts \cup IF first \in Repairs THEN {} ELSE Affected(c),
             seen |-> IF reads THEN acc.seen \cup {c} ELSE acc.seen,
             retries |-> Retried(acc.retries, c, first),
             asks |-> first = "question"]
      BY <1>9 DEF Prepare, c, first, item, parallel, reads, out, ParallelCall
    <2>2. (IF parallel THEN Append(acc.lane, item) ELSE acc.lane) \in Seq(LaneItems)
      BY <1>5 DEF Lanes
    <2>3. (IF parallel THEN acc.items ELSE Append(acc.items, item)) \in Seq(SideItems)
      BY <1>5 DEF Lanes
    <2>4. (acc.muts \cup IF first \in Repairs THEN {} ELSE Affected(c)) \in SUBSET Paths
      BY <1>6 DEF Lanes
    <2>5. (IF reads THEN acc.seen \cup {c} ELSE acc.seen) \in SUBSET Calls
      BY <1>1 DEF Lanes
    <2>6. Prepare(acc, id) \in Lanes
      BY <1>7, <2>1, <2>2, <2>3, <2>4, <2>5 DEF Lanes
    <2>7. /\ Prepare(acc, id).lane = IF parallel THEN Append(acc.lane, item)
                                                 ELSE acc.lane
          /\ Prepare(acc, id).items = IF parallel THEN acc.items
                                                  ELSE Append(acc.items, item)
      BY <2>1
    <2> QED
      BY <1>5, <1>10, <2>6, <2>7 DEF Adds
  <1> QED
    BY <1>8, <1>9

\* The lanes before any call is sorted.
Unsorted ==
    [lane |-> <<>>, items |-> <<>>, muts |-> {}, seen |-> {},
     retries |-> run.retries, asks |-> FALSE]

\* f[m] is what the first m calls are sorted into.
Sorts(f, calls) ==
    /\ f[0] = Unsorted
    /\ \A m \in 1..Len(calls) : f[m] = Prepare(f[m - 1], calls[m])
    /\ Sorted(calls) = f[Len(calls)]

(* The calls of a batch are sorted one after the other, into fit lanes.    *)
LEMMA SortedSteps ==
    ASSUME ConsentBase, config.parallel,
           run.retries \in [Calls -> Nat], NEW calls \in Seq(Ids)
    PROVE  \E f \in [0..Len(calls) -> Lanes] : Sorts(f, calls)
  <1> DEFINE N == Len(calls)
             b == Unsorted
             step == [p \in Lanes \X (1..N) |-> Prepare(p[1], calls[p[2]])]
             Is(f) == f = [n \in 0..N |-> IF n = 0 THEN b
                                          ELSE Prepare(f[n - 1], calls[n])]
             prepared == CHOOSE f : Is(f)
  <1>1. N \in Nat
    OBVIOUS
  <1>2. b \in Lanes
    BY DEF Lanes, Unsorted
  <1>3. \A acc \in Lanes, m \in 1..N : Prepare(acc, calls[m]) \in Lanes
    BY PrepareFits
  <1> HIDE DEF N, b
  <1>4. step \in [Lanes \X (1..N) -> Lanes]
    BY <1>3
  <1>5. PICK f \in [0..N -> Lanes] : Recurses(f, N, b, step)
    <2> HIDE DEF step
    <2> QED
      BY <1>1, <1>2, <1>4, Recursion
  <1>6. Is(f)
    <2>1. ASSUME NEW m \in 1..N PROVE f[m] = Prepare(f[m - 1], calls[m])
      <3>1. <<f[m - 1], m>> \in Lanes \X (1..N)
        BY <1>1
      <3> QED
        BY <1>5, <3>1 DEF Recurses
    <2>2. \A m \in 0..N : m # 0 => m \in 1..N
      BY <1>1
    <2>3. f[0] = b
      BY <1>5 DEF Recurses
    <2> QED
      BY <2>1, <2>2, <2>3
  <1>7. Is(prepared)
    <2> HIDE DEF Is
    <2> QED
      BY <1>6
  <1> HIDE DEF prepared
  <1>8. prepared[0] = b /\ \A m \in 1..N : prepared[m] = Prepare(prepared[m - 1], calls[m])
    BY <1>1, <1>7
  <1>9. f = prepared
    <2> DEFINE G == {m \in 0..N : f[m] = prepared[m]}
    <2>1. 0 \in G
      BY <1>1, <1>5, <1>8 DEF Recurses
    <2>2. ASSUME NEW m \in 1..N, m - 1 \in G PROVE m \in G
      <3>1. <<f[m - 1], m>> \in Lanes \X (1..N)
        BY <1>1
      <3>2. f[m] = Prepare(f[m - 1], calls[m])
        BY <1>5, <3>1 DEF Recurses
      <3>3. m \in 0..N
        BY <1>1
      <3> QED
        BY <1>8, <2>2, <3>2, <3>3
    <2> HIDE DEF G
    <2>3. 0..N \subseteq G
      BY <1>1, <2>1, <2>2, Climb
    <2>4. \A m \in 0..N : f[m] = prepared[m]
      BY <2>3 DEF G
    <2>5. DOMAIN prepared = 0..N /\ prepared = [m \in 0..N |-> prepared[m]]
      BY <1>7
    <2> QED
      BY <2>4, <2>5
  <1>10. Sorted(calls) = prepared[N]
    BY DEF Sorted, prepared, N, b, Unsorted
  <1>11. prepared \in [0..N -> Lanes] /\ Sorts(prepared, calls)
    BY <1>8, <1>9, <1>10 DEF Sorts, N, b
  <1> QED
    BY <1>11 DEF N

(* So a whole batch is sorted into fit lanes.                              *)
LEMMA SortedFits ==
    ASSUME ConsentBase, config.parallel,
           run.retries \in [Calls -> Nat], NEW calls \in Seq(Ids)
    PROVE  Sorted(calls) \in Lanes
  <1>1. PICK f \in [0..Len(calls) -> Lanes] : Sorts(f, calls)
    BY SortedSteps
  <1>2. Len(calls) \in 0..Len(calls)
    OBVIOUS
  <1> QED
    BY <1>1, <1>2 DEF Sorts

(* What is kept of a sequence is a sequence of the same kind.              *)
LEMMA KeepInIn ==
    ASSUME NEW S, NEW s \in Seq(S), NEW K
    PROVE  KeepIn(s, K) \in Seq(S)
  <1>1. KeepIn(s, K) \in Seq(S \cap K)
    BY KeepInKeeps
  <1> QED
    BY <1>1

(* The least element of a set of naturals is an element of it.             *)
LEMMA MinIn ==
    ASSUME NEW S \in SUBSET Nat, S # {}
    PROVE  Min(S) \in S
  <1>1. \E m \in S : \A k \in S : m <= k
    BY Least
  <1> QED
    BY <1>1 DEF Min

(* The calls pending after a question are calls of the last response.      *)
LEMMA PendingCalls ==
    ASSUME NEW events, NEW calls \in Seq(Ids), LastResponse(events, calls), NEW id,
           Len(events) \in Nat
    PROVE  /\ PendingFrom(events, id) = KeepIn(calls, {i \in ToSet(calls) : i >= id})
           /\ PendingFrom(events, id) \in Seq(Ids)
  <1> DEFINE I == {k \in 1..Len(events) : events[k].kind = "response"}
             last == SelectLastInSeq(events, LAMBDA e : e.kind = "response")
  <1>1. PICK k \in 1..Len(events) :
          /\ events[k].kind = "response"
          /\ events[k].calls = calls
          /\ \A j \in 1..Len(events) : j > k => events[j].kind # "response"
    BY DEF LastResponse
  <1>2. last = Max(I)
    BY <1>1 DEF SelectLastInSeq
  <1>3. \A x \in I : (\A y \in I : x >= y) <=> x = k
    BY <1>1
  <1>4. k \in I
    BY <1>1
  <1>5. Max(I) = k
    BY <1>3, <1>4 DEF Max
  <1>6. PendingFrom(events, id) = KeepIn(calls, {i \in ToSet(calls) : i >= id})
    BY <1>1, <1>2, <1>5 DEF PendingFrom
  <1>7. KeepIn(calls, {i \in ToSet(calls) : i >= id}) \in Seq(Ids)
    BY KeepInIn
  <1> QED
    BY <1>6, <1>7

\* What is known of the turn and its run, by phase.
TurnInv ==
    /\ RunFields /\ TurnFields
    /\ run.events \in Seq(EventRecords)
    /\ run.retries \in [Calls -> Nat]
    /\ run.executed \in Nat
    /\ phase # "windows" => run.window = <<>>
    /\ phase \in {"calls", "prepare", "windows", "items"} =>
          turn.batch \in Seq(Ids) /\ LastResponse(run.events, turn.batch)
    /\ phase \in {"calls", "prepare", "resume"} => run.queue \in Seq(Ids)
    /\ phase \in {"resume", "asking"} => turn.pending \in Seq(Ids)
    /\ phase = "asking" => turn.asked \in Ids
    /\ phase \in {"prepare", "windows"} => config.parallel
    /\ phase = "windows" =>
          run.lane \in Seq(LaneItems) /\ run.window \in Seq(LaneItems)
    /\ phase \in {"windows", "items"} => run.items \in Seq(SideItems)

(* A fresh run has what every run has.                                     *)
LEMMA FreshRunTyped ==
    ASSUME run' = FreshRun
    PROVE  /\ RunFields'
           /\ run'.events \in Seq(EventRecords)
           /\ run'.retries \in [Calls -> Nat]
           /\ run'.executed \in Nat /\ run'.window = <<>>
  <1>1. RunFields'
    BY DEF FreshRun, RunFields, HasFields
  <1>2. run'.events = <<>> /\ run'.retries = [c \in Calls |-> 0]
        /\ run'.executed = 0 /\ run'.window = <<>>
    BY DEF FreshRun
  <1> QED
    BY <1>1, <1>2

(* Between runs little need be known of the turn.                          *)
LEMMA RunOver ==
    ASSUME run' = FreshRun, phase' \in {"idle", "model"}, TurnFields'
    PROVE  TurnInv'
  <1>1. RunFields' /\ run'.events \in Seq(EventRecords) /\ run'.retries \in [Calls -> Nat]
        /\ run'.executed \in Nat /\ run'.window = <<>>
    BY FreshRunTyped
  <1> QED
    BY <1>1 DEF TurnInv

(* A fresh turn has the fields of a turn,                                  *)
LEMMA FreshTurnFields ==
    ASSUME NEW start, turn' = FreshTurn(start)
    PROVE  TurnFields'
  BY DEF FreshTurn, TurnFields, TurnNames, HasFields

(* A turn that ends, forgotten or not, leaves nothing behind,              *)
LEMMA TurnOver ==
    ASSUME NEW events, NEW status, FinishTurn(events, status) \/ ForgetTurn(status)
    PROVE  TurnInv'
  <1>1. run' = FreshRun /\ phase' = "idle" /\ turn' = FreshTurn(<<>>)
    BY DEF FinishTurn, ForgetTurn
  <1> QED
    BY <1>1, RunOver, FreshTurnFields

(* nor does one that ends with a notice of the agent.                      *)
LEMMA NoticeOver ==
    ASSUME NEW events, NEW reason, EndWithNotice(events, reason)
    PROVE  TurnInv'
  BY TurnOver DEF EndWithNotice

(* Committing events leaves a turn a turn.                                 *)
LEMMA CommittedFields ==
    ASSUME TurnFields, NEW events
    PROVE  HasFields(Committed(events), TurnNames)
  BY DEF Committed, TurnFields, HasFields

(* Results do not hide the last response.                                  *)
LEMMA ResponseStays ==
    ASSUME NEW events \in Seq(EventRecords), NEW calls, LastResponse(events, calls),
           NEW results \in Seq(EventRecords),
           \A k \in 1..Len(results) : results[k].kind # "response"
    PROVE  LastResponse(events \o results, calls)
  <1>1. PICK k \in 1..Len(events) :
          /\ events[k].kind = "response"
          /\ events[k].calls = calls
          /\ \A j \in 1..Len(events) : j > k => events[j].kind # "response"
    BY DEF LastResponse
  <1> DEFINE all == events \o results
  <1>2. /\ Len(all) = Len(events) + Len(results)
        /\ \A i \in 1..Len(events) : all[i] = events[i]
        /\ \A i \in 1..Len(all) :
              i > Len(events) => i - Len(events) \in 1..Len(results)
                                 /\ all[i] = results[i - Len(events)]
    BY Concatenated
  <1> HIDE DEF all
  <1>3. k \in 1..Len(all) /\ all[k].kind = "response" /\ all[k].calls = calls
    BY <1>1, <1>2
  <1>4. ASSUME NEW j \in 1..Len(all), j > k PROVE all[j].kind # "response"
    <2>1. CASE j <= Len(events)
      BY <1>1, <1>2, <1>4, <2>1
    <2>2. CASE j > Len(events)
      BY <1>2, <2>2
    <2> QED
      BY <2>1, <2>2
  <1> QED
    BY <1>3, <1>4 DEF LastResponse, all

(* A result is an event, and no response.                                  *)
LEMMA ResultEvent ==
    ASSUME NEW id \in Nat, NEW note \in EventNotes
    PROVE  Result(id, note) \in EventRecords /\ Result(id, note).kind # "response"
  <1>1. <<>> \in Seq(Nat) /\ 0 \in Nat
    OBVIOUS
  <1>2. Result(id, note) = [kind |-> "result", calls |-> <<>>, usage |-> <<>>,
                            id |-> id, note |-> note]
    BY DEF Result, Event
  <1> DEFINE none == <<>>
             r == Result(id, note)
  <1> HIDE DEF none, r
  <1>3. r = [kind |-> "result", calls |-> none, usage |-> none, id |-> id,
             note |-> note]
    BY <1>2 DEF none, r
  <1>4. none \in Seq(Nat)
    BY DEF none
  <1>5. r \in EventRecords
    BY <1>3, <1>4 DEF EventRecords
  <1>6. r.kind # "response"
    BY <1>3
  <1> QED
    BY <1>5, <1>6 DEF r

(* One more result does not hide the last response.                        *)
LEMMA ResponseStaysOne ==
    ASSUME NEW events \in Seq(EventRecords), NEW calls, LastResponse(events, calls),
           NEW id \in Nat, NEW note \in EventNotes
    PROVE  /\ Append(events, Result(id, note)) \in Seq(EventRecords)
           /\ LastResponse(Append(events, Result(id, note)), calls)
  <1> DEFINE r == Result(id, note)
             results == <<r>>
  <1>1. r \in EventRecords /\ r.kind # "response"
    BY ResultEvent
  <1> HIDE DEF r
  <1>2. results \in Seq(EventRecords)
        /\ \A k \in 1..Len(results) : results[k].kind # "response"
    BY <1>1
  <1>3. events \o results = Append(events, r)
    BY <1>1
  <1>4. LastResponse(events \o results, calls)
    BY <1>2, ResponseStays
  <1>5. LastResponse(Append(events, r), calls)
    BY <1>3, <1>4
  <1>6. Append(events, r) \in Seq(EventRecords)
    BY <1>1
  <1> QED
    BY <1>5, <1>6 DEF r

(* A question leaves the calls from it on pending, or ends the turn.       *)
LEMMA Asks ==
    ASSUME TurnFields, turn.batch \in Seq(Ids), UNCHANGED issued,
           NEW events, Len(events) \in Nat, LastResponse(events, turn.batch),
           NEW id \in Ids, NEW questions, AskUser(events, id, questions)
    PROVE  TurnInv'
  <1>1. CASE ~config.callback
    BY <1>1, TurnOver DEF AskUser
  <1>2. CASE config.callback
    <2> DEFINE safe == HistorySafe(events)
    <2>1. /\ phase' = "asking"
          /\ turn' = [Committed(safe) EXCEPT
                           !.pending = PendingFrom(events, id),
                           !.asked = id,
                           !.resuming = FALSE,
                           !.questions = questions]
          /\ run' = FreshRun
      BY <1>2 DEF AskUser
    <2> DEFINE new == Committed(safe)
               rest == PendingFrom(events, id)
    <2>2. HasFields(new, TurnNames)
      BY CommittedFields
    <2> HIDE DEF safe, new, rest
    <2>0. turn' = [new EXCEPT !.pending = rest, !.asked = id, !.resuming = FALSE,
                              !.questions = questions]
      BY <2>1 DEF new, rest
    <2>3. TurnFields' /\ turn'.pending = rest /\ turn'.asked = id
      BY <2>0, <2>2 DEF TurnFields, TurnNames, HasFields
    <2>4. rest \in Seq(Ids)
      BY PendingCalls DEF rest
    <2>5. RunFields' /\ run'.events \in Seq(EventRecords) /\ run'.retries \in [Calls -> Nat]
          /\ run'.executed \in Nat /\ run'.window = <<>>
      BY <2>1, FreshRunTyped
    <2>6. TurnFields' /\ turn'.pending \in Seq(Ids') /\ turn'.asked \in Ids'
      BY <2>3, <2>4 DEF Ids
    <2> QED
      BY <2>1, <2>5, <2>6 DEF TurnInv
  <1> QED
    BY <1>1, <1>2

(* Joining nothing,                                                        *)
LEMMA EmptyJoined ==
    ASSUME NEW S, NEW s \in Seq(S)
    PROVE  s \o <<>> = s /\ <<>> \in Seq(S) /\ Len(<<>>) = 0
  OBVIOUS

(* and joining one element.                                                *)
LEMMA OneJoined ==
    ASSUME NEW S, NEW s \in Seq(S), NEW x \in S
    PROVE  /\ s \o <<x>> = Append(s, x)
           /\ <<x>> \in Seq(S) /\ Len(<<x>>) = 1 /\ <<x>>[1] = x
  OBVIOUS

\* A step the consent does not depend on.
Quiet == UNCHANGED <<config, issued, ran, said, turnRefused>>

(* It is an execution of nothing.                                          *)
LEMMA QuietChange == ASSUME ConsentBase, Quiet PROVE ConsentChange
  <1>1. issued' = issued /\ ran' = ran /\ said' = said /\ turnRefused' = turnRefused
        /\ config' = config
    BY DEF Quiet
  <1>2. ran' = ran \o <<>> /\ <<>> \in Seq(Ids) /\ Len(<<>>) = 0
    <2>1. ran \in Seq(Ids)
      BY DEF ConsentBase
    <2>2. ran \o <<>> = ran /\ <<>> \in Seq(Ids) /\ Len(<<>>) = 0
      BY <2>1, EmptyJoined
    <2> QED
      BY <1>1, <2>2
  <1>3. Executing
    <2> DEFINE new == <<>>
    <2>1. new \in Seq(Ids) /\ ran' = ran \o new /\ Len(new) = 0
      BY <1>2
    <2> HIDE DEF new
    <2>2. \A k \in 1..Len(new) : Allowed(issued[new[k]])
      BY <2>1
    <2> QED
      BY <1>1, <2>1, <2>2 DEF Executing
  <1> QED
    BY <1>1, <1>3 DEF ConsentChange

(* One call is executed, from the cache or not.                            *)
LEMMA OneExecuted ==
    ASSUME ConsentBase, NEW id \in Ids, Allowed(issued[id]),
           ExecuteTool(id) \/ ToolInterrupted(id), UNCHANGED <<config, issued, said>>
    PROVE  ConsentChange
  <1>1. UNCHANGED turnRefused
    BY DEF ExecuteTool, ToolInterrupted, ConsumeApproval, ledger
  <1>2. CASE ran' = ran
    BY <1>1, <1>2, QuietChange DEF Quiet
  <1>3. CASE ran' = Append(ran, id)
    <2>1. ran' = ran \o <<id>> /\ <<id>> \in Seq(Ids) /\ Len(<<id>>) = 1
          /\ <<id>>[1] = id
      <3>1. ran \in Seq(Ids)
        BY DEF ConsentBase
      <3>2. /\ ran \o <<id>> = Append(ran, id)
            /\ <<id>> \in Seq(Ids) /\ Len(<<id>>) = 1 /\ <<id>>[1] = id
        BY <3>1, OneJoined
      <3> QED
        BY <1>3, <3>2
    <2>2. Executing
      <3> DEFINE new == <<id>>
      <3>1. new \in Seq(Ids) /\ ran' = ran \o new /\ Len(new) = 1 /\ new[1] = id
        BY <2>1
      <3> HIDE DEF new
      <3>2. \A k \in 1..Len(new) : Allowed(issued[new[k]])
        BY <3>1
      <3>3. UNCHANGED issued
        OBVIOUS
      <3> QED
        BY <1>1, <3>1, <3>2, <3>3 DEF Executing
    <2> QED
      BY <2>2 DEF ConsentChange
  <1> QED
    BY <1>2, <1>3 DEF ExecuteTool, ToolInterrupted

(* The next call of the queue is one the model requested.                  *)
LEMMA NextRequested ==
    ASSUME ConsentBase, run.queue \in Seq(Ids), run.queue # <<>>
    PROVE  NextId \in Ids /\ NextCall \in Calls /\ Tail(run.queue) \in Seq(Ids)
  <1>1. NextId \in Ids /\ Tail(run.queue) \in Seq(Ids)
    BY DEF NextId
  <1> QED
    BY <1>1 DEF NextCall, ConsentBase, Ids

(* A call that has its result.                                             *)
LEMMA QueueProcessed ==
    ASSUME ConsentBase, TurnInv, phase \in {"calls", "resume"}, run.queue # <<>>,
           UNCHANGED <<config, issued, turn, phase>>, NEW out \in Immediate \cup {"run"},
           run' = Processed(out) \/ run' = ResumeProcessed(out)
    PROVE  TurnInv'
  <1>1. run.queue \in Seq(Ids) /\ RunFields /\ run.events \in Seq(EventRecords)
        /\ run.retries \in [Calls -> Nat] /\ run.executed \in Nat /\ run.window = <<>>
    BY DEF TurnInv
  <1>2. NextId \in Ids /\ NextCall \in Calls /\ Tail(run.queue) \in Seq(Ids)
    BY <1>1, NextRequested
  <1>3. NextId \in Nat /\ out \in EventNotes
    BY <1>2 DEF Ids, EventNotes
  <1> DEFINE r == Result(NextId, out)
             muts == IF out = "run" THEN run.muts \cup Affected(NextCall) ELSE run.muts
             seen == IF Known(NextCall) /\ Tool[NextCall].cacheable
                     THEN run.seen \cup {NextCall} ELSE run.seen
             retries == Retried(run.retries, NextCall, out)
  <1>4. retries \in [Calls -> Nat]
    BY <1>1, <1>2 DEF Retried
  <1>5. Processed(out) = [run EXCEPT !.events = Append(run.events, r),
            !.queue = Tail(run.queue), !.executed = run.executed + 1,
            !.muts = muts, !.seen = seen, !.retries = retries]
    BY DEF Processed
  <1> HIDE DEF r, muts, seen, retries
  <1> DEFINE p == Processed(out)
  <1>6. /\ HasFields(p, {"events", "queue", "executed", "loops", "muts", "seen",
                         "retries", "lane", "window", "items", "cut"})
        /\ p.events = Append(run.events, r)
        /\ p.queue = Tail(run.queue)
        /\ p.retries = retries /\ p.executed = run.executed + 1
        /\ p.window = run.window
    BY <1>1, <1>5 DEF RunFields, HasFields
  <1> HIDE DEF p
  <1>7. RunFields' /\ run'.events = Append(run.events, r)
        /\ run'.queue = Tail(run.queue) /\ run'.retries \in [Calls -> Nat]
        /\ run'.executed \in Nat /\ run'.window = <<>>
    <2>1. CASE run' = p
      BY <1>1, <1>4, <1>6, <2>1 DEF RunFields
    <2>2. CASE run' = [p EXCEPT !.executed = run.executed, !.retries = run.retries]
      BY <1>1, <1>6, <2>2 DEF RunFields, HasFields
    <2> QED
      BY <2>1, <2>2 DEF p, ResumeProcessed
  <1>8. run'.events \in Seq(EventRecords)
    BY <1>1, <1>3, <1>7, ResultEvent DEF r
  <1>9. phase = "calls" =>
            turn.batch \in Seq(Ids) /\ LastResponse(run'.events, turn.batch)
    BY <1>1, <1>3, <1>7, ResponseStaysOne DEF TurnInv, r
  <1>10. UNCHANGED <<turn, issued, config, phase>> /\ Ids' = Ids
    BY DEF Ids
  <1>11. TurnFields' /\ (phase = "resume" => turn.pending \in Seq(Ids))
    BY <1>10 DEF TurnInv, TurnFields
  <1> QED
    BY <1>2, <1>7, <1>8, <1>9, <1>10, <1>11 DEF TurnInv

(* A response of the model, or the end of its turn.                        *)
LEMMA ModelStepConsent ==
    ASSUME ConsentBase, TurnInv, ModelStep
    PROVE  ConsentChange /\ TurnInv'
  <1>1. CASE ModelRequestsTools
    <2>1. PICK n \in 1..config.batch : \E calls \in [1..n -> config.requests] :
          LET ids == [i \in 1..n |-> Len(issued) + i]
          IN  /\ Len(issued) + n <= MaxIssued
              /\ issued' = issued \o calls
              /\ run' = [run EXCEPT !.events = Append(@, Response(ids, ids)),
                                    !.queue = ids,
                                    !.loops = @ + 1,
                                    !.muts = {},
                                    !.seen = {}]
      BY <1>1 DEF ModelRequestsTools
    <2>2. PICK calls \in [1..n -> config.requests] :
          LET ids == [i \in 1..n |-> Len(issued) + i]
          IN  /\ Len(issued) + n <= MaxIssued
              /\ issued' = issued \o calls
              /\ run' = [run EXCEPT !.events = Append(@, Response(ids, ids)),
                                    !.queue = ids,
                                    !.loops = @ + 1,
                                    !.muts = {},
                                    !.seen = {}]
      BY <2>1
    <2> DEFINE ids == [i \in 1..n |-> Len(issued) + i]
               r == Response(ids, ids)
    <2>3. n \in Nat /\ config.requests \subseteq Calls
      BY ConfigAssumption DEF ConsentBase, Configurations
    <2>4. calls \in Seq(Calls) /\ calls \in Seq(config.requests) /\ Len(calls) = n
      BY <2>3
    <2>5. Len(issued) \in Nat /\ Len(issued') = Len(issued) + n
          /\ ids \in Seq(Nat) /\ ids \in Seq(Ids')
      <3>1. issued \in Seq(Calls) /\ issued' = issued \o calls
        BY <2>2 DEF ConsentBase
      <3>2. Len(issued') = Len(issued) + n /\ Len(issued) \in Nat
        <4>0. \A t \in Seq(Calls) : Len(issued \o t) = Len(issued) + Len(t)
          BY <3>1
        <4>1. Len(issued \o calls) = Len(issued) + Len(calls)
          BY <2>4, <4>0
        <4>2. Len(issued) \in Nat
          BY <3>1
        <4> QED
          BY <2>4, <3>1, <4>1, <4>2
      <3>3. \A i \in 1..n : Len(issued) + i \in Nat /\ Len(issued) + i \in Ids'
        BY <2>3, <3>2 DEF Ids
      <3> QED
        BY <2>3, <3>2, <3>3
    <2>6. r.kind = "response" /\ r.calls = ids /\ r \in EventRecords
      <3> HIDE DEF ids
      <3>1. r = [kind |-> "response", calls |-> ids, usage |-> ids, id |-> 0, note |-> ""]
        BY DEF Response, Event
      <3>2. "" \in EventNotes
        BY DEF EventNotes, Ends
      <3> HIDE DEF r
      <3> QED
        BY <2>5, <3>1, <3>2 DEF EventRecords
    <2>7. run' = [run EXCEPT !.events = Append(run.events, r), !.queue = ids,
                    !.loops = run.loops + 1, !.muts = {}, !.seen = {}]
      BY <2>2
    <2>8. turn' = [turn EXCEPT !.batch = ids]
      <3>1. turn' = [turn EXCEPT !.batch =
                  [i \in 1..(Len(issued') - Len(issued)) |-> Len(issued) + i]]
        BY <1>1 DEF ModelRequestsTools
      <3>2. Len(issued') - Len(issued) = n
        BY <2>3, <2>5
      <3> QED
        BY <3>1, <3>2
    <2> HIDE DEF ids, r
    <2>9. /\ RunFields' /\ run'.events = Append(run.events, r) /\ run'.queue = ids
          /\ run'.retries = run.retries /\ run'.executed = run.executed
          /\ run'.window = run.window
      BY <2>7 DEF TurnInv, RunFields, HasFields
    <2>10. TurnFields' /\ turn'.batch = ids
      BY <2>8 DEF TurnInv, TurnFields, TurnNames, HasFields
    <2>11. run'.events \in Seq(EventRecords) /\ LastResponse(run'.events, ids)
      <3>1. run.events \in Seq(EventRecords)
        BY DEF TurnInv
      <3>2. /\ run'.events \in Seq(EventRecords)
            /\ Len(run'.events) = Len(run.events) + 1 /\ Len(run.events) \in Nat
            /\ run'.events[Len(run.events) + 1] = r
        BY <2>6, <2>9, <3>1
      <3> QED
        BY <2>6, <3>2 DEF LastResponse
    <2>12. phase' \in {"prepare", "calls"} /\ (phase' = "prepare" => config'.parallel)
      BY <1>1 DEF ModelRequestsTools, user
    <2>13. TurnInv'
      BY <1>1, <2>5, <2>9, <2>10, <2>11, <2>12
      DEF TurnInv, ModelRequestsTools, CanAsk
    <2>14. ConsentChange
      BY <1>1, <2>2, <2>4 DEF ModelRequestsTools, ledger, user, ConsentChange, Requesting
    <2> QED
      BY <2>13, <2>14
  <1>2. CASE ModelTruncated
    <2>1. Quiet
      BY <1>2 DEF ModelTruncated, Quiet, ledger, world, user
    <2>2. run' = [run EXCEPT !.loops = @ + 1] /\ phase' = "model" /\ turn' = turn
          /\ phase = "model"
      BY <1>2 DEF ModelTruncated, CanAsk
    <2>3. RunFields' /\ run'.events = run.events /\ run'.retries = run.retries
          /\ run'.executed = run.executed /\ run'.window = run.window
      BY <2>2 DEF TurnInv, RunFields, HasFields
    <2>4. TurnInv'
      BY <2>2, <2>3 DEF TurnInv, TurnFields
    <2> QED
      BY <2>1, <2>4, QuietChange
  <1>3. CASE ModelAnswersText \/ ModelFails \/ LoopLimit
    <2>1. Quiet
      BY <1>3 DEF ModelAnswersText, ModelFails, LoopLimit, Quiet, ledger, world, user
    <2>2. TurnInv'
      BY <1>3, TurnOver, NoticeOver DEF ModelAnswersText, ModelFails, LoopLimit
    <2> QED
      BY <2>1, <2>2, QuietChange
  <1> QED
    BY <1>1, <1>2, <1>3 DEF ModelStep

(* The sequential loop runs what it decides to run.                        *)
LEMMA SequentialStepConsent ==
    ASSUME ConsentBase, TurnInv, SequentialStep
    PROVE  ConsentChange /\ TurnInv'
  <1>0. phase = "calls" => /\ turn.batch \in Seq(Ids) /\ run.queue \in Seq(Ids)
                           /\ LastResponse(run.events, turn.batch)
    BY DEF TurnInv
  <1>a. InBatch => NextId \in Ids /\ NextCall \in Calls
    BY <1>0, NextRequested DEF InBatch
  <1>b. ASSUME InBatch, SequentialOutcome(NextCall) = "run" PROVE Allowed(NextCall)
    BY <1>a, <1>b, DecideAllows DEF SequentialOutcome
  <1>1. CASE CallLimit
    <2>1. Quiet
      BY <1>1 DEF CallLimit, Quiet, ledger, world, user
    <2> QED
      BY <1>1, <2>1, QuietChange, NoticeOver DEF CallLimit
  <1>2. CASE CallAnswered
    <2>1. Quiet
      BY <1>2 DEF CallAnswered, Quiet, ledger, world, user
    <2> DEFINE out == SequentialOutcome(NextCall)
    <2>2. CASE OutOfRetries(NextCall, out)
      BY <1>2, <2>1, <2>2, QuietChange, NoticeOver DEF CallAnswered
    <2>3. CASE ~OutOfRetries(NextCall, out)
      <3>1. /\ out \in Immediate \cup {"run"} /\ run' = Processed(out)
            /\ UNCHANGED <<config, issued, turn, phase>>
            /\ phase = "calls" /\ run.queue # <<>>
        BY <1>2, <2>1, <2>3 DEF CallAnswered, InBatch, Quiet
      <3> HIDE DEF out
      <3> QED
        BY <2>1, <3>1, QuietChange, QueueProcessed
    <2> QED
      BY <2>2, <2>3
  <1>3. CASE CallAsks
    <2>1. Quiet
      BY <1>3 DEF CallAsks, Quiet, ledger, world, user
    <2>2. /\ AskUser(run.events, NextId, Counted(SequentialOutcome(NextCall)))
          /\ phase = "calls"
      BY <1>3 DEF CallAsks, InBatch
    <2>3. NextId \in Ids
      BY <1>3, <1>a DEF CallAsks
    <2>4. TurnFields /\ Len(run.events) \in Nat
      BY DEF TurnInv
    <2>5. UNCHANGED issued
      BY <2>1 DEF Quiet
    <2>6. TurnInv'
      BY <1>0, <2>2, <2>3, <2>4, <2>5, Asks
    <2> QED
      BY <2>1, <2>6, QuietChange
  <1>4. CASE CallExecutes
    <2>1. UNCHANGED <<config, issued, said, turn, phase>> /\ InBatch
          /\ run' = Processed("run") /\ ExecuteTool(NextId)
          /\ SequentialOutcome(NextCall) = "run"
      BY <1>4 DEF CallExecutes, user
    <2>2. ConsentChange
      BY <1>a, <1>b, <2>1, OneExecuted DEF NextCall
    <2>3. phase = "calls" /\ run.queue # <<>> /\ "run" \in Immediate \cup {"run"}
      BY <2>1 DEF InBatch
    <2>4. TurnInv'
      BY <2>1, <2>3, QueueProcessed
    <2> QED
      BY <2>2, <2>4
  <1>5. CASE CallRaises
    <2>1. UNCHANGED <<config, issued, said>> /\ InBatch
          /\ ToolInterrupted(NextId) /\ SequentialOutcome(NextCall) = "run"
      BY <1>5 DEF CallRaises, ToolInterrupted, user
    <2>2. ConsentChange
      BY <1>a, <1>b, <2>1, OneExecuted DEF NextCall
    <2> QED
      BY <1>5, <2>2, TurnOver DEF CallRaises
  <1>6. CASE BatchDone
    <2>1. Quiet /\ run' = run /\ turn' = turn /\ phase' = "model" /\ phase = "calls"
      BY <1>6 DEF BatchDone, Quiet, ledger, world, user
    <2>2. TurnInv'
      BY <2>1 DEF TurnInv, TurnFields, RunFields
    <2> QED
      BY <2>1, <2>2, QuietChange
  <1> QED
    BY <1>1, <1>2, <1>3, <1>4, <1>5, <1>6 DEF SequentialStep

(* What is left pending of a resumed batch are calls of it.                *)
LEMMA ResumedFields ==
    ASSUME TurnFields, turn.pending \in Seq(Ids), NEW events
    PROVE  /\ HasFields(CommitResumed(events), TurnNames)
           /\ CommitResumed(events).pending =
                 KeepIn(turn.pending, ToSet(turn.pending) \ ResultIds(events))
           /\ CommitResumed(events).pending \in Seq(Ids)
  <1> DEFINE new == Committed(Resumed(events))
             rest == KeepIn(turn.pending, ToSet(turn.pending) \ ResultIds(events))
  <1>1. HasFields(new, TurnNames) /\ new.pending = turn.pending
    BY CommittedFields DEF Committed, TurnFields, TurnNames, HasFields
  <1>2. CommitResumed(events) = [new EXCEPT !.pending = rest]
    BY <1>1 DEF CommitResumed
  <1>3. rest \in Seq(Ids)
    BY KeepInIn
  <1> HIDE DEF new, rest
  <1> DEFINE all == CommitResumed(events)
  <1>4. all = [new EXCEPT !.pending = rest]
    BY <1>2
  <1> HIDE DEF all
  <1>5. HasFields(all, TurnNames) /\ all.pending = rest
    BY <1>1, <1>4 DEF HasFields, TurnNames
  <1> QED
    BY <1>3, <1>5 DEF all, rest

(* So do the resumed calls.                                                *)
LEMMA ResumeStepConsent ==
    ASSUME ConsentBase, TurnInv, ResumeStep
    PROVE  ConsentChange /\ TurnInv'
  <1>0. phase = "resume" => turn.pending \in Seq(Ids) /\ run.queue \in Seq(Ids)
    BY DEF TurnInv
  <1>a. InResume => NextId \in Ids /\ NextCall \in Calls
    BY <1>0, NextRequested DEF InResume
  <1>b. ASSUME InResume, ResumeOutcome(NextCall) = "run" PROVE Allowed(NextCall)
    BY <1>a, <1>b, DecideAllows DEF ResumeOutcome
  <1>1. CASE ResumeAnswered
    <2>1. Quiet
      BY <1>1 DEF ResumeAnswered, Quiet, ledger, world, user
    <2> DEFINE out == ResumeOutcome(NextCall)
    <2>2. /\ out \in Immediate \cup {"run"} /\ run' = ResumeProcessed(out)
          /\ UNCHANGED <<config, issued, turn, phase>>
          /\ phase = "resume" /\ run.queue # <<>>
      BY <1>1, <2>1 DEF ResumeAnswered, InResume, Quiet
    <2> HIDE DEF out
    <2> QED
      BY <2>1, <2>2, QuietChange, QueueProcessed
  <1>2. CASE ResumeExecutes
    <2>1. UNCHANGED <<config, issued, said, turn, phase>> /\ InResume
          /\ run' = ResumeProcessed("run") /\ ExecuteTool(NextId)
          /\ ResumeOutcome(NextCall) = "run"
      BY <1>2 DEF ResumeExecutes, user
    <2>2. ConsentChange
      BY <1>a, <1>b, <2>1, OneExecuted DEF NextCall
    <2>3. phase = "resume" /\ run.queue # <<>> /\ "run" \in Immediate \cup {"run"}
      BY <2>1 DEF InResume
    <2>4. TurnInv'
      BY <2>1, <2>3, QueueProcessed
    <2> QED
      BY <2>2, <2>4
  <1>3. CASE ResumeAsks
    <2>1. Quiet
      BY <1>3 DEF ResumeAsks, Quiet, ledger, world, user
    <2> DEFINE new == CommitResumed(run.events)
               questions == Counted(ResumeOutcome(NextCall))
    <2>2. phase = "resume" /\ InResume /\ phase' = "asking" /\ run' = FreshRun
          /\ turn' = [new EXCEPT !.asked = NextId, !.resuming = TRUE,
                                 !.questions = questions]
      BY <1>3 DEF ResumeAsks, InResume
    <2>3. HasFields(new, TurnNames) /\ new.pending \in Seq(Ids)
      BY <1>0, <2>2, ResumedFields DEF TurnInv
    <2> HIDE DEF new, questions
    <2>4. TurnFields' /\ turn'.pending = new.pending /\ turn'.asked = NextId
      BY <2>2, <2>3 DEF TurnFields, TurnNames, HasFields
    <2>5. RunFields' /\ run'.events \in Seq(EventRecords) /\ run'.retries \in [Calls -> Nat]
          /\ run'.executed \in Nat /\ run'.window = <<>>
      BY <2>2, FreshRunTyped
    <2>6. Ids' = Ids
      BY <2>1 DEF Quiet, Ids
    <2>7. TurnInv'
      BY <1>a, <2>2, <2>3, <2>4, <2>5, <2>6 DEF TurnInv
    <2> QED
      BY <2>1, <2>7, QuietChange
  <1>4. CASE ResumeDone
    <2>1. Quiet
      BY <1>4 DEF ResumeDone, Quiet, ledger, world, user
    <2> DEFINE new == CommitResumed(run.events)
    <2>2. phase = "resume" /\ phase' = "model" /\ run' = FreshRun
          /\ turn' = [new EXCEPT !.asked = 0, !.resuming = FALSE]
      BY <1>4 DEF ResumeDone, StartRun
    <2>3. HasFields(new, TurnNames)
      BY <1>0, <2>2, ResumedFields DEF TurnInv
    <2> HIDE DEF new
    <2>4. TurnFields'
      BY <2>2, <2>3 DEF TurnFields, TurnNames, HasFields
    <2> QED
      BY <2>1, <2>2, <2>4, QuietChange, RunOver
  <1>5. CASE ResumeRaises
    <2>1. UNCHANGED <<config, issued, said>> /\ InResume
          /\ ToolInterrupted(NextId) /\ ResumeOutcome(NextCall) = "run"
      BY <1>5 DEF ResumeRaises, ToolInterrupted, user
    <2>2. ConsentChange
      BY <1>a, <1>b, <2>1, OneExecuted DEF NextCall
    <2> QED
      BY <1>5, <2>2, TurnOver DEF ResumeRaises
  <1> QED
    BY <1>1, <1>2, <1>3, <1>4, <1>5 DEF ResumeStep

(* The lanes do not change while the calls in them run.                    *)
LEMMA FitStays ==
    ASSUME UNCHANGED <<config, issued, said, turnRefused>>
    PROVE  FitItems' = FitItems /\ LaneItems' = LaneItems /\ SideItems' = SideItems
           /\ Ids' = Ids
  <1>1. Ids' = Ids
    BY DEF Ids
  <1>2. \A c : Allowed(c)' = Allowed(c)
    BY DEF Allowed, Promise!Covered
  <1>3. RunsAhead' = RunsAhead
    BY DEF RunsAhead, Verdict, VerdictUnder
  <1>4. FitItems' = FitItems
    BY <1>1, <1>2, <1>3 DEF FitItems, Items
  <1>5. LaneAsks' = LaneAsks
    BY DEF LaneAsks, Verdict, VerdictUnder
  <1> QED
    BY <1>1, <1>2, <1>4, <1>5 DEF LaneItems, SideItems

(* What is collected of a window are results.                              *)
LEMMA ResultsCollected ==
    ASSUME ConsentBase, NEW items \in Seq(LaneItems)
    PROVE  /\ ResultsOf(items) \in Seq(EventRecords)
           /\ \A k \in 1..Len(ResultsOf(items)) :
                 ResultsOf(items)[k].kind # "response"
  <1> DEFINE results == [k \in DOMAIN items |-> Result(items[k].id, items[k].out)]
             K == {r \in ToSet(results) : r.note # "confirm"}
             S == {e \in EventRecords : e.kind # "response"}
             all == {results[k] : k \in DOMAIN items}
  <1>1. ASSUME NEW k \in DOMAIN items, items[k].out # "confirm"
        PROVE  Result(items[k].id, items[k].out) \in S
    <2>1. items[k].id \in Nat /\ items[k].out \in EventNotes
      BY <1>1 DEF LaneItems, FitItems, Items, Ids, Asking, EventNotes, ConsentBase
    <2> QED
      BY <2>1, ResultEvent
  <1>2. results \in Seq(all)
    OBVIOUS
  <1>3. KeepIn(results, K) \in Seq(all \cap K)
    BY <1>2, KeepInKeeps
  <1>4. \A k \in DOMAIN items : results[k].note = items[k].out
    BY DEF Result, Event
  <1>5. all \cap K \subseteq S
    BY <1>1, <1>4
  <1>6. KeepIn(results, K) \in Seq(S)
    <2> HIDE DEF results, K, S, all
    <2>1. \A T \in SUBSET S : Seq(T) \subseteq Seq(S)
      OBVIOUS
    <2> QED
      BY <1>3, <1>5, <2>1
  <1> HIDE DEF results, K
  <1>7. ResultsOf(items) = KeepIn(results, K)
    BY DEF ResultsOf, results, K
  <1> QED
    BY <1>6, <1>7

(* A step that leaves the turn alone.                                      *)
LEMMA QuietTurn ==
    ASSUME TurnInv, Quiet, UNCHANGED <<phase, turn, run>>
    PROVE  TurnInv'
  <1>1. SideItems' = SideItems /\ LaneItems' = LaneItems /\ Ids' = Ids
    BY FitStays DEF Quiet
  <1>2. RunFields' = RunFields /\ TurnFields' = TurnFields /\ config' = config
        /\ run' = run /\ turn' = turn /\ phase' = phase
    BY DEF RunFields, TurnFields, Quiet
  <1> QED
    BY <1>1, <1>2 DEF TurnInv

(* The steps of the parallel-first scheduler that start nothing.           *)
LEMMA LanesConsent ==
    ASSUME ConsentBase, TurnInv,
           PrepareBatch \/ CollectWindow \/ WindowsDone
    PROVE  ConsentChange /\ TurnInv'
  <1>1. CASE PrepareBatch
    <2> DEFINE budget == RemainingBudget
               calls == IF budget < Len(run.queue) THEN SubSeq(run.queue, 1, budget)
                        ELSE run.queue
               sorted == Sorted(calls)
               cut == budget < Len(run.queue)
               questions == turn.questions + (IF sorted.asks THEN 1 ELSE 0)
    <2>1. Quiet
      BY <1>1 DEF PrepareBatch, Quiet, ledger, world, user
    <2>2. CASE budget <= 0
      BY <1>1, <2>1, <2>2, QuietChange, NoticeOver DEF PrepareBatch
    <2>3. CASE ~(budget <= 0)
      <3>1. /\ phase = "prepare" /\ phase' = "windows"
            /\ run' = [run EXCEPT !.queue = <<>>, !.lane = sorted.lane,
                                  !.items = sorted.items,
                                  !.retries = sorted.retries, !.cut = cut]
            /\ turn' = [turn EXCEPT !.questions = questions]
        BY <1>1, <2>3 DEF PrepareBatch
      <3>2. /\ run.queue \in Seq(Ids) /\ config.parallel
            /\ run.retries \in [Calls -> Nat] /\ run.events \in Seq(EventRecords)
            /\ run.executed \in Nat /\ run.window = <<>>
            /\ turn.batch \in Seq(Ids) /\ LastResponse(run.events, turn.batch)
        BY <3>1 DEF TurnInv
      <3>3. calls \in Seq(Ids)
        <4>1. CASE budget < Len(run.queue)
          <5>1. budget \in 1..Len(run.queue)
            BY <2>3, <3>2, <4>1, ConfigAssumption, SMTT(30)
            DEF RemainingBudget, ConsentBase, Configurations
          <5> QED
            BY <3>2, <4>1, <5>1
        <4> QED
          BY <3>2, <4>1
      <3> HIDE DEF calls, cut
      <3>4. sorted \in Lanes
        BY <3>2, <3>3, SortedFits
      <3> HIDE DEF sorted, questions
      <3>5. /\ RunFields' /\ run'.lane = sorted.lane /\ run'.items = sorted.items
            /\ run'.retries = sorted.retries /\ run'.events = run.events
            /\ run'.window = run.window /\ run'.executed = run.executed
        BY <3>1 DEF TurnInv, RunFields, HasFields
      <3>6. TurnFields' /\ turn'.batch = turn.batch
        BY <3>1 DEF TurnInv, TurnFields, TurnNames, HasFields
      <3>7. SideItems' = SideItems /\ LaneItems' = LaneItems /\ Ids' = Ids
        BY <2>1, FitStays DEF Quiet
      <3>8. config' = config
        BY <2>1 DEF Quiet
      <3>9. sorted.lane \in Seq(LaneItems) /\ sorted.items \in Seq(SideItems)
            /\ sorted.retries \in [Calls -> Nat]
        BY <3>4 DEF Lanes
      <3>10. run'.lane \in Seq(LaneItems') /\ run'.items \in Seq(SideItems')
        BY <3>5, <3>7, <3>9
      <3>11. run'.window \in Seq(LaneItems')
        <4>1. \A S : <<>> \in Seq(S)
          OBVIOUS
        <4> QED
          BY <3>2, <3>5, <4>1
      <3>12. turn'.batch \in Seq(Ids') /\ LastResponse(run'.events, turn'.batch)
        BY <3>2, <3>5, <3>6, <3>7
      <3>13. /\ RunFields' /\ TurnFields'
             /\ run'.events \in Seq(EventRecords)
             /\ run'.retries \in [Calls -> Nat]
             /\ run'.executed \in Nat
             /\ phase' = "windows" /\ config'.parallel
        BY <3>1, <3>2, <3>5, <3>6, <3>8, <3>9
      <3>14. TurnInv'
        BY <3>10, <3>11, <3>12, <3>13 DEF TurnInv
      <3> QED
        BY <2>1, <3>14, QuietChange
    <2> QED
      BY <2>2, <2>3
  <1>2. CASE CollectWindow
    <2> DEFINE window == run.window
               I == {k \in 1..Len(window) : window[k].out = "confirm"}
               stop == SelectInSeq(window, LAMBDA x : x.stop)
               ask == SelectInSeq(window, LAMBDA x : x.out = "confirm")
               results == ResultsOf(IF stop = 0 THEN window
                                    ELSE SubSeq(window, 1, stop))
               events == run.events \o results
    <2>1. Quiet
      BY <1>2 DEF CollectWindow, Quiet, ledger, world, user
    <2>2. /\ phase = "windows" /\ window \in Seq(LaneItems)
          /\ run.events \in Seq(EventRecords) /\ turn.batch \in Seq(Ids)
          /\ LastResponse(run.events, turn.batch)
      BY <1>2 DEF CollectWindow, TurnInv
    <2>3. ask # 0 => ask \in 1..Len(window)
      <3>1. ask = IF I = {} THEN 0 ELSE Min(I)
        BY DEF SelectInSeq
      <3>2. ASSUME I # {} PROVE Min(I) \in I
        <4>1. I \in SUBSET Nat
          BY <2>2
        <4> QED
          BY <3>2, <4>1, MinIn
      <3> QED
        BY <3>1, <3>2
    <2>4. \/ EndWithNotice(events, "invalid_tool_call")
          \/ /\ stop = 0
             /\ ask # 0
             /\ AskUser(events, window[ask].id, turn.questions)
          \/ /\ stop = 0
             /\ run' = [run EXCEPT !.events = events,
                                   !.executed = @ + Len(results),
                                   !.window = <<>>]
             /\ UNCHANGED <<phase, turn>>
      BY <1>2 DEF CollectWindow
    <2>5. CASE EndWithNotice(events, "invalid_tool_call")
      BY <2>1, <2>5, QuietChange, NoticeOver
    <2>7. ASSUME stop = 0, ask # 0, AskUser(events, window[ask].id, turn.questions)
          PROVE  TurnInv'
      <3>1. results = ResultsOf(window) /\ window[ask] \in LaneItems
        BY <2>2, <2>3, <2>7
      <3> HIDE DEF ask
      <3> DEFINE id == window[ask].id
      <3>2. id \in Ids
        BY <3>1 DEF LaneItems, FitItems, Items
      <3>3. AskUser(events, id, turn.questions)
        BY <2>7
      <3> HIDE DEF window, stop, results, id
      <3>4. /\ results \in Seq(EventRecords)
            /\ \A k \in 1..Len(results) : results[k].kind # "response"
        BY <2>2, <3>1, ResultsCollected
      <3>5. Len(events) \in Nat
        BY <2>2, <3>4
      <3>6. LastResponse(events, turn.batch)
        BY <2>2, <3>4, ResponseStays
      <3> HIDE DEF events
      <3>7. TurnFields /\ UNCHANGED issued
        BY <2>1 DEF TurnInv, Quiet
      <3> QED
        BY <2>2, <3>2, <3>3, <3>5, <3>6, <3>7, Asks
    <2>6. ASSUME stop = 0,
                 run' = [run EXCEPT !.events = events,
                                    !.executed = @ + Len(results),
                                    !.window = <<>>],
                 UNCHANGED <<phase, turn>>
          PROVE  TurnInv'
      <3>1. results = ResultsOf(window)
        BY <2>6
      <3> HIDE DEF window, stop, results
      <3>2. /\ results \in Seq(EventRecords)
            /\ \A k \in 1..Len(results) : results[k].kind # "response"
        BY <2>2, <3>1, ResultsCollected
      <3>3. events \in Seq(EventRecords) /\ Len(results) \in Nat
        BY <2>2, <3>2
      <3>4. LastResponse(events, turn.batch)
        BY <2>2, <3>2, ResponseStays
      <3> HIDE DEF events
      <3>5. /\ RunFields' /\ run'.events = events /\ run'.window = <<>>
            /\ run'.executed = run.executed + Len(results)
            /\ run'.retries = run.retries /\ run'.lane = run.lane
            /\ run'.items = run.items
        BY <2>6 DEF TurnInv, RunFields, HasFields
      <3>6. SideItems' = SideItems /\ LaneItems' = LaneItems /\ Ids' = Ids
        BY <2>1, FitStays DEF Quiet
      <3>7. config' = config /\ turn' = turn /\ phase' = "windows" /\ TurnFields'
        BY <2>1, <2>2, <2>6 DEF Quiet, TurnInv, TurnFields
      <3> QED
        BY <2>2, <3>3, <3>4, <3>5, <3>6, <3>7 DEF TurnInv
    <2> QED
      BY <2>1, <2>4, <2>5, <2>6, <2>7, QuietChange
  <1>3. CASE WindowsDone
    <2>1. /\ Quiet /\ run' = run /\ turn' = turn /\ phase' = "items"
          /\ phase = "windows" /\ run.window = <<>>
      BY <1>3 DEF WindowsDone, Quiet, ledger, world, user
    <2>2. SideItems' = SideItems /\ Ids' = Ids /\ TurnFields' /\ RunFields'
      BY <2>1, FitStays DEF Quiet, TurnInv, TurnFields, RunFields
    <2>3. TurnInv'
      BY <2>1, <2>2 DEF TurnInv
    <2> QED
      BY <2>1, <2>3, QuietChange
  <1> QED
    BY <1>1, <1>2, <1>3

(* The next window starts what is allowed.                                 *)
LEMMA WindowConsent ==
    ASSUME ConsentBase, TurnInv, OpenWindow
    PROVE  ConsentChange /\ TurnInv'
  <1> DEFINE size == IF Len(run.lane) < config.window THEN Len(run.lane)
                                                      ELSE config.window
             window == SubSeq(run.lane, 1, size)
             rest == LaneAfter(size)
             ids == [k \in DOMAIN window |-> window[k].id]
             tasks == {x.id : x \in Runnable(window)}
             K == {id \in tasks : ~CachedRead(issued[id])}
             starting == KeepIn(ids, K)
  <1>1. /\ phase = "windows" /\ phase' = "windows" /\ turn' = turn
        /\ run' = [run EXCEPT !.window = window, !.lane = rest]
        /\ ran' = ran \o starting
        /\ UNCHANGED <<config, issued, said, turnRefused>>
    BY DEF OpenWindow, ledger, user
  <1>2. /\ RunFields /\ TurnFields
        /\ run.events \in Seq(EventRecords) /\ run.retries \in [Calls -> Nat]
        /\ run.executed \in Nat
        /\ turn.batch \in Seq(Ids) /\ LastResponse(run.events, turn.batch)
        /\ config.parallel
        /\ run.lane \in Seq(LaneItems) /\ run.items \in Seq(SideItems)
    BY <1>1 DEF TurnInv
  <1>3. size \in 0..Len(run.lane)
    BY <1>2, ConfigAssumption DEF ConsentBase, Configurations
  <1>4. window \in Seq(LaneItems) /\ rest \in Seq(LaneItems)
    <2> HIDE DEF size
    <2>1. \A s \in Seq(LaneItems) : \A n \in 0..Len(s) :
             /\ SubSeq(s, 1, n) \in Seq(LaneItems)
             /\ SubSeq(s, n + 1, Len(s)) \in Seq(LaneItems)
      OBVIOUS
    <2> QED
      BY <1>2, <1>3, <2>1 DEF LaneAfter
  <1> HIDE DEF window, rest, size
  <1>5. \A x \in LaneItems : x.id \in Ids
    BY DEF LaneItems, FitItems, Items
  <1>6. ids \in Seq(Ids)
    BY <1>4, <1>5
  <1>7. \A id \in K : Allowed(issued[id])
    <2>1. ASSUME NEW id \in K PROVE Allowed(issued[id])
      <3>1. PICK x \in ToSet(window) : x.out \notin Immediate /\ id = x.id
        BY DEF Runnable
      <3>2. x \in LaneItems
        BY <1>4, <3>1 DEF ToSet
      <3> QED
        BY <2>1, <3>1, <3>2 DEF LaneItems, FitItems, Items, Asking
    <2> QED
      BY <2>1
  <1> HIDE DEF ids, K
  <1>8. starting \in Seq(Ids \cap K)
    BY <1>6, KeepInKeeps
  <1> HIDE DEF starting
  <1>9. /\ starting \in Seq(Ids)
        /\ \A k \in 1..Len(starting) : Allowed(issued[starting[k]])
    BY <1>7, <1>8
  <1>10. ConsentChange
    BY <1>1, <1>9 DEF ConsentChange, Executing
  <1>11. RunFields' /\ run'.window = window /\ run'.lane = rest
         /\ run'.events = run.events /\ run'.retries = run.retries
         /\ run'.executed = run.executed /\ run'.items = run.items
    BY <1>1, <1>2 DEF RunFields, HasFields
  <1>12. SideItems' = SideItems /\ LaneItems' = LaneItems /\ Ids' = Ids
    BY <1>1, FitStays
  <1>13. /\ run'.lane \in Seq(LaneItems') /\ run'.window \in Seq(LaneItems')
         /\ run'.items \in Seq(SideItems') /\ turn'.batch \in Seq(Ids')
         /\ LastResponse(run'.events, turn'.batch)
    BY <1>1, <1>2, <1>4, <1>11, <1>12
  <1>14. /\ TurnFields' /\ config'.parallel
         /\ run'.events \in Seq(EventRecords) /\ run'.retries \in [Calls -> Nat]
         /\ run'.executed \in Nat
    BY <1>1, <1>2, <1>11 DEF TurnFields
  <1>15. TurnInv'
    BY <1>1, <1>11, <1>13, <1>14 DEF TurnInv
  <1> QED
    BY <1>10, <1>15

(* The end of a task starts nothing.                                       *)
LEMMA TaskConsent ==
    ASSUME ConsentBase, TurnInv, NEW id, TaskFinishes(id) \/ TaskRaises(id)
    PROVE  ConsentChange /\ TurnInv'
  <1>1. Quiet
    BY DEF TaskFinishes, TaskRaises, ConsumeApproval, Quiet, ledger, user
  <1>2. CASE FinishTurn(Append(run.events, Error), "failed")
    BY <1>1, <1>2, QuietChange, TurnOver
  <1>3. CASE UNCHANGED <<phase, turn, run>>
    BY <1>1, <1>3, QuietChange, QuietTurn
  <1> QED
    BY <1>2, <1>3 DEF TaskFinishes, TaskRaises

(* The items kept apart run as they were decided.                          *)
LEMMA ItemConsent ==
    ASSUME ConsentBase, TurnInv,
           ItemAnswered \/ ItemAsks \/ ItemExecutes \/ ItemRaises \/ ItemsDone
    PROVE  ConsentChange /\ TurnInv'
  <1>1. /\ phase = "items" /\ RunFields /\ TurnFields
        /\ run.events \in Seq(EventRecords) /\ run.retries \in [Calls -> Nat]
        /\ run.executed \in Nat /\ run.window = <<>>
        /\ turn.batch \in Seq(Ids) /\ LastResponse(run.events, turn.batch)
        /\ run.items \in Seq(SideItems)
    BY DEF TurnInv, ItemAnswered, ItemAsks, ItemExecutes, ItemRaises, ItemsDone, InItems
  <1>2. ASSUME run.items # <<>> PROVE Item \in SideItems /\ Tail(run.items) \in Seq(SideItems)
    BY <1>1, <1>2 DEF Item
  <1>3. \A x \in SideItems : x.id \in Ids /\ (x.out = "run" => Allowed(issued[x.id]))
    BY DEF SideItems, FitItems, Items
  <1>4. ASSUME run.items # <<>>, run' = ItemProcessed, Item.out \in EventNotes,
               UNCHANGED <<config, issued, said, turnRefused, turn>>, phase' = "items"
        PROVE  TurnInv'
    <2> DEFINE r == Result(Item.id, Item.out)
    <2>1. run' = [run EXCEPT !.events = Append(run.events, r),
                             !.items = Tail(run.items), !.executed = run.executed + 1]
      BY <1>4 DEF ItemProcessed
    <2>2. Item.id \in Nat
      BY <1>2, <1>3, <1>4 DEF Ids
    <2>3. /\ Append(run.events, r) \in Seq(EventRecords)
          /\ LastResponse(Append(run.events, r), turn.batch)
      BY <1>1, <1>4, <2>2, ResponseStaysOne
    <2> HIDE DEF r
    <2>4. /\ RunFields' /\ run'.events = Append(run.events, r)
          /\ run'.items = Tail(run.items) /\ run'.executed = run.executed + 1
          /\ run'.window = run.window /\ run'.retries = run.retries
      BY <1>1, <2>1 DEF RunFields, HasFields
    <2>5. SideItems' = SideItems /\ Ids' = Ids
      BY <1>4, FitStays
    <2>6. /\ run'.items \in Seq(SideItems') /\ turn'.batch \in Seq(Ids')
          /\ LastResponse(run'.events, turn'.batch)
      BY <1>1, <1>2, <1>4, <2>3, <2>4, <2>5
    <2>7. /\ TurnFields' /\ run'.events \in Seq(EventRecords)
          /\ run'.retries \in [Calls -> Nat] /\ run'.executed \in Nat
          /\ run'.window = <<>>
      BY <1>1, <1>4, <2>3, <2>4 DEF TurnFields
    <2> QED
      BY <1>4, <2>4, <2>6, <2>7 DEF TurnInv
  <1>5. CASE ItemAnswered
    <2>1. Quiet
      BY <1>5 DEF ItemAnswered, Quiet, ledger, world, user
    <2>2. CASE Item.stop
      BY <1>5, <2>1, <2>2, QuietChange, NoticeOver DEF ItemAnswered
    <2>3. CASE ~Item.stop
      <3>1. /\ run.items # <<>> /\ run' = ItemProcessed /\ Item.out \in EventNotes
            /\ UNCHANGED <<config, issued, said, turnRefused, turn>>
            /\ phase' = "items"
        BY <1>1, <1>5, <2>1, <2>3 DEF ItemAnswered, InItems, Quiet, EventNotes
      <3> QED
        BY <1>4, <2>1, <3>1, QuietChange
    <2> QED
      BY <2>2, <2>3
  <1>6. CASE ItemAsks
    <2>1. Quiet
      BY <1>6 DEF ItemAsks, Quiet, ledger, world, user
    <2>2. AskUser(run.events, Item.id, turn.questions) /\ Item.id \in Ids
          /\ UNCHANGED issued /\ Len(run.events) \in Nat
      BY <1>1, <1>2, <1>3, <1>6, <2>1 DEF ItemAsks, InItems, Quiet
    <2>3. TurnInv'
      BY <1>1, <2>2, Asks
    <2> QED
      BY <2>1, <2>3, QuietChange
  <1>7. CASE ItemExecutes
    <2>1. /\ UNCHANGED <<config, issued, said, turn>> /\ run.items # <<>>
          /\ run' = ItemProcessed /\ phase' = "items"
          /\ ExecuteTool(Item.id) /\ Item.out = "run"
      BY <1>1, <1>7 DEF ItemExecutes, InItems, user
    <2>2. UNCHANGED turnRefused
      BY <2>1 DEF ExecuteTool, ConsumeApproval, ledger
    <2>3. ConsentChange
      BY <1>2, <1>3, <2>1, OneExecuted
    <2>4. Item.out \in EventNotes
      BY <2>1 DEF EventNotes
    <2> QED
      BY <1>4, <2>1, <2>2, <2>3, <2>4
  <1>8. CASE ItemRaises
    <2>1. UNCHANGED <<config, issued, said>> /\ run.items # <<>>
          /\ ToolInterrupted(Item.id) /\ Item.out = "run"
      BY <1>8 DEF ItemRaises, InItems, ToolInterrupted, user
    <2>2. ConsentChange
      BY <1>2, <1>3, <2>1, OneExecuted
    <2> QED
      BY <1>8, <2>2, TurnOver DEF ItemRaises
  <1>9. CASE ItemsDone
    <2>1. Quiet
      BY <1>9 DEF ItemsDone, Quiet, ledger, world, user
    <2>2. CASE run.cut
      BY <1>9, <2>1, <2>2, QuietChange, NoticeOver DEF ItemsDone
    <2>3. CASE ~run.cut
      <3>1. phase' = "model" /\ run' = run /\ turn' = turn
        BY <1>9, <2>3 DEF ItemsDone
      <3>2. TurnInv'
        BY <1>1, <3>1 DEF TurnInv, TurnFields, RunFields
      <3> QED
        BY <2>1, <3>2, QuietChange
    <2> QED
      BY <2>2, <2>3
  <1> QED
    BY <1>5, <1>6, <1>7, <1>8, <1>9

(* All of the parallel-first scheduler.                                    *)
LEMMA ParallelStepConsent ==
    ASSUME ConsentBase, TurnInv, ParallelStep
    PROVE  ConsentChange /\ TurnInv'
  BY LanesConsent, WindowConsent, TaskConsent, ItemConsent DEF ParallelStep

(* An answer resumes the calls that were pending, or the model.            *)
LEMMA UserAnswerConsent ==
    ASSUME ConsentBase, TurnInv, UserAnswer
    PROVE  ConsentChange /\ TurnInv'
  <1>1. phase = "asking" /\ turn.pending \in Seq(Ids) /\ turn.asked \in Ids
        /\ issued[turn.asked] \in Calls
        /\ TurnFields /\ UNCHANGED <<config, issued>> /\ Ids' = Ids
    <2>1. phase = "asking" /\ UNCHANGED <<config, issued>>
      BY DEF UserAnswer, AnswerYes, AnswerYesThisTurn, AnswerNo, AnswerQuestion,
         NoAnswer, user, world
    <2> QED
      BY <2>1 DEF TurnInv, ConsentBase, Ids
  <1>2. ASSUME StartResume(turn.pending), UNCHANGED turn PROVE TurnInv'
    <2> DEFINE ids == turn.pending
    <2>1. /\ phase' = "resume" /\ run' = [FreshRun EXCEPT !.queue = ids]
      BY <1>2 DEF StartResume
    <2> HIDE DEF ids
    <2>2. /\ RunFields' /\ run'.queue = ids /\ run'.events = <<>>
          /\ run'.retries = [c \in Calls |-> 0] /\ run'.executed = 0
          /\ run'.window = <<>>
      BY <2>1 DEF FreshRun, RunFields, HasFields
    <2>3. run'.events \in Seq(EventRecords) /\ run'.retries \in [Calls -> Nat]
          /\ run'.executed \in Nat
      BY <2>2
    <2>4. TurnFields' /\ turn'.pending \in Seq(Ids') /\ run'.queue \in Seq(Ids')
      BY <1>1, <1>2, <2>2 DEF TurnFields, ids
    <2> QED
      BY <2>1, <2>2, <2>3, <2>4 DEF TurnInv
  <1>3. ASSUME StartRun, TurnFields' PROVE TurnInv'
    BY <1>3, RunOver DEF StartRun
  <1>4. UNCHANGED turn => TurnFields'
    BY <1>1 DEF TurnFields
  <1>5. CASE AnswerYes
    <2> DEFINE c == issued[turn.asked]
               scope == ScopeForPolicy(config.policy)
    <2>1. /\ UNCHANGED turnRefused
      BY <1>5 DEF AnswerYes, RecordApproval
    <2>2. /\ said' = [said EXCEPT !.agreed = @ \cup {c},
                                  !.always = IF scope = "session"
                                             THEN @ \cup {c} ELSE @]
          /\ UNCHANGED <<issued, ran, turn>> /\ StartResume(turn.pending)
      BY <1>5 DEF AnswerYes
    <2>3. c \in Calls
      BY <1>1
    <2> HIDE DEF c, scope
    <2>4. Answering
      BY <2>1, <2>2, <2>3 DEF Answering
    <2> QED
      BY <1>1, <1>2, <2>2, <2>4 DEF ConsentChange
  <1>6. CASE AnswerYesThisTurn
    <2>1. /\ UNCHANGED turnRefused
      BY <1>6 DEF AnswerYesThisTurn, RecordTurnWideMutatingApproval
    <2>2. /\ said' = [said EXCEPT !.wide = TRUE]
          /\ UNCHANGED <<issued, ran, turn>> /\ StartResume(turn.pending)
      BY <1>6 DEF AnswerYesThisTurn
    <2>3. Answering
      BY <2>1, <2>2 DEF Answering
    <2> QED
      BY <1>1, <1>2, <2>2, <2>3 DEF ConsentChange
  <1>7. CASE AnswerNo
    <2>1. /\ turnRefused' = turnRefused \cup {issued[turn.asked]}
          /\ UNCHANGED <<issued, ran, said, turn>>
          /\ StartResume(turn.pending) \/ StartRun
      BY <1>7 DEF AnswerNo, RecordRefusal, user
    <2>2. Answering
      BY <1>1, <2>1 DEF Answering
    <2> QED
      BY <1>1, <1>2, <1>3, <1>4, <2>1, <2>2 DEF ConsentChange
  <1>8. CASE AnswerQuestion
    <2> DEFINE events == <<ResponseFor(<<turn.asked>>), Answer(turn.asked)>>
               new == Committed(events)
    <2>1. Quiet
      BY <1>1, <1>8 DEF AnswerQuestion, Quiet, ledger, user
    <2>2. turn' = [new EXCEPT !.pending = <<>>, !.asked = 0] /\ StartRun
      BY <1>8 DEF AnswerQuestion
    <2> HIDE DEF events
    <2>3. HasFields(new, TurnNames)
      BY <1>1, CommittedFields
    <2> HIDE DEF new
    <2>4. TurnFields'
      BY <2>2, <2>3 DEF TurnFields, TurnNames, HasFields
    <2> QED
      BY <1>3, <2>1, <2>2, <2>4, QuietChange
  <1>9. CASE NoAnswer
    <2>1. Quiet
      BY <1>9 DEF NoAnswer, Quiet, ledger, world, user
    <2> QED
      BY <1>9, <2>1, QuietChange, TurnOver DEF NoAnswer
  <1> QED
    BY <1>5, <1>6, <1>7, <1>8, <1>9 DEF UserAnswer

(* A message begins a turn, or goes on with a paused one.                  *)
LEMMA UserMessageConsent ==
    ASSUME ConsentBase, TurnInv, NEW continue \in BOOLEAN, UserMessage(continue)
    PROVE  ConsentChange /\ TurnInv'
  <1>1. UNCHANGED <<config, issued>> /\ ran' = <<>> /\ turn' = FreshTurn(history')
        /\ StartRun
    BY DEF UserMessage
  <1>2. \/ UNCHANGED <<said, turnRefused>>
        \/ /\ turnRefused' = {}
           /\ said' = [said EXCEPT !.agreed = {}, !.wide = FALSE]
    BY DEF UserMessage, BeginTurn, ledger
  <1>3. ConsentChange
    BY <1>1, <1>2 DEF ConsentChange, Beginning
  <1>4. TurnFields'
    BY <1>1, FreshTurnFields
  <1> QED
    BY <1>1, <1>3, <1>4, RunOver DEF StartRun

(* A tool that is running when the turn is aborted was allowed to start.   *)
LEMMA AbortConsent ==
    ASSUME ConsentBase, TurnInv, Abort
    PROVE  ConsentChange /\ TurnInv'
  <1>1. TurnInv'
    BY TurnOver DEF Abort
  <1>2. UNCHANGED <<config, said, issued>>
    BY DEF Abort, user, ToolInterrupted
  <1>3. ASSUME NEW id \in Ids, Allowed(issued[id]), ToolInterrupted(id)
        PROVE  ConsentChange
    BY <1>2, <1>3, OneExecuted
  <1>4. CASE UNCHANGED <<ledger, issued, cache, version, ran>>
    BY <1>1, <1>2, <1>4, QuietChange DEF Quiet, ledger
  <1>5. CASE InBatch /\ SequentialOutcome(NextCall) = "run" /\ ToolInterrupted(NextId)
    <2>1. NextId \in Ids /\ NextCall \in Calls
      BY <1>5, NextRequested DEF InBatch, TurnInv
    <2> QED
      BY <1>1, <1>3, <1>5, <2>1, DecideAllows DEF SequentialOutcome, NextCall
  <1>6. CASE InResume /\ ResumeOutcome(NextCall) = "run" /\ ToolInterrupted(NextId)
    <2>1. NextId \in Ids /\ NextCall \in Calls
      BY <1>6, NextRequested DEF InResume, TurnInv
    <2> QED
      BY <1>1, <1>3, <1>6, <2>1, DecideAllows DEF ResumeOutcome, NextCall
  <1>7. CASE InItems /\ Item.out = "run" /\ ToolInterrupted(Item.id)
    <2>1. run.items \in Seq(SideItems) /\ run.items # <<>>
      BY <1>7 DEF InItems, TurnInv
    <2>2. Item \in SideItems
      BY <2>1 DEF Item
    <2>3. Item.id \in Ids /\ Allowed(issued[Item.id])
      BY <1>7, <2>2 DEF SideItems, FitItems, Items
    <2> QED
      BY <1>1, <1>3, <1>7, <2>3
  <1> QED
    BY <1>1, <1>4, <1>5, <1>6, <1>7 DEF Abort

(* Every step asks before it starts what needs consent.                    *)
LEMMA ConsentStep ==
    ASSUME ConsentBase, TurnInv, [Next]_vars
    PROVE  ConsentChange /\ TurnInv'
  <1>1. CASE \E continue \in BOOLEAN : UserMessage(continue)
    BY <1>1, UserMessageConsent
  <1>2. CASE TurnStep
    BY <1>2, ModelStepConsent, SequentialStepConsent, ResumeStepConsent,
       ParallelStepConsent, UserAnswerConsent
    DEF TurnStep
  <1>3. CASE Abort
    BY <1>3, AbortConsent
  <1>4. CASE UNCHANGED vars
    <2>1. Quiet /\ UNCHANGED <<phase, turn, run>>
      BY <1>4 DEF vars, Quiet, ledger, world, user
    <2> QED
      BY <2>1, QuietChange, QuietTurn
  <1> QED
    BY <1>1, <1>2, <1>3, <1>4 DEF Next

(* Before the first message nothing is approved, running or refused.       *)
LEMMA ConsentInit ==
    ASSUME Init
    PROVE  ConsentBase /\ TurnInv /\ Promise!Init
  <1>1. AnswersRecorded
    BY AnswersRecordedInit
  <1>2. config \in Configs /\ issued = <<>> /\ ran = <<>> /\ turnRefused = {}
        /\ said = [agreed |-> {}, always |-> {}, wide |-> FALSE]
        /\ run = FreshRun /\ turn = FreshTurn(<<>>) /\ phase = "idle"
    BY DEF Init, LedgerInit
  <1>3. ConsentBase
    <2>1. Ids = {} /\ \A S : <<>> \in Seq(S)
      BY <1>2 DEF Ids
    <2> QED
      BY <1>1, <1>2, <2>1 DEF ConsentBase
  <1>4. RunFields /\ run.events = <<>> /\ run.retries = [c \in Calls |-> 0]
        /\ run.executed = 0 /\ run.window = <<>>
    BY <1>2 DEF FreshRun, RunFields, HasFields
  <1>5. TurnFields
    BY <1>2 DEF FreshTurn, TurnFields, TurnNames, HasFields
  <1>6. run.events \in Seq(EventRecords) /\ run.retries \in [Calls -> Nat]
        /\ run.executed \in Nat
    BY <1>4
  <1>7. TurnInv
    BY <1>2, <1>4, <1>5, <1>6 DEF TurnInv
  <1>8. Promise!Init
    BY <1>2 DEF Promise!Init
  <1> QED
    BY <1>3, <1>7, <1>8

(* The turn machinery implements the promise of the approval flow.         *)
THEOREM ConsentIsKept == Spec => ConsentKept
  <1>1. Init => ConsentBase /\ TurnInv /\ Promise!Init
    BY ConsentInit
  <1>2. ConsentBase /\ TurnInv /\ [Next]_vars =>
           /\ (ConsentBase /\ TurnInv)'
           /\ [Promise!Next]_(Promise!consentVars)
    <2> SUFFICES ASSUME ConsentBase, TurnInv, [Next]_vars
                 PROVE  /\ (ConsentBase /\ TurnInv)'
                        /\ [Promise!Next]_(Promise!consentVars)
      OBVIOUS
    <2>1. ConsentChange /\ TurnInv'
      BY ConsentStep
    <2>2. LedgerChange
      BY LedgerStep
    <2>3. ConsentBase'
      BY <2>1, <2>2, BaseKept
    <2>4. [Promise!Next]_(Promise!consentVars)
      BY <2>1, BasePromise
    <2> QED
      BY <2>1, <2>3, <2>4
  <1> QED
    BY <1>1, <1>2, PTL DEF Spec, ConsentKept, Promise!Spec
-----------------------------------------------------------------------------
(* No call is executed twice.  The ids of a batch grow, and what has not   *)
(* run is kept in that order: queue, lane, items and the calls that are    *)
(* pending after a question.  A call that may come up again is a read that *)
(* ran ahead of a question in the parallel lane.                           *)

Increasing(s) == \A x, y \in 1..Len(s) : x < y => s[x] < s[y]
InOrder(items) == \A x, y \in 1..Len(items) : x < y => items[x].id < items[y].id

\* Executing the call does no harm.
Again(id) == id \in ToSet(ran) => RunsAhead /\ ~Mutating(issued[id])

BatchOrder ==
    phase \in {"calls", "prepare", "windows", "items"} => Increasing(turn.batch)

\* The calls before the next one of the queue are all that has run.
QueueOnce ==
    phase \in {"calls", "prepare"} =>
        /\ Increasing(run.queue)
        /\ \A q \in ToSet(run.queue), done \in ToSet(ran) : done < q
        /\ phase = "prepare" => run.queue = turn.batch

\* A pending call may be executed, or has got its result.
ResumeOnce ==
    phase = "resume" =>
        /\ Increasing(run.queue) /\ Increasing(turn.pending)
        /\ \A id \in ToSet(run.queue) : Again(id)
        /\ \A id \in ToSet(turn.pending) : Again(id) \/ id \in ResultIds(run.events)

AskOnce ==
    phase = "asking" =>
        /\ Increasing(turn.pending)
        /\ \A id \in ToSet(turn.pending) : Again(id)

\* Only calls of the parallel lane run before the items kept apart.
LaneOnce ==
    phase = "windows" =>
        /\ InOrder(run.lane)
        /\ \A x \in ToSet(run.lane) : x.id \in ToSet(turn.batch) \ ToSet(ran)
        /\ \A done \in ToSet(ran) \cap ToSet(turn.batch) : ParallelCall(issued[done])

ItemsOnce ==
    phase \in {"windows", "items"} =>
        /\ InOrder(run.items)
        /\ \A x \in ToSet(run.items) : x.id \in ToSet(turn.batch)
        /\ phase = "items" =>
              \A x \in ToSet(run.items), done \in ToSet(ran) \cap ToSet(turn.batch) :
                 ParallelCall(issued[done]) \/ done < x.id

OnceInv ==
    /\ EachCallOnce
    /\ BatchOrder /\ QueueOnce /\ ResumeOnce /\ AskOnce /\ LaneOnce /\ ItemsOnce

(* The elements of a sequence that grows at its end,                       *)
LEMMA ToSetAppend ==
    ASSUME NEW S, NEW s \in Seq(S), NEW x
    PROVE  ToSet(Append(s, x)) = ToSet(s) \cup {x}
  <1> DEFINE t == Append(s, x)
  <1>1. DOMAIN t = 1..(Len(s) + 1) /\ DOMAIN s = 1..Len(s) /\ Len(s) \in Nat
        /\ t[Len(s) + 1] = x /\ \A k \in 1..Len(s) : t[k] = s[k]
    OBVIOUS
  <1> HIDE DEF t
  <1>2. ToSet(t) = {t[k] : k \in 1..(Len(s) + 1)} /\ ToSet(s) = {s[k] : k \in 1..Len(s)}
    BY <1>1 DEF ToSet
  <1>3. ToSet(t) \subseteq ToSet(s) \cup {x}
    BY <1>1, <1>2
  <1>4. ToSet(s) \cup {x} \subseteq ToSet(t)
    BY <1>1, <1>2
  <1> QED
    BY <1>3, <1>4 DEF t

(* of two joined sequences,                                                *)
LEMMA ToSetJoined ==
    ASSUME NEW S, NEW s \in Seq(S), NEW t \in Seq(S)
    PROVE  ToSet(s \o t) = ToSet(s) \cup ToSet(t)
  <1> DEFINE all == s \o t
  <1>1. /\ all \in Seq(S)
        /\ Len(all) = Len(s) + Len(t)
        /\ \A k \in 1..Len(s) : all[k] = s[k]
        /\ \A k \in 1..Len(t) : all[Len(s) + k] = t[k]
        /\ \A k \in 1..Len(all) :
              k > Len(s) => k - Len(s) \in 1..Len(t) /\ all[k] = t[k - Len(s)]
    BY Concatenated
  <1> HIDE DEF all
  <1>2. Len(s) \in Nat /\ Len(t) \in Nat /\ DOMAIN s = 1..Len(s) /\ DOMAIN t = 1..Len(t)
        /\ DOMAIN all = 1..Len(all)
    BY <1>1
  <1>3. ASSUME NEW k \in 1..Len(all) PROVE all[k] \in ToSet(s) \cup ToSet(t)
    <2>1. CASE k <= Len(s)
      <3>1. k \in 1..Len(s)
        BY <1>2, <2>1
      <3> QED
        BY <1>1, <1>2, <3>1 DEF ToSet
    <2>2. CASE k > Len(s)
      <3>1. k - Len(s) \in 1..Len(t) /\ all[k] = t[k - Len(s)]
        BY <1>1, <2>2
      <3> QED
        BY <1>2, <3>1 DEF ToSet
    <2> QED
      BY <1>2, <2>1, <2>2
  <1>4. ToSet(s) \subseteq ToSet(all)
    BY <1>1, <1>2 DEF ToSet
  <1>5. ToSet(t) \subseteq ToSet(all)
    <2>1. \A k \in 1..Len(t) : Len(s) + k \in 1..Len(all)
      BY <1>1, <1>2
    <2> QED
      BY <1>1, <1>2, <2>1 DEF ToSet
  <1> QED
    BY <1>2, <1>3, <1>4, <1>5 DEF ToSet, all

(* and of one whose elements are in a set.                                 *)
LEMMA ToSetIn ==
    ASSUME NEW S, NEW s \in Seq(S)
    PROVE  ToSet(s) \subseteq S
  BY DEF ToSet

(* The first of an increasing sequence is below the rest.                  *)
LEMMA IncreasingTail ==
    ASSUME NEW s \in Seq(Nat), s # <<>>, Increasing(s)
    PROVE  /\ Increasing(Tail(s))
           /\ Head(s) \in ToSet(s)
           /\ \A x \in ToSet(Tail(s)) : x \in ToSet(s) /\ Head(s) < x
  <1> DEFINE t == Tail(s)
  <1>1. Len(s) \in Nat \ {0} /\ Head(s) = s[1] /\ 1 \in DOMAIN s /\ DOMAIN s = 1..Len(s)
        /\ Len(t) = Len(s) - 1 /\ DOMAIN t = 1..Len(t)
        /\ \A k \in 1..Len(t) : t[k] = s[k + 1]
    OBVIOUS
  <1> HIDE DEF t
  <1>2. Increasing(t)
    BY <1>1 DEF Increasing
  <1>3. ASSUME NEW k \in 1..Len(t) PROVE t[k] \in ToSet(s) /\ Head(s) < t[k]
    <2>1. k + 1 \in 1..Len(s) /\ 1 \in 1..Len(s) /\ 1 < k + 1 /\ t[k] = s[k + 1]
      BY <1>1
    <2>2. s[1] < s[k + 1]
      BY <2>1 DEF Increasing
    <2> QED
      BY <1>1, <2>1, <2>2 DEF ToSet
  <1> QED
    BY <1>1, <1>2, <1>3 DEF ToSet, t

(* So is the first item of the rest of them.                               *)
LEMMA InOrderTail ==
    ASSUME NEW S, NEW s \in Seq(S), s # <<>>, InOrder(s)
    PROVE  /\ InOrder(Tail(s))
           /\ Head(s) \in ToSet(s)
           /\ \A x \in ToSet(Tail(s)) : x \in ToSet(s) /\ Head(s).id < x.id
  <1> DEFINE t == Tail(s)
  <1>1. Len(s) \in Nat \ {0} /\ Head(s) = s[1] /\ 1 \in DOMAIN s /\ DOMAIN s = 1..Len(s)
        /\ Len(t) = Len(s) - 1 /\ DOMAIN t = 1..Len(t)
        /\ \A k \in 1..Len(t) : t[k] = s[k + 1]
    OBVIOUS
  <1> HIDE DEF t
  <1>2. InOrder(t)
    BY <1>1 DEF InOrder
  <1>3. ASSUME NEW k \in 1..Len(t) PROVE t[k] \in ToSet(s) /\ Head(s).id < t[k].id
    BY <1>1, SMTT(30) DEF InOrder, ToSet
  <1> QED
    BY <1>1, <1>2, <1>3 DEF ToSet, t

(* What is kept of an increasing sequence is one.                          *)
LEMMA KeepInIncreasing ==
    ASSUME NEW s \in Seq(Nat), Increasing(s), NEW K
    PROVE  Increasing(KeepIn(s, K))
  <1> DEFINE N == Len(s)
             Upto(t, m) == \A x \in 1..Len(t) : \E y \in 1..m : t[x] = s[y]
  <1>1. PICK f \in [0..N -> Seq(Nat \cap K)] : Keeps(f, s, K)
    BY KeepInSteps
  <1>2. N \in Nat /\ \A m \in 0..N : f[m] \in Seq(Nat)
    OBVIOUS
  <1> DEFINE G == {m \in 0..N : Increasing(f[m]) /\ Upto(f[m], m)}
  <1>3. 0 \in G
    <2>1. f[0] = <<>> /\ 0 \in 0..N
      BY <1>1, <1>2 DEF Keeps
    <2> QED
      BY <2>1 DEF Increasing
  <1>4. ASSUME NEW m \in 1..N, m - 1 \in G PROVE m \in G
    <2> DEFINE t == f[m - 1]
    <2>1. m \in 0..N /\ m - 1 \in 0..N /\ t \in Seq(Nat) /\ Increasing(t) /\ Upto(t, m - 1)
      BY <1>2, <1>4
    <2>2. f[m] = IF s[m] \in K THEN Append(t, s[m]) ELSE t
      BY <1>1 DEF Keeps
    <2>3. s[m] \in Nat
      OBVIOUS
    <2> HIDE DEF t, N
    <2>4. ASSUME NEW x \in 1..Len(t) PROVE t[x] < s[m]
      <3>1. PICK y \in 1..(m - 1) : t[x] = s[y]
        BY <2>1
      <3>2. y \in 1..Len(s) /\ m \in 1..Len(s) /\ y < m
        BY <1>2, <3>1 DEF N
      <3> QED
        BY <3>1, <3>2 DEF Increasing
    <2>5. Upto(t, m)
      BY <2>1
    <2>6. Increasing(Append(t, s[m])) /\ Upto(Append(t, s[m]), m)
      <3> DEFINE u == Append(t, s[m])
      <3>1. Len(t) \in Nat /\ Len(u) = Len(t) + 1 /\ u[Len(t) + 1] = s[m]
            /\ \A x \in 1..Len(t) : u[x] = t[x]
        BY <2>1, <2>3
      <3>2. \A x \in 1..Len(u) : x \in 1..Len(t) \/ x = Len(t) + 1
        BY <3>1
      <3> HIDE DEF u
      <3>3. ASSUME NEW x \in 1..Len(u), NEW y \in 1..Len(u), x < y
            PROVE  u[x] < u[y]
        <4>1. x \in 1..Len(t)
          BY <3>1, <3>3
        <4>2. CASE y \in 1..Len(t)
          BY <2>1, <3>1, <3>3, <4>1, <4>2 DEF Increasing
        <4>3. CASE y = Len(t) + 1
          BY <2>4, <3>1, <4>1, <4>3
        <4> QED
          BY <3>2, <4>2, <4>3
      <3>4. ASSUME NEW x \in 1..Len(u) PROVE \E y \in 1..m : u[x] = s[y]
        <4>1. m \in 1..m
          BY <1>2
        <4> QED
          BY <2>5, <3>1, <3>2, <4>1
      <3> QED
        BY <3>3, <3>4 DEF u, Increasing
    <2> QED
      BY <2>1, <2>2, <2>5, <2>6
  <1> HIDE DEF G, N
  <1>5. 0..N \subseteq G
    BY <1>2, <1>3, <1>4, Climb
  <1>6. N \in G
    BY <1>2, <1>5
  <1>7. Increasing(f[N])
    BY <1>6 DEF G
  <1> QED
    BY <1>1, <1>7 DEF Keeps, N

\* The items of a lane are the first m calls, or some of them, in order.
OfFirst(items, calls, m) ==
    InOrder(items) /\ \A x \in 1..Len(items) : \E y \in 1..m : items[x].id = calls[y]

(* A call at the end of a lane keeps it in order.                          *)
LEMMA AddsInOrder ==
    ASSUME NEW calls \in Seq(Nat), Increasing(calls), NEW m \in 1..Len(calls),
           NEW S, NEW old \in Seq(S), OfFirst(old, calls, m - 1), NEW new,
           Adds(new, old, calls[m], S)
    PROVE  OfFirst(new, calls, m)
  <1>0. Len(calls) \in Nat
    OBVIOUS
  <1>1. OfFirst(old, calls, m)
    BY <1>0 DEF OfFirst
  <1>2. ASSUME NEW x \in S, x.id = calls[m], new = Append(old, x)
        PROVE  OfFirst(new, calls, m)
    <2>1. Len(old) \in Nat /\ Len(new) = Len(old) + 1 /\ new[Len(old) + 1] = x
          /\ \A k \in 1..Len(old) : new[k] = old[k]
      BY <1>2
    <2>2. \A k \in 1..Len(new) : k \in 1..Len(old) \/ k = Len(old) + 1
      BY <2>1
    <2>3. ASSUME NEW k \in 1..Len(old) PROVE old[k].id < calls[m]
      <3>1. PICK y \in 1..(m - 1) : old[k].id = calls[y]
        BY DEF OfFirst
      <3>2. y \in 1..Len(calls) /\ y < m
        BY <1>0
      <3>3. calls[y] < calls[m]
        BY <3>2 DEF Increasing
      <3> QED
        BY <3>1, <3>3
    <2>4. ASSUME NEW k \in 1..Len(new), NEW l \in 1..Len(new), k < l
          PROVE  new[k].id < new[l].id
      <3>1. k \in 1..Len(old)
        BY <2>1, <2>4
      <3>2. CASE l \in 1..Len(old)
        BY <2>1, <2>4, <3>1, <3>2 DEF OfFirst, InOrder
      <3>3. CASE l \notin 1..Len(old)
        <4>1. l = Len(old) + 1
          BY <2>2, <3>3
        <4>2. new[l].id = calls[m] /\ new[k].id = old[k].id
          BY <1>2, <2>1, <3>1, <4>1
        <4> QED
          BY <2>3, <3>1, <4>2
      <3> QED
        BY <3>2, <3>3
    <2>5. ASSUME NEW k \in 1..Len(new) PROVE \E y \in 1..m : new[k].id = calls[y]
      <3>1. CASE k \in 1..Len(old)
        BY <1>1, <2>1, <3>1 DEF OfFirst
      <3>2. CASE k = Len(old) + 1
        BY <1>0, <1>2, <2>1, <3>2
      <3> QED
        BY <2>2, <3>1, <3>2
    <2> QED
      BY <2>4, <2>5 DEF OfFirst, InOrder
  <1> QED
    BY <1>1, <1>2 DEF Adds

(* A batch is sorted into lanes in its order.                              *)
LEMMA SortedInOrder ==
    ASSUME ConsentBase, config.parallel, run.retries \in [Calls -> Nat],
           NEW calls \in Seq(Ids), Increasing(calls)
    PROVE  /\ OfFirst(Sorted(calls).lane, calls, Len(calls))
           /\ OfFirst(Sorted(calls).items, calls, Len(calls))
  <1> DEFINE N == Len(calls)
  <1>1. PICK f \in [0..N -> Lanes] : Sorts(f, calls)
    BY SortedSteps
  <1>2. N \in Nat /\ calls \in Seq(Nat) /\ \A m \in 1..N : calls[m] \in Ids
    BY DEF Ids
  <1> DEFINE G == {m \in 0..N : OfFirst(f[m].lane, calls, m) /\ OfFirst(f[m].items, calls, m)}
  <1>3. 0 \in G
    <2>1. f[0].lane = <<>> /\ f[0].items = <<>> /\ 0 \in 0..N
      BY <1>1, <1>2 DEF Sorts, Unsorted
    <2> QED
      BY <2>1 DEF OfFirst, InOrder
  <1>4. ASSUME NEW m \in 1..N, m - 1 \in G PROVE m \in G
    <2> DEFINE acc == f[m - 1]
    <2>1. m \in 0..N /\ m - 1 \in 0..N /\ acc \in Lanes
          /\ OfFirst(acc.lane, calls, m - 1) /\ OfFirst(acc.items, calls, m - 1)
      BY <1>2, <1>4
    <2>2. f[m] = Prepare(acc, calls[m])
      BY <1>1 DEF Sorts
    <2> HIDE DEF acc
    <2>3. /\ Adds(f[m].lane, acc.lane, calls[m], LaneItems)
          /\ Adds(f[m].items, acc.items, calls[m], SideItems)
      BY <1>2, <2>1, <2>2, PrepareFits
    <2>4. acc.lane \in Seq(LaneItems) /\ acc.items \in Seq(SideItems)
      BY <2>1 DEF Lanes
    <2>5. OfFirst(f[m].lane, calls, m)
      BY <1>2, <2>1, <2>3, <2>4, AddsInOrder
    <2>6. OfFirst(f[m].items, calls, m)
      BY <1>2, <2>1, <2>3, <2>4, AddsInOrder
    <2> QED
      BY <2>1, <2>5, <2>6
  <1> HIDE DEF G
  <1>5. 0..N \subseteq G
    BY <1>2, <1>3, <1>4, Climb
  <1>6. N \in G
    BY <1>2, <1>5
  <1> QED
    BY <1>1, <1>6 DEF G, Sorts

(* Executing calls that may be executed leaves each executed once.         *)
LEMMA RanExtends ==
    ASSUME ConsentBase, EachCallOnce, UNCHANGED <<config, issued>>,
           NEW new \in Seq(Ids), Increasing(new), \A id \in ToSet(new) : Again(id),
           ran' = ran \o new
    PROVE  EachCallOnce' /\ ToSet(ran') = ToSet(ran) \cup ToSet(new)
  <1>1. ran \in Seq(Ids)
    BY DEF ConsentBase
  <1>2. /\ ran' \in Seq(Ids)
        /\ Len(ran') = Len(ran) + Len(new)
        /\ \A k \in 1..Len(ran) : ran'[k] = ran[k]
        /\ \A k \in 1..Len(ran') :
              k > Len(ran) => k - Len(ran) \in 1..Len(new) /\ ran'[k] = new[k - Len(ran)]
    BY <1>1, Concatenated
  <1>3. Len(ran) \in Nat /\ Len(new) \in Nat /\ DOMAIN ran = 1..Len(ran)
        /\ DOMAIN new = 1..Len(new) /\ DOMAIN ran' = 1..Len(ran')
    BY <1>1, <1>2
  <1>4. RunsAhead' = RunsAhead
    BY DEF RunsAhead, Verdict, VerdictUnder
  <1> DEFINE Fine(id) == RunsAhead /\ ~Mutating(issued[id])
  <1>5. ASSUME NEW i \in 1..Len(ran'), NEW j \in 1..Len(ran'), i < j, ran'[i] = ran'[j]
        PROVE  Fine(ran'[i])
    <2>1. CASE j <= Len(ran)
      <3>1. i \in DOMAIN ran /\ j \in DOMAIN ran /\ i # j /\ ran[i] = ran[j]
            /\ ran'[i] = ran[i]
        BY <1>2, <1>3, <1>5, <2>1
      <3> QED
        BY <3>1 DEF EachCallOnce
    <2>2. CASE i <= Len(ran) /\ j > Len(ran)
      <3>1. ran'[i] \in ToSet(ran)
        BY <1>2, <1>3, <1>5, <2>2 DEF ToSet
      <3>2. ran'[j] \in ToSet(new)
        BY <1>2, <1>3, <1>5, <2>2 DEF ToSet
      <3> QED
        BY <1>5, <3>1, <3>2 DEF Again
    <2>3. CASE i > Len(ran)
      <3>0. j > Len(ran)
        BY <1>2, <1>3, <1>5, <2>3
      <3>1. /\ i - Len(ran) \in 1..Len(new) /\ ran'[i] = new[i - Len(ran)]
            /\ j - Len(ran) \in 1..Len(new) /\ ran'[j] = new[j - Len(ran)]
        BY <1>2, <2>3, <3>0
      <3>2. i - Len(ran) < j - Len(ran)
        BY <1>2, <1>3, <1>5
      <3> DEFINE x == i - Len(ran)
                 y == j - Len(ran)
      <3>3. x \in 1..Len(new) /\ y \in 1..Len(new) /\ x < y /\ new[x] = new[y]
        BY <1>5, <3>1, <3>2
      <3> HIDE DEF x, y
      <3>4. new[x] < new[y] /\ new[x] \in Nat
        BY <3>3 DEF Increasing, Ids
      <3> QED
        BY <3>3, <3>4
    <2> QED
      BY <1>3, <1>5, <2>1, <2>2, <2>3
  <1> HIDE DEF Fine
  <1>6. ASSUME NEW i \in DOMAIN ran', NEW j \in DOMAIN ran', i # j, ran'[i] = ran'[j]
        PROVE  Fine(ran'[i])
    <2>1. i \in 1..Len(ran') /\ j \in 1..Len(ran') /\ (i < j \/ j < i)
      BY <1>2, <1>3, <1>6
    <2> QED
      BY <1>5, <1>6, <2>1
  <1>7. EachCallOnce'
    BY <1>4, <1>6 DEF EachCallOnce, Fine
  <1> QED
    BY <1>1, <1>7, ToSetJoined

(* One call is executed, or found in the cache.                            *)
LEMMA OneRan ==
    ASSUME ConsentBase, EachCallOnce, NEW id \in Ids, Again(id),
           ExecuteTool(id) \/ ToolInterrupted(id), UNCHANGED <<config, issued>>
    PROVE  EachCallOnce' /\ ToSet(ran') \subseteq ToSet(ran) \cup {id}
  <1>1. ran \in Seq(Ids)
    BY DEF ConsentBase
  <1>2. CASE ran' = ran
    BY <1>2 DEF EachCallOnce, RunsAhead, Verdict, VerdictUnder
  <1>3. CASE ran' = Append(ran, id)
    <2> DEFINE new == <<id>>
    <2>1. new \in Seq(Ids) /\ ran' = ran \o new /\ Len(new) = 1 /\ new[1] = id
      BY <1>1, <1>3, OneJoined
    <2>2. ToSet(new) = {id}
      BY <2>1 DEF ToSet
    <2> HIDE DEF new
    <2>3. Increasing(new)
      BY <2>1 DEF Increasing
    <2> QED
      BY <2>1, <2>2, <2>3, RanExtends
  <1> QED
    BY <1>2, <1>3 DEF ExecuteTool, ToolInterrupted

(* A step that runs nothing leaves each call executed once,                *)
LEMMA NothingRan ==
    ASSUME EachCallOnce, UNCHANGED <<config, issued, ran>>
    PROVE  EachCallOnce' /\ \A id : Again(id)' = Again(id)
  BY DEF EachCallOnce, Again, RunsAhead, Verdict, VerdictUnder

(* and when the run is over there is nothing else to know.                 *)
LEMMA OnceOver ==
    ASSUME EachCallOnce', phase' \in {"idle", "model"}
    PROVE  OnceInv'
  BY DEF OnceInv, BatchOrder, QueueOnce, ResumeOnce, AskOnce, LaneOnce, ItemsOnce

(* A question leaves pending what may be executed.                         *)
LEMMA AsksOnce ==
    ASSUME EachCallOnce, UNCHANGED <<config, issued, ran>>, TurnFields,
           turn.batch \in Seq(Ids), Increasing(turn.batch), NEW events,
           Len(events) \in Nat, LastResponse(events, turn.batch), NEW id,
           \A b \in ToSet(turn.batch) : b >= id => Again(b),
           NEW questions, AskUser(events, id, questions)
    PROVE  OnceInv'
  <1>1. EachCallOnce' /\ \A b : Again(b)' = Again(b)
    BY NothingRan
  <1>2. CASE ~config.callback
    BY <1>1, <1>2, OnceOver DEF AskUser, FinishTurn
  <1>3. CASE config.callback
    <2> DEFINE safe == HistorySafe(events)
               new == Committed(safe)
               rest == PendingFrom(events, id)
               K == {b \in ToSet(turn.batch) : b >= id}
    <2>1. /\ phase' = "asking"
          /\ turn' = [new EXCEPT !.pending = rest, !.asked = id, !.resuming = FALSE,
                                 !.questions = questions]
      BY <1>3 DEF AskUser
    <2>2. HasFields(new, TurnNames)
      BY CommittedFields
    <2>3. rest = KeepIn(turn.batch, K)
      BY PendingCalls
    <2>4. Increasing(rest)
      <3>1. turn.batch \in Seq(Nat)
        BY DEF Ids
      <3> QED
        BY <2>3, <3>1, KeepInIncreasing
    <2>5. rest \in Seq(Ids \cap K)
      BY <2>3, KeepInKeeps
    <2> HIDE DEF safe, new, rest
    <2>6. turn'.pending = rest
      BY <2>1, <2>2 DEF HasFields, TurnNames
    <2>7. \A b \in ToSet(rest) : Again(b)
      BY <2>5, ToSetIn
    <2>8. Increasing(turn'.pending)
      BY <2>4, <2>6
    <2>9. \A b \in ToSet(turn'.pending) : Again(b)'
      BY <1>1, <2>6, <2>7
    <2> QED
      BY <1>1, <2>1, <2>8, <2>9
      DEF OnceInv, BatchOrder, QueueOnce, ResumeOnce, AskOnce, LaneOnce, ItemsOnce
  <1> QED
    BY <1>2, <1>3

(* A response brings new calls.                                            *)
LEMMA RequestsOnce ==
    ASSUME ConsentBase, TurnInv, OnceInv, ModelRequestsTools
    PROVE  OnceInv'
  <1>1. PICK n \in 1..config.batch : \E calls \in [1..n -> config.requests] :
          LET ids == [i \in 1..n |-> Len(issued) + i]
          IN  /\ Len(issued) + n <= MaxIssued
              /\ issued' = issued \o calls
              /\ run' = [run EXCEPT !.events = Append(@, Response(ids, ids)),
                                    !.queue = ids,
                                    !.loops = @ + 1,
                                    !.muts = {},
                                    !.seen = {}]
    BY DEF ModelRequestsTools
  <1> DEFINE ids == [i \in 1..n |-> Len(issued) + i]
  <1>2. n \in Nat /\ issued \in Seq(Calls) /\ Len(issued) \in Nat
    BY DEF ConsentBase
  <1>3. PICK calls \in [1..n -> config.requests] : issued' = issued \o calls
    BY <1>1
  <1>4. calls \in Seq(Calls) /\ Len(calls) = n
    BY <1>2, RequestedCalls
  <1>5. Len(issued') = Len(issued) + n /\ \A k \in Ids : issued'[k] = issued[k]
    <2>1. /\ Len(issued \o calls) = Len(issued) + Len(calls)
          /\ \A k \in 1..Len(issued) : (issued \o calls)[k] = issued[k]
      BY <1>2, <1>4, Concatenated, ZenonT(40)
    <2> QED
      BY <1>3, <1>4, <2>1 DEF Ids
  <1>6. run'.queue = ids
    <2> HIDE DEF ids
    <2>1. \E e : \E l : run' = [run EXCEPT !.events = e, !.queue = ids, !.loops = l,
                                           !.muts = {}, !.seen = {}]
      BY <1>1 DEF ids
    <2> QED
      BY <2>1 DEF TurnInv, RunFields, HasFields
  <1>7. turn'.batch = ids
    <2>1. turn' = [turn EXCEPT !.batch =
                  [i \in 1..(Len(issued') - Len(issued)) |-> Len(issued) + i]]
      BY DEF ModelRequestsTools
    <2>2. Len(issued') - Len(issued) = n
      BY <1>2, <1>5
    <2>3. turn' = [turn EXCEPT !.batch = ids]
      BY <2>1, <2>2
    <2> HIDE DEF ids
    <2> QED
      BY <2>3 DEF TurnInv, TurnFields, TurnNames, HasFields
  <1>8. Increasing(ids)
    BY <1>2 DEF Increasing
  <1>9. \A q \in ToSet(ids) : Len(issued) < q
    BY <1>2 DEF ToSet
  <1>10. UNCHANGED <<config, ran>> /\ phase' \in {"calls", "prepare"}
    BY DEF ModelRequestsTools, user
  <1>11. ToSet(ran) \subseteq Ids /\ \A k \in DOMAIN ran : ran[k] \in Ids
    BY ToSetIn DEF ConsentBase
  <1> HIDE DEF ids
  <1>12. EachCallOnce'
    <2>1. RunsAhead' = RunsAhead
      BY <1>10 DEF RunsAhead, Verdict, VerdictUnder
    <2> QED
      BY <1>5, <1>10, <1>11, <2>1 DEF OnceInv, EachCallOnce
  <1>13. \A q \in ToSet(ids), done \in ToSet(ran) : done < q
    <2>1. ASSUME NEW q \in ToSet(ids), NEW done \in ToSet(ran) PROVE done < q
      <3>1. done \in Nat /\ done <= Len(issued) /\ Len(issued) < q
        BY <1>9, <1>11 DEF Ids
      <3>2. q \in Nat
        BY <1>2 DEF ids, ToSet
      <3> QED
        BY <1>2, <3>1, <3>2
    <2> QED
      BY <2>1
  <1> QED
    BY <1>6, <1>7, <1>8, <1>10, <1>12, <1>13
    DEF OnceInv, BatchOrder, QueueOnce, ResumeOnce, AskOnce, LaneOnce, ItemsOnce

(* The model's other answers leave or end the run.                         *)
LEMMA ModelStepOnce ==
    ASSUME ConsentBase, TurnInv, OnceInv, ModelStep
    PROVE  OnceInv'
  <1>1. CASE ModelRequestsTools
    BY <1>1, RequestsOnce
  <1>2. CASE ModelTruncated
    BY <1>2, NothingRan, OnceOver DEF ModelTruncated, CanAsk, world, user, OnceInv
  <1>3. CASE ModelAnswersText \/ ModelFails \/ LoopLimit
    BY <1>3, NothingRan, OnceOver
    DEF ModelAnswersText, ModelFails, LoopLimit, EndWithNotice, FinishTurn, world, user,
        OnceInv
  <1> QED
    BY <1>1, <1>2, <1>3 DEF ModelStep

(* A call that has its result leaves the queue.                            *)
LEMMA ProcessedFields ==
    ASSUME RunFields, NEW out, run' = Processed(out) \/ run' = ResumeProcessed(out)
    PROVE  /\ run'.queue = Tail(run.queue)
           /\ run'.events = Append(run.events, Result(NextId, out))
  <1> DEFINE p == Processed(out)
             e == Append(run.events, Result(NextId, out))
             q == Tail(run.queue)
  <1>1. \E x, m, s, r : p = [run EXCEPT !.events = e, !.queue = q, !.executed = x,
                                        !.muts = m, !.seen = s, !.retries = r]
    BY DEF Processed
  <1> HIDE DEF p, e, q
  <1>2. p.events = e /\ p.queue = q
        /\ HasFields(p, {"events", "queue", "executed", "loops", "muts", "seen",
                         "retries", "lane", "window", "items", "cut"})
    BY <1>1 DEF RunFields, HasFields
  <1>3. CASE run' = p
    BY <1>2, <1>3 DEF e, q
  <1>4. CASE run' = [p EXCEPT !.executed = run.executed, !.retries = run.retries]
    BY <1>2, <1>4 DEF HasFields, e, q
  <1> QED
    BY <1>3, <1>4 DEF p, ResumeProcessed

(* The sequential loop executes its calls in order.                        *)
LEMMA SequentialStepOnce ==
    ASSUME ConsentBase, TurnInv, OnceInv, SequentialStep
    PROVE  OnceInv'
  <1>1. /\ phase = "calls" /\ RunFields /\ TurnFields
        /\ run.queue \in Seq(Ids) /\ run.queue \in Seq(Nat)
        /\ run.events \in Seq(EventRecords) /\ Len(run.events) \in Nat
        /\ turn.batch \in Seq(Ids) /\ LastResponse(run.events, turn.batch)
    <2>1. phase = "calls"
      BY DEF SequentialStep, CallLimit, CallAnswered, CallAsks, CallExecutes, CallRaises,
         BatchDone, InBatch
    <2>2. run.queue \in Seq(Ids)
      BY <2>1 DEF TurnInv
    <2>3. run.queue \in Seq(Nat)
      BY <2>2 DEF Ids
    <2> QED
      BY <2>1, <2>2, <2>3 DEF TurnInv
  <1>2. /\ EachCallOnce /\ Increasing(turn.batch) /\ Increasing(run.queue)
        /\ \A q \in ToSet(run.queue), done \in ToSet(ran) : done < q
    BY <1>1 DEF OnceInv, BatchOrder, QueueOnce
  <1>3. ASSUME run.queue # <<>>
        PROVE  /\ NextId \in Ids /\ NextId \in ToSet(run.queue)
               /\ Increasing(Tail(run.queue))
               /\ \A x \in ToSet(Tail(run.queue)) : x \in ToSet(run.queue) /\ NextId < x
    BY <1>1, <1>2, <1>3, NextRequested, IncreasingTail DEF NextId
  <1>4. ToSet(ran) \subseteq Nat
    BY ToSetIn DEF ConsentBase, Ids
  <1>5. ASSUME run.queue # <<>>, NEW b \in Nat, b >= NextId PROVE b \notin ToSet(ran)
    BY <1>2, <1>3, <1>4, <1>5 DEF Ids
  <1>6. ASSUME run.queue # <<>>, NEW out, run' = Processed(out),
               UNCHANGED <<config, issued, turn, phase>>,
               EachCallOnce', ToSet(ran') \subseteq ToSet(ran) \cup {NextId}
        PROVE  OnceInv'
    <2>1. run'.queue = Tail(run.queue)
      BY <1>1, <1>6, ProcessedFields
    <2>2. \A q \in ToSet(run'.queue), done \in ToSet(ran') : done < q
      BY <1>2, <1>3, <1>6, <2>1
    <2>3. Increasing(run'.queue) /\ Increasing(turn'.batch) /\ phase' = "calls"
      BY <1>1, <1>2, <1>3, <1>6, <2>1
    <2> QED
      BY <1>6, <2>2, <2>3
      DEF OnceInv, BatchOrder, QueueOnce, ResumeOnce, AskOnce, LaneOnce, ItemsOnce
  <1>7. CASE CallLimit \/ BatchDone
    BY <1>2, <1>7, NothingRan, OnceOver
    DEF CallLimit, BatchDone, EndWithNotice, FinishTurn, world, user
  <1>8. CASE CallAnswered
    <2>1. UNCHANGED <<config, issued, ran>> /\ run.queue # <<>>
      BY <1>8 DEF CallAnswered, InBatch, world, user
    <2>2. EachCallOnce'
      BY <1>2, <2>1, NothingRan
    <2>3. CASE OutOfRetries(NextCall, SequentialOutcome(NextCall))
      BY <1>8, <2>2, <2>3, OnceOver DEF CallAnswered, EndWithNotice, FinishTurn
    <2>4. CASE ~OutOfRetries(NextCall, SequentialOutcome(NextCall))
      BY <1>6, <1>8, <2>1, <2>2, <2>4 DEF CallAnswered
    <2> QED
      BY <2>3, <2>4
  <1>9. CASE CallAsks
    <2>1. UNCHANGED <<config, issued, ran>> /\ run.queue # <<>>
          /\ AskUser(run.events, NextId, Counted(SequentialOutcome(NextCall)))
      BY <1>9 DEF CallAsks, InBatch, world, user
    <2>2. \A b \in ToSet(turn.batch) : b >= NextId => Again(b)
      <3>1. ToSet(turn.batch) \subseteq Nat
        BY <1>1, ToSetIn DEF Ids
      <3> QED
        BY <1>5, <2>1, <3>1 DEF Again
    <2> QED
      BY <1>1, <1>2, <2>1, <2>2, AsksOnce
  <1>10. ASSUME run.queue # <<>>, ExecuteTool(NextId) \/ ToolInterrupted(NextId),
                UNCHANGED <<config, issued>>
         PROVE  EachCallOnce' /\ ToSet(ran') \subseteq ToSet(ran) \cup {NextId}
    <2>1. NextId \in Ids /\ Again(NextId)
      BY <1>3, <1>5, <1>10 DEF Again, Ids
    <2> QED
      BY <1>2, <1>10, <2>1, OneRan
  <1>11. CASE CallExecutes
    <2>1. /\ UNCHANGED <<config, issued, turn, phase>> /\ run.queue # <<>>
          /\ run' = Processed("run") /\ ExecuteTool(NextId)
      BY <1>11 DEF CallExecutes, InBatch, user
    <2> QED
      BY <1>6, <1>10, <2>1
  <1>12. CASE CallRaises
    <2>1. UNCHANGED <<config, issued>> /\ run.queue # <<>> /\ ToolInterrupted(NextId)
          /\ phase' = "idle"
      BY <1>12 DEF CallRaises, ToolInterrupted, FinishTurn, InBatch, user
    <2> QED
      BY <1>10, <2>1, OnceOver
  <1> QED
    BY <1>7, <1>8, <1>9, <1>11, <1>12 DEF SequentialStep

(* What is next in the queue or among the items may be executed.           *)
LEMMA NextMayRun ==
    ASSUME ConsentBase, TurnInv, OnceInv
    PROVE  /\ InBatch \/ InResume => NextId \in Ids /\ Again(NextId)
           /\ InItems => Item.id \in Ids /\ Again(Item.id)
  <1>0. ToSet(ran) \subseteq Nat
    BY ToSetIn DEF ConsentBase, Ids
  <1>1. ASSUME InBatch \/ InResume PROVE NextId \in Ids /\ NextId \in ToSet(run.queue)
    <2>1. run.queue \in Seq(Ids) /\ run.queue # <<>>
      BY <1>1 DEF InBatch, InResume, TurnInv
    <2> QED
      BY <2>1 DEF NextId, ToSet
  <1>2. ASSUME InBatch PROVE Again(NextId)
    BY <1>0, <1>1, <1>2 DEF InBatch, OnceInv, QueueOnce, Again, Ids
  <1>3. ASSUME InResume PROVE Again(NextId)
    BY <1>1, <1>3 DEF InResume, OnceInv, ResumeOnce
  <1>4. ASSUME InItems PROVE Item.id \in Ids /\ Again(Item.id)
    <2>1. run.items \in Seq(SideItems) /\ run.items # <<>> /\ phase = "items"
      BY <1>4 DEF InItems, TurnInv
    <2>2. Item \in SideItems /\ Item \in ToSet(run.items)
      BY <2>1 DEF Item, ToSet
    <2>3. Item.id \in Ids /\ ~ParallelCall(issued[Item.id])
      BY <2>2 DEF SideItems, FitItems, Items
    <2>4. Item.id \notin ToSet(ran)
      BY <2>1, <2>2, <2>3 DEF OnceInv, ItemsOnce, Ids
    <2> QED
      BY <2>3, <2>4 DEF Again
  <1> QED
    BY <1>1, <1>2, <1>3, <1>4

(* A result more.                                                          *)
LEMMA ResultAdded ==
    ASSUME NEW events \in Seq(EventRecords), NEW id, NEW out
    PROVE  ResultIds(events) \cup {id} \subseteq ResultIds(Append(events, Result(id, out)))
  <1> DEFINE r == Result(id, out)
  <1>1. r.kind = "result" /\ r.id = id
    BY DEF Result, Event
  <1> HIDE DEF r
  <1>2. ToSet(Append(events, r)) = ToSet(events) \cup {r}
    BY ToSetAppend
  <1>3. ResultIds(events) \cup {id} \subseteq ResultIds(Append(events, r))
    BY <1>1, <1>2 DEF ResultIds
  <1> QED
    BY <1>3 DEF r

(* The resumed calls are executed in order, those with a result no more.   *)
LEMMA ResumeStepOnce ==
    ASSUME ConsentBase, TurnInv, OnceInv, ResumeStep
    PROVE  OnceInv'
  <1>1. /\ phase = "resume" /\ RunFields /\ TurnFields
        /\ run.queue \in Seq(Ids) /\ run.queue \in Seq(Nat)
        /\ run.events \in Seq(EventRecords)
        /\ turn.pending \in Seq(Ids) /\ turn.pending \in Seq(Nat)
    <2>1. phase = "resume"
      BY DEF ResumeStep, ResumeAnswered, ResumeExecutes, ResumeAsks, ResumeDone,
         ResumeRaises, InResume
    <2>2. run.queue \in Seq(Ids) /\ turn.pending \in Seq(Ids)
      BY <2>1 DEF TurnInv
    <2>3. run.queue \in Seq(Nat) /\ turn.pending \in Seq(Nat)
      BY <2>2 DEF Ids
    <2> QED
      BY <2>1, <2>2, <2>3 DEF TurnInv
  <1>2. /\ EachCallOnce /\ Increasing(turn.pending) /\ Increasing(run.queue)
        /\ \A id \in ToSet(run.queue) : Again(id)
        /\ \A id \in ToSet(turn.pending) : Again(id) \/ id \in ResultIds(run.events)
    BY <1>1 DEF OnceInv, ResumeOnce
  <1>3. ASSUME run.queue # <<>>
        PROVE  /\ Increasing(Tail(run.queue)) /\ NextId \in Ids
               /\ \A x \in ToSet(Tail(run.queue)) : x \in ToSet(run.queue) /\ x # NextId
    <2>1. /\ Increasing(Tail(run.queue))
          /\ \A x \in ToSet(Tail(run.queue)) : x \in ToSet(run.queue) /\ NextId < x
      BY <1>1, <1>2, <1>3, IncreasingTail DEF NextId
    <2>2. NextId \in Ids
      BY <1>1, <1>3, NextRequested
    <2> QED
      BY <2>1, <2>2 DEF Ids
  <1>4. ASSUME run.queue # <<>>, NEW out, run' = ResumeProcessed(out),
               UNCHANGED <<config, issued, turn, phase>>,
               EachCallOnce', ToSet(ran') \subseteq ToSet(ran) \cup {NextId}
        PROVE  OnceInv'
    <2>1. /\ run'.queue = Tail(run.queue)
          /\ run'.events = Append(run.events, Result(NextId, out))
      BY <1>1, <1>4, ProcessedFields
    <2>2. ASSUME NEW id, id # NextId, Again(id) PROVE Again(id)'
      BY <1>4, <2>2 DEF Again, RunsAhead, Verdict, VerdictUnder
    <2>3. \A id \in ToSet(run'.queue) : Again(id)'
      BY <1>2, <1>3, <1>4, <2>1, <2>2
    <2>4. ResultIds(run.events) \cup {NextId} \subseteq ResultIds(run'.events)
      BY <1>1, <2>1, ResultAdded
    <2>5. \A id \in ToSet(turn'.pending) : Again(id)' \/ id \in ResultIds(run'.events)
      BY <1>2, <1>4, <2>2, <2>4
    <2>6. Increasing(run'.queue) /\ Increasing(turn'.pending) /\ phase' = "resume"
      BY <1>1, <1>2, <1>3, <1>4, <2>1
    <2> QED
      BY <1>4, <2>3, <2>5, <2>6
      DEF OnceInv, BatchOrder, QueueOnce, ResumeOnce, AskOnce, LaneOnce, ItemsOnce
  <1>5. ASSUME run.queue # <<>>, ExecuteTool(NextId) \/ ToolInterrupted(NextId),
               UNCHANGED <<config, issued>>
        PROVE  EachCallOnce' /\ ToSet(ran') \subseteq ToSet(ran) \cup {NextId}
    BY <1>1, <1>2, <1>3, <1>5, NextMayRun, OneRan DEF InResume
  <1>6. CASE ResumeAnswered
    <2>1. /\ UNCHANGED <<config, issued, ran, turn, phase>> /\ run.queue # <<>>
          /\ run' = ResumeProcessed(ResumeOutcome(NextCall))
      BY <1>6 DEF ResumeAnswered, InResume, world, user
    <2> QED
      BY <1>2, <1>4, <2>1, NothingRan
  <1>7. CASE ResumeExecutes
    <2>1. /\ UNCHANGED <<config, issued, turn, phase>> /\ run.queue # <<>>
          /\ run' = ResumeProcessed("run") /\ ExecuteTool(NextId)
      BY <1>7 DEF ResumeExecutes, InResume, user
    <2> QED
      BY <1>4, <1>5, <2>1
  <1>8. CASE ResumeAsks
    <2> DEFINE new == CommitResumed(run.events)
               K == ToSet(turn.pending) \ ResultIds(run.events)
    <2>1. UNCHANGED <<config, issued, ran>> /\ phase' = "asking"
          /\ \E n : turn' = [new EXCEPT !.asked = NextId, !.resuming = TRUE,
                                        !.questions = n]
      BY <1>8 DEF ResumeAsks, world, user
    <2>2. HasFields(new, TurnNames) /\ new.pending = KeepIn(turn.pending, K)
      BY <1>1, ResumedFields
    <2> HIDE DEF new
    <2>3. turn'.pending = KeepIn(turn.pending, K)
      BY <2>1, <2>2 DEF HasFields, TurnNames
    <2>4. Increasing(turn'.pending)
      BY <1>1, <1>2, <2>3, KeepInIncreasing
    <2>5. \A id \in ToSet(turn'.pending) : id \in K
      <3>1. KeepIn(turn.pending, K) \in Seq(Ids \cap K)
        BY <1>1, KeepInKeeps
      <3> QED
        BY <2>3, <3>1, ToSetIn
    <2>6. EachCallOnce' /\ \A id : Again(id)' = Again(id)
      BY <1>2, <2>1, NothingRan
    <2>7. \A id \in ToSet(turn'.pending) : Again(id)'
      BY <1>2, <2>5, <2>6
    <2> QED
      BY <2>1, <2>4, <2>6, <2>7
      DEF OnceInv, BatchOrder, QueueOnce, ResumeOnce, AskOnce, LaneOnce, ItemsOnce
  <1>9. CASE ResumeDone
    BY <1>2, <1>9, NothingRan, OnceOver DEF ResumeDone, StartRun, user
  <1>10. CASE ResumeRaises
    <2>1. UNCHANGED <<config, issued>> /\ run.queue # <<>> /\ ToolInterrupted(NextId)
          /\ phase' = "idle"
      BY <1>10 DEF ResumeRaises, ToolInterrupted, ForgetTurn, InResume, user
    <2> QED
      BY <1>5, <2>1, OnceOver
  <1> QED
    BY <1>6, <1>7, <1>8, <1>9, <1>10 DEF ResumeStep

(* An answer of the user resumes the pending calls.                        *)
LEMMA UserAnswerOnce ==
    ASSUME TurnInv, OnceInv, UserAnswer
    PROVE  OnceInv'
  <1>1. phase = "asking" /\ UNCHANGED <<config, issued, ran>>
    BY DEF UserAnswer, AnswerYes, AnswerYesThisTurn, AnswerNo, AnswerQuestion,
       NoAnswer, user, world
  <1>2. EachCallOnce' /\ \A id : Again(id)' = Again(id)
    BY <1>1, NothingRan DEF OnceInv
  <1>3. ASSUME StartResume(turn.pending), UNCHANGED turn PROVE OnceInv'
    <2>1. run'.queue = turn.pending /\ turn' = turn /\ phase' = "resume"
      BY <1>3 DEF StartResume, FreshRun
    <2>2. Increasing(turn.pending) /\ \A id \in ToSet(turn.pending) : Again(id)
      BY <1>1 DEF OnceInv, AskOnce
    <2> QED
      BY <1>2, <2>1, <2>2
      DEF OnceInv, BatchOrder, QueueOnce, ResumeOnce, AskOnce, LaneOnce, ItemsOnce
  <1>4. CASE StartResume(turn.pending) /\ UNCHANGED turn
    BY <1>3, <1>4
  <1>5. CASE phase' \in {"idle", "model"}
    BY <1>2, <1>5, OnceOver
  <1> QED
    BY <1>4, <1>5 DEF UserAnswer, AnswerYes, AnswerYesThisTurn, AnswerNo, AnswerQuestion,
       NoAnswer, StartRun, FinishTurn

(* With a message the turn's executions begin anew.                        *)
LEMMA UserMessageOnce ==
    ASSUME NEW continue \in BOOLEAN, UserMessage(continue)
    PROVE  OnceInv'
  <1>1. ran' = <<>> /\ phase' = "model"
    BY DEF UserMessage, StartRun
  <1>2. EachCallOnce'
    BY <1>1 DEF EachCallOnce
  <1> QED
    BY <1>1, <1>2, OnceOver

(* A tool that runs when the turn is aborted has not run before.           *)
LEMMA AbortOnce ==
    ASSUME ConsentBase, TurnInv, OnceInv, Abort
    PROVE  OnceInv'
  <1>1. phase' = "idle" /\ UNCHANGED <<config, issued>>
    BY DEF Abort, ForgetTurn, ToolInterrupted, user
  <1>2. CASE UNCHANGED ran
    BY <1>1, <1>2, NothingRan, OnceOver DEF OnceInv
  <1>3. ASSUME NEW id \in Ids, Again(id), ToolInterrupted(id) PROVE OnceInv'
    BY <1>1, <1>3, OneRan, OnceOver DEF OnceInv
  <1> QED
    BY <1>1, <1>2, <1>3, NextMayRun DEF Abort

(* The first n of an increasing sequence.                                  *)
LEMMA IncreasingFirst ==
    ASSUME NEW S, NEW s \in Seq(S), NEW n \in 0..Len(s)
    PROVE  /\ SubSeq(s, 1, n) \in Seq(S) /\ Len(SubSeq(s, 1, n)) = n
           /\ ToSet(SubSeq(s, 1, n)) \subseteq ToSet(s)
           /\ Increasing(s) => Increasing(SubSeq(s, 1, n))
  <1> DEFINE t == SubSeq(s, 1, n)
  <1>1. t \in Seq(S) /\ Len(t) = n /\ DOMAIN t = 1..n /\ DOMAIN s = 1..Len(s)
        /\ Len(s) \in Nat /\ \A k \in 1..n : t[k] = s[k]
    OBVIOUS
  <1> HIDE DEF t
  <1>2. 1..n \subseteq 1..Len(s)
    BY <1>1
  <1>3. ToSet(t) \subseteq ToSet(s)
    BY <1>1, <1>2 DEF ToSet
  <1>4. Increasing(s) => Increasing(t)
    BY <1>1, <1>2 DEF Increasing
  <1> QED
    BY <1>1, <1>3, <1>4 DEF t

(* A lane is cut into the next window and the rest.                        *)
LEMMA LaneCut ==
    ASSUME NEW S, NEW s \in Seq(S), InOrder(s), NEW n \in 0..Len(s)
    PROVE  /\ InOrder(SubSeq(s, 1, n)) /\ InOrder(SubSeq(s, n + 1, Len(s)))
           /\ SubSeq(s, 1, n) \in Seq(S) /\ SubSeq(s, n + 1, Len(s)) \in Seq(S)
           /\ ToSet(SubSeq(s, 1, n)) \subseteq ToSet(s)
           /\ ToSet(SubSeq(s, n + 1, Len(s))) \subseteq ToSet(s)
           /\ \A x \in ToSet(SubSeq(s, 1, n)), y \in ToSet(SubSeq(s, n + 1, Len(s))) :
                 x.id < y.id
  <1> DEFINE t == SubSeq(s, 1, n)
             u == SubSeq(s, n + 1, Len(s))
  <1>1. /\ t \in Seq(S) /\ Len(t) = n /\ DOMAIN t = 1..n /\ DOMAIN s = 1..Len(s)
        /\ Len(s) \in Nat /\ \A k \in 1..n : t[k] = s[k]
    OBVIOUS
  <1>2. /\ u \in Seq(S) /\ Len(u) = Len(s) - n /\ DOMAIN u = 1..(Len(s) - n)
        /\ \A k \in 1..(Len(s) - n) : u[k] = s[n + k]
    OBVIOUS
  <1> HIDE DEF t, u
  <1>3. /\ \A k \in 1..n : k \in 1..Len(s)
        /\ \A k \in 1..(Len(s) - n) : n + k \in 1..Len(s)
    BY <1>1
  <1>4. ToSet(t) \subseteq ToSet(s) /\ ToSet(u) \subseteq ToSet(s)
    <2>1. ToSet(t) \subseteq ToSet(s)
      BY <1>1, <1>3 DEF ToSet
    <2>2. ASSUME NEW k \in DOMAIN u PROVE u[k] \in ToSet(s)
      <3>1. u[k] = s[n + k] /\ n + k \in DOMAIN s
        BY <1>1, <1>2, <1>3, <2>2
      <3> DEFINE l == n + k
      <3> HIDE DEF l
      <3>2. s[l] \in ToSet(s)
        BY <3>1 DEF ToSet, l
      <3> QED
        BY <3>1, <3>2 DEF l
    <2> QED
      BY <2>1, <2>2 DEF ToSet
  <1>5. InOrder(t)
    BY <1>1, <1>3 DEF InOrder
  <1>6. InOrder(u)
    <2>1. ASSUME NEW x \in 1..Len(u), NEW y \in 1..Len(u), x < y PROVE u[x].id < u[y].id
      <3>1. n + x \in 1..Len(s) /\ n + y \in 1..Len(s) /\ n + x < n + y
            /\ u[x] = s[n + x] /\ u[y] = s[n + y]
        BY <1>1, <1>2, <1>3, <2>1
      <3> DEFINE a == n + x
                 b == n + y
      <3> HIDE DEF a, b
      <3>2. s[a].id < s[b].id
        BY <3>1 DEF InOrder, a, b
      <3> QED
        BY <3>1, <3>2 DEF a, b
    <2> QED
      BY <2>1 DEF InOrder
  <1>7. ASSUME NEW x \in ToSet(t), NEW y \in ToSet(u) PROVE x.id < y.id
    <2>1. PICK k \in 1..n : x = s[k]
      BY <1>1 DEF ToSet
    <2>2. PICK l \in 1..(Len(s) - n) : y = s[n + l]
      BY <1>2 DEF ToSet
    <2>3. k \in 1..Len(s) /\ n + l \in 1..Len(s) /\ k < n + l
      BY <1>1, <1>3
    <2> DEFINE b == n + l
    <2> HIDE DEF b
    <2>4. s[k].id < s[b].id
      BY <2>3 DEF InOrder, b
    <2> QED
      BY <2>1, <2>2, <2>4 DEF b
  <1> QED
    BY <1>1, <1>2, <1>4, <1>5, <1>6, <1>7 DEF t, u

(* The batch is sorted: each call into one lane, none has run.             *)
LEMMA PrepareOnce ==
    ASSUME ConsentBase, TurnInv, OnceInv, PrepareBatch
    PROVE  OnceInv'
  <1> DEFINE budget == RemainingBudget
             calls == IF budget < Len(run.queue) THEN SubSeq(run.queue, 1, budget)
                      ELSE run.queue
             sorted == Sorted(calls)
  <1>1. phase = "prepare" /\ UNCHANGED <<config, issued, ran>>
    BY DEF PrepareBatch, world, user
  <1>2. EachCallOnce'
    BY <1>1, NothingRan DEF OnceInv
  <1>3. CASE budget <= 0
    BY <1>2, <1>3, OnceOver DEF PrepareBatch, EndWithNotice, FinishTurn
  <1>4. CASE ~(budget <= 0)
    <2>1. /\ phase' = "windows"
          /\ \E r, c : run' = [run EXCEPT !.queue = <<>>, !.lane = sorted.lane,
                                  !.items = sorted.items, !.retries = r, !.cut = c]
          /\ \E q : turn' = [turn EXCEPT !.questions = q]
      BY <1>4 DEF PrepareBatch
    <2>2. /\ run.queue \in Seq(Ids) /\ config.parallel /\ run.retries \in [Calls -> Nat]
          /\ run.executed \in Nat /\ RunFields /\ TurnFields
      BY <1>1 DEF TurnInv
    <2>3. /\ run.queue = turn.batch /\ Increasing(turn.batch)
          /\ \A q \in ToSet(turn.batch), done \in ToSet(ran) : done < q
      BY <1>1 DEF OnceInv, BatchOrder, QueueOnce
    <2>4. calls \in Seq(Ids) /\ Increasing(calls) /\ ToSet(calls) \subseteq ToSet(turn.batch)
      <3>1. CASE budget < Len(run.queue)
        <4>1. budget \in 0..Len(run.queue)
          BY <1>4, <2>2, <3>1, ConfigAssumption, SMTT(30)
          DEF RemainingBudget, ConsentBase, Configurations
        <4> HIDE DEF budget
        <4> QED
          BY <2>2, <2>3, <3>1, <4>1, IncreasingFirst
      <3>2. CASE ~(budget < Len(run.queue))
        BY <2>2, <2>3, <3>2
      <3> QED
        BY <3>1, <3>2
    <2> HIDE DEF calls
    <2>5. OfFirst(sorted.lane, calls, Len(calls)) /\ OfFirst(sorted.items, calls, Len(calls))
      BY <2>2, <2>4, SortedInOrder
    <2>6. sorted.lane \in Seq(LaneItems) /\ sorted.items \in Seq(SideItems)
      BY <2>2, <2>4, SortedFits DEF Lanes
    <2> HIDE DEF sorted
    <2>7. run'.lane = sorted.lane /\ run'.items = sorted.items
      BY <2>1, <2>2 DEF RunFields, HasFields
    <2>8. turn'.batch = turn.batch
      BY <2>1, <2>2 DEF TurnFields, TurnNames, HasFields
    <2>9. DOMAIN calls = 1..Len(calls) /\ DOMAIN sorted.lane = 1..Len(sorted.lane)
          /\ DOMAIN sorted.items = 1..Len(sorted.items)
      BY <2>4, <2>6
    <2>10. /\ InOrder(sorted.lane) /\ \A x \in ToSet(sorted.lane) : x.id \in ToSet(turn.batch)
           /\ InOrder(sorted.items) /\ \A x \in ToSet(sorted.items) : x.id \in ToSet(turn.batch)
      <3>1. \A y \in 1..Len(calls) : calls[y] \in ToSet(turn.batch)
        BY <2>4, <2>9 DEF ToSet
      <3>2. \A x \in ToSet(sorted.lane) : x.id \in ToSet(turn.batch)
        <4>1. \A k \in 1..Len(sorted.lane) : sorted.lane[k].id \in ToSet(turn.batch)
          BY <2>5, <3>1 DEF OfFirst
        <4> QED
          BY <2>9, <4>1 DEF ToSet
      <3>3. \A x \in ToSet(sorted.items) : x.id \in ToSet(turn.batch)
        <4>1. \A k \in 1..Len(sorted.items) : sorted.items[k].id \in ToSet(turn.batch)
          BY <2>5, <3>1 DEF OfFirst
        <4> QED
          BY <2>9, <4>1 DEF ToSet
      <3> QED
        BY <2>5, <3>2, <3>3 DEF OfFirst
    <2>11. ToSet(turn.batch) \cap ToSet(ran) = {}
      <3>1. ToSet(ran) \subseteq Nat
        BY ToSetIn DEF ConsentBase, Ids
      <3> QED
        BY <2>3, <3>1
    <2> QED
      BY <1>1, <1>2, <2>1, <2>7, <2>8, <2>10, <2>11
      DEF OnceInv, BatchOrder, QueueOnce, ResumeOnce, AskOnce, LaneOnce, ItemsOnce
  <1> QED
    BY <1>3, <1>4

(* The calls that start with a window have not run.                        *)
LEMMA WindowOnce ==
    ASSUME ConsentBase, TurnInv, OnceInv, OpenWindow
    PROVE  OnceInv'
  <1> DEFINE size == IF Len(run.lane) < config.window THEN Len(run.lane)
                                                      ELSE config.window
             window == SubSeq(run.lane, 1, size)
             rest == SubSeq(run.lane, size + 1, Len(run.lane))
             ids == [k \in DOMAIN window |-> window[k].id]
             tasks == {x.id : x \in Runnable(window)}
             K == {id \in tasks : ~CachedRead(issued[id])}
             starting == KeepIn(ids, K)
  <1>1. /\ phase = "windows" /\ phase' = "windows" /\ turn' = turn
        /\ run' = [run EXCEPT !.window = window, !.lane = rest]
        /\ ran' = ran \o starting
        /\ UNCHANGED <<config, issued>>
    BY DEF OpenWindow, LaneAfter, user
  <1>2. run.lane \in Seq(LaneItems) /\ RunFields
    BY <1>1 DEF TurnInv
  <1>3. size \in 0..Len(run.lane)
    BY <1>2, ConfigAssumption DEF ConsentBase, Configurations
  <1>4. /\ EachCallOnce /\ InOrder(run.lane) /\ Increasing(turn.batch)
        /\ \A x \in ToSet(run.lane) : x.id \in ToSet(turn.batch) \ ToSet(ran)
        /\ \A done \in ToSet(ran) \cap ToSet(turn.batch) : ParallelCall(issued[done])
        /\ InOrder(run.items) /\ \A x \in ToSet(run.items) : x.id \in ToSet(turn.batch)
    BY <1>1 DEF OnceInv, BatchOrder, LaneOnce, ItemsOnce
  <1> HIDE DEF size
  <1>5. /\ InOrder(window) /\ InOrder(rest) /\ window \in Seq(LaneItems)
        /\ ToSet(window) \subseteq ToSet(run.lane) /\ ToSet(rest) \subseteq ToSet(run.lane)
        /\ \A x \in ToSet(window), y \in ToSet(rest) : x.id < y.id
    BY <1>2, <1>3, <1>4, LaneCut
  <1> HIDE DEF window, rest
  <1>6. \A x \in LaneItems : x.id \in Ids /\ ParallelCall(issued[x.id])
    BY DEF LaneItems, FitItems, Items
  <1>7. ids \in Seq(Ids) /\ ids \in Seq(Nat) /\ Increasing(ids)
    <2>1. DOMAIN window = 1..Len(window) /\ Len(window) \in Nat
          /\ \A k \in 1..Len(window) : window[k] \in LaneItems
      BY <1>5
    <2>2. ids \in [1..Len(window) -> Ids] /\ \A k \in 1..Len(window) : ids[k] = window[k].id
      BY <1>6, <2>1
    <2>3. ids \in Seq(Ids) /\ DOMAIN ids = 1..Len(window) /\ Len(ids) = Len(window)
      BY <2>1, <2>2
    <2>4. ids \in Seq(Nat)
      BY <2>3 DEF Ids
    <2>5. Increasing(ids)
      BY <1>5, <2>1, <2>2, <2>3 DEF Increasing, InOrder
    <2> QED
      BY <2>3, <2>4, <2>5
  <1>8. \A id \in K : \E x \in ToSet(window) : x.id = id
    BY DEF Runnable
  <1> HIDE DEF K, ids
  <1>9. starting \in Seq(Ids \cap K)
    BY <1>7, KeepInKeeps
  <1>10. starting \in Seq(Ids) /\ Increasing(starting) /\ ToSet(starting) \subseteq K
    BY <1>7, <1>9, KeepInIncreasing, ToSetIn
  <1> HIDE DEF starting
  <1>11. ASSUME NEW id \in ToSet(starting)
         PROVE  /\ id \notin ToSet(ran) /\ ParallelCall(issued[id])
                /\ \A y \in ToSet(rest) : id < y.id
    <2>1. PICK x \in ToSet(window) : x.id = id
      BY <1>8, <1>10
    <2>2. x \in LaneItems
      BY <1>5, ToSetIn
    <2> QED
      BY <1>4, <1>5, <1>6, <2>1, <2>2
  <1>12. EachCallOnce' /\ ToSet(ran') = ToSet(ran) \cup ToSet(starting)
    <2>1. \A id \in ToSet(starting) : Again(id)
      BY <1>11 DEF Again
    <2> QED
      BY <1>1, <1>4, <1>10, <2>1, RanExtends
  <1>13. run'.lane = rest /\ run'.items = run.items
    BY <1>1, <1>2 DEF RunFields, HasFields
  <1>14. \A x \in ToSet(rest) : x.id \in ToSet(turn.batch) \ ToSet(ran')
    <2>1. ASSUME NEW x \in ToSet(rest) PROVE x.id \notin ToSet(starting)
      <3>1. x \in ToSet(run.lane)
        BY <1>5
      <3>2. x.id \in Nat
        BY <1>2, <1>6, <3>1, ToSetIn DEF Ids
      <3> QED
        BY <1>11, <3>2
    <2> QED
      BY <1>4, <1>5, <1>12, <2>1
  <1>15. \A done \in ToSet(ran') \cap ToSet(turn.batch) : ParallelCall(issued[done])
    BY <1>4, <1>11, <1>12
  <1> QED
    BY <1>1, <1>4, <1>5, <1>12, <1>13, <1>14, <1>15
    DEF OnceInv, BatchOrder, QueueOnce, ResumeOnce, AskOnce, LaneOnce, ItemsOnce

(* Only reads may be asked about again, and only after a question.         *)
LEMMA CollectOnce ==
    ASSUME ConsentBase, TurnInv, OnceInv, CollectWindow
    PROVE  OnceInv'
  <1> DEFINE window == run.window
             I == {k \in 1..Len(window) : window[k].out = "confirm"}
             stop == SelectInSeq(window, LAMBDA x : x.stop)
             ask == SelectInSeq(window, LAMBDA x : x.out = "confirm")
             results == ResultsOf(IF stop = 0 THEN window
                                  ELSE SubSeq(window, 1, stop))
             events == run.events \o results
  <1>1. phase = "windows" /\ UNCHANGED <<config, issued, ran>>
    BY DEF CollectWindow, world, user
  <1>2. /\ window \in Seq(LaneItems) /\ RunFields /\ TurnFields
        /\ run.events \in Seq(EventRecords) /\ turn.batch \in Seq(Ids)
        /\ LastResponse(run.events, turn.batch)
    BY <1>1 DEF TurnInv
  <1>3. EachCallOnce'
    BY <1>1, NothingRan DEF OnceInv
  <1>4. \/ EndWithNotice(events, "invalid_tool_call")
        \/ /\ stop = 0
           /\ ask # 0
           /\ AskUser(events, window[ask].id, turn.questions)
        \/ /\ \E e, x : run' = [run EXCEPT !.events = e, !.executed = x,
                                           !.window = <<>>]
           /\ UNCHANGED <<phase, turn>>
    BY DEF CollectWindow
  <1>5. CASE EndWithNotice(events, "invalid_tool_call")
    BY <1>3, <1>5, OnceOver DEF EndWithNotice, FinishTurn
  <1>6. ASSUME stop = 0, ask # 0, AskUser(events, window[ask].id, turn.questions)
        PROVE  OnceInv'
    <2>1. ask \in 1..Len(window) /\ window[ask].out = "confirm"
      <3>1. ask = IF I = {} THEN 0 ELSE Min(I)
        BY DEF SelectInSeq
      <3>2. ASSUME I # {} PROVE Min(I) \in I
        <4>1. I \in SUBSET Nat
          BY <1>2
        <4> QED
          BY <3>2, <4>1, MinIn
      <3> QED
        BY <1>6, <3>1, <3>2
    <2>2. results = ResultsOf(window) /\ window[ask] \in LaneItems
      BY <1>2, <1>6, <2>1
    <2> HIDE DEF ask
    <2>3. RunsAhead
      BY <2>1, <2>2 DEF LaneItems, FitItems, Asking
    <2> DEFINE id == window[ask].id
    <2>4. AskUser(events, id, turn.questions)
      BY <1>6
    <2> HIDE DEF window, stop, results, id
    <2>5. /\ results \in Seq(EventRecords)
          /\ \A k \in 1..Len(results) : results[k].kind # "response"
      BY <1>2, <2>2, ResultsCollected
    <2>6. Len(events) \in Nat
      BY <1>2, <2>5
    <2>7. LastResponse(events, turn.batch)
      BY <1>2, <2>5, ResponseStays
    <2>8. \A b \in ToSet(turn.batch) : b >= id => Again(b)
      BY <1>1, <2>3 DEF OnceInv, LaneOnce, Again, ParallelCall
    <2>9. EachCallOnce /\ Increasing(turn.batch)
      BY <1>1 DEF OnceInv, BatchOrder
    <2> HIDE DEF events
    <2> QED
      BY <1>1, <1>2, <2>4, <2>6, <2>7, <2>8, <2>9, AsksOnce
  <1>7. ASSUME \E e, x : run' = [run EXCEPT !.events = e, !.executed = x, !.window = <<>>],
               UNCHANGED <<phase, turn>>
        PROVE  OnceInv'
    <2>1. run'.lane = run.lane /\ run'.items = run.items
      BY <1>2, <1>7 DEF RunFields, HasFields
    <2> QED
      BY <1>1, <1>3, <1>7, <2>1
      DEF OnceInv, BatchOrder, QueueOnce, ResumeOnce, AskOnce, LaneOnce, ItemsOnce
  <1> QED
    BY <1>4, <1>5, <1>6, <1>7

(* After the windows the items kept apart come in their order.             *)
LEMMA ItemsStepOnce ==
    ASSUME ConsentBase, TurnInv, OnceInv,
           ItemAnswered \/ ItemAsks \/ ItemExecutes \/ ItemRaises \/ ItemsDone
    PROVE  OnceInv'
  <1>1. /\ phase = "items" /\ RunFields /\ TurnFields
        /\ run.events \in Seq(EventRecords) /\ Len(run.events) \in Nat
        /\ turn.batch \in Seq(Ids) /\ LastResponse(run.events, turn.batch)
        /\ run.items \in Seq(SideItems)
    BY DEF TurnInv, ItemAnswered, ItemAsks, ItemExecutes, ItemRaises, ItemsDone, InItems
  <1>2. /\ EachCallOnce /\ Increasing(turn.batch) /\ InOrder(run.items)
        /\ \A x \in ToSet(run.items) : x.id \in ToSet(turn.batch)
        /\ \A x \in ToSet(run.items), done \in ToSet(ran) \cap ToSet(turn.batch) :
              ParallelCall(issued[done]) \/ done < x.id
    BY <1>1 DEF OnceInv, BatchOrder, ItemsOnce
  <1>3. ASSUME run.items # <<>>
        PROVE  /\ Item \in SideItems /\ Item \in ToSet(run.items)
               /\ InOrder(Tail(run.items))
               /\ \A x \in ToSet(Tail(run.items)) : x \in ToSet(run.items) /\ Item.id < x.id
    <2>1. Item \in SideItems
      BY <1>1, <1>3 DEF Item
    <2> QED
      BY <1>1, <1>2, <1>3, <2>1, InOrderTail DEF Item
  <1>4. ASSUME run.items # <<>>, run' = ItemProcessed,
               UNCHANGED <<config, issued, turn, phase>>,
               EachCallOnce', ToSet(ran') \subseteq ToSet(ran) \cup {Item.id}
        PROVE  OnceInv'
    <2> DEFINE e == Append(run.events, Result(Item.id, Item.out))
               t == Tail(run.items)
    <2>1. \E x : run' = [run EXCEPT !.events = e, !.items = t, !.executed = x]
      BY <1>4 DEF ItemProcessed
    <2> HIDE DEF e, t
    <2>2. run'.items = t
      BY <1>1, <2>1 DEF RunFields, HasFields
    <2>3. \A x \in ToSet(t), done \in ToSet(ran') \cap ToSet(turn.batch) :
             ParallelCall(issued[done]) \/ done < x.id
      BY <1>2, <1>3, <1>4 DEF t
    <2>4. InOrder(t) /\ \A x \in ToSet(t) : x.id \in ToSet(turn.batch)
      BY <1>2, <1>3, <1>4 DEF t
    <2> QED
      BY <1>1, <1>2, <1>4, <2>2, <2>3, <2>4
      DEF OnceInv, BatchOrder, QueueOnce, ResumeOnce, AskOnce, LaneOnce, ItemsOnce
  <1>5. CASE ItemAnswered
    <2>1. UNCHANGED <<config, issued, ran>> /\ run.items # <<>>
      BY <1>5 DEF ItemAnswered, InItems, world, user
    <2>2. EachCallOnce'
      BY <1>2, <2>1, NothingRan
    <2>3. CASE Item.stop
      BY <1>5, <2>2, <2>3, OnceOver DEF ItemAnswered, EndWithNotice, FinishTurn
    <2>4. CASE ~Item.stop
      BY <1>4, <1>5, <2>1, <2>2, <2>4 DEF ItemAnswered
    <2> QED
      BY <2>3, <2>4
  <1>6. CASE ItemAsks
    <2>1. UNCHANGED <<config, issued, ran>> /\ run.items # <<>> /\ Item.out \in Asking
          /\ AskUser(run.events, Item.id, turn.questions)
      BY <1>6 DEF ItemAsks, InItems, world, user
    <2>2. RunsAhead
      BY <1>3, <2>1 DEF SideItems, FitItems
    <2>3. Item.id \in Nat
      BY <1>3, <2>1 DEF SideItems, FitItems, Items, Ids
    <2>4. ASSUME NEW b \in ToSet(turn.batch), b >= Item.id PROVE Again(b)
      <3>1. b \in Nat
        BY <1>1, ToSetIn DEF Ids
      <3>2. ~(b < Item.id)
        BY <2>3, <2>4, <3>1
      <3>3. b \in ToSet(ran) => ParallelCall(issued[b])
        BY <1>2, <1>3, <2>1, <3>2
      <3> QED
        BY <2>2, <3>3 DEF Again, ParallelCall
    <2> QED
      BY <1>1, <1>2, <2>1, <2>4, AsksOnce
  <1>7. ASSUME run.items # <<>>, ExecuteTool(Item.id) \/ ToolInterrupted(Item.id),
               UNCHANGED <<config, issued>>
        PROVE  EachCallOnce' /\ ToSet(ran') \subseteq ToSet(ran) \cup {Item.id}
    BY <1>1, <1>2, <1>7, NextMayRun, OneRan DEF InItems
  <1>8. CASE ItemExecutes
    <2>1. /\ UNCHANGED <<config, issued, turn, phase>> /\ run.items # <<>>
          /\ run' = ItemProcessed /\ ExecuteTool(Item.id)
      BY <1>8 DEF ItemExecutes, InItems, user
    <2> QED
      BY <1>4, <1>7, <2>1
  <1>9. CASE ItemRaises
    <2>1. UNCHANGED <<config, issued>> /\ run.items # <<>> /\ ToolInterrupted(Item.id)
          /\ phase' = "idle"
      BY <1>9 DEF ItemRaises, ToolInterrupted, FinishTurn, InItems, user
    <2> QED
      BY <1>7, <2>1, OnceOver
  <1>10. CASE ItemsDone
    BY <1>2, <1>10, NothingRan, OnceOver
    DEF ItemsDone, EndWithNotice, FinishTurn, world, user
  <1> QED
    BY <1>5, <1>6, <1>8, <1>9, <1>10

(* A step that executes nothing and leaves the turn where it is.           *)
LEMMA QuietOnce ==
    ASSUME OnceInv, UNCHANGED <<config, issued, ran, phase, turn, run>>
    PROVE  OnceInv'
  <1>1. EachCallOnce' /\ \A id : Again(id)' = Again(id)
    BY NothingRan DEF OnceInv
  <1> QED
    BY <1>1
    DEF OnceInv, BatchOrder, QueueOnce, ResumeOnce, AskOnce, LaneOnce, ItemsOnce

(* All of the parallel-first scheduler.                                    *)
LEMMA ParallelStepOnce ==
    ASSUME ConsentBase, TurnInv, OnceInv, ParallelStep
    PROVE  OnceInv'
  <1>1. CASE WindowsDone
    <2>1. UNCHANGED <<config, issued, ran, turn, run>> /\ phase = "windows"
          /\ phase' = "items"
      BY <1>1 DEF WindowsDone, world, user
    <2>2. EachCallOnce'
      BY <2>1, NothingRan DEF OnceInv
    <2> QED
      BY <2>1, <2>2
      DEF OnceInv, BatchOrder, QueueOnce, ResumeOnce, AskOnce, LaneOnce, ItemsOnce
  <1>2. ASSUME NEW id, TaskFinishes(id) \/ TaskRaises(id) PROVE OnceInv'
    <2>1. UNCHANGED <<config, issued, ran>>
      BY <1>2 DEF TaskFinishes, TaskRaises, user
    <2>2. CASE FinishTurn(Append(run.events, Error), "failed")
      BY <2>1, <2>2, NothingRan, OnceOver DEF FinishTurn, OnceInv
    <2>3. CASE UNCHANGED <<phase, turn, run>>
      BY <2>1, <2>3, QuietOnce
    <2> QED
      BY <1>2, <2>2, <2>3 DEF TaskFinishes, TaskRaises
  <1> QED
    BY <1>1, <1>2, PrepareOnce, WindowOnce, CollectOnce, ItemsStepOnce DEF ParallelStep

(* Every step executes only what may be executed.                          *)
LEMMA OnceStep ==
    ASSUME ConsentBase, TurnInv, OnceInv, [Next]_vars
    PROVE  OnceInv'
  <1>1. CASE \E continue \in BOOLEAN : UserMessage(continue)
    BY <1>1, UserMessageOnce
  <1>2. CASE TurnStep
    BY <1>2, ModelStepOnce, SequentialStepOnce, ResumeStepOnce, ParallelStepOnce,
       UserAnswerOnce
    DEF TurnStep
  <1>3. CASE Abort
    BY <1>3, AbortOnce
  <1>4. CASE UNCHANGED vars
    BY <1>4, QuietOnce DEF vars, world, user
  <1> QED
    BY <1>1, <1>2, <1>3, <1>4 DEF Next

(* However often a turn is interrupted for consent and resumed, a call of  *)
(* the model is executed once; only a read that ran ahead of a question    *)
(* may be repeated.                                                        *)
THEOREM CallsRunOnce == Spec => []EachCallOnce
  <1>1. Init => ConsentBase /\ TurnInv /\ OnceInv
    <2>1. Init => ran = <<>> /\ phase = "idle"
      BY DEF Init
    <2>2. Init => OnceInv
      BY <2>1
      DEF OnceInv, EachCallOnce, BatchOrder, QueueOnce, ResumeOnce, AskOnce, LaneOnce,
          ItemsOnce
    <2> QED
      BY <2>2, ConsentInit
  <1>2. ConsentBase /\ TurnInv /\ OnceInv /\ [Next]_vars
        => (ConsentBase /\ TurnInv /\ OnceInv)'
    BY ConsentStep, LedgerStep, BaseKept, OnceStep
  <1>3. OnceInv => EachCallOnce
    BY DEF OnceInv
  <1> QED
    BY <1>1, <1>2, <1>3, PTL DEF Spec

-----------------------------------------------------------------------------
(* The usage of a response is counted once.  What a run reports is new to  *)
(* what is committed, and a response that is committed in parts carries    *)
(* its usage with the first of them: the calls of every part belong to it. *)

\* Each usage is reported for some of the first n calls,
Bounded(s, n) == \A k \in 1..Len(s) : ToSet(s[k].usage) \subseteq 1..n

\* no two events report the same,
Distinct(s) ==
    \A j, k \in 1..Len(s) : j # k /\ s[j].usage # <<>> => s[j].usage # s[k].usage

\* and the events t report none that s reported.
Apart(s, t) ==
    \A j \in 1..Len(s), k \in 1..Len(t) : s[j].usage # <<>> => s[j].usage # t[k].usage

\* The calls of a response come with their usage, or after it.
Accounted(s) ==
    \A j \in 1..Len(s) : s[j].calls # <<>> =>
        \E k \in 1..j : Head(s[j].calls) \in ToSet(s[k].usage)

CountedOnce(s, n) ==
    s \in Seq(EventRecords) /\ Bounded(s, n) /\ Distinct(s) /\ Accounted(s)

\* Events that may be committed after s.
Follows(s, t, n) ==
    /\ t \in Seq(EventRecords) /\ Bounded(t, n) /\ Distinct(t) /\ Apart(s, t)
    /\ \A j \in 1..Len(t) : t[j].calls # <<>> =>
          \/ Head(t[j].calls) \in ToSet(t[j].usage)
          \/ \E k \in 1..Len(s) : Head(t[j].calls) \in ToSet(s[k].usage)

\* The events of a run as the model and the tools leave them.
Raw(s, n) ==
    Bounded(s, n) /\ Distinct(s) /\ \A k \in 1..Len(s) : s[k].calls = s[k].usage

\* Events without calls and without usage.
Bare(s) == \A k \in 1..Len(s) : s[k].calls = <<>> /\ s[k].usage = <<>>

(* Where the elements of two joined sequences come from.                   *)
LEMMA JoinedFrom ==
    ASSUME NEW S, NEW s \in Seq(S), NEW t \in Seq(S), NEW k \in 1..Len(s \o t)
    PROVE  \/ k \in 1..Len(s) /\ (s \o t)[k] = s[k]
           \/ \E l \in 1..Len(t) : k = Len(s) + l /\ (s \o t)[k] = t[l]
  <1> DEFINE l == k - Len(s)
  <1>1. Len(s) \in Nat /\ Len(t) \in Nat
    OBVIOUS
  <1>2. CASE k <= Len(s)
    BY <1>1, <1>2, Concatenated
  <1>3. CASE k > Len(s)
    <2>1. l \in 1..Len(t) /\ (s \o t)[k] = t[l]
      BY <1>3, Concatenated
    <2>2. k = Len(s) + l
      BY <1>1
    <2> HIDE DEF l
    <2> QED
      BY <2>1, <2>2
  <1> QED
    BY <1>1, <1>2, <1>3, Concatenated

(* Events that follow the committed ones are counted with them.            *)
LEMMA JoinCounted ==
    ASSUME NEW n, NEW s, NEW t, CountedOnce(s, n), Follows(s, t, n)
    PROVE  CountedOnce(s \o t, n)
  <1> DEFINE all == s \o t
  <1>1. s \in Seq(EventRecords) /\ t \in Seq(EventRecords)
    BY DEF CountedOnce, Follows
  <1>2. /\ all \in Seq(EventRecords)
        /\ Len(all) = Len(s) + Len(t) /\ Len(s) \in Nat /\ Len(t) \in Nat
        /\ \A k \in 1..Len(s) : all[k] = s[k]
    BY <1>1, Concatenated
  <1>3. ASSUME NEW k \in 1..Len(all)
        PROVE  \/ k \in 1..Len(s) /\ all[k] = s[k]
               \/ \E l \in 1..Len(t) : k = Len(s) + l /\ all[k] = t[l]
    BY <1>1, JoinedFrom
  <1> HIDE DEF all
  <1>4. Bounded(all, n)
    BY <1>3 DEF CountedOnce, Follows, Bounded
  <1>5. ASSUME NEW j \in 1..Len(all), NEW k \in 1..Len(all), j # k, all[j].usage # <<>>
        PROVE  all[j].usage # all[k].usage
    <2>1. CASE j \in 1..Len(s) /\ all[j] = s[j]
      <3>1. CASE k \in 1..Len(s) /\ all[k] = s[k]
        BY <1>5, <2>1, <3>1 DEF CountedOnce, Distinct
      <3>2. ASSUME NEW m \in 1..Len(t), all[k] = t[m] PROVE all[j].usage # all[k].usage
        BY <1>5, <2>1, <3>2 DEF Follows, Apart
      <3> QED
        BY <1>3, <3>1, <3>2
    <2>2. ASSUME NEW l \in 1..Len(t), j = Len(s) + l, all[j] = t[l]
          PROVE  all[j].usage # all[k].usage
      <3>1. CASE k \in 1..Len(s) /\ all[k] = s[k]
        BY <1>5, <2>2, <3>1 DEF Follows, Apart
      <3>2. ASSUME NEW m \in 1..Len(t), k = Len(s) + m, all[k] = t[m]
            PROVE  all[j].usage # all[k].usage
        BY <1>5, <2>2, <3>2 DEF Follows, Distinct
      <3> QED
        BY <1>3, <3>1, <3>2
    <2> QED
      BY <1>3, <2>1, <2>2
  <1>6. ASSUME NEW j \in 1..Len(all), all[j].calls # <<>>
        PROVE  \E k \in 1..j : Head(all[j].calls) \in ToSet(all[k].usage)
    <2>1. CASE j \in 1..Len(s) /\ all[j] = s[j]
      <3>1. PICK k \in 1..j : Head(s[j].calls) \in ToSet(s[k].usage)
        BY <1>6, <2>1 DEF CountedOnce, Accounted
      <3>2. all[k] = s[k]
        BY <1>2, <2>1
      <3> QED
        BY <2>1, <3>1, <3>2
    <2>2. ASSUME NEW l \in 1..Len(t), j = Len(s) + l, all[j] = t[l]
          PROVE  \E k \in 1..j : Head(all[j].calls) \in ToSet(all[k].usage)
      <3>1. CASE Head(t[l].calls) \in ToSet(t[l].usage)
        <4>1. j \in 1..j
          BY <1>2
        <4> QED
          BY <2>2, <3>1, <4>1
      <3>2. ASSUME NEW k \in 1..Len(s), Head(t[l].calls) \in ToSet(s[k].usage)
            PROVE  \E i \in 1..j : Head(all[j].calls) \in ToSet(all[i].usage)
        <4>1. k \in 1..j /\ all[k] = s[k]
          BY <1>2, <2>2
        <4> QED
          BY <2>2, <3>2, <4>1
      <3> QED
        BY <1>6, <2>2, <3>1, <3>2 DEF Follows
    <2> QED
      BY <1>3, <2>1, <2>2
  <1> QED
    BY <1>2, <1>4, <1>5, <1>6 DEF CountedOnce, Distinct, Accounted, all

(* Choosing among events leaves the reported usages different.             *)
LEMMA KeepInDistinct ==
    ASSUME NEW s \in Seq(EventRecords), Distinct(s), NEW K
    PROVE  Distinct(KeepIn(s, K))
  <1> DEFINE N == Len(s)
             Upto(t, m) == \A x \in 1..Len(t) : \E y \in 1..m : t[x] = s[y]
  <1>1. PICK f \in [0..N -> Seq(EventRecords \cap K)] : Keeps(f, s, K)
    BY KeepInSteps
  <1>2. N \in Nat /\ \A m \in 0..N : f[m] \in Seq(EventRecords)
    OBVIOUS
  <1> DEFINE G == {m \in 0..N : Distinct(f[m]) /\ Upto(f[m], m)}
  <1>3. 0 \in G
    <2>1. f[0] = <<>> /\ 0 \in 0..N
      BY <1>1, <1>2 DEF Keeps
    <2> QED
      BY <2>1 DEF Distinct
  <1>4. ASSUME NEW m \in 1..N, m - 1 \in G PROVE m \in G
    <2> DEFINE t == f[m - 1]
    <2>1. m \in 0..N /\ m - 1 \in 0..N /\ t \in Seq(EventRecords) /\ Distinct(t)
          /\ Upto(t, m - 1)
      BY <1>2, <1>4
    <2>2. f[m] = IF s[m] \in K THEN Append(t, s[m]) ELSE t
      BY <1>1 DEF Keeps
    <2> DEFINE e == s[m]
    <2>3. e \in EventRecords
      OBVIOUS
    <2>4. ASSUME NEW x \in 1..Len(t)
          PROVE  /\ e.usage # <<>> => e.usage # t[x].usage
                 /\ t[x].usage # <<>> => t[x].usage # e.usage
      <3>1. PICK y \in 1..(m - 1) : t[x] = s[y]
        BY <2>1
      <3>2. y \in 1..Len(s) /\ m \in 1..Len(s) /\ y # m
        BY <1>2, <3>1
      <3> QED
        BY <3>1, <3>2 DEF Distinct
    <2> HIDE DEF t, N, e
    <2>5. Upto(t, m)
      BY <2>1
    <2>6. Distinct(Append(t, e)) /\ Upto(Append(t, e), m)
      <3> DEFINE u == Append(t, e)
      <3>1. Len(t) \in Nat /\ Len(u) = Len(t) + 1 /\ u[Len(t) + 1] = e
            /\ \A x \in 1..Len(t) : u[x] = t[x]
        BY <2>1, <2>3
      <3>2. \A x \in 1..Len(u) : x \in 1..Len(t) \/ x = Len(t) + 1
        BY <3>1
      <3> HIDE DEF u
      <3>3. ASSUME NEW x \in 1..Len(u), NEW y \in 1..Len(u), x # y, u[x].usage # <<>>
            PROVE  u[x].usage # u[y].usage
        <4>1. CASE x \in 1..Len(t) /\ y \in 1..Len(t)
          BY <2>1, <3>1, <3>3, <4>1 DEF Distinct
        <4>2. CASE x \in 1..Len(t) /\ y = Len(t) + 1
          BY <2>4, <3>1, <3>3, <4>2
        <4>3. CASE x = Len(t) + 1 /\ y \in 1..Len(t)
          BY <2>4, <3>1, <3>3, <4>3
        <4> QED
          BY <3>2, <3>3, <4>1, <4>2, <4>3
      <3>4. ASSUME NEW x \in 1..Len(u) PROVE \E y \in 1..m : u[x] = s[y]
        <4>1. m \in 1..m /\ e = s[m]
          BY <1>2 DEF e
        <4> QED
          BY <2>5, <3>1, <3>2, <4>1
      <3> QED
        BY <3>3, <3>4 DEF u, Distinct
    <2>7. f[m] = IF e \in K THEN Append(t, e) ELSE t
      BY <2>2 DEF e
    <2>8. CASE e \in K
      BY <2>1, <2>6, <2>7, <2>8
    <2>9. CASE e \notin K
      BY <2>1, <2>5, <2>7, <2>9
    <2> QED
      BY <2>8, <2>9
  <1> HIDE DEF G, N
  <1>5. 0..N \subseteq G
    BY <1>2, <1>3, <1>4, Climb
  <1>6. N \in G
    BY <1>2, <1>5
  <1>7. Distinct(f[N])
    BY <1>6 DEF G
  <1> QED
    BY <1>1, <1>7 DEF Keeps, N

(* A sequence is one of its elements.                                      *)
LEMMA OwnElements ==
    ASSUME NEW S, NEW s \in Seq(S)
    PROVE  s \in Seq(ToSet(s))
  <1>1. s \in [1..Len(s) -> S] /\ Len(s) \in Nat /\ DOMAIN s = 1..Len(s)
    OBVIOUS
  <1>2. s \in [1..Len(s) -> ToSet(s)]
    BY <1>1 DEF ToSet
  <1> QED
    BY <1>1, <1>2

\* h[k] is the event e of the run, narrowed to the calls that are done.
Narrows(h, e, done) ==
    h.usage = e.usage /\ h.kind = e.kind /\ h.id = e.id /\ h.calls = KeepIn(e.calls, done)

(* The completed part of a run: its events, narrowed.                      *)
LEMMA SafeEvents ==
    ASSUME NEW events \in Seq(EventRecords)
    PROVE  /\ HistorySafe(events) \in Seq(EventRecords)
           /\ \A k \in 1..Len(HistorySafe(events)) : \E j \in 1..Len(events) :
                 Narrows(HistorySafe(events)[k], events[j], ResultIds(events))
           /\ Distinct(events) => Distinct(HistorySafe(events))
  <1> DEFINE done == ResultIds(events)
             Narrow(e) == [e EXCEPT !.calls = KeepIn(@, done)]
             Dropped(e) == /\ e.kind = "response"
                           /\ e.calls # <<>>
                           /\ Narrow(e).calls = <<>>
             K == {e \in ToSet(events) : ~Dropped(e)}
             kept == KeepIn(events, K)
             h == HistorySafe(events)
             all == [i \in DOMAIN kept |-> Narrow(kept[i])]
  <1>1. h = IF done = {} THEN <<>> ELSE all
    BY DEF HistorySafe
  <1>2. ASSUME NEW e \in EventRecords
        PROVE  Narrow(e) \in EventRecords /\ Narrows(Narrow(e), e, done)
    <2>1. e.calls \in Seq(Nat)
      BY DEF EventRecords
    <2> DEFINE c == KeepIn(e.calls, done)
    <2>2. c \in Seq(Nat)
      BY <2>1, KeepInIn
    <2> HIDE DEF c, done
    <2>3. Narrow(e) = [e EXCEPT !.calls = c]
      BY DEF c
    <2> DEFINE x == Narrow(e)
    <2> HIDE DEF x
    <2>4. x \in EventRecords /\ x.usage = e.usage /\ x.kind = e.kind /\ x.id = e.id
          /\ x.calls = c
      BY <2>2, <2>3 DEF EventRecords, x
    <2> QED
      BY <2>4 DEF Narrows, x, c
  <1>3. kept \in Seq(EventRecords)
    BY KeepInIn
  <1>4. events \in Seq(ToSet(events))
    BY OwnElements
  <1>5. kept \in Seq(ToSet(events))
    BY <1>4, KeepInIn
  <1>6. Distinct(events) => Distinct(kept)
    BY KeepInDistinct
  <1> HIDE DEF K, kept, Narrow, h
  <1>7. all \in Seq(EventRecords) /\ Len(all) = Len(kept)
        /\ \A k \in 1..Len(all) : kept[k] \in EventRecords /\ all[k] = Narrow(kept[k])
                                  /\ kept[k] \in ToSet(events)
    BY <1>2, <1>3, <1>5
  <1> HIDE DEF all
  <1>8. ASSUME NEW k \in 1..Len(all)
        PROVE  \E j \in 1..Len(events) : Narrows(all[k], events[j], done)
    <2>1. PICK j \in 1..Len(events) : kept[k] = events[j]
      BY <1>7 DEF ToSet
    <2> QED
      BY <1>2, <1>7, <2>1
  <1>9. Distinct(kept) => Distinct(all)
    <2>1. \A k \in 1..Len(all) : all[k].usage = kept[k].usage
      BY <1>2, <1>7 DEF Narrows
    <2> QED
      BY <1>7, <2>1 DEF Distinct
  <1>10. CASE done = {}
    BY <1>1, <1>10 DEF h, Distinct
  <1>11. CASE done # {}
    BY <1>1, <1>6, <1>7, <1>8, <1>9, <1>11 DEF h
  <1> QED
    BY <1>10, <1>11

(* Bare events after others,                                               *)
LEMMA JoinedBare ==
    ASSUME NEW s \in Seq(EventRecords), NEW t \in Seq(EventRecords), Bare(t)
    PROVE  \A k \in 1..Len(s \o t) :
              \/ k \in 1..Len(s) /\ (s \o t)[k] = s[k]
              \/ (s \o t)[k].calls = <<>> /\ (s \o t)[k].usage = <<>>
  BY JoinedFrom DEF Bare

(* or after one.                                                           *)
LEMMA OneBefore ==
    ASSUME NEW r \in EventRecords, NEW bare \in Seq(EventRecords), Bare(bare)
    PROVE  /\ <<r>> \o bare \in Seq(EventRecords)
           /\ \A k \in 1..Len(<<r>> \o bare) :
                 \/ k = 1 /\ (<<r>> \o bare)[k] = r
                 \/ (<<r>> \o bare)[k].calls = <<>> /\ (<<r>> \o bare)[k].usage = <<>>
  <1> DEFINE one == <<r>>
             t == one \o bare
  <1>1. one \in Seq(EventRecords) /\ Len(one) = 1 /\ one[1] = r
    OBVIOUS
  <1> HIDE DEF one
  <1>2. t \in Seq(EventRecords)
    BY <1>1, Concatenated
  <1>3. \A k \in 1..Len(t) : \/ k \in 1..Len(one) /\ t[k] = one[k]
                             \/ t[k].calls = <<>> /\ t[k].usage = <<>>
    BY <1>1, JoinedBare
  <1> HIDE DEF t
  <1>4. \A k \in 1..Len(t) : \/ k = 1 /\ t[k] = r
                             \/ t[k].calls = <<>> /\ t[k].usage = <<>>
    BY <1>1, <1>3
  <1> QED
    BY <1>2, <1>4 DEF one, t

(* The last response, narrowed to calls of its batch and reported with the *)
(* usage unless that was committed before, and results after it.           *)
LEMMA ResponseCounted ==
    ASSUME CountedOnce(turn.committed, Len(issued)), turn.batch \in Seq(Ids),
           NEW calls \in Seq(Nat), calls # <<>>, ToSet(calls) \subseteq ToSet(turn.batch),
           NEW bare \in Seq(EventRecords), Bare(bare)
    PROVE  CountedOnce(turn.committed \o (<<ResponseFor(calls)>> \o bare), Len(issued))
  <1> DEFINE s == turn.committed
             n == Len(issued)
             use == IF UsageCommitted THEN <<>> ELSE turn.batch
             r == ResponseFor(calls)
             t == <<r>> \o bare
  <1>1. r = [kind |-> "response", calls |-> calls, usage |-> use, id |-> 0, note |-> ""]
    BY DEF ResponseFor, Response, Event
  <1>2. use \in Seq(Nat) /\ ToSet(use) \subseteq 1..n
    <2>1. turn.batch \in Seq(Nat) /\ ToSet(turn.batch) \subseteq 1..n
      BY ToSetIn DEF Ids
    <2>2. <<>> \in Seq(Nat) /\ ToSet(<<>>) \subseteq 1..n
      BY DEF ToSet
    <2> QED
      BY <2>1, <2>2
  <1>3. \A j \in 1..Len(s) : s[j].usage # <<>> => s[j].usage # use
    <2>1. CASE UsageCommitted
      BY <2>1
    <2>2. CASE ~UsageCommitted
      <3>1. \A j \in 1..Len(s) : s[j] \in ToSet(s)
        BY DEF CountedOnce, ToSet
      <3> QED
        BY <2>2, <3>1 DEF UsageCommitted
    <2> QED
      BY <2>1, <2>2
  <1>4. Head(calls) \in ToSet(calls)
    BY DEF ToSet
  <1>5. \/ Head(calls) \in ToSet(use)
        \/ \E k \in 1..Len(s) : Head(calls) \in ToSet(s[k].usage)
    <2>1. CASE UsageCommitted
      <3>1. PICK e \in ToSet(s) : e.usage = turn.batch
        BY <2>1 DEF UsageCommitted
      <3>2. PICK k \in 1..Len(s) : e = s[k]
        BY <3>1 DEF CountedOnce, ToSet
      <3> QED
        BY <1>4, <3>1, <3>2
    <2>2. CASE ~UsageCommitted
      BY <1>4, <2>2
    <2> QED
      BY <2>1, <2>2
  <1> HIDE DEF use, r
  <1>6. r.calls = calls /\ r.usage = use /\ r \in EventRecords
    <2>1. "" \in EventNotes
      BY DEF EventNotes, Ends
    <2> QED
      BY <1>1, <1>2, <2>1 DEF EventRecords
  <1>7. /\ t \in Seq(EventRecords)
        /\ \A k \in 1..Len(t) : t[k] = r \/ (t[k].calls = <<>> /\ t[k].usage = <<>>)
        /\ \A j \in 1..Len(t) : t[j] = r => j = 1 \/ use = <<>>
    <2>1. /\ t \in Seq(EventRecords)
          /\ \A k \in 1..Len(t) : \/ k = 1 /\ t[k] = r
                                  \/ t[k].calls = <<>> /\ t[k].usage = <<>>
      BY <1>6, OneBefore
    <2> HIDE DEF t
    <2>2. ASSUME NEW j \in 1..Len(t), t[j] = r PROVE j = 1 \/ use = <<>>
      <3>1. r.usage = use
        BY <1>6
      <3> QED
        BY <2>1, <2>2, <3>1
    <2>3. \A k \in 1..Len(t) : t[k] = r \/ (t[k].calls = <<>> /\ t[k].usage = <<>>)
      BY <2>1
    <2> QED
      BY <2>1, <2>2, <2>3
  <1> HIDE DEF t
  <1>8. Follows(s, t, n)
    <2>1. Bounded(t, n)
      <3>1. ToSet(<<>>) \subseteq 1..n
        BY DEF ToSet
      <3> QED
        BY <1>2, <1>6, <1>7, <3>1 DEF Bounded
    <2>2. Distinct(t)
      BY <1>6, <1>7 DEF Distinct
    <2>3. Apart(s, t)
      BY <1>3, <1>6, <1>7 DEF Apart
    <2>4. \A j \in 1..Len(t) : t[j].calls # <<>> =>
              \/ Head(t[j].calls) \in ToSet(t[j].usage)
              \/ \E k \in 1..Len(s) : Head(t[j].calls) \in ToSet(s[k].usage)
      BY <1>5, <1>6, <1>7
    <2> QED
      BY <1>7, <2>1, <2>2, <2>3, <2>4 DEF Follows
  <1>9. CountedOnce(s \o t, n)
    <2> HIDE DEF n, s
    <2> QED
      BY <1>8, JoinCounted DEF s, n
  <1> QED
    BY <1>9 DEF t, r

(* The completed part of a run may be committed.                           *)
LEMMA SafeFollows ==
    ASSUME NEW s, NEW n, NEW events \in Seq(EventRecords), Raw(events, n),
           Apart(s, events)
    PROVE  Follows(s, HistorySafe(events), n)
  <1> DEFINE h == HistorySafe(events)
             done == ResultIds(events)
  <1>1. /\ h \in Seq(EventRecords) /\ Distinct(h)
        /\ \A k \in 1..Len(h) : \E j \in 1..Len(events) : Narrows(h[k], events[j], done)
    BY SafeEvents DEF Raw
  <1> HIDE DEF h, done
  <1>2. ASSUME NEW k \in 1..Len(h)
        PROVE  /\ ToSet(h[k].usage) \subseteq 1..n
               /\ \A i \in 1..Len(s) : s[i].usage # <<>> => s[i].usage # h[k].usage
               /\ h[k].calls # <<>> => Head(h[k].calls) \in ToSet(h[k].usage)
    <2>1. PICK j \in 1..Len(events) : Narrows(h[k], events[j], done)
      BY <1>1
    <2>2. h[k].usage = events[j].usage /\ h[k].calls = KeepIn(events[j].calls, done)
      BY <2>1 DEF Narrows
    <2>3. events[j].calls = events[j].usage /\ ToSet(events[j].usage) \subseteq 1..n
      BY DEF Raw, Bounded
    <2>4. events[j].calls \in Seq(Nat)
      <3>1. events[j] \in EventRecords
        OBVIOUS
      <3> QED
        BY <3>1 DEF EventRecords
    <2>5. ASSUME h[k].calls # <<>> PROVE Head(h[k].calls) \in ToSet(h[k].usage)
      <3> DEFINE c == events[j].calls
      <3>1. c \in Seq(ToSet(c))
        BY <2>4, OwnElements
      <3> HIDE DEF c
      <3>2. KeepIn(c, done) \in Seq(ToSet(c))
        BY <3>1, KeepInIn
      <3>3. h[k].calls \in Seq(ToSet(c)) /\ c = h[k].usage
        BY <2>2, <2>3, <3>2 DEF c
      <3> QED
        BY <2>5, <3>3
    <2> QED
      BY <2>2, <2>3, <2>5 DEF Apart
  <1> QED
    BY <1>1, <1>2 DEF Follows, Bounded, Apart, h

(* The completed part of bare events is bare.                              *)
LEMMA SafeBare ==
    ASSUME NEW events \in Seq(EventRecords), Bare(events)
    PROVE  Bare(HistorySafe(events))
  <1> DEFINE h == HistorySafe(events)
             done == ResultIds(events)
  <1>1. \A k \in 1..Len(h) : \E j \in 1..Len(events) : Narrows(h[k], events[j], done)
    BY SafeEvents
  <1> HIDE DEF h, done
  <1>2. KeepIn(<<>>, done) = <<>>
    <2>1. <<>> \in Seq({})
      OBVIOUS
    <2>2. KeepIn(<<>>, done) \in Seq({})
      BY <2>1, KeepInIn
    <2>3. \A s \in Seq({}) : s = <<>>
      <3>1. ASSUME NEW s \in Seq({}), s # <<>> PROVE FALSE
        <4>1. Head(s) \in {}
          BY <3>1
        <4> QED
          BY <4>1
      <3> QED
        BY <3>1
    <2> QED
      BY <2>2, <2>3
  <1> QED
    BY <1>1, <1>2 DEF Bare, Narrows, h

(* Bare events do not change what is known of the events of a run.         *)
LEMMA BareJoined ==
    ASSUME NEW n, NEW c, NEW s \in Seq(EventRecords), NEW t \in Seq(EventRecords), Bare(t)
    PROVE  /\ Raw(s, n) => Raw(s \o t, n)
           /\ Apart(c, s) => Apart(c, s \o t)
           /\ Bare(s) => Bare(s \o t)
  <1> DEFINE all == s \o t
  <1>1. \A k \in 1..Len(all) : \/ k \in 1..Len(s) /\ all[k] = s[k]
                               \/ all[k].calls = <<>> /\ all[k].usage = <<>>
    BY JoinedBare
  <1>2. ToSet(<<>>) = {}
    BY DEF ToSet
  <1> HIDE DEF all
  <1>3. Bounded(s, n) => Bounded(all, n)
    BY <1>1, <1>2 DEF Bounded
  <1>4. Distinct(s) => Distinct(all)
    BY <1>1 DEF Distinct
  <1>5. Apart(c, s) => Apart(c, all)
    BY <1>1 DEF Apart
  <1>6. Bare(s) => Bare(all)
    BY <1>1 DEF Bare
  <1>7. Raw(s, n) => Raw(all, n)
    BY <1>1, <1>3, <1>4 DEF Raw
  <1> QED
    BY <1>5, <1>6, <1>7 DEF all

(* A result is bare.                                                       *)
LEMMA BareResult ==
    ASSUME NEW n, NEW c, NEW s \in Seq(EventRecords), NEW id \in Nat, NEW note \in EventNotes
    PROVE  /\ Raw(s, n) => Raw(Append(s, Result(id, note)), n)
           /\ Apart(c, s) => Apart(c, Append(s, Result(id, note)))
           /\ Bare(s) => Bare(Append(s, Result(id, note)))
           /\ Bare(<<Result(id, note)>>) /\ <<Result(id, note)>> \in Seq(EventRecords)
  <1> DEFINE r == Result(id, note)
             t == <<r>>
  <1>1. r.calls = <<>> /\ r.usage = <<>>
    BY DEF Result, Event
  <1>2. r \in EventRecords
    BY ResultEvent
  <1> HIDE DEF r
  <1>3. t \in Seq(EventRecords) /\ Len(t) = 1 /\ t[1] = r /\ s \o t = Append(s, r)
    BY <1>2, OneJoined
  <1> HIDE DEF t
  <1>4. Bare(t)
    BY <1>1, <1>3 DEF Bare
  <1>5. /\ Raw(s, n) => Raw(s \o t, n)
        /\ Apart(c, s) => Apart(c, s \o t)
        /\ Bare(s) => Bare(s \o t)
    BY <1>3, <1>4, BareJoined
  <1> QED
    BY <1>3, <1>4, <1>5 DEF r, t

\* The committed events report each usage once; those of the run come on top.
EventsCounted ==
    /\ CountedOnce(turn.committed, Len(issued))
    /\ Raw(run.events, Len(issued))
    /\ Apart(turn.committed, run.events)

\* What is asked about or resumed belongs to the last response, and resumed
\* calls only add results.
OfBatch ==
    /\ phase \in {"asking", "resume"} =>
          turn.batch \in Seq(Ids) /\ ToSet(turn.pending) \subseteq ToSet(turn.batch)
    /\ phase \in {"calls", "resume"} => ToSet(run.queue) \subseteq ToSet(turn.batch)
    /\ phase = "asking" /\ Question => turn.asked \in ToSet(turn.batch)
    /\ phase = "resume" => Bare(run.events)

UsageInv == EventsCounted /\ OfBatch

(* No events.                                                              *)
LEMMA NoEvents ==
    ASSUME NEW n, NEW s, NEW t, t = <<>>
    PROVE  Raw(t, n) /\ Apart(s, t) /\ Bare(t) /\ CountedOnce(<<>>, n)
  <1>1. Len(t) = 0 /\ <<>> \in Seq(EventRecords) /\ Len(<<>>) = 0
    OBVIOUS
  <1> QED
    BY <1>1 DEF Raw, Bounded, Distinct, Apart, Bare, CountedOnce, Accounted

(* A run that begins has no events,                                        *)
LEMMA UsageKept ==
    ASSUME CountedOnce(turn'.committed, Len(issued')), run'.events = <<>>,
           phase' \in {"idle", "model"}
    PROVE  UsageInv'
  <1>1. Raw(run'.events, Len(issued')) /\ Apart(turn'.committed, run'.events)
    BY NoEvents
  <1> QED
    BY <1>1 DEF UsageInv, EventsCounted, OfBatch

(* nor has a turn that begins or is over.                                  *)
LEMMA UsageOver ==
    ASSUME NEW start, turn' = FreshTurn(start), run' = FreshRun,
           phase' \in {"idle", "model"}
    PROVE  UsageInv'
  <1>1. turn'.committed = <<>> /\ run'.events = <<>>
    BY DEF FreshTurn, FreshRun
  <1> QED
    BY <1>1, NoEvents, UsageKept

(* In particular after its end.                                            *)
LEMMA UsageEnds ==
    ASSUME NEW events, NEW status,
           FinishTurn(events, status) \/ EndWithNotice(events, status) \/ ForgetTurn(status)
    PROVE  UsageInv'
  BY UsageOver DEF FinishTurn, EndWithNotice, ForgetTurn

(* Committing leaves the rest of the turn.                                 *)
LEMMA CommittedMore ==
    ASSUME TurnFields, NEW events
    PROVE  /\ HasFields(Committed(events), TurnNames)
           /\ Committed(events).committed = turn.committed \o events
           /\ Committed(events).batch = turn.batch
           /\ Committed(events).pending = turn.pending
  <1> DEFINE w == ApplyEvents(turn.working, events)
             c == turn.committed \o events
             new == Committed(events)
  <1>1. new = [turn EXCEPT !.working = w, !.committed = c]
    BY DEF Committed
  <1> HIDE DEF w, c, new
  <1>2. /\ HasFields(new, TurnNames)
        /\ new.committed = c /\ new.batch = turn.batch /\ new.pending = turn.pending
    BY <1>1 DEF TurnFields, HasFields, TurnNames
  <1> QED
    BY <1>2 DEF new, c

(* A question commits the completed part of the run.                       *)
LEMMA AsksUsage ==
    ASSUME CountedOnce(turn.committed, Len(issued)), UNCHANGED issued, TurnFields,
           turn.batch \in Seq(Ids), NEW events \in Seq(EventRecords),
           Raw(events, Len(issued)), Apart(turn.committed, events),
           LastResponse(events, turn.batch), NEW id,
           Tool[issued[id]].kind = "question" => id \in ToSet(turn.batch),
           NEW questions, AskUser(events, id, questions)
    PROVE  UsageInv'
  <1>1. CASE ~config.callback
    BY <1>1, UsageEnds DEF AskUser
  <1>2. CASE config.callback
    <2> DEFINE safe == HistorySafe(events)
               new == Committed(safe)
               rest == PendingFrom(events, id)
               K == {b \in ToSet(turn.batch) : b >= id}
    <2>1. /\ phase' = "asking" /\ run' = FreshRun
          /\ turn' = [new EXCEPT !.pending = rest, !.asked = id, !.resuming = FALSE,
                                 !.questions = questions]
      BY <1>2 DEF AskUser
    <2>2. /\ HasFields(new, TurnNames)
          /\ new.committed = turn.committed \o safe /\ new.batch = turn.batch
      BY CommittedMore
    <2>3. Len(events) \in Nat
      OBVIOUS
    <2>4. rest = KeepIn(turn.batch, K)
      BY <2>3, PendingCalls
    <2>5. Follows(turn.committed, safe, Len(issued))
      BY SafeFollows
    <2> HIDE DEF safe, new, rest
    <2>6. turn'.committed = turn.committed \o safe /\ turn'.batch = turn.batch
          /\ turn'.pending = rest /\ turn'.asked = id
      BY <2>1, <2>2 DEF HasFields, TurnNames
    <2>7. CountedOnce(turn'.committed, Len(issued'))
      BY <2>5, <2>6, JoinCounted
    <2>8. turn'.batch \in Seq(Ids') /\ ToSet(turn'.pending) \subseteq ToSet(turn'.batch)
      <3>1. turn.batch \in Seq(ToSet(turn.batch))
        BY OwnElements
      <3>2. rest \in Seq(ToSet(turn.batch))
        BY <2>4, <3>1, KeepInIn
      <3> QED
        BY <2>6, <3>2, ToSetIn DEF Ids
    <2>9. Question' => turn'.asked \in ToSet(turn'.batch)
      BY <2>6 DEF Question
    <2>10. run'.events = <<>>
      BY <2>1 DEF FreshRun
    <2>11. EventsCounted'
      BY <2>7, <2>10, NoEvents DEF EventsCounted
    <2> QED
      BY <2>1, <2>8, <2>9, <2>11 DEF UsageInv, OfBatch
  <1> QED
    BY <1>1, <1>2

(* What is left of a sequence was in it.                                   *)
LEMMA TailIn ==
    ASSUME NEW S, NEW s \in Seq(S), s # <<>>
    PROVE  ToSet(Tail(s)) \subseteq ToSet(s)
  <1> DEFINE t == Tail(s)
  <1>1. /\ DOMAIN s = 1..Len(s) /\ DOMAIN t = 1..Len(t) /\ Len(s) \in Nat
        /\ Len(t) = Len(s) - 1
        /\ \A k \in 1..Len(t) : k + 1 \in 1..Len(s) /\ t[k] = s[k + 1]
    OBVIOUS
  <1> HIDE DEF t
  <1>2. ASSUME NEW k \in 1..Len(t) PROVE t[k] \in ToSet(s)
    <2> DEFINE l == k + 1
    <2>1. l \in DOMAIN s /\ t[k] = s[l]
      BY <1>1
    <2> HIDE DEF l
    <2> QED
      BY <2>1 DEF ToSet
  <1> QED
    BY <1>1, <1>2 DEF ToSet, t

(* A call that has its result reports nothing.                             *)
LEMMA ProcessedUsage ==
    ASSUME ConsentBase, TurnInv, UsageInv, phase \in {"calls", "resume"},
           run.queue # <<>>, UNCHANGED <<issued, turn, phase>>,
           NEW out \in Immediate \cup {"run"},
           run' = Processed(out) \/ run' = ResumeProcessed(out)
    PROVE  UsageInv'
  <1>1. /\ RunFields /\ run.queue \in Seq(Ids) /\ run.events \in Seq(EventRecords)
        /\ out \in EventNotes
    BY DEF TurnInv, EventNotes
  <1>2. NextId \in Nat
    BY <1>1, NextRequested DEF Ids
  <1> DEFINE e == Append(run.events, Result(NextId, out))
  <1>3. run'.queue = Tail(run.queue) /\ run'.events = e
    BY <1>1, ProcessedFields
  <1>4. /\ Raw(run.events, Len(issued)) => Raw(e, Len(issued))
        /\ Apart(turn.committed, run.events) => Apart(turn.committed, e)
        /\ Bare(run.events) => Bare(e)
    BY <1>1, <1>2, BareResult
  <1> HIDE DEF e
  <1>5. EventsCounted'
    BY <1>3, <1>4 DEF UsageInv, EventsCounted
  <1>6. ToSet(Tail(run.queue)) \subseteq ToSet(run.queue)
    BY <1>1, TailIn
  <1>7. OfBatch'
    BY <1>3, <1>4, <1>6 DEF UsageInv, OfBatch, Ids
  <1> QED
    BY <1>5, <1>7 DEF UsageInv

(* A response reports its usage under new calls.                           *)
LEMMA RequestsUsage ==
    ASSUME ConsentBase, TurnInv, UsageInv, ModelRequestsTools
    PROVE  UsageInv'
  <1>1. PICK n \in 1..config.batch : \E calls \in [1..n -> config.requests] :
          LET ids == [i \in 1..n |-> Len(issued) + i]
          IN  /\ Len(issued) + n <= MaxIssued
              /\ issued' = issued \o calls
              /\ run' = [run EXCEPT !.events = Append(@, Response(ids, ids)),
                                    !.queue = ids,
                                    !.loops = @ + 1,
                                    !.muts = {},
                                    !.seen = {}]
    BY DEF ModelRequestsTools
  <1> DEFINE ids == [i \in 1..n |-> Len(issued) + i]
             r == Response(ids, ids)
             s == run.events
             all == Append(s, r)
             m == Len(issued)
  <1>2. n \in Nat /\ n >= 1 /\ issued \in Seq(Calls) /\ m \in Nat
    BY DEF ConsentBase
  <1>3. PICK calls \in [1..n -> config.requests] : issued' = issued \o calls
    BY <1>1
  <1>4. calls \in Seq(Calls) /\ Len(calls) = n
    BY <1>2, RequestedCalls
  <1>5. Len(issued') = m + n
    BY <1>2, <1>3, <1>4, Concatenated
  <1>6. RunFields /\ TurnFields /\ s \in Seq(EventRecords)
    BY DEF TurnInv
  <1>7. ids \in Seq(Nat) /\ ToSet(ids) \subseteq 1..(m + n) /\ m + 1 \in ToSet(ids)
    <2>1. DOMAIN ids = 1..n /\ 1 \in 1..n /\ ids[1] = m + 1
      BY <1>2
    <2>2. \A i \in 1..n : m + i \in 1..(m + n)
      BY <1>2
    <2> QED
      BY <1>2, <2>1, <2>2 DEF ToSet
  <1>8. r.calls = ids /\ r.usage = ids /\ r \in EventRecords
    <2> HIDE DEF ids
    <2>1. r = [kind |-> "response", calls |-> ids, usage |-> ids, id |-> 0, note |-> ""]
      BY DEF Response, Event
    <2>2. "" \in EventNotes
      BY DEF EventNotes, Ends
    <2> HIDE DEF r
    <2> QED
      BY <1>7, <2>1, <2>2 DEF EventRecords
  <1>9. run' = [run EXCEPT !.events = all, !.queue = ids, !.loops = run.loops + 1,
                           !.muts = {}, !.seen = {}]
    BY <1>1
  <1>10. turn' = [turn EXCEPT !.batch = ids]
    <2>1. turn' = [turn EXCEPT !.batch =
                  [i \in 1..(Len(issued') - Len(issued)) |-> Len(issued) + i]]
      BY DEF ModelRequestsTools
    <2>2. Len(issued') - Len(issued) = n
      BY <1>2, <1>5
    <2> QED
      BY <2>1, <2>2
  <1> HIDE DEF ids, r, all
  <1>11. run'.events = all /\ run'.queue = ids
    BY <1>6, <1>9 DEF RunFields, HasFields
  <1>12. turn'.committed = turn.committed /\ turn'.batch = ids
    BY <1>6, <1>10 DEF TurnFields, TurnNames, HasFields
  <1>13. /\ Len(s) \in Nat /\ Len(all) = Len(s) + 1 /\ all[Len(s) + 1] = r
         /\ \A k \in 1..Len(s) : all[k] = s[k]
    BY <1>6, <1>8 DEF all
  <1>14. \A k \in 1..Len(all) : k \in 1..Len(s) \/ (k = Len(s) + 1 /\ all[k] = r)
    BY <1>13
  <1>15. /\ CountedOnce(turn.committed, m) /\ Raw(s, m) /\ Apart(turn.committed, s)
    BY DEF UsageInv, EventsCounted
  <1> HIDE DEF s, m
  <1>16. 1..m \subseteq 1..(m + n) /\ m + 1 \notin 1..m
    BY <1>2
  <1>17. \A t, k : Bounded(t, m) /\ k \in 1..Len(t) =>
                      t[k].usage # r.usage /\ r.usage # t[k].usage
    BY <1>7, <1>8, <1>16 DEF Bounded
  <1>18. Raw(all, m + n)
    <2>1. Bounded(all, m + n)
      BY <1>7, <1>8, <1>13, <1>14, <1>15, <1>16 DEF Raw, Bounded
    <2>2. \A k \in 1..Len(all) : all[k].calls = all[k].usage
      BY <1>8, <1>13, <1>14, <1>15 DEF Raw
    <2>3. ASSUME NEW x \in 1..Len(all), NEW y \in 1..Len(all), x # y, all[x].usage # <<>>
          PROVE  all[x].usage # all[y].usage
      <3>1. CASE x \in 1..Len(s) /\ y \in 1..Len(s)
        BY <1>13, <1>15, <2>3, <3>1 DEF Raw, Distinct
      <3>2. CASE x \in 1..Len(s) /\ all[y] = r
        BY <1>13, <1>15, <1>17, <3>2 DEF Raw
      <3>3. CASE all[x] = r /\ y \in 1..Len(s)
        BY <1>13, <1>15, <1>17, <3>3 DEF Raw
      <3> QED
        BY <1>14, <2>3, <3>1, <3>2, <3>3
    <2> QED
      BY <2>1, <2>2, <2>3 DEF Raw, Distinct
  <1>19. Apart(turn.committed, all)
    <2>1. ASSUME NEW j \in 1..Len(turn.committed), NEW k \in 1..Len(all),
                 turn.committed[j].usage # <<>>
          PROVE  turn.committed[j].usage # all[k].usage
      <3>1. CASE k \in 1..Len(s)
        BY <1>13, <1>15, <2>1, <3>1 DEF Apart
      <3>2. CASE all[k] = r
        BY <1>15, <1>17, <3>2 DEF CountedOnce
      <3> QED
        BY <1>14, <3>1, <3>2
    <2> QED
      BY <2>1 DEF Apart
  <1>20. CountedOnce(turn.committed, m + n)
    BY <1>15, <1>16 DEF CountedOnce, Bounded
  <1>21. EventsCounted'
    BY <1>5, <1>11, <1>12, <1>18, <1>19, <1>20 DEF EventsCounted
  <1>22. phase' \in {"calls", "prepare"}
    BY DEF ModelRequestsTools
  <1>23. OfBatch'
    BY <1>11, <1>12, <1>22 DEF OfBatch
  <1> QED
    BY <1>21, <1>23 DEF UsageInv

(* The model's other answers leave the run or end it.                      *)
LEMMA ModelStepUsage ==
    ASSUME ConsentBase, TurnInv, UsageInv, ModelStep
    PROVE  UsageInv'
  <1>1. CASE ModelRequestsTools
    BY <1>1, RequestsUsage
  <1>2. CASE ModelTruncated
    <2>1. /\ run' = [run EXCEPT !.loops = @ + 1] /\ phase' = "model"
          /\ UNCHANGED <<turn, issued>>
      BY <1>2 DEF ModelTruncated, CanAsk, world
    <2>2. run'.events = run.events
      BY <2>1 DEF TurnInv, RunFields, HasFields
    <2> QED
      BY <2>1, <2>2 DEF UsageInv, EventsCounted, OfBatch
  <1>3. CASE ModelAnswersText \/ ModelFails \/ LoopLimit
    BY <1>3, UsageEnds DEF ModelAnswersText, ModelFails, LoopLimit
  <1> QED
    BY <1>1, <1>2, <1>3 DEF ModelStep

(* The calls of the sequential loop are calls of the batch.                *)
LEMMA SequentialStepUsage ==
    ASSUME ConsentBase, TurnInv, UsageInv, SequentialStep
    PROVE  UsageInv'
  <1>1. /\ phase = "calls" /\ TurnFields /\ run.events \in Seq(EventRecords)
        /\ turn.batch \in Seq(Ids) /\ LastResponse(run.events, turn.batch)
        /\ run.queue \in Seq(Ids) /\ ToSet(run.queue) \subseteq ToSet(turn.batch)
    <2>1. phase = "calls"
      BY DEF SequentialStep, CallLimit, CallAnswered, CallAsks, CallExecutes, CallRaises,
         BatchDone, InBatch
    <2> QED
      BY <2>1 DEF TurnInv, UsageInv, OfBatch
  <1>2. CASE CallLimit \/ CallRaises
    BY <1>2, UsageEnds DEF CallLimit, CallRaises
  <1>3. CASE BatchDone
    BY <1>3 DEF BatchDone, world, UsageInv, EventsCounted, OfBatch
  <1>4. CASE CallAnswered
    <2> DEFINE out == SequentialOutcome(NextCall)
    <2>1. CASE OutOfRetries(NextCall, out)
      BY <1>4, <2>1, UsageEnds DEF CallAnswered
    <2>2. CASE ~OutOfRetries(NextCall, out)
      <3>1. /\ out \in Immediate \cup {"run"} /\ run' = Processed(out)
            /\ UNCHANGED <<issued, turn, phase>> /\ run.queue # <<>>
        BY <1>4, <2>2 DEF CallAnswered, InBatch, world
      <3> HIDE DEF out
      <3> QED
        BY <1>1, <3>1, ProcessedUsage
    <2> QED
      BY <2>1, <2>2
  <1>5. CASE CallExecutes
    <2>1. /\ run' = Processed("run") /\ run.queue # <<>>
          /\ UNCHANGED <<issued, turn, phase>>
      BY <1>5 DEF CallExecutes, InBatch
    <2>2. "run" \in Immediate \cup {"run"}
      OBVIOUS
    <2> QED
      BY <1>1, <2>1, <2>2, ProcessedUsage
  <1>6. CASE CallAsks
    <2>1. /\ AskUser(run.events, NextId, Counted(SequentialOutcome(NextCall)))
          /\ run.queue # <<>> /\ UNCHANGED issued
      BY <1>6 DEF CallAsks, InBatch, world
    <2>2. NextId \in ToSet(run.queue)
      BY <1>1, <2>1 DEF NextId, ToSet
    <2> QED
      BY <1>1, <2>1, <2>2, AsksUsage DEF UsageInv, EventsCounted
  <1> QED
    BY <1>2, <1>3, <1>4, <1>5, <1>6 DEF SequentialStep

(* The resumed calls are committed as a part of their response.            *)
LEMMA ResumedUsage ==
    ASSUME TurnInv, UsageInv, phase = "resume"
    PROVE  /\ HasFields(CommitResumed(run.events), TurnNames)
           /\ CountedOnce(CommitResumed(run.events).committed, Len(issued))
           /\ CommitResumed(run.events).batch = turn.batch
           /\ ToSet(CommitResumed(run.events).pending) \subseteq ToSet(turn.pending)
  <1> DEFINE events == run.events
             done == ResultIds(events)
             calls == KeepIn(turn.pending, done)
             more == Resumed(events)
             new == Committed(more)
             rest == KeepIn(turn.pending, ToSet(turn.pending) \ done)
             all == CommitResumed(events)
  <1>1. /\ TurnFields /\ turn.pending \in Seq(Ids) /\ events \in Seq(EventRecords)
        /\ turn.batch \in Seq(Ids) /\ ToSet(turn.pending) \subseteq ToSet(turn.batch)
        /\ Bare(events) /\ CountedOnce(turn.committed, Len(issued))
    BY DEF TurnInv, UsageInv, EventsCounted, OfBatch
  <1>2. /\ HasFields(new, TurnNames) /\ new.committed = turn.committed \o more
        /\ new.batch = turn.batch /\ new.pending = turn.pending
    BY <1>1, CommittedMore
  <1>3. all = [new EXCEPT !.pending = rest]
    BY <1>2 DEF CommitResumed
  <1>4. CountedOnce(turn.committed \o more, Len(issued))
    <2>1. CASE calls = <<>>
      <3>1. more = <<>>
        BY <2>1 DEF Resumed
      <3>2. turn.committed \in Seq(EventRecords)
        BY <1>1 DEF CountedOnce
      <3>3. turn.committed \o <<>> = turn.committed
        BY <3>2, EmptyJoined
      <3> QED
        BY <1>1, <3>1, <3>3
    <2>2. CASE calls # <<>>
      <3> DEFINE bare == HistorySafe(events)
      <3>1. more = <<ResponseFor(calls)>> \o bare
        BY <2>2 DEF Resumed
      <3>2. bare \in Seq(EventRecords) /\ Bare(bare)
        BY <1>1, SafeEvents, SafeBare
      <3>3. calls \in Seq(Nat) /\ ToSet(calls) \subseteq ToSet(turn.batch)
        <4>1. turn.pending \in Seq(Nat) /\ turn.pending \in Seq(ToSet(turn.pending))
          BY <1>1, OwnElements DEF Ids
        <4>2. calls \in Seq(Nat) /\ calls \in Seq(ToSet(turn.pending))
          BY <4>1, KeepInIn
        <4> QED
          BY <1>1, <4>2, ToSetIn
      <3> HIDE DEF calls, bare, more
      <3>4. CountedOnce(turn.committed \o (<<ResponseFor(calls)>> \o bare), Len(issued))
        BY <1>1, <2>2, <3>2, <3>3, ResponseCounted
      <3> QED
        BY <3>1, <3>4
    <2> QED
      BY <2>1, <2>2
  <1>5. ToSet(rest) \subseteq ToSet(turn.pending)
    <2>1. turn.pending \in Seq(ToSet(turn.pending))
      BY <1>1, OwnElements
    <2>2. rest \in Seq(ToSet(turn.pending))
      BY <2>1, KeepInIn
    <2> QED
      BY <2>2, ToSetIn
  <1> HIDE DEF new, rest, all, more
  <1>6. /\ HasFields(all, TurnNames) /\ all.committed = new.committed
        /\ all.batch = new.batch /\ all.pending = rest
    BY <1>2, <1>3 DEF HasFields, TurnNames
  <1> QED
    BY <1>2, <1>4, <1>5, <1>6 DEF all

(* So a response is counted once however often it is resumed.              *)
LEMMA ResumeStepUsage ==
    ASSUME ConsentBase, TurnInv, UsageInv, ResumeStep
    PROVE  UsageInv'
  <1>1. phase = "resume"
    BY DEF ResumeStep, ResumeAnswered, ResumeExecutes, ResumeAsks, ResumeDone,
       ResumeRaises, InResume
  <1>2. /\ run.queue \in Seq(Ids) /\ turn.batch \in Seq(Ids)
        /\ ToSet(run.queue) \subseteq ToSet(turn.batch)
        /\ ToSet(turn.pending) \subseteq ToSet(turn.batch)
    BY <1>1 DEF TurnInv, UsageInv, OfBatch
  <1> DEFINE new == CommitResumed(run.events)
  <1>3. /\ HasFields(new, TurnNames) /\ CountedOnce(new.committed, Len(issued))
        /\ new.batch = turn.batch /\ ToSet(new.pending) \subseteq ToSet(turn.pending)
    BY <1>1, ResumedUsage
  <1> HIDE DEF new
  <1>4. CASE ResumeAnswered
    <2> DEFINE out == ResumeOutcome(NextCall)
    <2>1. /\ out \in Immediate \cup {"run"} /\ run' = ResumeProcessed(out)
          /\ UNCHANGED <<issued, turn, phase>> /\ run.queue # <<>>
      BY <1>4 DEF ResumeAnswered, InResume, world
    <2> HIDE DEF out
    <2> QED
      BY <1>1, <2>1, ProcessedUsage
  <1>5. CASE ResumeExecutes
    <2>1. /\ run' = ResumeProcessed("run") /\ run.queue # <<>>
          /\ UNCHANGED <<issued, turn, phase>>
      BY <1>5 DEF ResumeExecutes, InResume
    <2>2. "run" \in Immediate \cup {"run"}
      OBVIOUS
    <2> QED
      BY <1>1, <2>1, <2>2, ProcessedUsage
  <1>6. CASE ResumeAsks
    <2>1. /\ \E n : turn' = [new EXCEPT !.asked = NextId, !.resuming = TRUE,
                                        !.questions = n]
          /\ phase' = "asking" /\ run' = FreshRun /\ UNCHANGED issued
          /\ run.queue # <<>>
      BY <1>6 DEF ResumeAsks, InResume, world, new
    <2>2. NextId \in ToSet(run.queue)
      BY <1>2, <2>1 DEF NextId, ToSet
    <2>3. turn'.committed = new.committed /\ turn'.batch = new.batch
          /\ turn'.pending = new.pending /\ turn'.asked = NextId
      BY <1>3, <2>1 DEF HasFields, TurnNames
    <2>4. run'.events = <<>>
      BY <2>1 DEF FreshRun
    <2>5. EventsCounted'
      BY <1>3, <2>1, <2>3, <2>4, NoEvents DEF EventsCounted
    <2>6. OfBatch'
      BY <1>2, <1>3, <2>1, <2>2, <2>3 DEF OfBatch, Ids
    <2> QED
      BY <2>5, <2>6 DEF UsageInv
  <1>7. CASE ResumeDone
    <2>1. /\ turn' = [new EXCEPT !.asked = 0, !.resuming = FALSE]
          /\ phase' = "model" /\ run' = FreshRun /\ UNCHANGED issued
      BY <1>7 DEF ResumeDone, StartRun, new
    <2>2. turn'.committed = new.committed
      BY <1>3, <2>1 DEF HasFields, TurnNames
    <2>3. run'.events = <<>>
      BY <2>1 DEF FreshRun
    <2> QED
      BY <1>3, <2>1, <2>2, <2>3, UsageKept
  <1>8. CASE ResumeRaises
    BY <1>8, UsageEnds DEF ResumeRaises
  <1> QED
    BY <1>4, <1>5, <1>6, <1>7, <1>8 DEF ResumeStep

(* Two elements are one after the other.                                   *)
LEMMA PairJoined ==
    ASSUME NEW S, NEW x \in S, NEW y \in S
    PROVE  <<x>> \o <<y>> = <<x, y>>
  <1> DEFINE one == <<x>>
             two == <<y>>
             all == one \o two
             both == <<x, y>>
  <1>1. /\ one \in Seq(S) /\ two \in Seq(S) /\ Len(one) = 1 /\ Len(two) = 1
        /\ one[1] = x /\ two[1] = y
    OBVIOUS
  <1>2. both \in Seq(S) /\ Len(both) = 2 /\ both[1] = x /\ both[2] = y
    OBVIOUS
  <1> HIDE DEF one, two, both
  <1>3. /\ all \in Seq(S) /\ Len(all) = Len(one) + Len(two)
        /\ \A k \in 1..Len(one) : all[k] = one[k]
        /\ \A k \in 1..Len(two) : all[Len(one) + k] = two[k]
    BY <1>1, Concatenated
  <1> HIDE DEF all
  <1>4. Len(all) = 2 /\ all[1] = x /\ all[2] = y
    BY <1>1, <1>3
  <1>5. \A k \in 1..2 : all[k] = both[k]
    BY <1>2, <1>4
  <1>6. all = both
    BY <1>2, <1>3, <1>4, <1>5
  <1> QED
    BY <1>6 DEF all, both, one, two

(* An answer to a question is a result with its call.                      *)
LEMMA AnswerUsage ==
    ASSUME TurnInv, UsageInv, AnswerQuestion
    PROVE  UsageInv'
  <1>1. /\ phase = "asking" /\ Question /\ phase' = "model" /\ run' = FreshRun
        /\ UNCHANGED issued
    BY DEF AnswerQuestion, StartRun
  <1>2. /\ TurnFields /\ turn.asked \in Ids /\ turn.batch \in Seq(Ids)
        /\ turn.asked \in ToSet(turn.batch) /\ CountedOnce(turn.committed, Len(issued))
    BY <1>1 DEF TurnInv, UsageInv, EventsCounted, OfBatch
  <1> DEFINE id == turn.asked
             calls == <<id>>
             r == ResponseFor(calls)
             a == Result(id, "answered")
             both == <<r, a>>
             new == Committed(both)
  <1>3. turn' = [new EXCEPT !.pending = <<>>, !.asked = 0]
    BY DEF AnswerQuestion, Answer
  <1>4. HasFields(new, TurnNames) /\ new.committed = turn.committed \o both
    BY <1>2, CommittedMore
  <1>5. id \in Nat /\ "answered" \in EventNotes
    BY <1>2 DEF Ids, EventNotes
  <1>6. Bare(<<a>>) /\ <<a>> \in Seq(EventRecords)
    <2>1. <<>> \in Seq(EventRecords)
      OBVIOUS
    <2> QED
      BY <1>5, <2>1, BareResult
  <1>7. calls \in Seq(Nat) /\ calls # <<>> /\ ToSet(calls) \subseteq ToSet(turn.batch)
    <2>1. calls \in Seq(ToSet(turn.batch)) /\ calls \in Seq(Nat) /\ Len(calls) = 1
      BY <1>2, <1>5
    <2> QED
      BY <2>1, ToSetIn
  <1>8. both = <<r>> \o <<a>>
    BY PairJoined
  <1> HIDE DEF calls, a
  <1> DEFINE bare == <<a>>
  <1> HIDE DEF bare
  <1>9. CountedOnce(turn.committed \o (<<ResponseFor(calls)>> \o bare), Len(issued))
    BY <1>2, <1>6, <1>7, ResponseCounted DEF bare
  <1>10. CountedOnce(turn.committed \o both, Len(issued))
    BY <1>8, <1>9 DEF bare
  <1> HIDE DEF new, both
  <1>11. turn'.committed = turn.committed \o both
    BY <1>3, <1>4 DEF HasFields, TurnNames
  <1>12. run'.events = <<>>
    BY <1>1 DEF FreshRun
  <1> QED
    BY <1>1, <1>10, <1>11, <1>12, UsageKept

(* The other answers report nothing.                                       *)
LEMMA UserAnswerUsage ==
    ASSUME TurnInv, UsageInv, UserAnswer
    PROVE  UsageInv'
  <1>1. ASSUME StartResume(turn.pending), UNCHANGED <<turn, issued>>, phase = "asking"
        PROVE  UsageInv'
    <2>1. run'.events = <<>> /\ run'.queue = turn.pending /\ phase' = "resume"
      BY <1>1 DEF StartResume, FreshRun
    <2>2. EventsCounted'
      BY <1>1, <2>1, NoEvents DEF UsageInv, EventsCounted
    <2>3. Bare(run'.events)
      BY <2>1, NoEvents
    <2>4. OfBatch'
      BY <1>1, <2>1, <2>3 DEF UsageInv, OfBatch, Ids
    <2> QED
      BY <2>2, <2>4 DEF UsageInv
  <1>2. ASSUME StartRun, UNCHANGED <<turn, issued>> PROVE UsageInv'
    <2>1. run'.events = <<>> /\ phase' = "model"
      BY <1>2 DEF StartRun, FreshRun
    <2> QED
      BY <1>2, <2>1, UsageKept DEF UsageInv, EventsCounted
  <1>3. CASE AnswerYes \/ AnswerYesThisTurn
    BY <1>1, <1>3 DEF AnswerYes, AnswerYesThisTurn
  <1>4. CASE AnswerNo
    BY <1>1, <1>2, <1>4 DEF AnswerNo
  <1>5. CASE NoAnswer
    BY <1>5, UsageEnds DEF NoAnswer
  <1> QED
    BY <1>3, <1>4, <1>5, AnswerUsage DEF UserAnswer

(* What is collected of a window reports nothing.                          *)
LEMMA CollectedBare ==
    ASSUME ConsentBase, NEW items \in Seq(LaneItems)
    PROVE  Bare(ResultsOf(items))
  <1> DEFINE results == [k \in DOMAIN items |-> Result(items[k].id, items[k].out)]
             K == {r \in ToSet(results) : r.note # "confirm"}
             S == {Result(items[k].id, items[k].out) : k \in DOMAIN items}
  <1>1. results \in Seq(S)
    OBVIOUS
  <1>2. KeepIn(results, K) \in Seq(S)
    BY <1>1, KeepInIn
  <1>3. \A r \in S : r.calls = <<>> /\ r.usage = <<>>
    BY DEF Result, Event
  <1> HIDE DEF results, K, S
  <1>4. ResultsOf(items) = KeepIn(results, K)
    BY DEF ResultsOf, results, K
  <1> QED
    BY <1>2, <1>3, <1>4 DEF Bare

(* A window asks about no question, and its results report nothing.        *)
LEMMA CollectUsage ==
    ASSUME ConsentBase, TurnInv, UsageInv, CollectWindow
    PROVE  UsageInv'
  <1> DEFINE window == run.window
             I == {k \in 1..Len(window) : window[k].out = "confirm"}
             stop == SelectInSeq(window, LAMBDA x : x.stop)
             ask == SelectInSeq(window, LAMBDA x : x.out = "confirm")
             results == ResultsOf(IF stop = 0 THEN window
                                  ELSE SubSeq(window, 1, stop))
             events == run.events \o results
  <1>1. phase = "windows" /\ UNCHANGED issued
    BY DEF CollectWindow, world
  <1>2. /\ window \in Seq(LaneItems) /\ RunFields /\ TurnFields
        /\ run.events \in Seq(EventRecords) /\ turn.batch \in Seq(Ids)
        /\ LastResponse(run.events, turn.batch)
    BY <1>1 DEF TurnInv
  <1>3. /\ CountedOnce(turn.committed, Len(issued)) /\ Raw(run.events, Len(issued))
        /\ Apart(turn.committed, run.events)
    BY DEF UsageInv, EventsCounted
  <1>4. \/ EndWithNotice(events, "invalid_tool_call")
        \/ /\ stop = 0
           /\ ask # 0
           /\ AskUser(events, window[ask].id, turn.questions)
        \/ /\ stop = 0
           /\ \E x : run' = [run EXCEPT !.events = events, !.executed = x,
                                        !.window = <<>>]
           /\ UNCHANGED <<phase, turn>>
    BY DEF CollectWindow
  <1>5. CASE EndWithNotice(events, "invalid_tool_call")
    BY <1>5, UsageEnds
  <1>6. ASSUME stop = 0
        PROVE  /\ results \in Seq(EventRecords) /\ events \in Seq(EventRecords)
               /\ \A k \in 1..Len(results) : results[k].kind # "response"
               /\ Raw(events, Len(issued)) /\ Apart(turn.committed, events)
    <2>1. results = ResultsOf(window)
      BY <1>6
    <2> HIDE DEF window, stop, results
    <2>2. /\ results \in Seq(EventRecords) /\ Bare(results)
          /\ \A k \in 1..Len(results) : results[k].kind # "response"
      BY <1>2, <2>1, ResultsCollected, CollectedBare
    <2>3. events \in Seq(EventRecords)
      BY <1>2, <2>2, Concatenated
    <2>4. Raw(events, Len(issued)) /\ Apart(turn.committed, events)
      BY <1>2, <1>3, <2>2, BareJoined
    <2> QED
      BY <2>2, <2>3, <2>4
  <1>7. ASSUME stop = 0, ask # 0, AskUser(events, window[ask].id, turn.questions)
        PROVE  UsageInv'
    <2>1. ask \in 1..Len(window)
      <3>1. ask = IF I = {} THEN 0 ELSE Min(I)
        BY DEF SelectInSeq
      <3>2. ASSUME I # {} PROVE Min(I) \in I
        <4>1. I \in SUBSET Nat
          BY <1>2
        <4> QED
          BY <3>2, <4>1, MinIn
      <3> QED
        BY <1>7, <3>1, <3>2
    <2> HIDE DEF ask
    <2> DEFINE id == window[ask].id
    <2>2. window[ask] \in LaneItems
      BY <1>2, <2>1
    <2>3. Tool[issued[id]].kind # "question"
      BY <2>2 DEF LaneItems, ParallelCall
    <2>4. AskUser(events, id, turn.questions)
      BY <1>7
    <2> HIDE DEF id
    <2>5. /\ results \in Seq(EventRecords) /\ events \in Seq(EventRecords)
          /\ \A k \in 1..Len(results) : results[k].kind # "response"
          /\ Raw(events, Len(issued)) /\ Apart(turn.committed, events)
      BY <1>6, <1>7
    <2> HIDE DEF window, stop, results
    <2>6. LastResponse(events, turn.batch)
      BY <1>2, <2>5, ResponseStays
    <2> HIDE DEF events
    <2> QED
      BY <1>1, <1>2, <1>3, <2>3, <2>4, <2>5, <2>6, AsksUsage
  <1>8. ASSUME stop = 0, UNCHANGED <<phase, turn>>,
               \E x : run' = [run EXCEPT !.events = events, !.executed = x,
                                         !.window = <<>>]
        PROVE  UsageInv'
    <2>1. Raw(events, Len(issued)) /\ Apart(turn.committed, events)
      BY <1>6, <1>8
    <2> HIDE DEF events
    <2>2. run'.events = events
      BY <1>2, <1>8 DEF RunFields, HasFields
    <2>3. EventsCounted'
      BY <1>1, <1>3, <1>8, <2>1, <2>2 DEF EventsCounted
    <2>4. OfBatch'
      BY <1>1, <1>8 DEF OfBatch
    <2> QED
      BY <2>3, <2>4 DEF UsageInv
  <1> QED
    BY <1>4, <1>5, <1>7, <1>8

(* Sorting a batch and opening a window report nothing.                    *)
LEMMA LanesUsage ==
    ASSUME TurnInv, UsageInv, PrepareBatch \/ OpenWindow \/ WindowsDone
    PROVE  UsageInv'
  <1>1. RunFields /\ TurnFields
    BY DEF TurnInv
  <1>2. UNCHANGED issued
    BY DEF PrepareBatch, OpenWindow, WindowsDone, world
  <1>3. ASSUME run'.events = run.events, turn'.committed = turn.committed,
               phase' \in {"windows", "items"}
        PROVE  UsageInv'
    <2>1. EventsCounted'
      BY <1>2, <1>3 DEF UsageInv, EventsCounted
    <2>2. OfBatch'
      BY <1>3 DEF OfBatch
    <2> QED
      BY <2>1, <2>2 DEF UsageInv
  <1>4. CASE PrepareBatch
    <2> DEFINE budget == RemainingBudget
               calls == IF budget < Len(run.queue) THEN SubSeq(run.queue, 1, budget)
                        ELSE run.queue
               sorted == Sorted(calls)
    <2>1. \/ EndWithNotice(run.events, "tool_call_limit")
          \/ /\ phase' = "windows"
             /\ \E r, c : run' = [run EXCEPT !.queue = <<>>, !.lane = sorted.lane,
                                     !.items = sorted.items, !.retries = r, !.cut = c]
             /\ \E q : turn' = [turn EXCEPT !.questions = q]
      BY <1>4 DEF PrepareBatch
    <2> HIDE DEF sorted
    <2>2. CASE EndWithNotice(run.events, "tool_call_limit")
      BY <2>2, UsageEnds
    <2>3. CASE ~EndWithNotice(run.events, "tool_call_limit")
      <3>1. run'.events = run.events
        BY <1>1, <2>1, <2>3 DEF RunFields, HasFields
      <3>2. turn'.committed = turn.committed
        BY <1>1, <2>1, <2>3 DEF TurnFields, TurnNames, HasFields
      <3> QED
        BY <1>3, <2>1, <2>3, <3>1, <3>2
    <2> QED
      BY <2>2, <2>3
  <1>5. CASE OpenWindow
    <2>1. /\ \E w, l : run' = [run EXCEPT !.window = w, !.lane = l]
          /\ phase = "windows" /\ UNCHANGED <<phase, turn>>
      BY <1>5 DEF OpenWindow
    <2>2. run'.events = run.events
      BY <1>1, <2>1 DEF RunFields, HasFields
    <2> QED
      BY <1>3, <2>1, <2>2
  <1>6. CASE WindowsDone
    BY <1>3, <1>6 DEF WindowsDone
  <1> QED
    BY <1>4, <1>5, <1>6

(* Neither do the items kept apart.                                        *)
LEMMA ItemsStepUsage ==
    ASSUME ConsentBase, TurnInv, OnceInv, UsageInv,
           ItemAnswered \/ ItemAsks \/ ItemExecutes \/ ItemRaises \/ ItemsDone
    PROVE  UsageInv'
  <1>1. /\ phase = "items" /\ RunFields /\ TurnFields
        /\ run.events \in Seq(EventRecords)
        /\ turn.batch \in Seq(Ids) /\ LastResponse(run.events, turn.batch)
        /\ run.items \in Seq(SideItems)
    BY DEF TurnInv, ItemAnswered, ItemAsks, ItemExecutes, ItemRaises, ItemsDone, InItems
  <1>2. \A x \in ToSet(run.items) : x.id \in ToSet(turn.batch)
    BY <1>1 DEF OnceInv, ItemsOnce
  <1>3. ASSUME run.items # <<>>
        PROVE  Item \in ToSet(run.items) /\ Item.id \in Nat /\ Item \in Items
    <2>1. Item \in ToSet(run.items) /\ Item \in SideItems
      BY <1>1, <1>3 DEF Item, ToSet
    <2> QED
      BY <2>1 DEF SideItems, FitItems, Items, Ids
  <1>4. ASSUME run.items # <<>>, run' = ItemProcessed, Item.out \notin Asking,
               UNCHANGED <<issued, turn, phase>>
        PROVE  UsageInv'
    <2> DEFINE e == Append(run.events, Result(Item.id, Item.out))
    <2>1. \E x, t : run' = [run EXCEPT !.events = e, !.items = t, !.executed = x]
      BY <1>4 DEF ItemProcessed
    <2>2. Item.out \in EventNotes
      BY <1>3, <1>4 DEF Items, Asking, EventNotes
    <2>3. /\ Raw(run.events, Len(issued)) => Raw(e, Len(issued))
          /\ Apart(turn.committed, run.events) => Apart(turn.committed, e)
      BY <1>1, <1>3, <1>4, <2>2, BareResult
    <2> HIDE DEF e
    <2>4. run'.events = e
      BY <1>1, <2>1 DEF RunFields, HasFields
    <2>5. EventsCounted'
      BY <1>4, <2>3, <2>4 DEF UsageInv, EventsCounted
    <2>6. OfBatch'
      BY <1>1, <1>4 DEF OfBatch
    <2> QED
      BY <2>5, <2>6 DEF UsageInv
  <1>5. CASE ItemAnswered
    <2>1. Item.out \notin Asking
      BY <1>5 DEF ItemAnswered, Immediate, Repairs, Denials, Asking
    <2>2. CASE Item.stop
      BY <1>5, <2>2, UsageEnds DEF ItemAnswered
    <2>3. CASE ~Item.stop
      BY <1>4, <1>5, <2>1, <2>3 DEF ItemAnswered, InItems, world
    <2> QED
      BY <2>2, <2>3
  <1>6. CASE ItemExecutes
    BY <1>4, <1>6 DEF ItemExecutes, InItems, Asking
  <1>7. CASE ItemAsks
    <2>1. AskUser(run.events, Item.id, turn.questions) /\ run.items # <<>>
          /\ UNCHANGED issued
      BY <1>7 DEF ItemAsks, InItems, world
    <2>2. Item.id \in ToSet(turn.batch)
      BY <1>2, <1>3, <2>1
    <2> QED
      BY <1>1, <2>1, <2>2, AsksUsage DEF UsageInv, EventsCounted
  <1>8. CASE ItemRaises
    BY <1>8, UsageEnds DEF ItemRaises
  <1>9. CASE ItemsDone
    <2>1. CASE run.cut
      BY <1>9, <2>1, UsageEnds DEF ItemsDone
    <2>2. CASE ~run.cut
      BY <1>9, <2>2 DEF ItemsDone, world, UsageInv, EventsCounted, OfBatch
    <2> QED
      BY <2>1, <2>2
  <1> QED
    BY <1>5, <1>6, <1>7, <1>8, <1>9

(* A step that leaves the turn where it is.                                *)
LEMMA QuietUsage ==
    ASSUME UsageInv, UNCHANGED <<issued, phase, turn, run>>
    PROVE  UsageInv'
  <1>1. EventsCounted'
    BY DEF UsageInv, EventsCounted
  <1>2. OfBatch'
    BY DEF UsageInv, OfBatch, Question, Ids
  <1> QED
    BY <1>1, <1>2 DEF UsageInv

(* No step reports a usage twice.                                          *)
LEMMA UsageStep ==
    ASSUME ConsentBase, TurnInv, OnceInv, UsageInv, [Next]_vars
    PROVE  UsageInv'
  <1>1. CASE \E continue \in BOOLEAN : UserMessage(continue)
    BY <1>1, UsageOver DEF UserMessage, StartRun
  <1>2. ASSUME NEW id, TaskFinishes(id) \/ TaskRaises(id) PROVE UsageInv'
    BY <1>2, UsageEnds, QuietUsage DEF TaskFinishes, TaskRaises
  <1>3. CASE TurnStep
    BY <1>2, <1>3, ModelStepUsage, SequentialStepUsage, ResumeStepUsage, CollectUsage,
       LanesUsage, ItemsStepUsage, UserAnswerUsage
    DEF TurnStep, ParallelStep
  <1>4. CASE Abort
    BY <1>4, UsageEnds DEF Abort
  <1>5. CASE UNCHANGED vars
    BY <1>5, QuietUsage DEF vars, world
  <1> QED
    BY <1>1, <1>3, <1>4, <1>5 DEF Next

(* The tokens of a response are added to the session's usage once, however *)
(* many parts of it are committed, and before any of its calls is.         *)
THEOREM UsageIsCountedOnce == Spec => []UsageOnce
  <1>1. Init => ConsentBase /\ TurnInv /\ OnceInv /\ UsageInv
    <2>1. Init => ran = <<>> /\ phase = "idle"
      BY DEF Init
    <2>2. Init => OnceInv
      BY <2>1
      DEF OnceInv, EachCallOnce, BatchOrder, QueueOnce, ResumeOnce, AskOnce, LaneOnce,
          ItemsOnce
    <2>3. ASSUME Init PROVE UsageInv
      <3>1. turn.committed = <<>> /\ run.events = <<>> /\ phase = "idle"
        BY <2>3 DEF Init, FreshTurn, FreshRun
      <3>2. EventsCounted
        BY <3>1, NoEvents DEF EventsCounted
      <3> QED
        BY <3>1, <3>2 DEF UsageInv, OfBatch
    <2> QED
      BY <2>2, <2>3, ConsentInit
  <1>2. ConsentBase /\ TurnInv /\ OnceInv /\ UsageInv /\ [Next]_vars
        => (ConsentBase /\ TurnInv /\ OnceInv /\ UsageInv)'
    BY ConsentStep, LedgerStep, BaseKept, OnceStep, UsageStep
  <1>3. UsageInv => UsageOnce
    <2>1. ASSUME UsageInv PROVE UsageOnce
      <3>1. DOMAIN turn.committed = 1..Len(turn.committed)
        BY <2>1 DEF UsageInv, EventsCounted, CountedOnce
      <3> QED
        BY <2>1, <3>1
        DEF UsageOnce, UsageInv, EventsCounted, CountedOnce, Distinct, Accounted
    <2> QED
      BY <2>1
  <1> QED
    BY <1>1, <1>2, <1>3, PTL DEF Spec
-----------------------------------------------------------------------------
(* Memory.  What ran in a turn is replayed by what the turn has committed, *)
(* or has its result in the run: a question commits the narrowed responses *)
(* with their results, and a run answers every call of its responses       *)
(* unless it is interrupted.  The next turn replays what the history keeps *)
(* of these events, since a result stays with the response before it.      *)

\* The element of s at j has its place in what is kept, after the ones before it.
Placed(f, s, j) ==
    /\ Len(f[j - 1]) < Len(f[j])
    /\ \A m \in j..Len(s) : Len(f[j]) \in 1..Len(f[m]) /\ f[m][Len(f[j])] = s[j]

(* An element that KeepIn keeps has its place as soon as it is reached.    *)
LEMMA KeepsPlace ==
    ASSUME NEW S, NEW s \in Seq(S), NEW K, NEW f \in [0..Len(s) -> Seq(S)],
           Keeps(f, s, K), NEW j \in 1..Len(s), s[j] \in K
    PROVE  Placed(f, s, j)
  <1> DEFINE N == Len(s)
             a == Len(f[j])
             G == {m \in 0..N : m >= j => a \in 1..Len(f[m]) /\ f[m][a] = s[j]}
  <1>1. N \in Nat /\ j \in 0..N /\ j - 1 \in 0..N /\ \A m \in 0..N : f[m] \in Seq(S)
    OBVIOUS
  <1>2. f[j] = Append(f[j - 1], s[j])
    BY DEF Keeps
  <1>3. s[j] \in S
    OBVIOUS
  <1>4. a = Len(f[j - 1]) + 1 /\ a \in Nat /\ a \in 1..Len(f[j]) /\ f[j][a] = s[j]
    BY <1>1, <1>2, <1>3
  <1>5. 0 \in G
    BY <1>1
  <1>6. ASSUME NEW m \in 1..N, m - 1 \in G PROVE m \in G
    <2>1. CASE m < j
      BY <1>1, <2>1
    <2>2. CASE m = j
      BY <1>1, <1>4, <2>2
    <2>3. CASE m > j
      <3>1. m - 1 \in 0..N /\ m - 1 >= j /\ m \in 0..N
        BY <1>1, <2>3
      <3>2. a \in 1..Len(f[m - 1]) /\ f[m - 1][a] = s[j] /\ f[m - 1] \in Seq(S)
        BY <1>1, <1>6, <3>1
      <3>3. f[m] = IF s[m] \in K THEN Append(f[m - 1], s[m]) ELSE f[m - 1]
        BY DEF Keeps
      <3> DEFINE t == f[m - 1]
                 x == s[m]
      <3>4. x \in S
        OBVIOUS
      <3> HIDE DEF t, x, a
      <3>5. a \in 1..Len(Append(t, x)) /\ Append(t, x)[a] = t[a]
        BY <3>2, <3>4 DEF t
      <3>6. a \in 1..Len(f[m]) /\ f[m][a] = s[j]
        BY <3>2, <3>3, <3>5 DEF t, x
      <3> QED
        BY <3>1, <3>6
    <2> QED
      BY <1>1, <2>1, <2>2, <2>3
  <1> HIDE DEF G
  <1>7. 0..N \subseteq G
    BY <1>1, <1>5, <1>6, Climb
  <1>8. ASSUME NEW m \in j..N PROVE a \in 1..Len(f[m]) /\ f[m][a] = s[j]
    <2>1. m \in 0..N /\ m >= j
      BY <1>1
    <2> QED
      BY <1>7, <2>1 DEF G
  <1> QED
    BY <1>1, <1>4, <1>8 DEF Placed

(* KeepIn keeps two elements in their order,                               *)
LEMMA KeepInOrder ==
    ASSUME NEW S, NEW s \in Seq(S), NEW K, NEW j \in 1..Len(s), NEW k \in 1..Len(s),
           j < k, s[j] \in K, s[k] \in K
    PROVE  \E a, b \in 1..Len(KeepIn(s, K)) :
              a < b /\ KeepIn(s, K)[a] = s[j] /\ KeepIn(s, K)[b] = s[k]
  <1> DEFINE N == Len(s)
  <1>1. PICK f \in [0..N -> Seq(S \cap K)] : Keeps(f, s, K)
    BY KeepInSteps
  <1>2. N \in Nat /\ f \in [0..N -> Seq(S)] /\ N \in j..N /\ N \in k..N /\ k - 1 \in j..N
        /\ k \in 0..N /\ k - 1 \in 0..N /\ \A m \in 0..N : Len(f[m]) \in Nat
    OBVIOUS
  <1>0. f \in [0..Len(s) -> Seq(S)] /\ Keeps(f, s, K)
    BY <1>1
  <1>3. Placed(f, s, j) /\ Placed(f, s, k)
    BY <1>0, KeepsPlace
  <1>5. Len(f[j]) < Len(f[k])
    BY <1>2, <1>3 DEF Placed
  <1>6. KeepIn(s, K) = f[N]
    BY <1>1 DEF Keeps
  <1> QED
    BY <1>2, <1>3, <1>5, <1>6 DEF Placed

(* and what it keeps are the elements in K.                                *)
LEMMA KeepInToSet ==
    ASSUME NEW S, NEW s \in Seq(S), NEW K
    PROVE  ToSet(KeepIn(s, K)) = ToSet(s) \cap K
  <1> DEFINE N == Len(s)
             t == KeepIn(s, K)
  <1>1. s \in Seq(ToSet(s))
    BY OwnElements
  <1>2. t \in Seq(ToSet(s) \cap K)
    BY <1>1, KeepInKeeps
  <1>3. ToSet(t) \subseteq ToSet(s) \cap K
    BY <1>2, ToSetIn
  <1>4. ASSUME NEW j \in 1..N, s[j] \in K PROVE s[j] \in ToSet(t)
    <2>1. PICK f \in [0..N -> Seq(S \cap K)] : Keeps(f, s, K)
      BY KeepInSteps
    <2>2. N \in Nat /\ f \in [0..N -> Seq(S)] /\ N \in j..N
      OBVIOUS
    <2>0. f \in [0..Len(s) -> Seq(S)] /\ Keeps(f, s, K)
      BY <2>1
    <2>3. Placed(f, s, j)
      BY <1>4, <2>0, KeepsPlace
    <2>4. Len(f[j]) \in 1..Len(f[N]) /\ f[N][Len(f[j])] = s[j] /\ t = f[N]
      BY <2>1, <2>2, <2>3 DEF Keeps, Placed
    <2> HIDE DEF t
    <2>5. DOMAIN t = 1..Len(t)
      BY <1>2
    <2> QED
      BY <2>4, <2>5 DEF ToSet
  <1>5. DOMAIN s = 1..N
    OBVIOUS
  <1> HIDE DEF t
  <1> QED
    BY <1>3, <1>4, <1>5 DEF ToSet, t

\* The messages of a history.
Said ==
    {User} \cup {Assistant(calls) : calls \in Seq(Nat)} \cup {ToolMessage(id) : id \in Nat}

\* A history made from the events replays the result of the call: a response
\* with it whose calls all have results comes before the result.
Replays(events, id) ==
    \E j, k \in 1..Len(events) :
        /\ j < k
        /\ events[j].kind = "response" /\ id \in ToSet(events[j].calls)
        /\ ToSet(events[j].calls) \subseteq ResultIds(events)
        /\ events[k].kind = "result" /\ events[k].id = id

\* A result of the call comes after the call among the messages.
Follow(talk, id) ==
    \E p, q \in 1..Len(talk) :
        /\ p < q
        /\ id \in ToSet(talk[p].calls)
        /\ talk[q].role = "tool" /\ talk[q].id = id

(* So it is in the history that apply_events makes,                        *)
LEMMA EventsApplied ==
    ASSUME NEW h \in Seq(Said), NEW events \in Seq(EventRecords)
    PROVE  /\ ApplyEvents(h, events) \in Seq(Said)
           /\ \A id : Replays(events, id) => Follow(ApplyEvents(h, events), id)
  <1> DEFINE Kept(e) == \/ e.kind = "result"
                        \/ /\ e.kind = "response"
                           /\ ToSet(e.calls) \subseteq ResultIds(events)
             MessageOf(e) == IF e.kind = "response" THEN Assistant(e.calls)
                                                    ELSE ToolMessage(e.id)
             K == {e \in ToSet(events) : Kept(e)}
             kept == KeepIn(events, K)
             new == [i \in DOMAIN kept |-> MessageOf(kept[i])]
             all == h \o new
  <1>1. ApplyEvents(h, events) = all
    <2> DEFINE KeptOf(t) == KeepIn(t, {e \in ToSet(t) :
                                \/ e.kind = "result"
                                \/ e.kind = "response"
                                   /\ ToSet(e.calls) \subseteq ResultIds(t)})
               New(t) == [i \in DOMAIN KeptOf(t) |-> MessageOf(KeptOf(t)[i])]
               applied == [t \in {events} |-> New(t)]
    <2>1. ApplyEvents(h, events) = h \o applied[events]
      BY DEF ApplyEvents
    <2>2. New(events) = new
      OBVIOUS
    <2>3. applied[events] = New(events)
      <3> HIDE DEF New
      <3> QED
        OBVIOUS
    <2> HIDE DEF New, applied, new
    <2> QED
      BY <2>1, <2>2, <2>3
  <1>2. kept \in Seq(EventRecords)
    BY KeepInIn
  <1>3. \A e \in EventRecords : MessageOf(e) \in Said
    BY DEF EventRecords, Said
  <1>4. ASSUME NEW id, Replays(events, id)
        PROVE  \E a, b \in 1..Len(kept) :
                  /\ a < b
                  /\ kept[a].kind = "response" /\ id \in ToSet(kept[a].calls)
                  /\ kept[b].kind = "result" /\ kept[b].id = id
    <2>1. PICK j, k \in 1..Len(events) :
              /\ j < k
              /\ events[j].kind = "response" /\ id \in ToSet(events[j].calls)
              /\ ToSet(events[j].calls) \subseteq ResultIds(events)
              /\ events[k].kind = "result" /\ events[k].id = id
      BY <1>4 DEF Replays
    <2>2. events[j] \in K /\ events[k] \in K
      BY <2>1 DEF ToSet
    <2> HIDE DEF K
    <2>3. \E a, b \in 1..Len(kept) : a < b /\ kept[a] = events[j] /\ kept[b] = events[k]
      BY <2>1, <2>2, KeepInOrder
    <2> QED
      BY <2>1, <2>3
  <1> HIDE DEF K, kept
  <1>8. new \in Seq(Said) /\ Len(new) = Len(kept)
        /\ \A i \in 1..Len(kept) : new[i] = MessageOf(kept[i])
    <2> DEFINE M == Said
    <2> HIDE DEF M
    <2>1. \A e \in EventRecords : MessageOf(e) \in M
      BY <1>3 DEF M
    <2> HIDE DEF MessageOf
    <2>2. Len(kept) \in Nat /\ DOMAIN kept = 1..Len(kept)
          /\ \A i \in 1..Len(kept) : kept[i] \in EventRecords
      BY <1>2
    <2>3. new \in [1..Len(kept) -> M]
      BY <2>1, <2>2
    <2>4. new \in Seq(M) /\ Len(new) = Len(kept)
      BY <2>2, <2>3
    <2>5. \A i \in 1..Len(kept) : new[i] = MessageOf(kept[i])
      BY <2>2
    <2> QED
      BY <2>4, <2>5 DEF M
  <1>5. new \in Seq(Said) /\ Len(new) = Len(kept)
        /\ \A i \in 1..Len(kept) : new[i] = IF kept[i].kind = "response"
                                             THEN Assistant(kept[i].calls)
                                             ELSE ToolMessage(kept[i].id)
    BY <1>8
  <1> HIDE DEF new
  <1>6. /\ all \in Seq(Said) /\ Len(all) = Len(h) + Len(new)
        /\ \A i \in 1..Len(new) : all[Len(h) + i] = new[i]
    <2>1. new \in Seq(Said)
      BY <1>5
    <2> QED
      BY <2>1, Concatenated
  <1> HIDE DEF all
  <1>7. ASSUME NEW id, Replays(events, id) PROVE Follow(all, id)
    <2>1. PICK a, b \in 1..Len(kept) :
              /\ a < b
              /\ kept[a].kind = "response" /\ id \in ToSet(kept[a].calls)
              /\ kept[b].kind = "result" /\ kept[b].id = id
      BY <1>4, <1>7
    <2> DEFINE p == Len(h) + a
               q == Len(h) + b
    <2>2. p \in 1..Len(all) /\ q \in 1..Len(all) /\ p < q
      BY <1>5, <1>6, <2>1
    <2>3. all[p] = Assistant(kept[a].calls) /\ all[q] = ToolMessage(id)
      BY <1>5, <1>6, <2>1
    <2> HIDE DEF p, q
    <2>4. id \in ToSet(all[p].calls) /\ all[q].role = "tool" /\ all[q].id = id
      BY <2>1, <2>3 DEF Assistant, ToolMessage
    <2> QED
      BY <2>2, <2>4 DEF Follow
  <1> QED
    BY <1>1, <1>6, <1>7

(* The sanitizer keeps it,                                                 *)
LEMMA FollowKept ==
    ASSUME NEW talk \in Seq(Said), NEW id, Follow(talk, id)
    PROVE  /\ Sanitize(talk) \in Seq(Said)
           /\ \E c \in 1..Len(Sanitize(talk)) :
                 Sanitize(talk)[c].role = "tool" /\ Sanitize(talk)[c].id = id
  <1> DEFINE N == Len(talk)
             Called(i) == UNION {ToSet(talk[j].calls) : j \in 1..(i - 1)}
             Kept(i) == talk[i].role = "tool" => talk[i].id \in Called(i)
             places == [i \in DOMAIN talk |-> i]
             K == {i \in DOMAIN talk : Kept(i)}
             kept == KeepIn(places, K)
             clean == [k \in DOMAIN kept |-> talk[kept[k]]]
  <1>1. Sanitize(talk) = clean
    BY DEF Sanitize
  <1>2. N \in Nat /\ DOMAIN talk = 1..N
    OBVIOUS
  <1>3. PICK p, q \in 1..N :
            /\ p < q
            /\ id \in ToSet(talk[p].calls)
            /\ talk[q].role = "tool" /\ talk[q].id = id
    BY DEF Follow
  <1>4. places \in Seq(1..N) /\ DOMAIN places = 1..N /\ \A i \in 1..N : places[i] = i
    BY <1>2
  <1>5. q \in K
    <2>1. p \in 1..(q - 1)
      BY <1>2, <1>3
    <2>2. id \in Called(q)
      BY <1>3, <2>1
    <2> QED
      BY <1>2, <1>3, <2>2
  <1> HIDE DEF K, places
  <1>6. kept \in Seq(1..N)
    BY <1>4, KeepInIn
  <1>7. q \in ToSet(kept)
    <2>1. q \in ToSet(places)
      BY <1>4 DEF ToSet
    <2>2. ToSet(kept) = ToSet(places) \cap K
      BY <1>4, KeepInToSet
    <2> QED
      BY <1>5, <2>1, <2>2
  <1> HIDE DEF kept
  <1>8. /\ Len(kept) \in Nat /\ DOMAIN kept = 1..Len(kept)
        /\ \A k \in 1..Len(kept) : kept[k] \in 1..N
    BY <1>6
  <1>9. \A i \in 1..N : talk[i] \in Said
    BY <1>2
  <1>10. clean \in [1..Len(kept) -> Said]
    BY <1>8, <1>9
  <1>11. clean \in Seq(Said) /\ Len(clean) = Len(kept)
    BY <1>8, <1>10
  <1>12. PICK c \in 1..Len(kept) : kept[c] = q
    BY <1>7, <1>8 DEF ToSet
  <1>13. clean[c] = talk[q]
    BY <1>8, <1>12
  <1> HIDE DEF clean
  <1> QED
    BY <1>1, <1>3, <1>11, <1>12, <1>13

(* Every nonempty set of numbers up to n has a greatest element.           *)
LEMMA Greatest ==
    ASSUME NEW n \in Nat, NEW S \in SUBSET (1..n), S # {}
    PROVE  \E i \in S : \A j \in S : j <= i
  <1> DEFINE T == {n - i : i \in S}
  <1>1. T \in SUBSET Nat /\ T # {}
    <2>1. \A i \in S : n - i \in Nat
      OBVIOUS
    <2>2. T \in SUBSET Nat
      BY <2>1
    <2>3. T # {}
      BY Zenon
    <2> QED
      BY <2>2, <2>3
  <1> HIDE DEF T
  <1>2. PICK m \in T : \A k \in T : m <= k
    BY <1>1, Least
  <1>3. PICK i \in S : m = n - i
    BY <1>2 DEF T
  <1>4. ASSUME NEW j \in S PROVE j <= i
    <2>1. n - j \in T
      BY DEF T
    <2>2. m <= n - j
      BY <1>2, <2>1
    <2> QED
      BY <1>3, <2>2
  <1> QED
    BY <1>4

(* and what is prepared for the model has it.                              *)
LEMMA FollowPrepared ==
    ASSUME NEW talk \in Seq(Said), NEW id, Follow(talk, id)
    PROVE  id \in {m.id : m \in ToSet(PrepareForModel(talk))}
  <1> DEFINE clean == Sanitize(talk)
             results == {m.id : m \in {n \in ToSet(clean) : n.role = "tool"}}
             Stripped(m) == /\ m.role = "assistant"
                            /\ \/ m.calls = <<>>
                               \/ ~(ToSet(m.calls) \subseteq results)
             stops == {i \in DOMAIN clean : ~Stripped(clean[i])}
             last == CHOOSE i \in stops : \A j \in stops : j <= i
             all == SubSeq(clean, 1, IF stops = {} THEN 0 ELSE last)
  <1>1. PrepareForModel(talk) = all
    BY DEF PrepareForModel
  <1>2. clean \in Seq(Said)
    BY FollowKept
  <1>3. PICK c \in 1..Len(clean) : clean[c].role = "tool" /\ clean[c].id = id
    BY FollowKept
  <1>4. c \in stops /\ stops \in SUBSET (1..Len(clean)) /\ Len(clean) \in Nat
    BY <1>2, <1>3
  <1> HIDE DEF stops, clean
  <1>5. \E i \in stops : \A j \in stops : j <= i
    BY <1>4, Greatest
  <1>6. last \in stops /\ c <= last
    BY <1>4, <1>5
  <1> HIDE DEF last
  <1>7. all = SubSeq(clean, 1, last) /\ last \in 1..Len(clean) /\ c \in 1..last
    BY <1>4, <1>6
  <1>8. all[c] = clean[c] /\ c \in DOMAIN all
    <2>1. /\ Len(SubSeq(clean, 1, last)) = last
          /\ SubSeq(clean, 1, last)[c] = clean[c]
          /\ SubSeq(clean, 1, last) \in Seq(Said)
      BY <1>2, <1>7
    <2> HIDE DEF all
    <2> QED
      BY <1>7, <2>1
  <1> HIDE DEF all
  <1>9. clean[c] \in ToSet(all)
    BY <1>8 DEF ToSet
  <1> QED
    BY <1>1, <1>3, <1>9

(* What the next turn replays of a history made from these events.         *)
LEMMA EventsRemembered ==
    ASSUME NEW h \in Seq(Said), NEW events \in Seq(EventRecords), NEW id,
           Replays(events, id)
    PROVE  id \in {m.id : m \in ToSet(PrepareForModel(
                                         Append(ApplyEvents(h, events), User)))}
  <1> DEFINE made == ApplyEvents(h, events)
             all == Append(made, User)
  <1>1. made \in Seq(Said) /\ Follow(made, id)
    BY EventsApplied
  <1>2. User \in Said
    BY DEF Said
  <1> HIDE DEF made
  <1>3. all \in Seq(Said) /\ Len(all) = Len(made) + 1 /\ Len(made) \in Nat
        /\ \A k \in 1..Len(made) : all[k] = made[k]
    <2> DEFINE x == User
               M == Said
    <2>1. x \in M /\ made \in Seq(M)
      BY <1>1, <1>2
    <2> HIDE DEF x, M
    <2>2. /\ Append(made, x) \in Seq(M) /\ Len(Append(made, x)) = Len(made) + 1
          /\ Len(made) \in Nat /\ \A k \in 1..Len(made) : Append(made, x)[k] = made[k]
      BY <2>1
    <2> QED
      BY <2>2 DEF x, M
  <1> HIDE DEF all
  <1>4. Follow(all, id)
    <2>1. PICK p, q \in 1..Len(made) :
              /\ p < q
              /\ id \in ToSet(made[p].calls)
              /\ made[q].role = "tool" /\ made[q].id = id
      BY <1>1 DEF Follow
    <2>2. p \in 1..Len(all) /\ q \in 1..Len(all) /\ all[p] = made[p] /\ all[q] = made[q]
      BY <1>3
    <2> QED
      BY <2>1, <2>2 DEF Follow
  <1>5. id \in {m.id : m \in ToSet(PrepareForModel(all))}
    BY <1>3, <1>4, FollowPrepared
  <1> QED
    BY <1>5 DEF all, made

(* The results among joined events.                                        *)
LEMMA ResultsJoined ==
    ASSUME NEW s \in Seq(EventRecords), NEW t \in Seq(EventRecords)
    PROVE  ResultIds(s \o t) = ResultIds(s) \cup ResultIds(t)
  <1>1. ToSet(s \o t) = ToSet(s) \cup ToSet(t)
    BY ToSetJoined
  <1> QED
    BY <1>1 DEF ResultIds

(* More events, before or after, replay no less.                           *)
LEMMA ReplaysMore ==
    ASSUME NEW s \in Seq(EventRecords), NEW t \in Seq(EventRecords), NEW id
    PROVE  /\ Replays(s, id) => Replays(s \o t, id)
           /\ Replays(t, id) => Replays(s \o t, id)
  <1> DEFINE all == s \o t
  <1>1. ResultIds(all) = ResultIds(s) \cup ResultIds(t)
    BY ResultsJoined
  <1>2. /\ Len(all) = Len(s) + Len(t) /\ Len(s) \in Nat /\ Len(t) \in Nat
        /\ \A k \in 1..Len(s) : all[k] = s[k]
        /\ \A k \in 1..Len(t) : all[Len(s) + k] = t[k]
    BY Concatenated
  <1> HIDE DEF all
  <1>3. ASSUME Replays(s, id) PROVE Replays(all, id)
    <2>1. PICK j, k \in 1..Len(s) :
              /\ j < k
              /\ s[j].kind = "response" /\ id \in ToSet(s[j].calls)
              /\ ToSet(s[j].calls) \subseteq ResultIds(s)
              /\ s[k].kind = "result" /\ s[k].id = id
      BY <1>3 DEF Replays
    <2>2. j \in 1..Len(all) /\ k \in 1..Len(all) /\ all[j] = s[j] /\ all[k] = s[k]
      BY <1>2
    <2> QED
      BY <1>1, <2>1, <2>2 DEF Replays
  <1>4. ASSUME Replays(t, id) PROVE Replays(all, id)
    <2>1. PICK j, k \in 1..Len(t) :
              /\ j < k
              /\ t[j].kind = "response" /\ id \in ToSet(t[j].calls)
              /\ ToSet(t[j].calls) \subseteq ResultIds(t)
              /\ t[k].kind = "result" /\ t[k].id = id
      BY <1>4 DEF Replays
    <2> DEFINE p == Len(s) + j
               q == Len(s) + k
    <2>2. p \in 1..Len(all) /\ q \in 1..Len(all) /\ p < q /\ all[p] = t[j] /\ all[q] = t[k]
      BY <1>2, <2>1
    <2> HIDE DEF p, q
    <2> QED
      BY <1>1, <2>1, <2>2 DEF Replays
  <1> QED
    BY <1>3, <1>4 DEF all

\* Each result comes after a response with its call.
AfterCalls(events) ==
    \A k \in 1..Len(events) : events[k].kind = "result" =>
        \E j \in 1..(k - 1) : /\ events[j].kind = "response"
                              /\ events[k].id \in ToSet(events[j].calls)

(* The completed part of a run has the results of the run, and replays     *)
(* each that came after its call.                                          *)
LEMMA SafeReplays ==
    ASSUME NEW events \in Seq(EventRecords)
    PROVE  /\ HistorySafe(events) \in Seq(EventRecords)
           /\ ResultIds(events) \subseteq ResultIds(HistorySafe(events))
           /\ AfterCalls(events) =>
                 \A id \in ResultIds(events) : Replays(HistorySafe(events), id)
  <1> DEFINE done == ResultIds(events)
             Narrow(e) == [e EXCEPT !.calls = KeepIn(@, done)]
             Dropped(e) == /\ e.kind = "response"
                           /\ e.calls # <<>>
                           /\ Narrow(e).calls = <<>>
             K == {e \in ToSet(events) : ~Dropped(e)}
             kept == KeepIn(events, K)
             h == HistorySafe(events)
             all == [i \in DOMAIN kept |-> Narrow(kept[i])]
  <1>1. h = IF done = {} THEN <<>> ELSE all
    BY DEF HistorySafe
  <1>2. ASSUME NEW e \in EventRecords
        PROVE  /\ Narrow(e).kind = e.kind /\ Narrow(e).id = e.id
               /\ ToSet(Narrow(e).calls) = ToSet(e.calls) \cap done
    <2>1. e.calls \in Seq(Nat)
      BY DEF EventRecords
    <2> DEFINE c == KeepIn(e.calls, done)
    <2>2. ToSet(c) = ToSet(e.calls) \cap done
      BY <2>1, KeepInToSet
    <2> HIDE DEF c, done
    <2>3. Narrow(e) = [e EXCEPT !.calls = c]
      BY DEF c
    <2> DEFINE x == Narrow(e)
    <2> HIDE DEF x
    <2>4. x.kind = e.kind /\ x.id = e.id /\ x.calls = c
      BY <2>3 DEF EventRecords, x
    <2> QED
      BY <2>2, <2>4 DEF x
  <1>3. h \in Seq(EventRecords)
    BY SafeEvents
  <1>4. kept \in Seq(EventRecords)
    BY KeepInIn
  <1>5. /\ DOMAIN events = 1..Len(events) /\ Len(events) \in Nat
        /\ \A k \in 1..Len(events) : events[k] \in EventRecords
    OBVIOUS
  <1>6. ASSUME NEW k \in 1..Len(events), events[k].kind = "result"
        PROVE  events[k] \in K /\ events[k].id \in done
    BY <1>5, <1>6 DEF ToSet, ResultIds
  <1>7. ASSUME NEW j \in 1..Len(events), ToSet(events[j].calls) \cap done # {}
        PROVE  events[j] \in K
    <2>1. events[j] \in ToSet(events)
      BY <1>5 DEF ToSet
    <2>2. ToSet(Narrow(events[j]).calls) # {}
      BY <1>2, <1>5, <1>7
    <2>3. ToSet(<<>>) = {}
      BY DEF ToSet
    <2> QED
      BY <2>1, <2>2, <2>3
  <1>8. \A e \in ToSet(kept) : e \in ToSet(events)
    <2>1. ToSet(kept) = ToSet(events) \cap K
      BY KeepInToSet
    <2> QED
      BY <2>1
  <1>9. \A e \in ToSet(events) \cap K : e \in ToSet(kept)
    BY KeepInToSet
  <1>10. ASSUME NEW j \in 1..Len(events), NEW k \in 1..Len(events), j < k,
                events[j] \in K, events[k] \in K
         PROVE  \E a, b \in 1..Len(kept) :
                   a < b /\ kept[a] = events[j] /\ kept[b] = events[k]
    <2> HIDE DEF K
    <2> QED
      BY <1>10, KeepInOrder
  <1> HIDE DEF K, kept, Narrow, h
  <1>11. /\ Len(all) = Len(kept) /\ Len(kept) \in Nat /\ DOMAIN all = 1..Len(kept)
         /\ DOMAIN kept = 1..Len(kept)
         /\ \A a \in 1..Len(kept) : all[a] = Narrow(kept[a]) /\ kept[a] \in EventRecords
    <2>1. Len(kept) \in Nat /\ DOMAIN kept = 1..Len(kept)
          /\ \A a \in 1..Len(kept) : kept[a] \in EventRecords
      BY <1>4
    <2>2. all = [i \in 1..Len(kept) |-> Narrow(kept[i])]
      BY <2>1
    <2> QED
      BY <2>1, <2>2
  <1> HIDE DEF all
  <1>12. ASSUME NEW id \in done PROVE id \in ResultIds(all)
    <2>1. PICK k \in 1..Len(events) : events[k].kind = "result" /\ events[k].id = id
      BY <1>5 DEF ResultIds, ToSet
    <2>2. events[k] \in ToSet(kept)
      BY <1>5, <1>6, <1>9, <2>1 DEF ToSet
    <2>3. PICK b \in 1..Len(kept) : kept[b] = events[k]
      BY <1>11, <2>2 DEF ToSet
    <2>4. all[b].kind = "result" /\ all[b].id = id
      BY <1>2, <1>11, <2>1, <2>3
    <2> QED
      BY <1>11, <2>4 DEF ResultIds, ToSet
  <1>13. ASSUME AfterCalls(events), NEW id \in done PROVE Replays(all, id)
    <2>1. PICK k \in 1..Len(events) : events[k].kind = "result" /\ events[k].id = id
      BY <1>5 DEF ResultIds, ToSet
    <2>2. PICK j \in 1..(k - 1) : events[j].kind = "response" /\ id \in ToSet(events[j].calls)
      BY <1>13, <2>1 DEF AfterCalls
    <2>3. j \in 1..Len(events) /\ j < k
      BY <1>5
    <2>4. events[j] \in K /\ events[k] \in K
      BY <1>6, <1>7, <2>1, <2>2, <2>3
    <2>5. PICK a, b \in 1..Len(kept) : a < b /\ kept[a] = events[j] /\ kept[b] = events[k]
      BY <1>10, <2>3, <2>4
    <2>6. all[b].kind = "result" /\ all[b].id = id
      BY <1>2, <1>11, <2>1, <2>5
    <2>7. all[a].kind = "response" /\ ToSet(all[a].calls) = ToSet(events[j].calls) \cap done
      BY <1>2, <1>11, <2>2, <2>5
    <2>8. done \subseteq ResultIds(all)
      BY <1>12
    <2>9. a \in 1..Len(all) /\ b \in 1..Len(all)
      BY <1>11
    <2> HIDE DEF done
    <2> QED
      BY <2>2, <2>5, <2>6, <2>7, <2>8, <2>9 DEF Replays
  <1>14. CASE done = {}
    BY <1>3, <1>14 DEF h
  <1>15. CASE done # {}
    BY <1>1, <1>3, <1>12, <1>13, <1>15 DEF h
  <1> QED
    BY <1>14, <1>15

(* The part of a response that was resumed replays its results.            *)
LEMMA ResumedReplays ==
    ASSUME TurnInv, UsageInv, phase = "resume",
           ResultIds(run.events) \subseteq ToSet(turn.pending)
    PROVE  /\ Resumed(run.events) \in Seq(EventRecords)
           /\ \A id \in ResultIds(run.events) : Replays(Resumed(run.events), id)
  <1> DEFINE events == run.events
             done == ResultIds(events)
             calls == KeepIn(turn.pending, done)
             rest == HistorySafe(events)
             r == ResponseFor(calls)
             one == <<r>>
             all == one \o rest
  <1>1. /\ turn.pending \in Seq(Ids) /\ events \in Seq(EventRecords)
        /\ turn.batch \in Seq(Ids)
    BY DEF TurnInv, UsageInv, OfBatch
  <1>2. calls \in Seq(Ids) /\ ToSet(calls) = done
    <2>1. done \subseteq ToSet(turn.pending)
      OBVIOUS
    <2> HIDE DEF done
    <2>2. calls \in Seq(Ids)
      BY <1>1, KeepInIn
    <2>3. ToSet(calls) = ToSet(turn.pending) \cap done
      BY <1>1, KeepInToSet
    <2> QED
      BY <2>1, <2>2, <2>3
  <1>3. rest \in Seq(EventRecords) /\ done \subseteq ResultIds(rest)
    BY <1>1, SafeReplays
  <1>4. Resumed(events) = IF calls = <<>> THEN <<>> ELSE all
    BY DEF Resumed
  <1>5. CASE calls = <<>>
    <2>1. ToSet(<<>>) = {}
      BY DEF ToSet
    <2> HIDE DEF calls
    <2>2. done = {}
      BY <1>2, <1>5, <2>1
    <2>3. Resumed(events) = <<>>
      BY <1>4, <1>5
    <2>4. <<>> \in Seq(EventRecords)
      OBVIOUS
    <2> QED
      BY <2>2, <2>3, <2>4
  <1>6. CASE calls # <<>>
    <2>1. r \in EventRecords /\ r.kind = "response" /\ r.calls = calls
      <3> HIDE DEF calls
      <3>1. calls \in Seq(Nat) /\ turn.batch \in Seq(Nat) /\ "" \in EventNotes
        <4>1. \A s \in Seq(Ids) : s \in Seq(Nat)
          BY DEF Ids
        <4>2. calls \in Seq(Nat)
          BY <1>2, <4>1
        <4>3. turn.batch \in Seq(Nat)
          BY <1>1, <4>1
        <4>4. "" \in EventNotes
          BY DEF EventNotes, Ends
        <4> QED
          BY <4>2, <4>3, <4>4
      <3> DEFINE u == IF UsageCommitted THEN <<>> ELSE turn.batch
      <3> HIDE DEF u
      <3>2. u \in Seq(Nat)
        <4> DEFINE none == <<>>
        <4>1. none \in Seq(Nat)
          OBVIOUS
        <4> HIDE DEF none
        <4>2. u = IF UsageCommitted THEN none ELSE turn.batch
          BY DEF none, u
        <4> QED
          BY <3>1, <4>1, <4>2
      <3>3. r = [kind |-> "response", calls |-> calls, usage |-> u, id |-> 0, note |-> ""]
        BY DEF ResponseFor, Response, Event, u
      <3> HIDE DEF r
      <3> QED
        BY <3>1, <3>2, <3>3 DEF EventRecords
    <2> HIDE DEF r, rest, calls
    <2>2. one \in Seq(EventRecords) /\ Len(one) = 1 /\ one[1] = r
      BY <2>1
    <2> HIDE DEF one
    <2>3. /\ all \in Seq(EventRecords) /\ Len(all) = Len(one) + Len(rest)
          /\ \A k \in 1..Len(one) : all[k] = one[k]
          /\ \A k \in 1..Len(rest) : all[Len(one) + k] = rest[k]
      <3>1. one \in Seq(EventRecords) /\ rest \in Seq(EventRecords)
        BY <1>3, <2>2
      <3> QED
        BY <3>1, Concatenated
    <2>4. ResultIds(all) = ResultIds(one) \cup ResultIds(rest)
      <3>1. one \in Seq(EventRecords) /\ rest \in Seq(EventRecords)
        BY <1>3, <2>2
      <3> QED
        BY <3>1, ResultsJoined
    <2>5. Len(rest) \in Nat /\ DOMAIN rest = 1..Len(rest)
      BY <1>3
    <2> HIDE DEF all
    <2>6. ASSUME NEW id \in done PROVE Replays(all, id)
      <3>0. id \in ResultIds(rest)
        BY <1>3
      <3>1. PICK k \in 1..Len(rest) : rest[k].kind = "result" /\ rest[k].id = id
        BY <2>5, <3>0 DEF ResultIds, ToSet
      <3> DEFINE q == Len(one) + k
      <3>2. q \in 1..Len(all) /\ 1 \in 1..Len(all) /\ 1 < q /\ all[1] = r /\ all[q] = rest[k]
        BY <2>2, <2>3, <2>5, <3>1
      <3> HIDE DEF q, done
      <3> QED
        BY <1>2, <1>3, <2>1, <2>4, <3>1, <3>2 DEF Replays
    <2> QED
      BY <1>4, <1>6, <2>3, <2>6
  <1> QED
    BY <1>5, <1>6

\* The turns that end of themselves, wait for the user or pause.
Lasting == {"stop", "max_turns", "awaiting_confirmation", "stopped"}

IdsOf(items) == {x.id : x \in ToSet(items)}

\* Every call of these responses has a result, or is open.
Answered(events, open) ==
    \A e \in ToSet(events) :
        e.kind = "response" => ToSet(e.calls) \subseteq ResultIds(events) \cup open

\* A question among the items, or a limit, leaves calls of the batch behind.
Interrupted == run.cut \/ \E x \in ToSet(run.items) : x.out \in Asking

\* Each call that ran is replayed by what is committed, has its result in the
\* run, or is in the window in progress.
RanKept ==
    phase # "idle" => \A id \in ToSet(ran) :
        \/ Replays(turn.committed, id)
        \/ phase # "asking" /\ id \in ResultIds(run.events)
        \/ phase = "windows" /\ id \in WindowIds

\* A run answers the calls of its responses, after them: all of them unless
\* some are still to come or the batch is interrupted.
RunAnswers ==
    /\ phase \in {"model", "calls", "prepare", "windows", "items"} =>
          AfterCalls(run.events)
    /\ phase = "model" => Answered(run.events, {})
    /\ phase \in {"calls", "prepare"} => Answered(run.events, ToSet(run.queue))
    /\ phase = "windows" =>
          /\ IdsOf(run.window) \subseteq ToSet(turn.batch)
          /\ \/ Interrupted
             \/ Answered(run.events,
                         IdsOf(run.lane) \cup IdsOf(run.window) \cup IdsOf(run.items))
    /\ phase = "items" => Interrupted \/ Answered(run.events, IdsOf(run.items))

\* Resumed calls only add results of pending calls.
ResumeAnswers ==
    phase = "resume" =>
        ResultIds(run.events) \cup ToSet(run.queue) \subseteq ToSet(turn.pending)

RememberInv ==
    /\ history \in Seq(Said)
    /\ Remembered
    /\ RanKept /\ RunAnswers /\ ResumeAnswers

(* What a turn commits and reports are events.                             *)
LEMMA EventsTyped ==
    ASSUME TurnInv, UsageInv
    PROVE  /\ run.events \in Seq(EventRecords) /\ turn.committed \in Seq(EventRecords)
           /\ RunFields /\ TurnFields
  BY DEF TurnInv, UsageInv, EventsCounted, CountedOnce

(* So are the events a turn ends with.                                     *)
LEMMA LastEvents ==
    /\ Error \in EventRecords
    /\ \A reason \in Ends : Done(reason) \in EventRecords
    /\ \A n \in Nat : Ask(n) \in EventRecords
    /\ \A u \in Seq(Nat) : Response(<<>>, u) \in EventRecords
  <1> DEFINE none == <<>>
  <1>1. none \in Seq(Nat) /\ 0 \in Nat /\ "" \in EventNotes /\ Ends \subseteq EventNotes
    <2>1. "" \in EventNotes /\ Ends \subseteq EventNotes
      BY DEF EventNotes, Ends
    <2>2. none \in Seq(Nat) /\ 0 \in Nat
      OBVIOUS
    <2> QED
      BY <2>1, <2>2
  <1> HIDE DEF none
  <1>2. \A kind \in {"response", "ask", "done", "error"}, u \in Seq(Nat), n \in Nat,
           note \in EventNotes : Event(kind, none, u, n, note) \in EventRecords
    BY <1>1 DEF Event, EventRecords
  <1>3. Error = Event("error", none, none, 0, "")
    BY DEF Error, none
  <1>4. \A reason : Done(reason) = Event("done", none, none, 0, reason)
    BY DEF Done, none
  <1>5. \A n : Ask(n) = Event("ask", none, none, n, "")
    BY DEF Ask, none
  <1>6. \A u : Response(<<>>, u) = Event("response", none, u, 0, "")
    BY DEF Response, none
  <1> QED
    BY <1>1, <1>2, <1>3, <1>4, <1>5, <1>6

(* A run whose calls are all answered replays its results.                 *)
LEMMA RunReplays ==
    ASSUME NEW events \in Seq(EventRecords), AfterCalls(events), Answered(events, {}),
           NEW id \in ResultIds(events)
    PROVE  Replays(events, id)
  <1>1. DOMAIN events = 1..Len(events) /\ Len(events) \in Nat
    OBVIOUS
  <1>2. PICK k \in 1..Len(events) : events[k].kind = "result" /\ events[k].id = id
    BY <1>1 DEF ResultIds, ToSet
  <1>3. PICK j \in 1..(k - 1) : events[j].kind = "response" /\ id \in ToSet(events[j].calls)
    BY <1>2 DEF AfterCalls
  <1>4. j \in 1..Len(events) /\ j < k
    BY <1>1
  <1>5. events[j] \in ToSet(events)
    BY <1>1, <1>4 DEF ToSet
  <1>6. ToSet(events[j].calls) \subseteq ResultIds(events)
    BY <1>3, <1>5 DEF Answered
  <1> QED
    BY <1>2, <1>3, <1>4, <1>6 DEF Replays

(* A turn that ends forgets nothing when its events replay what ran.       *)
LEMMA TurnEnded ==
    ASSUME history \in Seq(Said), turn.committed \in Seq(EventRecords),
           NEW events \in Seq(EventRecords), NEW status, FinishTurn(events, status),
           status \in Lasting =>
              /\ UNCHANGED ran
              /\ \A id \in ToSet(ran) : Replays(turn.committed \o events, id)
    PROVE  RememberInv'
  <1> DEFINE all == turn.committed \o events
             made == ApplyEvents(history, all)
  <1>1. history' = made /\ ended' = status /\ phase' = "idle"
    BY DEF FinishTurn
  <1>2. all \in Seq(EventRecords)
    BY Concatenated
  <1>3. made \in Seq(Said)
    BY <1>2, EventsApplied
  <1>4. ASSUME status \in Lasting PROVE ToSet(ran') \subseteq RememberedIds'
    <2>1. ASSUME NEW id \in ToSet(ran)
          PROVE  id \in {m.id : m \in ToSet(PrepareForModel(Append(made, User)))}
      <3>1. Replays(all, id)
        BY <1>4
      <3> HIDE DEF all
      <3> QED
        BY <1>2, <3>1, EventsRemembered
    <2>2. RememberedIds' = {m.id : m \in ToSet(PrepareForModel(Append(history', User)))}
      BY DEF RememberedIds
    <2> HIDE DEF made
    <2>3. ran' = ran
      BY <1>4
    <2> QED
      BY <1>1, <2>1, <2>2, <2>3
  <1> HIDE DEF made
  <1>5. Remembered'
    BY <1>1, <1>4 DEF Remembered, Lasting
  <1> QED
    BY <1>1, <1>3, <1>5 DEF RememberInv, RanKept, RunAnswers, ResumeAnswers

(* In particular a turn that ends in a way that may forget.                *)
LEMMA TurnFailed ==
    ASSUME TurnInv, UsageInv, RememberInv, NEW events \in Seq(EventRecords),
           NEW status \in Ends, status \notin Lasting,
           \/ FinishTurn(Append(events, Error), status)
           \/ EndWithNotice(events, status)
    PROVE  RememberInv'
  <1>1. turn.committed \in Seq(EventRecords) /\ history \in Seq(Said)
    BY EventsTyped DEF RememberInv
  <1> DEFINE e == Error
             d == Done(status)
             r == Response(<<>>, <<>>)
             two == <<r, d>>
  <1>2. e \in EventRecords /\ d \in EventRecords /\ r \in EventRecords
    <2>1. <<>> \in Seq(Nat)
      OBVIOUS
    <2> QED
      BY <2>1, LastEvents
  <1>3. EndWithNotice(events, status) => FinishTurn(events \o two, status)
    BY DEF EndWithNotice
  <1> HIDE DEF e, d, r
  <1>4. Append(events, e) \in Seq(EventRecords)
    BY <1>2
  <1>5. two \in Seq(EventRecords)
    BY <1>2
  <1> HIDE DEF two
  <1>6. events \o two \in Seq(EventRecords)
    BY <1>5, Concatenated
  <1>7. CASE FinishTurn(Append(events, Error), status)
    BY <1>1, <1>4, <1>7, TurnEnded DEF e
  <1>8. CASE EndWithNotice(events, status)
    BY <1>1, <1>3, <1>6, <1>8, TurnEnded
  <1> QED
    BY <1>7, <1>8

(* A turn that is forgotten.                                               *)
LEMMA TurnForgotten ==
    ASSUME RememberInv, NEW status, status \notin Lasting, ForgetTurn(status)
    PROVE  RememberInv'
  <1>1. phase' = "idle" /\ ended' = status /\ history' = Front(history)
    BY DEF ForgetTurn
  <1>2. history \in Seq(Said)
    BY DEF RememberInv
  <1>3. history' \in Seq(Said)
    <2> DEFINE M == Said
    <2>1. history \in Seq(M)
      BY <1>2
    <2> HIDE DEF M
    <2>2. Front(history) \in Seq(M)
      BY <2>1 DEF Front
    <2> QED
      BY <1>1, <2>2 DEF M
  <1> QED
    BY <1>1, <1>3 DEF RememberInv, Remembered, Lasting, RanKept, RunAnswers, ResumeAnswers

(* A question keeps what has run: the completed part is committed, or the  *)
(* turn ends with it.                                                      *)
LEMMA AskRemembers ==
    ASSUME TurnInv, UsageInv, RememberInv, UNCHANGED ran,
           NEW events \in Seq(EventRecords), AfterCalls(events),
           \A i \in ToSet(ran) : Replays(turn.committed, i) \/ i \in ResultIds(events),
           NEW id \in Nat, NEW questions, AskUser(events, id, questions)
    PROVE  RememberInv'
  <1> DEFINE safe == HistorySafe(events)
             a == Ask(id)
             last == Append(safe, a)
             all == turn.committed \o safe
             new == Committed(safe)
             rest == PendingFrom(events, id)
  <1>1. /\ turn.committed \in Seq(EventRecords) /\ history \in Seq(Said) /\ TurnFields
    BY EventsTyped DEF RememberInv
  <1>2. safe \in Seq(EventRecords) /\ \A i \in ResultIds(events) : Replays(safe, i)
    BY SafeReplays
  <1>3. a \in EventRecords
    BY LastEvents
  <1>4. AskUser(events, id, questions) <=>
          IF config.callback
          THEN /\ phase' = "asking"
               /\ turn' = [new EXCEPT !.pending = rest, !.asked = id, !.resuming = FALSE,
                                      !.questions = questions]
               /\ run' = FreshRun
               /\ UNCHANGED <<history, paused, ended>>
          ELSE FinishTurn(last, "awaiting_confirmation")
    BY DEF AskUser
  <1>5. HasFields(new, TurnNames) /\ new.committed = all
    BY <1>1, CommittedMore
  <1> HIDE DEF safe, a, new, rest
  <1>6. ASSUME NEW i \in ToSet(ran) PROVE Replays(all, i)
    <2>1. Replays(turn.committed, i) \/ Replays(safe, i)
      BY <1>2
    <2> QED
      BY <1>1, <1>2, <2>1, ReplaysMore
  <1>7. CASE ~config.callback
    <2> DEFINE one == <<a>>
    <2>1. one \in Seq(EventRecords) /\ last = safe \o one /\ last \in Seq(EventRecords)
      BY <1>2, <1>3
    <2> HIDE DEF one, last
    <2>2. ASSUME NEW i \in ToSet(ran) PROVE Replays(turn.committed \o last, i)
      <3>1. Replays(turn.committed, i) \/ Replays(safe, i)
        BY <1>2
      <3>2. CASE Replays(turn.committed, i)
        BY <1>1, <2>1, <3>2, ReplaysMore
      <3>3. CASE Replays(safe, i)
        <4>1. Replays(last, i)
          BY <1>2, <2>1, <3>3, ReplaysMore
        <4> QED
          BY <1>1, <2>1, <4>1, ReplaysMore
      <3> QED
        BY <3>1, <3>2, <3>3
    <2>3. FinishTurn(last, "awaiting_confirmation")
      BY <1>4, <1>7
    <2> QED
      BY <1>1, <2>1, <2>2, <2>3, TurnEnded
  <1>8. CASE config.callback
    <2>1. /\ phase' = "asking" /\ history' = history
          /\ turn' = [new EXCEPT !.pending = rest, !.asked = id, !.resuming = FALSE,
                                 !.questions = questions]
      BY <1>4, <1>8
    <2>2. turn'.committed = all
      BY <1>5, <2>1 DEF HasFields, TurnNames
    <2> HIDE DEF all
    <2>3. \A i \in ToSet(ran') : Replays(turn'.committed, i)
      BY <1>6, <2>2
    <2> QED
      BY <1>1, <2>1, <2>3 DEF RememberInv, Remembered, RanKept, RunAnswers, ResumeAnswers
  <1> QED
    BY <1>7, <1>8

(* A result after its response.                                            *)
LEMMA ResultFollows ==
    ASSUME NEW events \in Seq(EventRecords), NEW calls, LastResponse(events, calls),
           NEW id \in ToSet(calls), id \in Nat, NEW note \in EventNotes
    PROVE  /\ Append(events, Result(id, note)) \in Seq(EventRecords)
           /\ ResultIds(Append(events, Result(id, note))) = ResultIds(events) \cup {id}
           /\ AfterCalls(events) => AfterCalls(Append(events, Result(id, note)))
           /\ \A open : Answered(events, open) =>
                 Answered(Append(events, Result(id, note)), open \ {id})
  <1> DEFINE r == Result(id, note)
             all == Append(events, r)
  <1>1. r \in EventRecords /\ r.kind = "result" /\ r.id = id
    <2>1. r \in EventRecords
      BY ResultEvent
    <2> QED
      BY <2>1 DEF Result, Event
  <1> HIDE DEF r
  <1>2. /\ all \in Seq(EventRecords) /\ Len(all) = Len(events) + 1 /\ Len(events) \in Nat
        /\ all[Len(events) + 1] = r /\ \A k \in 1..Len(events) : all[k] = events[k]
    BY <1>1
  <1>3. ToSet(all) = ToSet(events) \cup {r}
    BY ToSetAppend
  <1> HIDE DEF all
  <1>4. ResultIds(all) = ResultIds(events) \cup {id}
    BY <1>1, <1>3 DEF ResultIds
  <1>5. ASSUME AfterCalls(events) PROVE AfterCalls(all)
    <2>1. PICK j \in 1..Len(events) :
              events[j].kind = "response" /\ events[j].calls = calls
      BY DEF LastResponse
    <2>2. ASSUME NEW k \in 1..Len(all), all[k].kind = "result"
          PROVE  \E i \in 1..(k - 1) : all[i].kind = "response"
                                       /\ all[k].id \in ToSet(all[i].calls)
      <3>1. CASE k \in 1..Len(events)
        <4>1. PICK i \in 1..(k - 1) : /\ events[i].kind = "response"
                                      /\ events[k].id \in ToSet(events[i].calls)
          BY <1>2, <1>5, <2>2, <3>1 DEF AfterCalls
        <4>2. i \in 1..Len(events) /\ all[i] = events[i] /\ all[k] = events[k]
          BY <1>2, <3>1
        <4> QED
          BY <4>1, <4>2
      <3>2. CASE k = Len(events) + 1
        <4>1. j \in 1..(k - 1) /\ all[j] = events[j] /\ all[k] = r
          BY <1>2, <3>2
        <4> QED
          BY <1>1, <2>1, <4>1
      <3> QED
        BY <1>2, <2>2, <3>1, <3>2
    <2> QED
      BY <2>2 DEF AfterCalls
  <1>6. ASSUME NEW open, Answered(events, open) PROVE Answered(all, open \ {id})
    BY <1>1, <1>3, <1>4, <1>6 DEF Answered
  <1> QED
    BY <1>2, <1>4, <1>5, <1>6 DEF all, r

(* A response whose calls are all open.                                    *)
LEMMA ResponseFollows ==
    ASSUME NEW events \in Seq(EventRecords), NEW r \in EventRecords, r.kind = "response",
           Answered(events, {}), AfterCalls(events)
    PROVE  /\ ResultIds(Append(events, r)) = ResultIds(events)
           /\ AfterCalls(Append(events, r))
           /\ Answered(Append(events, r), ToSet(r.calls))
  <1> DEFINE all == Append(events, r)
  <1>1. /\ Len(all) = Len(events) + 1 /\ Len(events) \in Nat
        /\ all[Len(events) + 1] = r /\ \A k \in 1..Len(events) : all[k] = events[k]
    OBVIOUS
  <1>2. ToSet(all) = ToSet(events) \cup {r}
    BY ToSetAppend
  <1> HIDE DEF all
  <1>3. ResultIds(all) = ResultIds(events)
    BY <1>2 DEF ResultIds
  <1>4. Answered(all, ToSet(r.calls))
    BY <1>2, <1>3 DEF Answered
  <1>5. ASSUME NEW k \in 1..Len(all), all[k].kind = "result"
        PROVE  \E i \in 1..(k - 1) : all[i].kind = "response"
                                     /\ all[k].id \in ToSet(all[i].calls)
    <2>1. k \in 1..Len(events) /\ all[k] = events[k]
      BY <1>1, <1>5
    <2>2. PICK i \in 1..(k - 1) : /\ events[i].kind = "response"
                                  /\ events[k].id \in ToSet(events[i].calls)
      BY <1>5, <2>1 DEF AfterCalls
    <2>3. i \in 1..Len(events) /\ all[i] = events[i]
      BY <1>1, <2>1
    <2> QED
      BY <2>1, <2>2, <2>3
  <1> QED
    BY <1>3, <1>4, <1>5 DEF AfterCalls, all

(* What is executed is the call.                                           *)
LEMMA ExecutedRan ==
    ASSUME ConsentBase, NEW id, ExecuteTool(id)
    PROVE  ToSet(ran') \subseteq ToSet(ran) \cup {id}
  <1>1. ran' = ran \/ ran' = Append(ran, id)
    BY DEF ExecuteTool
  <1>2. ToSet(Append(ran, id)) = ToSet(ran) \cup {id}
    BY ToSetAppend DEF ConsentBase
  <1> QED
    BY <1>1, <1>2

(* A turn that ends after the model was asked replays what it did.         *)
LEMMA ModelEnds ==
    ASSUME ConsentBase, TurnInv, UsageInv, RememberInv, phase = "model", UNCHANGED ran,
           NEW r \in EventRecords, NEW d \in EventRecords, NEW status,
           FinishTurn(run.events \o <<r, d>>, status)
    PROVE  RememberInv'
  <1> DEFINE two == <<r, d>>
             events == run.events \o two
  <1>1. /\ run.events \in Seq(EventRecords) /\ turn.committed \in Seq(EventRecords)
        /\ history \in Seq(Said)
    BY EventsTyped DEF RememberInv
  <1>2. two \in Seq(EventRecords)
    OBVIOUS
  <1> HIDE DEF two
  <1>3. events \in Seq(EventRecords)
    BY <1>1, <1>2, Concatenated
  <1>4. AfterCalls(run.events) /\ Answered(run.events, {})
    BY DEF RememberInv, RunAnswers
  <1>5. ASSUME NEW id \in ToSet(ran) PROVE Replays(turn.committed \o events, id)
    <2>1. CASE Replays(turn.committed, id)
      BY <1>1, <1>3, <2>1, ReplaysMore
    <2>2. CASE id \in ResultIds(run.events)
      <3>1. Replays(run.events, id)
        BY <1>1, <1>4, <2>2, RunReplays
      <3>2. Replays(events, id)
        BY <1>1, <1>2, <3>1, ReplaysMore
      <3> HIDE DEF events
      <3> QED
        BY <1>1, <1>3, <3>2, ReplaysMore
    <2> QED
      BY <2>1, <2>2 DEF RememberInv, RanKept
  <1>6. FinishTurn(events, status)
    BY DEF two
  <1> HIDE DEF events
  <1> QED
    BY <1>1, <1>3, <1>5, <1>6, TurnEnded

(* The model asks for more calls, or ends the turn.                        *)
LEMMA ModelStepRemembers ==
    ASSUME ConsentBase, TurnInv, UsageInv, RememberInv, ModelStep
    PROVE  RememberInv'
  <1>0. phase = "model" /\ RunFields /\ TurnFields /\ run.events \in Seq(EventRecords)
    BY EventsTyped
    DEF ModelStep, ModelRequestsTools, ModelAnswersText, ModelTruncated, ModelFails,
        LoopLimit, CanAsk
  <1>1. CASE ModelRequestsTools
    <2>1. PICK n \in 1..config.batch : \E calls \in [1..n -> config.requests] :
          LET ids == [i \in 1..n |-> Len(issued) + i]
          IN  /\ Len(issued) + n <= MaxIssued
              /\ issued' = issued \o calls
              /\ run' = [run EXCEPT !.events = Append(@, Response(ids, ids)),
                                    !.queue = ids,
                                    !.loops = @ + 1,
                                    !.muts = {},
                                    !.seen = {}]
      BY <1>1 DEF ModelRequestsTools
    <2> DEFINE ids == [i \in 1..n |-> Len(issued) + i]
               r == Response(ids, ids)
    <2>2. /\ phase' \in {"prepare", "calls"} /\ UNCHANGED <<history, ended, ran>>
          /\ \E b : turn' = [turn EXCEPT !.batch = b]
      BY <1>1 DEF ModelRequestsTools
    <2>3. ids \in Seq(Nat)
      <3>1. n \in Nat /\ Len(issued) \in Nat
        BY ConfigAssumption DEF ConsentBase, Configurations
      <3> QED
        BY <3>1
    <2>4. \E l : run' = [run EXCEPT !.events = Append(run.events, r), !.queue = ids,
                             !.loops = l, !.muts = {}, !.seen = {}]
      BY <2>1
    <2> HIDE DEF ids
    <2>5. r \in EventRecords /\ r.kind = "response" /\ r.calls = ids
      <3>1. r = [kind |-> "response", calls |-> ids, usage |-> ids, id |-> 0, note |-> ""]
        BY DEF Response, Event
      <3>2. "" \in EventNotes
        BY DEF EventNotes, Ends
      <3> HIDE DEF r
      <3> QED
        BY <2>3, <3>1, <3>2 DEF EventRecords
    <2> HIDE DEF r
    <2> DEFINE e == Append(run.events, r)
    <2>6. ResultIds(e) = ResultIds(run.events) /\ AfterCalls(e) /\ Answered(e, ToSet(ids))
      <3>1. AfterCalls(run.events) /\ Answered(run.events, {})
        BY <1>0 DEF RememberInv, RunAnswers
      <3> QED
        BY <1>0, <2>5, <3>1, ResponseFollows
    <2> HIDE DEF e
    <2>7. run'.events = e /\ run'.queue = ids
      BY <1>0, <2>4 DEF RunFields, HasFields, e
    <2>8. turn'.committed = turn.committed
      BY <1>0, <2>2 DEF TurnFields, TurnNames, HasFields
    <2>9. RanKept'
      BY <1>0, <2>2, <2>6, <2>7, <2>8 DEF RememberInv, RanKept
    <2>10. RunAnswers' /\ ResumeAnswers' /\ Remembered'
      BY <2>2, <2>6, <2>7 DEF RunAnswers, ResumeAnswers, Remembered
    <2> QED
      BY <2>2, <2>9, <2>10 DEF RememberInv
  <1>2. CASE ModelTruncated
    <2>1. /\ run' = [run EXCEPT !.loops = @ + 1] /\ phase' = "model"
          /\ UNCHANGED <<turn, history, ran>>
      BY <1>0, <1>2 DEF ModelTruncated, world
    <2>2. run'.events = run.events
      BY <1>0, <2>1 DEF RunFields, HasFields
    <2> QED
      BY <1>0, <2>1, <2>2 DEF RememberInv, RanKept, RunAnswers, ResumeAnswers, Remembered
  <1>3. CASE ModelAnswersText
    <2> DEFINE u == <<Len(issued) + 1>>
               r == Response(<<>>, u)
               d == Done("stop")
    <2>1. FinishTurn(run.events \o <<r, d>>, "stop") /\ UNCHANGED ran
      BY <1>3 DEF ModelAnswersText, world
    <2>2. u \in Seq(Nat)
      BY DEF ConsentBase
    <2>3. r \in EventRecords /\ d \in EventRecords
      BY <2>2, LastEvents DEF Ends
    <2> HIDE DEF r, d
    <2> QED
      BY <1>0, <2>1, <2>3, ModelEnds
  <1>4. CASE LoopLimit
    <2> DEFINE r == Response(<<>>, <<>>)
               d == Done("max_turns")
    <2>1. FinishTurn(run.events \o <<r, d>>, "max_turns") /\ UNCHANGED ran
      BY <1>4 DEF LoopLimit, EndWithNotice, world
    <2>2. <<>> \in Seq(Nat)
      OBVIOUS
    <2>3. r \in EventRecords /\ d \in EventRecords
      BY <2>2, LastEvents DEF Ends, Limits
    <2> HIDE DEF r, d
    <2> QED
      BY <1>0, <2>1, <2>3, ModelEnds
  <1>5. CASE ModelFails
    <2>1. FinishTurn(Append(run.events, Error), "failed") /\ "failed" \in Ends
          /\ "failed" \notin Lasting
      BY <1>5 DEF ModelFails, Ends, Lasting
    <2> QED
      BY <1>0, <2>1, TurnFailed
  <1> QED
    BY <1>1, <1>2, <1>3, <1>4, <1>5 DEF ModelStep

(* The first of a sequence and the rest.                                   *)
LEMMA HeadAndTail ==
    ASSUME NEW S, NEW s \in Seq(S), s # <<>>
    PROVE  Head(s) \in S /\ Tail(s) \in Seq(S) /\ ToSet(s) = {Head(s)} \cup ToSet(Tail(s))
  <1> DEFINE t == Tail(s)
  <1>1. /\ DOMAIN s = 1..Len(s) /\ DOMAIN t = 1..Len(t) /\ Len(s) \in Nat \ {0}
        /\ Len(t) = Len(s) - 1 /\ Head(s) = s[1]
        /\ \A k \in 1..Len(t) : k + 1 \in 1..Len(s) /\ t[k] = s[k + 1]
    OBVIOUS
  <1>2. Head(s) \in S /\ t \in Seq(S)
    OBVIOUS
  <1> HIDE DEF t
  <1>3. ToSet(s) = {s[k] : k \in 1..Len(s)} /\ ToSet(t) = {t[k] : k \in 1..Len(t)}
    BY <1>1 DEF ToSet
  <1>4. ASSUME NEW k \in 1..Len(s), k # 1 PROVE s[k] \in ToSet(t)
    <2>1. k - 1 \in 1..Len(t)
      BY <1>1, <1>4
    <2>2. t[k - 1] = s[k]
      BY <1>1, <2>1
    <2> QED
      BY <1>3, <2>1, <2>2
  <1>5. \A k \in 1..Len(t) : t[k] \in ToSet(s)
    BY <1>1, <1>3
  <1>6. s[1] \in ToSet(s)
    BY <1>1, <1>3
  <1> QED
    BY <1>1, <1>2, <1>3, <1>4, <1>5, <1>6 DEF t

(* The next call gets its result.                                          *)
LEMMA CallProcessed ==
    ASSUME ConsentBase, TurnInv, UsageInv, RememberInv, phase = "calls",
           run.queue # <<>>, UNCHANGED <<history, turn, phase, ended>>,
           NEW out \in Immediate \cup {"run"}, run' = Processed(out),
           ToSet(ran') \subseteq ToSet(ran) \cup {NextId}
    PROVE  RememberInv'
  <1>1. /\ RunFields /\ run.events \in Seq(EventRecords)
        /\ run.queue \in Seq(Ids) /\ turn.batch \in Seq(Ids)
        /\ LastResponse(run.events, turn.batch)
        /\ ToSet(run.queue) \subseteq ToSet(turn.batch)
    BY DEF TurnInv, UsageInv, OfBatch
  <1>2. /\ NextId \in Nat /\ ToSet(run.queue) = {NextId} \cup ToSet(Tail(run.queue))
        /\ out \in EventNotes
    BY <1>1, HeadAndTail DEF NextId, Ids, EventNotes
  <1> DEFINE e == Append(run.events, Result(NextId, out))
             q == Tail(run.queue)
  <1>3. run'.queue = q /\ run'.events = e
    BY <1>1, ProcessedFields
  <1>4. AfterCalls(run.events) /\ Answered(run.events, ToSet(run.queue))
    BY DEF RememberInv, RunAnswers
  <1>5. NextId \in ToSet(turn.batch)
    BY <1>1, <1>2
  <1>6. /\ ResultIds(e) = ResultIds(run.events) \cup {NextId} /\ AfterCalls(e)
        /\ Answered(e, ToSet(run.queue) \ {NextId})
    BY <1>1, <1>2, <1>4, <1>5, ResultFollows
  <1> HIDE DEF e, q
  <1>7. Answered(e, ToSet(q))
    BY <1>2, <1>6 DEF Answered, q
  <1>8. RanKept'
    BY <1>3, <1>6 DEF RememberInv, RanKept
  <1>9. RunAnswers' /\ ResumeAnswers'
    BY <1>3, <1>6, <1>7 DEF RunAnswers, ResumeAnswers
  <1> QED
    BY <1>8, <1>9 DEF RememberInv, Remembered

(* The sequential loop forgets no call.                                    *)
LEMMA SequentialStepRemembers ==
    ASSUME ConsentBase, TurnInv, UsageInv, RememberInv, SequentialStep
    PROVE  RememberInv'
  <1>1. /\ phase = "calls" /\ RunFields /\ TurnFields /\ run.events \in Seq(EventRecords)
        /\ run.queue \in Seq(Ids)
    <2>1. phase = "calls"
      BY DEF SequentialStep, CallLimit, CallAnswered, CallAsks, CallExecutes, CallRaises,
         BatchDone, InBatch
    <2> QED
      BY <2>1 DEF TurnInv
  <1>2. ASSUME run.queue # <<>> PROVE NextId \in Nat
    BY <1>1, <1>2, HeadAndTail DEF NextId, Ids
  <1>3. CASE CallLimit
    <2>1. EndWithNotice(run.events, "tool_call_limit") /\ "tool_call_limit" \in Ends
          /\ "tool_call_limit" \notin Lasting
      BY <1>3 DEF CallLimit, Ends, Limits, Lasting
    <2> QED
      BY <1>1, <2>1, TurnFailed
  <1>4. CASE CallRaises
    <2>1. FinishTurn(Append(run.events, Error), "failed") /\ "failed" \in Ends
          /\ "failed" \notin Lasting
      BY <1>4 DEF CallRaises, Ends, Lasting
    <2> QED
      BY <1>1, <2>1, TurnFailed
  <1>5. CASE BatchDone
    <2>1. /\ run.queue = <<>> /\ phase' = "model"
          /\ UNCHANGED <<history, turn, run, ran, ended>>
      BY <1>5 DEF BatchDone, world
    <2>2. ToSet(<<>>) = {}
      BY DEF ToSet
    <2>3. Answered(run.events, {}) /\ AfterCalls(run.events)
      BY <1>1, <2>1, <2>2 DEF RememberInv, RunAnswers
    <2>4. RunAnswers' /\ RanKept'
      BY <1>1, <2>1, <2>3 DEF RunAnswers, RememberInv, RanKept
    <2> QED
      BY <2>1, <2>4 DEF RememberInv, Remembered, ResumeAnswers
  <1>6. CASE CallAnswered
    <2> DEFINE out == SequentialOutcome(NextCall)
               p == Processed(out)
    <2>1. run.queue # <<>> /\ out \in Immediate /\ UNCHANGED ran
      BY <1>6 DEF CallAnswered, InBatch, world
    <2> HIDE DEF out
    <2>2. CASE EndWithNotice(p.events, "invalid_tool_call")
      <3> DEFINE e == Append(run.events, Result(NextId, out))
      <3>1. p.events = e
        <4>1. \E q, x, m, s, r : p = [run EXCEPT !.events = e, !.queue = q, !.executed = x,
                                                 !.muts = m, !.seen = s, !.retries = r]
          BY DEF Processed
        <4> HIDE DEF p, e
        <4> QED
          BY <1>1, <4>1 DEF RunFields, HasFields
      <3>2. Result(NextId, out) \in EventRecords
        BY <1>2, <2>1, ResultEvent DEF EventNotes
      <3>3. e \in Seq(EventRecords)
        BY <1>1, <3>2
      <3> HIDE DEF p, e
      <3>4. EndWithNotice(e, "invalid_tool_call") /\ "invalid_tool_call" \in Ends
            /\ "invalid_tool_call" \notin Lasting
        BY <2>2, <3>1 DEF Ends, Lasting
      <3> QED
        BY <3>3, <3>4, TurnFailed
    <2>3. CASE ~EndWithNotice(p.events, "invalid_tool_call")
      <3>1. run' = p /\ UNCHANGED <<history, turn, phase, ended>>
        BY <1>6, <2>3 DEF CallAnswered, out
      <3> QED
        BY <1>1, <2>1, <3>1, CallProcessed
    <2> QED
      BY <2>2, <2>3
  <1>7. CASE CallExecutes
    <2>1. /\ run.queue # <<>> /\ run' = Processed("run") /\ ExecuteTool(NextId)
          /\ UNCHANGED <<history, turn, phase, ended>>
      BY <1>7 DEF CallExecutes, InBatch
    <2>2. "run" \in Immediate \cup {"run"}
      OBVIOUS
    <2>3. ToSet(ran') \subseteq ToSet(ran) \cup {NextId}
      BY <2>1, ExecutedRan
    <2> QED
      BY <1>1, <2>1, <2>2, <2>3, CallProcessed
  <1>8. CASE CallAsks
    <2>1. /\ AskUser(run.events, NextId, Counted(SequentialOutcome(NextCall)))
          /\ run.queue # <<>> /\ UNCHANGED ran
      BY <1>8 DEF CallAsks, InBatch, world
    <2>2. NextId \in Nat
      BY <1>2, <2>1
    <2>3. /\ AfterCalls(run.events)
          /\ \A i \in ToSet(ran) : Replays(turn.committed, i) \/ i \in ResultIds(run.events)
      BY <1>1 DEF RememberInv, RunAnswers, RanKept
    <2> QED
      BY <1>1, <2>1, <2>2, <2>3, AskRemembers
  <1> QED
    BY <1>3, <1>4, <1>5, <1>6, <1>7, <1>8 DEF SequentialStep

(* A result more, and no other.                                            *)
LEMMA ResultGrows ==
    ASSUME NEW events \in Seq(EventRecords), NEW id \in Nat, NEW note \in EventNotes
    PROVE  /\ Append(events, Result(id, note)) \in Seq(EventRecords)
           /\ ResultIds(Append(events, Result(id, note))) = ResultIds(events) \cup {id}
  <1> DEFINE r == Result(id, note)
  <1>1. r \in EventRecords /\ r.kind = "result" /\ r.id = id
    <2>1. r \in EventRecords
      BY ResultEvent
    <2> QED
      BY <2>1 DEF Result, Event
  <1> HIDE DEF r
  <1>2. Append(events, r) \in Seq(EventRecords)
    BY <1>1
  <1>3. ToSet(Append(events, r)) = ToSet(events) \cup {r}
    BY ToSetAppend
  <1>4. ResultIds(Append(events, r)) = ResultIds(events) \cup {id}
    BY <1>1, <1>3 DEF ResultIds
  <1> QED
    BY <1>2, <1>4 DEF r

(* What resuming commits.                                                  *)
LEMMA ResumedMore ==
    ASSUME TurnFields, NEW events
    PROVE  /\ HasFields(CommitResumed(events), TurnNames)
           /\ CommitResumed(events).committed = turn.committed \o Resumed(events)
  <1> DEFINE more == Resumed(events)
             new == Committed(more)
             rest == KeepIn(turn.pending, ToSet(turn.pending) \ ResultIds(events))
             all == CommitResumed(events)
  <1>1. /\ HasFields(new, TurnNames) /\ new.committed = turn.committed \o more
        /\ new.pending = turn.pending
    BY CommittedMore
  <1>2. all = [new EXCEPT !.pending = rest]
    BY <1>1 DEF CommitResumed
  <1> HIDE DEF new, rest, all, more
  <1>3. HasFields(all, TurnNames) /\ all.committed = new.committed
    BY <1>1, <1>2 DEF HasFields, TurnNames
  <1> QED
    BY <1>1, <1>3 DEF all, more

(* Resuming forgets no call.                                               *)
LEMMA ResumeStepRemembers ==
    ASSUME ConsentBase, TurnInv, UsageInv, RememberInv, ResumeStep
    PROVE  RememberInv'
  <1>1. /\ phase = "resume" /\ RunFields /\ TurnFields /\ run.events \in Seq(EventRecords)
        /\ run.queue \in Seq(Ids) /\ turn.committed \in Seq(EventRecords)
    <2>1. phase = "resume"
      BY DEF ResumeStep, ResumeAnswered, ResumeExecutes, ResumeAsks, ResumeDone,
         ResumeRaises, InResume
    <2> QED
      BY <2>1, EventsTyped DEF TurnInv
  <1>2. /\ ResultIds(run.events) \cup ToSet(run.queue) \subseteq ToSet(turn.pending)
        /\ \A i \in ToSet(ran) : Replays(turn.committed, i) \/ i \in ResultIds(run.events)
    BY <1>1 DEF RememberInv, ResumeAnswers, RanKept
  <1>3. ASSUME run.queue # <<>>, UNCHANGED <<history, turn, phase, ended>>,
               NEW out \in Immediate \cup {"run"}, run' = ResumeProcessed(out),
               ToSet(ran') \subseteq ToSet(ran) \cup {NextId}
        PROVE  RememberInv'
    <2>1. /\ NextId \in Nat /\ ToSet(run.queue) = {NextId} \cup ToSet(Tail(run.queue))
          /\ out \in EventNotes
      BY <1>1, <1>3, HeadAndTail DEF NextId, Ids, EventNotes
    <2> DEFINE e == Append(run.events, Result(NextId, out))
               q == Tail(run.queue)
    <2>2. run'.queue = q /\ run'.events = e
      BY <1>1, <1>3, ProcessedFields
    <2>3. ResultIds(e) = ResultIds(run.events) \cup {NextId}
      BY <1>1, <2>1, ResultGrows
    <2> HIDE DEF e, q
    <2>4. RanKept'
      BY <1>1, <1>2, <1>3, <2>2, <2>3 DEF RanKept
    <2>5. ResultIds(e) \cup ToSet(q) \subseteq ToSet(turn.pending)
      BY <1>2, <2>1, <2>3 DEF q
    <2>6. ResumeAnswers' /\ RunAnswers'
      <3>1. phase' = "resume" /\ turn'.pending = turn.pending
        BY <1>1, <1>3
      <3>2. ResumeAnswers'
        BY <2>2, <2>5, <3>1 DEF ResumeAnswers
      <3>3. RunAnswers'
        BY <3>1 DEF RunAnswers
      <3> QED
        BY <3>2, <3>3
    <2> QED
      BY <1>1, <1>3, <2>4, <2>6 DEF RememberInv, Remembered
  <1>4. CASE ResumeAnswered
    <2> DEFINE out == ResumeOutcome(NextCall)
    <2>1. /\ out \in Immediate \cup {"run"} /\ run' = ResumeProcessed(out)
          /\ UNCHANGED <<history, turn, phase, ended, ran>> /\ run.queue # <<>>
      BY <1>4 DEF ResumeAnswered, InResume, world
    <2> HIDE DEF out
    <2> QED
      BY <1>3, <2>1
  <1>5. CASE ResumeExecutes
    <2>1. /\ run' = ResumeProcessed("run") /\ run.queue # <<>> /\ ExecuteTool(NextId)
          /\ UNCHANGED <<history, turn, phase, ended>>
      BY <1>5 DEF ResumeExecutes, InResume
    <2>2. "run" \in Immediate \cup {"run"}
      OBVIOUS
    <2>3. ToSet(ran') \subseteq ToSet(ran) \cup {NextId}
      BY <2>1, ExecutedRan
    <2> QED
      BY <1>3, <2>1, <2>2, <2>3
  <1>6. CASE ResumeRaises
    <2>1. ForgetTurn("raised") /\ "raised" \notin Lasting
      BY <1>6 DEF ResumeRaises, Lasting
    <2> QED
      BY <2>1, TurnForgotten
  <1>7. CASE ResumeAsks \/ ResumeDone
    <2> DEFINE new == CommitResumed(run.events)
               more == Resumed(run.events)
               all == turn.committed \o more
    <2>1. HasFields(new, TurnNames) /\ new.committed = all
      BY <1>1, ResumedMore
    <2>2. /\ more \in Seq(EventRecords)
          /\ \A id \in ResultIds(run.events) : Replays(more, id)
      BY <1>1, <1>2, ResumedReplays
    <2>3. /\ \/ \E n : turn' = [new EXCEPT !.asked = NextId, !.resuming = TRUE,
                                           !.questions = n]
             \/ turn' = [new EXCEPT !.asked = 0, !.resuming = FALSE]
          /\ phase' \in {"asking", "model"} /\ run' = FreshRun
          /\ UNCHANGED <<history, ran, ended>>
      BY <1>7 DEF ResumeAsks, ResumeDone, StartRun, world
    <2> HIDE DEF new, more
    <2>4. \A i \in ToSet(ran) : Replays(all, i)
      BY <1>1, <1>2, <2>2, ReplaysMore
    <2> HIDE DEF all
    <2>5. turn'.committed = all
      BY <2>1, <2>3 DEF HasFields, TurnNames
    <2>6. RanKept'
      BY <2>3, <2>4, <2>5 DEF RanKept
    <2>7. AfterCalls(run'.events) /\ Answered(run'.events, {})
      <3>1. run'.events = <<>>
        BY <2>3 DEF FreshRun
      <3>2. Len(run'.events) = 0 /\ ToSet(run'.events) = {}
        BY <3>1 DEF ToSet
      <3> QED
        BY <3>2 DEF AfterCalls, Answered
    <2>8. RunAnswers' /\ ResumeAnswers'
      BY <2>3, <2>7 DEF RunAnswers, ResumeAnswers
    <2> QED
      BY <2>3, <2>6, <2>8 DEF RememberInv, Remembered
  <1> QED
    BY <1>4, <1>5, <1>6, <1>7 DEF ResumeStep

(* A question leaves the rest of the batch behind, otherwise each call is  *)
(* sorted into one of the lanes.                                           *)
LEMMA PrepareSorts ==
    ASSUME ConsentBase, config.parallel, NEW acc \in Lanes, NEW id \in Ids
    PROVE  /\ acc.asks => Prepare(acc, id) = acc
           /\ ~acc.asks /\ Prepare(acc, id).asks =>
                 \E x \in ToSet(Prepare(acc, id).items) : x.out \in Asking
           /\ ~acc.asks =>
                 IdsOf(Prepare(acc, id).lane) \cup IdsOf(Prepare(acc, id).items)
                 = IdsOf(acc.lane) \cup IdsOf(acc.items) \cup {id}
  <1> DEFINE c == issued[id]
             first == IF Known(c) THEN Decide(c, acc.muts) ELSE "unknown"
             reads == first = "run" /\ Tool[c].cacheable
             out == IF reads /\ c \in acc.seen THEN "duplicate" ELSE first
             item == [id |-> id, out |-> out,
                      stop |-> first \in Repairs /\ acc.retries[c] >= RetryLimit]
             parallel == ParallelCall(c)
             new == Prepare(acc, id)
             lane == IF parallel THEN Append(acc.lane, item) ELSE acc.lane
             items == IF parallel THEN acc.items ELSE Append(acc.items, item)
  <1>1. c \in Calls /\ c \in config.requests
    BY DEF ConsentBase, Ids
  <1>2. first = "question" => ~parallel /\ out \in Asking
    <2>1. ParallelCall(c) => Decide(c, acc.muts) # "question"
      BY <1>1, DecideAsks DEF ParallelCall
    <2> QED
      BY <2>1 DEF Asking
  <1>3. item.id = id /\ item.out = out
    OBVIOUS
  <1>4. acc.lane \in Seq(LaneItems) /\ acc.items \in Seq(SideItems)
    BY DEF Lanes
  <1> HIDE DEF c, first, item, parallel, reads, out
  <1>5. acc.asks => new = acc
    BY DEF Prepare
  <1>6. ~acc.asks => new.lane = lane /\ new.items = items /\ new.asks = (first = "question")
    BY DEF Prepare, c, first, item, parallel, reads, out, ParallelCall
  <1> HIDE DEF new
  <1>7. /\ ToSet(Append(acc.lane, item)) = ToSet(acc.lane) \cup {item}
        /\ ToSet(Append(acc.items, item)) = ToSet(acc.items) \cup {item}
    BY <1>4, ToSetAppend
  <1>8. ASSUME ~acc.asks, new.asks PROVE \E x \in ToSet(new.items) : x.out \in Asking
    <2>1. new.items = Append(acc.items, item) /\ out \in Asking
      BY <1>2, <1>6, <1>8
    <2> QED
      BY <1>3, <1>7, <2>1
  <1>9. ASSUME ~acc.asks
        PROVE  IdsOf(new.lane) \cup IdsOf(new.items)
               = IdsOf(acc.lane) \cup IdsOf(acc.items) \cup {id}
    BY <1>3, <1>6, <1>7, <1>9 DEF IdsOf
  <1> QED
    BY <1>5, <1>8, <1>9 DEF new

\* The first m calls are in the lanes, or a question has ended the sorting.
Covers(acc, calls, m) ==
    IF acc.asks THEN \E x \in ToSet(acc.items) : x.out \in Asking
    ELSE \A k \in 1..m : calls[k] \in IdsOf(acc.lane) \cup IdsOf(acc.items)

(* So is a whole batch.                                                    *)
LEMMA SortedCovers ==
    ASSUME ConsentBase, config.parallel, run.retries \in [Calls -> Nat],
           NEW calls \in Seq(Ids)
    PROVE  \/ \E x \in ToSet(Sorted(calls).items) : x.out \in Asking
           \/ ToSet(calls) \subseteq
                 IdsOf(Sorted(calls).lane) \cup IdsOf(Sorted(calls).items)
  <1> DEFINE N == Len(calls)
  <1>1. PICK f \in [0..N -> Lanes] : Sorts(f, calls)
    BY SortedSteps
  <1>2. N \in Nat /\ \A m \in 1..N : calls[m] \in Ids
    OBVIOUS
  <1> DEFINE H == {m \in 0..N : Covers(f[m], calls, m)}
  <1>3. 0 \in H
    <2>1. ~f[0].asks /\ 0 \in 0..N
      BY <1>1, <1>2 DEF Sorts, Unsorted
    <2> QED
      BY <2>1 DEF Covers
  <1>4. ASSUME NEW m \in 1..N, m - 1 \in H PROVE m \in H
    <2> DEFINE acc == f[m - 1]
    <2>1. m \in 0..N /\ m - 1 \in 0..N /\ acc \in Lanes /\ Covers(acc, calls, m - 1)
      BY <1>2, <1>4
    <2>2. f[m] = Prepare(acc, calls[m]) /\ calls[m] \in Ids
      BY <1>1, <1>2 DEF Sorts
    <2> HIDE DEF acc
    <2>3. /\ acc.asks => f[m] = acc
          /\ ~acc.asks /\ f[m].asks => \E x \in ToSet(f[m].items) : x.out \in Asking
          /\ ~acc.asks => IdsOf(f[m].lane) \cup IdsOf(f[m].items)
                          = IdsOf(acc.lane) \cup IdsOf(acc.items) \cup {calls[m]}
      BY <2>1, <2>2, PrepareSorts
    <2>4. Covers(f[m], calls, m)
      <3>1. CASE acc.asks
        BY <2>1, <2>3, <3>1 DEF Covers
      <3>2. CASE ~acc.asks /\ f[m].asks
        BY <2>3, <3>2 DEF Covers
      <3>3. CASE ~acc.asks /\ ~f[m].asks
        <4>1. \A k \in 1..(m - 1) : calls[k] \in IdsOf(acc.lane) \cup IdsOf(acc.items)
          BY <2>1, <3>3 DEF Covers
        <4>2. \A k \in 1..m : k \in 1..(m - 1) \/ k = m
          BY <1>2
        <4>3. \A k \in 1..m : calls[k] \in IdsOf(f[m].lane) \cup IdsOf(f[m].items)
          BY <2>3, <3>3, <4>1, <4>2
        <4> QED
          BY <3>3, <4>3 DEF Covers
      <3> QED
        BY <3>1, <3>2, <3>3
    <2> QED
      BY <2>1, <2>4
  <1> HIDE DEF H
  <1>5. 0..N \subseteq H
    BY <1>2, <1>3, <1>4, Climb
  <1>6. Covers(Sorted(calls), calls, N)
    BY <1>1, <1>2, <1>5 DEF H, Sorts
  <1>7. DOMAIN calls = 1..N
    OBVIOUS
  <1> QED
    BY <1>6, <1>7 DEF Covers, ToSet

(* Sorting a batch loses none of its calls unless it is interrupted.       *)
LEMMA PrepareRemembers ==
    ASSUME ConsentBase, TurnInv, UsageInv, RememberInv, PrepareBatch
    PROVE  RememberInv'
  <1> DEFINE budget == RemainingBudget
             cut == budget < Len(run.queue)
             calls == IF cut THEN SubSeq(run.queue, 1, budget) ELSE run.queue
             sorted == Sorted(calls)
  <1>1. /\ phase = "prepare" /\ UNCHANGED ran
        /\ run.queue \in Seq(Ids) /\ config.parallel /\ run.retries \in [Calls -> Nat]
        /\ run.executed \in Nat /\ RunFields /\ TurnFields
        /\ run.events \in Seq(EventRecords) /\ run.window = <<>>
    BY DEF PrepareBatch, TurnInv, world
  <1>2. CASE EndWithNotice(run.events, "tool_call_limit")
    <2>1. "tool_call_limit" \in Ends /\ "tool_call_limit" \notin Lasting
      BY DEF Ends, Limits, Lasting
    <2> QED
      BY <1>1, <1>2, <2>1, TurnFailed
  <1>3. CASE ~EndWithNotice(run.events, "tool_call_limit")
    <2>1. /\ ~(budget <= 0) /\ phase' = "windows" /\ UNCHANGED <<history, ended>>
          /\ \E r : run' = [run EXCEPT !.queue = <<>>, !.lane = sorted.lane,
                                       !.items = sorted.items, !.retries = r, !.cut = cut]
          /\ \E q : turn' = [turn EXCEPT !.questions = q]
      BY <1>3 DEF PrepareBatch
    <2>2. calls \in Seq(Ids) /\ (~cut => calls = run.queue)
      <3>1. CASE cut
        <4>1. budget \in 0..Len(run.queue)
          BY <1>1, <2>1, <3>1, ConfigAssumption, SMTT(30)
          DEF RemainingBudget, ConsentBase, Configurations
        <4>2. calls = SubSeq(run.queue, 1, budget)
          BY <3>1
        <4> HIDE DEF budget, calls
        <4> QED
          BY <1>1, <3>1, <4>1, <4>2, IncreasingFirst
      <3>2. CASE ~cut
        BY <1>1, <3>2
      <3> QED
        BY <3>1, <3>2
    <2> HIDE DEF calls
    <2>3. \/ \E x \in ToSet(sorted.items) : x.out \in Asking
          \/ ToSet(calls) \subseteq IdsOf(sorted.lane) \cup IdsOf(sorted.items)
      BY <1>1, <2>2, SortedCovers
    <2> HIDE DEF sorted, cut
    <2>4. /\ run'.lane = sorted.lane /\ run'.items = sorted.items /\ run'.cut = cut
          /\ run'.events = run.events /\ run'.window = <<>>
      BY <1>1, <2>1 DEF RunFields, HasFields
    <2>5. turn'.committed = turn.committed /\ turn'.batch = turn.batch
      BY <1>1, <2>1 DEF TurnFields, TurnNames, HasFields
    <2>6. AfterCalls(run.events) /\ Answered(run.events, ToSet(run.queue))
      BY <1>1 DEF RememberInv, RunAnswers
    <2>7. \/ Interrupted'
          \/ Answered(run'.events,
                      IdsOf(run'.lane) \cup IdsOf(run'.window) \cup IdsOf(run'.items))
      <3>1. CASE cut \/ \E x \in ToSet(sorted.items) : x.out \in Asking
        BY <2>4, <3>1 DEF Interrupted
      <3>2. CASE ~cut /\ ToSet(calls) \subseteq IdsOf(sorted.lane) \cup IdsOf(sorted.items)
        BY <2>2, <2>4, <2>6, <3>2 DEF Answered
      <3> QED
        BY <2>3, <3>1, <3>2
    <2>8. IdsOf(run'.window) \subseteq ToSet(turn'.batch)
      BY <2>4 DEF IdsOf, ToSet
    <2>9. RunAnswers' /\ ResumeAnswers'
      BY <2>1, <2>4, <2>6, <2>7, <2>8 DEF RunAnswers, ResumeAnswers
    <2>10. RanKept'
      BY <1>1, <2>1, <2>4, <2>5 DEF RememberInv, RanKept
    <2> QED
      BY <2>1, <2>9, <2>10 DEF RememberInv, Remembered
  <1> QED
    BY <1>2, <1>3

(* A window and the rest of the lane have the items of the lane.           *)
LEMMA LaneParts ==
    ASSUME NEW S, NEW s \in Seq(S), NEW n \in 0..Len(s)
    PROVE  /\ SubSeq(s, 1, n) \in Seq(S) /\ SubSeq(s, n + 1, Len(s)) \in Seq(S)
           /\ ToSet(s) = ToSet(SubSeq(s, 1, n)) \cup ToSet(SubSeq(s, n + 1, Len(s)))
  <1> DEFINE t == SubSeq(s, 1, n)
             u == SubSeq(s, n + 1, Len(s))
  <1>1. /\ t \in Seq(S) /\ Len(t) = n /\ DOMAIN t = 1..n /\ DOMAIN s = 1..Len(s)
        /\ Len(s) \in Nat /\ n \in Nat /\ \A k \in 1..n : t[k] = s[k]
    OBVIOUS
  <1>2. /\ u \in Seq(S) /\ Len(u) = Len(s) - n /\ DOMAIN u = 1..(Len(s) - n)
        /\ \A k \in 1..(Len(s) - n) : u[k] = s[n + k]
    OBVIOUS
  <1> HIDE DEF t, u
  <1>3. ASSUME NEW k \in 1..Len(s) PROVE s[k] \in ToSet(t) \cup ToSet(u)
    <2>1. CASE k <= n
      BY <1>1, <2>1 DEF ToSet
    <2>2. CASE k > n
      <3>1. k - n \in 1..(Len(s) - n) /\ n + (k - n) = k
        BY <1>1, <2>2
      <3>2. u[k - n] = s[k]
        BY <1>2, <3>1
      <3> QED
        BY <1>2, <3>1, <3>2 DEF ToSet
    <2> QED
      BY <1>1, <2>1, <2>2
  <1>4. ToSet(t) \subseteq ToSet(s)
    <2>1. \A k \in 1..n : k \in 1..Len(s)
      BY <1>1
    <2> QED
      BY <1>1, <2>1 DEF ToSet
  <1>5. ToSet(u) \subseteq ToSet(s)
    <2>1. ASSUME NEW k \in 1..(Len(s) - n) PROVE u[k] \in ToSet(s)
      <3> DEFINE l == n + k
      <3>1. l \in 1..Len(s) /\ u[k] = s[l]
        BY <1>1, <1>2
      <3> HIDE DEF l
      <3> QED
        BY <1>1, <3>1 DEF ToSet
    <2> QED
      BY <1>2, <2>1 DEF ToSet
  <1>6. ToSet(s) \subseteq ToSet(t) \cup ToSet(u)
    BY <1>1, <1>3 DEF ToSet
  <1> QED
    BY <1>1, <1>2, <1>4, <1>5, <1>6 DEF t, u

(* The calls that start are in the window.                                 *)
LEMMA WindowRemembers ==
    ASSUME ConsentBase, TurnInv, OnceInv, UsageInv, RememberInv, OpenWindow
    PROVE  RememberInv'
  <1> DEFINE size == IF Len(run.lane) < config.window THEN Len(run.lane)
                                                      ELSE config.window
             window == SubSeq(run.lane, 1, size)
             rest == SubSeq(run.lane, size + 1, Len(run.lane))
             ids == [k \in DOMAIN window |-> window[k].id]
             tasks == {x.id : x \in Runnable(window)}
             K == {id \in tasks : ~CachedRead(issued[id])}
             starting == KeepIn(ids, K)
  <1>1. /\ phase = "windows" /\ phase' = "windows" /\ turn' = turn
        /\ run' = [run EXCEPT !.window = window, !.lane = rest]
        /\ ran' = ran \o starting /\ run.window = <<>>
        /\ UNCHANGED <<history, ended>>
    BY DEF OpenWindow, LaneAfter
  <1>2. run.lane \in Seq(LaneItems) /\ RunFields
    BY <1>1 DEF TurnInv
  <1>3. size \in 0..Len(run.lane)
    BY <1>2, ConfigAssumption DEF ConsentBase, Configurations
  <1> HIDE DEF size
  <1>4. window \in Seq(LaneItems) /\ rest \in Seq(LaneItems)
        /\ ToSet(run.lane) = ToSet(window) \cup ToSet(rest)
    BY <1>2, <1>3, LaneParts
  <1> HIDE DEF window, rest
  <1>5. \A x \in LaneItems : x.id \in Ids
    BY DEF LaneItems, FitItems, Items
  <1>6. ids \in Seq(Ids)
    BY <1>4, <1>5
  <1>7. K \subseteq IdsOf(window)
    BY DEF Runnable, IdsOf
  <1> HIDE DEF K, ids
  <1>8. starting \in Seq(Ids) /\ ToSet(starting) \subseteq IdsOf(window)
    <2>1. starting \in Seq(Ids \cap K)
      BY <1>6, KeepInKeeps
    <2>2. ToSet(starting) \subseteq Ids \cap K
      BY <2>1, ToSetIn
    <2>3. starting \in Seq(Ids)
      BY <1>6, KeepInIn
    <2> QED
      BY <1>7, <2>2, <2>3
  <1> HIDE DEF starting
  <1>9. ToSet(ran') = ToSet(ran) \cup ToSet(starting)
    <2>1. ran \in Seq(Ids) /\ starting \in Seq(Ids)
      BY <1>8 DEF ConsentBase
    <2> QED
      BY <1>1, <2>1, ToSetJoined
  <1>10. /\ run'.window = window /\ run'.lane = rest /\ run'.events = run.events
         /\ run'.items = run.items /\ run'.cut = run.cut
    BY <1>1, <1>2 DEF RunFields, HasFields
  <1>11. WindowIds' = IdsOf(window) /\ WindowIds = {}
    BY <1>1, <1>10 DEF WindowIds, IdsOf, ToSet
  <1>12. RanKept'
    BY <1>1, <1>8, <1>9, <1>10, <1>11 DEF RememberInv, RanKept
  <1>13. IdsOf(window) \subseteq ToSet(turn.batch)
    BY <1>1, <1>4 DEF IdsOf, OnceInv, LaneOnce
  <1>14. IdsOf(run.lane) \cup IdsOf(run.window) = IdsOf(rest) \cup IdsOf(window)
    <2>1. IdsOf(run.window) = {}
      BY <1>1 DEF IdsOf, ToSet
    <2>2. IdsOf(run.lane) = IdsOf(rest) \cup IdsOf(window)
      BY <1>4 DEF IdsOf
    <2> QED
      BY <2>1, <2>2
  <1>15. /\ AfterCalls(run.events)
         /\ \/ Interrupted
            \/ Answered(run.events,
                        IdsOf(run.lane) \cup IdsOf(run.window) \cup IdsOf(run.items))
    BY <1>1 DEF RememberInv, RunAnswers
  <1>16. \/ Interrupted'
         \/ Answered(run'.events,
                     IdsOf(run'.lane) \cup IdsOf(run'.window) \cup IdsOf(run'.items))
    <2>1. CASE Interrupted
      BY <1>10, <2>1 DEF Interrupted
    <2>2. CASE Answered(run.events,
                        IdsOf(run.lane) \cup IdsOf(run.window) \cup IdsOf(run.items))
      BY <1>10, <1>14, <2>2
    <2> QED
      BY <1>15, <2>1, <2>2
  <1>17. RunAnswers' /\ ResumeAnswers'
    BY <1>1, <1>10, <1>13, <1>15, <1>16 DEF RunAnswers, ResumeAnswers
  <1> QED
    BY <1>1, <1>12, <1>17 DEF RememberInv, Remembered

(* The items kept apart come after the windows.                            *)
LEMMA DrainedRemembers ==
    ASSUME TurnInv, RememberInv, WindowsDone
    PROVE  RememberInv'
  <1>1. /\ phase = "windows" /\ phase' = "items" /\ run.window = <<>> /\ run.lane = <<>>
        /\ UNCHANGED <<history, turn, run, ran, ended>>
    BY DEF WindowsDone, world
  <1>2. IdsOf(<<>>) = {}
    BY DEF IdsOf, ToSet
  <1>3. WindowIds = {}
    BY <1>1 DEF WindowIds, ToSet
  <1>4. RanKept'
    BY <1>1, <1>3 DEF RememberInv, RanKept
  <1>5. AfterCalls(run.events) /\ (Interrupted \/ Answered(run.events, IdsOf(run.items)))
    BY <1>1, <1>2 DEF RememberInv, RunAnswers
  <1>6. RunAnswers' /\ ResumeAnswers'
    <2>1. Interrupted' = Interrupted
      BY <1>1 DEF Interrupted
    <2> QED
      BY <1>1, <1>5, <2>1 DEF RunAnswers, ResumeAnswers
  <1> QED
    BY <1>1, <1>4, <1>6 DEF RememberInv, Remembered

(* Where nothing in the lane asks, each item of a window has its result.   *)
LEMMA WindowResults ==
    ASSUME ~LaneAsks, NEW items \in Seq(LaneItems)
    PROVE  ResultIds(ResultsOf(items)) = IdsOf(items)
  <1> DEFINE results == [k \in DOMAIN items |-> Result(items[k].id, items[k].out)]
             K == {r \in ToSet(results) : r.note # "confirm"}
             S == {Result(items[k].id, items[k].out) : k \in DOMAIN items}
  <1>1. /\ DOMAIN items = 1..Len(items) /\ Len(items) \in Nat
        /\ \A k \in DOMAIN items : items[k].out # "confirm"
    BY DEF LaneItems, FitItems, Asking
  <1>2. \A k \in DOMAIN items : /\ results[k].kind = "result"
                                /\ results[k].id = items[k].id
                                /\ results[k].note = items[k].out
    BY DEF Result, Event
  <1>3. results \in Seq(S) /\ DOMAIN results = DOMAIN items
    BY <1>1
  <1> HIDE DEF results, S
  <1>4. ToSet(results) = {results[k] : k \in DOMAIN items}
    BY <1>3 DEF ToSet
  <1>5. ToSet(results) \cap K = ToSet(results)
    BY <1>1, <1>2, <1>4
  <1> HIDE DEF K
  <1>6. ToSet(KeepIn(results, K)) = ToSet(results)
    BY <1>3, <1>5, KeepInToSet
  <1>7. ResultsOf(items) = KeepIn(results, K)
    BY DEF ResultsOf, results, K
  <1>8. ToSet(items) = {items[k] : k \in DOMAIN items}
    BY DEF ToSet
  <1> QED
    BY <1>2, <1>4, <1>6, <1>7, <1>8 DEF ResultIds, IdsOf

(* Results of calls of the last response come after it.                    *)
LEMMA ResultsFollow ==
    ASSUME NEW events \in Seq(EventRecords), NEW calls, LastResponse(events, calls),
           NEW more \in Seq(EventRecords), ResultIds(more) \subseteq ToSet(calls),
           \A k \in 1..Len(more) : more[k].kind # "response", AfterCalls(events)
    PROVE  /\ AfterCalls(events \o more)
           /\ \A open : Answered(events, open) =>
                 Answered(events \o more, open \ ResultIds(more))
  <1> DEFINE all == events \o more
  <1>1. /\ Len(events) \in Nat /\ Len(more) \in Nat /\ Len(all) = Len(events) + Len(more)
        /\ \A k \in 1..Len(events) : all[k] = events[k]
        /\ \A k \in 1..Len(all) :
              k > Len(events) => k - Len(events) \in 1..Len(more)
                                 /\ all[k] = more[k - Len(events)]
    BY Concatenated
  <1>2. ResultIds(all) = ResultIds(events) \cup ResultIds(more)
    BY ResultsJoined
  <1>3. ToSet(all) = ToSet(events) \cup ToSet(more)
    BY ToSetJoined
  <1> HIDE DEF all
  <1>4. DOMAIN more = 1..Len(more)
    OBVIOUS
  <1>5. PICK j \in 1..Len(events) : events[j].kind = "response" /\ events[j].calls = calls
    BY DEF LastResponse
  <1>6. ASSUME NEW k \in 1..Len(all), all[k].kind = "result"
        PROVE  \E i \in 1..(k - 1) : all[i].kind = "response"
                                     /\ all[k].id \in ToSet(all[i].calls)
    <2>1. CASE k <= Len(events)
      <3>1. k \in 1..Len(events) /\ all[k] = events[k]
        BY <1>1, <2>1
      <3>2. PICK i \in 1..(k - 1) : /\ events[i].kind = "response"
                                    /\ events[k].id \in ToSet(events[i].calls)
        BY <1>6, <3>1 DEF AfterCalls
      <3>3. i \in 1..Len(events) /\ all[i] = events[i]
        BY <1>1, <3>1
      <3> QED
        BY <3>1, <3>2, <3>3
    <2>2. CASE k > Len(events)
      <3> DEFINE l == k - Len(events)
      <3>1. l \in 1..Len(more) /\ all[k] = more[l]
        BY <1>1, <2>2
      <3> HIDE DEF l
      <3>2. all[k].id \in ResultIds(more)
        BY <1>4, <1>6, <3>1 DEF ResultIds, ToSet
      <3>3. j \in 1..(k - 1) /\ all[j] = events[j]
        BY <1>1, <2>2
      <3> QED
        BY <1>5, <3>2, <3>3
    <2> QED
      BY <1>1, <2>1, <2>2
  <1>7. \A e \in ToSet(more) : e.kind # "response"
    BY <1>4 DEF ToSet
  <1>8. ASSUME NEW open, Answered(events, open)
        PROVE  Answered(all, open \ ResultIds(more))
    BY <1>2, <1>3, <1>7, <1>8 DEF Answered
  <1>9. AfterCalls(all)
    BY <1>6 DEF AfterCalls
  <1> QED
    BY <1>8, <1>9 DEF all

(* What is collected of a window answers its calls.                        *)
LEMMA CollectRemembers ==
    ASSUME ~LaneAsks, ConsentBase, TurnInv, UsageInv, RememberInv, CollectWindow
    PROVE  RememberInv'
  <1> DEFINE window == run.window
             I == {k \in 1..Len(window) : window[k].out = "confirm"}
             J == {k \in 1..Len(window) : window[k].stop}
             stop == SelectInSeq(window, LAMBDA x : x.stop)
             ask == SelectInSeq(window, LAMBDA x : x.out = "confirm")
             part == IF stop = 0 THEN window ELSE SubSeq(window, 1, stop)
             results == ResultsOf(part)
             events == run.events \o results
  <1>1. /\ phase = "windows" /\ UNCHANGED ran
        /\ window \in Seq(LaneItems) /\ RunFields /\ TurnFields
        /\ run.events \in Seq(EventRecords) /\ turn.batch \in Seq(Ids)
        /\ LastResponse(run.events, turn.batch)
    BY DEF CollectWindow, TurnInv, world
  <1>2. /\ AfterCalls(run.events) /\ IdsOf(window) \subseteq ToSet(turn.batch)
        /\ \/ Interrupted
           \/ Answered(run.events,
                       IdsOf(run.lane) \cup IdsOf(window) \cup IdsOf(run.items))
    BY <1>1 DEF RememberInv, RunAnswers
  <1>3. ask = 0
    <2>1. \A k \in 1..Len(window) : window[k].out # "confirm"
      BY <1>1 DEF LaneItems, FitItems, Asking
    <2>2. ask = IF I = {} THEN 0 ELSE Min(I)
      BY DEF SelectInSeq
    <2> QED
      BY <2>1, <2>2
  <1>4. stop \in 0..Len(window)
    <2>1. stop = IF J = {} THEN 0 ELSE Min(J)
      BY DEF SelectInSeq
    <2>2. J \in SUBSET Nat /\ Len(window) \in Nat
      BY <1>1
    <2>3. J # {} => Min(J) \in J
      BY <2>2, MinIn
    <2> QED
      BY <2>1, <2>2, <2>3
  <1>5. \/ EndWithNotice(events, "invalid_tool_call")
        \/ /\ stop = 0
           /\ \E x : run' = [run EXCEPT !.events = events, !.executed = x,
                                        !.window = <<>>]
           /\ UNCHANGED <<history, phase, turn, ended>>
    BY <1>3 DEF CollectWindow
  <1>6. part \in Seq(LaneItems)
    <2> HIDE DEF window, stop
    <2>1. SubSeq(window, 1, stop) \in Seq(LaneItems)
      BY <1>1, <1>4, LaneParts
    <2> QED
      BY <1>1, <2>1
  <1>7. stop = 0 => part = window
    OBVIOUS
  <1> HIDE DEF window, stop, part
  <1>8. /\ results \in Seq(EventRecords)
        /\ \A k \in 1..Len(results) : results[k].kind # "response"
    BY <1>6, ResultsCollected
  <1>9. ResultIds(results) = IdsOf(part)
    BY <1>6, WindowResults
  <1> HIDE DEF results
  <1>10. /\ events \in Seq(EventRecords)
         /\ ResultIds(events) = ResultIds(run.events) \cup ResultIds(results)
    BY <1>1, <1>8, Concatenated, ResultsJoined
  <1>11. CASE EndWithNotice(events, "invalid_tool_call")
    <2>1. "invalid_tool_call" \in Ends /\ "invalid_tool_call" \notin Lasting
      BY DEF Ends, Lasting
    <2> HIDE DEF events
    <2> QED
      BY <1>10, <1>11, <2>1, TurnFailed
  <1>12. ASSUME stop = 0, UNCHANGED <<history, phase, turn, ended>>,
                \E x : run' = [run EXCEPT !.events = events, !.executed = x,
                                          !.window = <<>>]
         PROVE  RememberInv'
    <2>1. ResultIds(results) = IdsOf(window)
      BY <1>7, <1>9, <1>12
    <2>2. /\ AfterCalls(events)
          /\ \A open : Answered(run.events, open) => Answered(events, open \ IdsOf(window))
      <3>1. ResultIds(results) \subseteq ToSet(turn.batch)
        BY <1>2, <2>1
      <3>2. /\ AfterCalls(events)
            /\ \A open : Answered(run.events, open) =>
                  Answered(events, open \ ResultIds(results))
        BY <1>1, <1>2, <1>8, <3>1, ResultsFollow
      <3> QED
        BY <2>1, <3>2
    <2> HIDE DEF events
    <2>3. /\ run'.events = events /\ run'.window = <<>> /\ run'.lane = run.lane
          /\ run'.items = run.items /\ run'.cut = run.cut
      BY <1>1, <1>12 DEF RunFields, HasFields
    <2>4. IdsOf(run'.window) = {}
      BY <2>3 DEF IdsOf, ToSet
    <2>5. \/ Interrupted'
          \/ Answered(run'.events,
                      IdsOf(run'.lane) \cup IdsOf(run'.window) \cup IdsOf(run'.items))
      <3>1. CASE Interrupted
        BY <2>3, <3>1 DEF Interrupted
      <3>2. CASE Answered(run.events,
                          IdsOf(run.lane) \cup IdsOf(window) \cup IdsOf(run.items))
        <4>1. Answered(events, (IdsOf(run.lane) \cup IdsOf(window) \cup IdsOf(run.items))
                               \ IdsOf(window))
          BY <2>2, <3>2
        <4>2. Answered(events, IdsOf(run.lane) \cup IdsOf(run.items))
          BY <4>1 DEF Answered
        <4> QED
          BY <2>3, <2>4, <4>2
      <3> QED
        BY <1>2, <3>1, <3>2
    <2>6. RunAnswers' /\ ResumeAnswers'
      BY <1>1, <1>12, <2>2, <2>3, <2>4, <2>5 DEF RunAnswers, ResumeAnswers
    <2>7. RanKept'
      <3>1. WindowIds = ResultIds(results)
        BY <2>1 DEF WindowIds, IdsOf, window
      <3> QED
        BY <1>1, <1>10, <1>12, <2>3, <3>1 DEF RememberInv, RanKept
    <2> QED
      BY <1>1, <1>12, <2>6, <2>7 DEF RememberInv, Remembered
  <1> QED
    BY <1>5, <1>11, <1>12

(* Neither do the items kept apart.                                        *)
LEMMA ItemsRemember ==
    ASSUME ConsentBase, TurnInv, OnceInv, UsageInv, RememberInv,
           ItemAnswered \/ ItemAsks \/ ItemExecutes \/ ItemRaises \/ ItemsDone
    PROVE  RememberInv'
  <1>1. /\ phase = "items" /\ RunFields /\ TurnFields
        /\ run.events \in Seq(EventRecords)
        /\ turn.batch \in Seq(Ids) /\ LastResponse(run.events, turn.batch)
        /\ run.items \in Seq(SideItems)
    BY DEF TurnInv, ItemAnswered, ItemAsks, ItemExecutes, ItemRaises, ItemsDone, InItems
  <1>2. \A x \in ToSet(run.items) : x.id \in ToSet(turn.batch)
    BY <1>1 DEF OnceInv, ItemsOnce
  <1>3. /\ AfterCalls(run.events)
        /\ Interrupted \/ Answered(run.events, IdsOf(run.items))
        /\ \A i \in ToSet(ran) : Replays(turn.committed, i) \/ i \in ResultIds(run.events)
    BY <1>1 DEF RememberInv, RunAnswers, RanKept
  <1>4. ASSUME run.items # <<>>
        PROVE  /\ Item \in Items /\ Item.id \in Nat
               /\ ToSet(run.items) = {Item} \cup ToSet(Tail(run.items))
    <2>1. Item \in SideItems /\ ToSet(run.items) = {Item} \cup ToSet(Tail(run.items))
      BY <1>1, <1>4, HeadAndTail DEF Item
    <2> QED
      BY <2>1 DEF SideItems, FitItems, Items, Ids
  <1> DEFINE e == Append(run.events, Result(Item.id, Item.out))
             rest == Tail(run.items)
  <1>5. ItemProcessed.events = e /\ ItemProcessed.items = rest
        /\ ItemProcessed.cut = run.cut
    <2> DEFINE p == ItemProcessed
    <2>1. \E x : p = [run EXCEPT !.events = e, !.items = rest, !.executed = x]
      BY DEF ItemProcessed
    <2> HIDE DEF p, e, rest
    <2> QED
      BY <1>1, <2>1 DEF RunFields, HasFields, p
  <1>6. ASSUME run.items # <<>>, Item.out \notin Asking
        PROVE  /\ e \in Seq(EventRecords) /\ AfterCalls(e)
               /\ ResultIds(e) = ResultIds(run.events) \cup {Item.id}
               /\ \A open : Answered(run.events, open) => Answered(e, open \ {Item.id})
    <2>1. Item.id \in ToSet(turn.batch) /\ Item.id \in Nat /\ Item.out \in EventNotes
      BY <1>2, <1>4, <1>6 DEF Items, Asking, EventNotes
    <2> DEFINE id == Item.id
               note == Item.out
    <2> HIDE DEF id, note
    <2>2. id \in ToSet(turn.batch) /\ id \in Nat /\ note \in EventNotes
      BY <2>1 DEF id, note
    <2>3. /\ Append(run.events, Result(id, note)) \in Seq(EventRecords)
          /\ ResultIds(Append(run.events, Result(id, note)))
             = ResultIds(run.events) \cup {id}
          /\ AfterCalls(run.events) => AfterCalls(Append(run.events, Result(id, note)))
          /\ \A open : Answered(run.events, open) =>
                Answered(Append(run.events, Result(id, note)), open \ {id})
      BY <1>1, <2>2, ResultFollows
    <2> QED
      BY <1>3, <2>3 DEF id, note
  <1> HIDE DEF e, rest
  <1>7. ASSUME run.items # <<>>, Item.out \notin Asking, run' = ItemProcessed,
               UNCHANGED <<history, turn, phase, ended>>,
               ToSet(ran') \subseteq ToSet(ran) \cup {Item.id}
        PROVE  RememberInv'
    <2>1. run'.events = e /\ run'.items = rest /\ run'.cut = run.cut
      BY <1>5, <1>7
    <2>2. ToSet(run.items) = {Item} \cup ToSet(rest)
      BY <1>4, <1>7 DEF rest
    <2>3. Interrupted' \/ Answered(e, IdsOf(rest))
      <3>1. CASE Interrupted
        BY <1>7, <2>1, <2>2, <3>1 DEF Interrupted
      <3>2. CASE Answered(run.events, IdsOf(run.items))
        <4>1. Answered(e, IdsOf(run.items) \ {Item.id})
          BY <1>6, <1>7, <3>2
        <4>2. IdsOf(run.items) \ {Item.id} \subseteq IdsOf(rest)
          BY <2>2 DEF IdsOf
        <4> QED
          BY <4>1, <4>2 DEF Answered
      <3> QED
        BY <1>3, <3>1, <3>2
    <2>4. AfterCalls(e) /\ ResultIds(e) = ResultIds(run.events) \cup {Item.id}
      BY <1>6, <1>7
    <2>5. RanKept'
      BY <1>1, <1>3, <1>7, <2>1, <2>4 DEF RanKept
    <2>6. RunAnswers' /\ ResumeAnswers'
      BY <1>1, <1>7, <2>1, <2>3, <2>4 DEF RunAnswers, ResumeAnswers
    <2> QED
      BY <1>1, <1>7, <2>5, <2>6 DEF RememberInv, Remembered
  <1>8. CASE ItemAnswered
    <2>1. run.items # <<>> /\ Item.out \notin Asking /\ UNCHANGED ran
      BY <1>8 DEF ItemAnswered, InItems, Immediate, Repairs, Denials, Asking, world
    <2>2. CASE Item.stop
      <3>1. EndWithNotice(e, "invalid_tool_call") /\ "invalid_tool_call" \in Ends
            /\ "invalid_tool_call" \notin Lasting
        BY <1>5, <1>8, <2>2 DEF ItemAnswered, Ends, Lasting
      <3> QED
        BY <1>6, <2>1, <3>1, TurnFailed
    <2>3. CASE ~Item.stop
      <3>1. run' = ItemProcessed /\ UNCHANGED <<history, turn, phase, ended>>
        BY <1>8, <2>3 DEF ItemAnswered
      <3> QED
        BY <1>7, <2>1, <3>1
    <2> QED
      BY <2>2, <2>3
  <1>9. CASE ItemExecutes
    <2>1. /\ run.items # <<>> /\ Item.out \notin Asking /\ run' = ItemProcessed
          /\ UNCHANGED <<history, turn, phase, ended>> /\ ExecuteTool(Item.id)
      BY <1>9 DEF ItemExecutes, InItems, Asking
    <2>2. ToSet(ran') \subseteq ToSet(ran) \cup {Item.id}
      BY <2>1, ExecutedRan
    <2> QED
      BY <1>7, <2>1, <2>2
  <1>10. CASE ItemAsks
    <2>1. AskUser(run.events, Item.id, turn.questions) /\ UNCHANGED ran
          /\ Item.id \in Nat
      BY <1>4, <1>10 DEF ItemAsks, InItems, world
    <2> QED
      BY <1>1, <1>3, <2>1, AskRemembers
  <1>11. CASE ItemRaises
    <2>1. FinishTurn(Append(run.events, Error), "failed") /\ "failed" \in Ends
          /\ "failed" \notin Lasting
      BY <1>11 DEF ItemRaises, Ends, Lasting
    <2> QED
      BY <1>1, <2>1, TurnFailed
  <1>12. CASE ItemsDone
    <2>1. CASE run.cut
      <3>1. EndWithNotice(run.events, "tool_call_limit") /\ "tool_call_limit" \in Ends
            /\ "tool_call_limit" \notin Lasting
        BY <1>12, <2>1 DEF ItemsDone, Ends, Limits, Lasting
      <3> QED
        BY <1>1, <3>1, TurnFailed
    <2>2. CASE ~run.cut
      <3>1. /\ run.items = <<>> /\ phase' = "model"
            /\ UNCHANGED <<history, turn, run, ran, ended>>
        BY <1>12, <2>2 DEF ItemsDone, world
      <3>2. ToSet(run.items) = {} /\ IdsOf(run.items) = {}
        BY <3>1 DEF ToSet, IdsOf
      <3>3. Answered(run.events, {})
        BY <1>3, <2>2, <3>2 DEF Interrupted
      <3>4. RanKept'
        BY <1>3, <3>1 DEF RanKept
      <3>5. RunAnswers' /\ ResumeAnswers'
        BY <1>3, <3>1, <3>3 DEF RunAnswers, ResumeAnswers
      <3> QED
        BY <3>1, <3>4, <3>5 DEF RememberInv, Remembered
    <2> QED
      BY <2>1, <2>2
  <1> QED
    BY <1>8, <1>9, <1>10, <1>11, <1>12

(* A step that leaves turn, run and history alone forgets nothing.         *)
LEMMA QuietRemembers ==
    ASSUME ~LaneAsks, RememberInv, UNCHANGED <<history, phase, turn, run, ended, ran>>
    PROVE  RememberInv'
  <1>1. /\ history' = history /\ phase' = phase /\ turn' = turn /\ run' = run
        /\ ended' = ended /\ ran' = ran
    OBVIOUS
  <1>2. Remembered' /\ RanKept'
    BY <1>1 DEF RememberInv, Remembered, RememberedIds, RanKept, WindowIds
  <1>3. RunAnswers' /\ ResumeAnswers'
    BY <1>1 DEF RememberInv, RunAnswers, ResumeAnswers, Interrupted
  <1> QED
    BY <1>1, <1>2, <1>3 DEF RememberInv

(* A run begins with nothing to answer.                                    *)
LEMMA FreshRemembers ==
    ASSUME run'.events = <<>>, history' \in Seq(Said), phase' \in {"model", "resume"},
           phase' = "resume" => ToSet(run'.queue) \subseteq ToSet(turn'.pending),
           \A id \in ToSet(ran') : Replays(turn'.committed, id)
    PROVE  RememberInv'
  <1>1. Len(run'.events) = 0 /\ ToSet(run'.events) = {} /\ ResultIds(run'.events) = {}
    BY DEF ToSet, ResultIds
  <1>2. AfterCalls(run'.events) /\ Answered(run'.events, {})
    BY <1>1 DEF AfterCalls, Answered
  <1>3. RanKept' /\ Remembered'
    BY DEF RanKept, Remembered
  <1>4. RunAnswers' /\ ResumeAnswers'
    BY <1>1, <1>2 DEF RunAnswers, ResumeAnswers
  <1> QED
    BY <1>3, <1>4 DEF RememberInv

(* An answer forgets nothing: what ran before the question is committed.   *)
LEMMA UserAnswerRemembers ==
    ASSUME TurnInv, UsageInv, RememberInv, UserAnswer
    PROVE  RememberInv'
  <1>1. /\ phase = "asking" /\ UNCHANGED ran
        /\ turn.committed \in Seq(EventRecords) /\ TurnFields
        /\ history \in Seq(Said)
    <2>1. phase = "asking" /\ UNCHANGED ran
      BY DEF UserAnswer, AnswerYes, AnswerYesThisTurn, AnswerNo, AnswerQuestion, NoAnswer,
         world
    <2> QED
      BY <2>1, EventsTyped DEF RememberInv
  <1>2. \A id \in ToSet(ran) : Replays(turn.committed, id)
    BY <1>1 DEF RememberInv, RanKept
  <1>3. CASE StartResume(turn.pending) /\ UNCHANGED <<history, turn>>
    <2>1. run'.events = <<>> /\ run'.queue = turn.pending /\ phase' = "resume"
      BY <1>3 DEF StartResume, FreshRun
    <2> QED
      BY <1>1, <1>2, <1>3, <2>1, FreshRemembers
  <1>4. CASE StartRun /\ UNCHANGED <<history, turn>>
    <2>1. run'.events = <<>> /\ phase' = "model"
      BY <1>4 DEF StartRun, FreshRun
    <2> QED
      BY <1>1, <1>2, <1>4, <2>1, FreshRemembers
  <1>5. CASE AnswerQuestion
    <2> DEFINE id == turn.asked
               calls == <<id>>
               r == ResponseFor(calls)
               a == Result(id, "answered")
               both == <<r, a>>
               new == Committed(both)
               all == turn.committed \o both
    <2>1. /\ turn' = [new EXCEPT !.pending = <<>>, !.asked = 0]
          /\ StartRun /\ UNCHANGED history
      BY <1>5 DEF AnswerQuestion, Answer
    <2>2. HasFields(new, TurnNames) /\ new.committed = all
      BY <1>1, CommittedMore
    <2>3. id \in Nat /\ turn.batch \in Seq(Nat) /\ "answered" \in EventNotes
          /\ "" \in EventNotes
      <3>1. id \in Nat /\ turn.batch \in Seq(Ids)
        BY <1>1 DEF TurnInv, UsageInv, OfBatch, Ids
      <3>2. turn.batch \in Seq(Nat)
        BY <3>1 DEF Ids
      <3>3. "answered" \in EventNotes /\ "" \in EventNotes
        BY DEF EventNotes, Ends
      <3> QED
        BY <3>1, <3>2, <3>3
    <2>4. a \in EventRecords
      BY <2>3, ResultEvent
    <2>5. r \in EventRecords
      <3> DEFINE none == <<>>
                 u == IF UsageCommitted THEN none ELSE turn.batch
      <3>0. id \in Nat
        BY <2>3
      <3>1. none \in Seq(Nat) /\ calls \in Seq(Nat)
        BY <3>0
      <3>2. r = [kind |-> "response", calls |-> calls, usage |-> u, id |-> 0, note |-> ""]
        BY DEF ResponseFor, Response, Event
      <3> HIDE DEF none, calls, r
      <3>3. u \in Seq(Nat)
        BY <2>3, <3>1
      <3> HIDE DEF u
      <3> QED
        BY <2>3, <3>1, <3>2, <3>3 DEF EventRecords
    <2> HIDE DEF r, a, new
    <2>6. both \in Seq(EventRecords)
      BY <2>4, <2>5
    <2> HIDE DEF both
    <2>7. \A i \in ToSet(ran) : Replays(all, i)
      BY <1>1, <1>2, <2>6, ReplaysMore
    <2> HIDE DEF all
    <2>8. turn'.committed = all
      BY <2>1, <2>2 DEF HasFields, TurnNames
    <2>9. run'.events = <<>> /\ phase' = "model"
      BY <2>1 DEF StartRun, FreshRun
    <2> QED
      BY <1>1, <2>1, <2>7, <2>8, <2>9, FreshRemembers
  <1>6. CASE NoAnswer
    <2> DEFINE a == Ask(turn.asked)
               one == <<a>>
               status == IF turn.resuming THEN "awaiting_confirmation" ELSE "stopped"
    <2>1. FinishTurn(one, status)
      BY <1>6 DEF NoAnswer
    <2>2. a \in EventRecords
      <3>1. turn.asked \in Nat
        BY <1>1 DEF TurnInv, Ids
      <3> QED
        BY <3>1, LastEvents
    <2> HIDE DEF a, status
    <2>3. one \in Seq(EventRecords)
      BY <2>2
    <2> HIDE DEF one
    <2>4. \A i \in ToSet(ran) : Replays(turn.committed \o one, i)
      BY <1>1, <1>2, <2>3, ReplaysMore
    <2> QED
      BY <1>1, <2>1, <2>3, <2>4, TurnEnded
  <1>7. CASE AnswerYes \/ AnswerYesThisTurn
    BY <1>3, <1>7 DEF AnswerYes, AnswerYesThisTurn
  <1>8. CASE AnswerNo
    BY <1>3, <1>4, <1>8 DEF AnswerNo
  <1> QED
    BY <1>5, <1>6, <1>7, <1>8 DEF UserAnswer

(* A message begins a turn that has executed nothing.                      *)
LEMMA UserMessageRemembers ==
    ASSUME RememberInv, NEW continue, UserMessage(continue)
    PROVE  RememberInv'
  <1> DEFINE M == Said
             x == User
  <1>1. run'.events = <<>> /\ phase' = "model" /\ ran' = <<>> /\ history' = Append(history, x)
    BY DEF UserMessage, StartRun, FreshRun
  <1>2. history \in Seq(M) /\ x \in M
    BY DEF RememberInv, Said
  <1> HIDE DEF M, x
  <1>3. history' \in Seq(M)
    BY <1>1, <1>2
  <1>4. ToSet(ran') = {}
    BY <1>1 DEF ToSet
  <1> QED
    BY <1>1, <1>3, <1>4, FreshRemembers DEF M

(* No step of a turn forgets a call.                                       *)
LEMMA RememberStep ==
    ASSUME ~LaneAsks, ConsentBase, TurnInv, OnceInv, UsageInv, RememberInv, [Next]_vars
    PROVE  RememberInv'
  <1>1. ASSUME NEW id, TaskFinishes(id) \/ TaskRaises(id) PROVE RememberInv'
    <2>1. CASE UNCHANGED <<history, phase, turn, run, ended, ran>>
      BY <2>1, QuietRemembers
    <2>2. CASE FinishTurn(Append(run.events, Error), "failed")
      <3>1. run.events \in Seq(EventRecords) /\ "failed" \in Ends /\ "failed" \notin Lasting
        BY EventsTyped DEF Ends, Lasting
      <3> QED
        BY <2>2, <3>1, TurnFailed
    <2> QED
      BY <1>1, <2>1, <2>2 DEF TaskFinishes, TaskRaises
  <1>2. CASE TurnStep
    BY <1>1, <1>2, ModelStepRemembers, SequentialStepRemembers, ResumeStepRemembers,
       PrepareRemembers, WindowRemembers, CollectRemembers, DrainedRemembers,
       ItemsRemember, UserAnswerRemembers
    DEF TurnStep, ParallelStep
  <1>3. CASE \E continue \in BOOLEAN : UserMessage(continue)
    BY <1>3, UserMessageRemembers
  <1>4. CASE Abort
    <2>1. ForgetTurn("aborted") /\ "aborted" \notin Lasting
      BY <1>4 DEF Abort, Lasting
    <2> QED
      BY <2>1, TurnForgotten
  <1>5. CASE UNCHANGED vars
    BY <1>5, QuietRemembers DEF vars, world
  <1> QED
    BY <1>2, <1>3, <1>4, <1>5 DEF Next

(* Nothing has run at the start, and nothing is remembered.                *)
LEMMA RememberInit ==
    ASSUME Init
    PROVE  ConsentBase /\ TurnInv /\ OnceInv /\ UsageInv /\ RememberInv
  <1>1. ran = <<>> /\ phase = "idle" /\ history = <<>> /\ ended = ""
    BY DEF Init
  <1>2. OnceInv
    <2>1. ran = <<>> /\ phase = "idle" => OnceInv
      BY DEF OnceInv, EachCallOnce, BatchOrder, QueueOnce, ResumeOnce, AskOnce, LaneOnce,
             ItemsOnce
    <2> QED
      BY <1>1, <2>1
  <1>3. UsageInv
    <2>1. turn.committed = <<>> /\ run.events = <<>>
      BY DEF Init, FreshTurn, FreshRun
    <2>2. EventsCounted
      BY <2>1, NoEvents DEF EventsCounted
    <2> QED
      BY <1>1, <2>1, <2>2 DEF UsageInv, OfBatch
  <1>4. RememberInv
    <2>1. <<>> \in Seq(Said)
      OBVIOUS
    <2>2. history \in Seq(Said)
      BY <1>1, <2>1
    <2>3. Remembered
      BY <1>1 DEF Remembered
    <2> QED
      BY <1>1, <2>2, <2>3 DEF RememberInv, RanKept, RunAnswers, ResumeAnswers
  <1> QED
    BY <1>2, <1>3, <1>4, ConsentInit

\* What is remembered is kept where the lane asks for nothing it has started.
LaneRemembers == ~LaneAsks => RememberInv

(* Whether the lane may ask is a matter of the configuration.              *)
LEMMA LaneRemembersStep ==
    ASSUME ConsentBase, TurnInv, OnceInv, UsageInv, LaneRemembers, [Next]_vars
    PROVE  LaneRemembers'
  <1>1. UNCHANGED config
    BY ConsentStep DEF ConsentChange
  <1>2. LaneAsks' = LaneAsks
    BY <1>1 DEF LaneAsks, Verdict, VerdictUnder
  <1>3. CASE LaneAsks
    BY <1>2, <1>3 DEF LaneRemembers
  <1>4. CASE ~LaneAsks
    BY <1>4, RememberStep DEF LaneRemembers
  <1> QED
    BY <1>3, <1>4

(* A turn that ends of itself, waits for the user or pauses at the loop    *)
(* limit forgets none of the calls it executed: the next turn replays      *)
(* their results to the model, whatever questions cut the responses, and   *)
(* whatever was left out of the history for lack of a result.  A lane that *)
(* asks about reads it has started is excepted.                            *)
THEOREM CallsAreRemembered == Spec => []Remembered
  <1>1. Init => ConsentBase /\ TurnInv /\ OnceInv /\ UsageInv /\ LaneRemembers
    BY RememberInit DEF LaneRemembers
  <1>2. ConsentBase /\ TurnInv /\ OnceInv /\ UsageInv /\ LaneRemembers /\ [Next]_vars
        => (ConsentBase /\ TurnInv /\ OnceInv /\ UsageInv /\ LaneRemembers)'
    BY ConsentStep, LedgerStep, BaseKept, OnceStep, UsageStep, LaneRemembersStep
  <1>3. LaneRemembers => Remembered
    BY DEF LaneRemembers, RememberInv, Remembered
  <1> QED
    BY <1>1, <1>2, <1>3, PTL DEF Spec
=============================================================================
