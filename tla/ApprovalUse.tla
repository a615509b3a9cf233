---------------------------- MODULE ApprovalUse ----------------------------
(***************************************************************************)
(* The approval ledger in use: the user answers confirmation requests      *)
(* (turn_runner.record_approval_response), the agent runs the calls the    *)
(* ledger lets through and consumes one-time approvals, new user messages  *)
(* open new turns.  The auxiliary variables remember what the user really  *)
(* said, so that the ledger's answers can be compared with it.             *)
(***************************************************************************)
EXTENDS ApprovalManager

CONSTANTS
    NeedsConfirm,  \* the calls whose permission decision is CONFIRM
    MaxYes,        \* bound: one-time answers per normalised key and turn
    MaxTurns       \* bound: turns

Policies == {"on-request", "approve-turn", "approve-session", "auto", "plan"}

ASSUME UseAssumption ==
    /\ NeedsConfirm \subseteq Calls
    /\ MaxYes \in Nat
    /\ MaxTurns \in Nat

VARIABLES
    policy,       \* the session's approval policy
    yes,          \* auxiliary: one-time answers given to a call this turn
    yesNorm,      \* auxiliary: the same per normalised key
    saidTurn,     \* auxiliary: calls approved at turn scope this turn
    saidSession,  \* auxiliary: calls ever approved at session scope
    saidWide,     \* auxiliary: the user chose "this turn" this turn
    ran,          \* auxiliary: executions only one-time answers explain
    turnNo        \* auxiliary: turns begun

said == <<yes, yesNorm, saidTurn, saidSession, saidWide>>
useVars == <<ledger, policy, said, ran, turnNo>>

UseTypeOK ==
    /\ LedgerTypeOK
    /\ policy \in Policies
    /\ yes \in [Calls -> Nat]
    /\ yesNorm \in [NormKeys -> Nat]
    /\ saidTurn \subseteq Calls
    /\ saidSession \subseteq Calls
    /\ saidWide \in BOOLEAN
    /\ ran \in [NormKeys -> Nat]
    /\ turnNo \in Nat

UseInit ==
    /\ LedgerInit
    /\ policy \in Policies
    /\ yes = [c \in Calls |-> 0]
    /\ yesNorm = [n \in NormKeys |-> 0]
    /\ saidTurn = {}
    /\ saidSession = {}
    /\ saidWide = FALSE
    /\ ran = [n \in NormKeys |-> 0]
    /\ turnNo = 0

-----------------------------------------------------------------------------
\* The agent asks about a call only when nothing recorded decides it.
Asked(c) ==
    /\ c \in NeedsConfirm
    /\ ~IsRefused(c)
    /\ ~IsToolPreapproved(c)

\* "yes": record_approval_response with the scope the policy prescribes.
AnswerYes(c) ==
    /\ Asked(c)
    /\ yesNorm[Norm[c]] < MaxYes
    /\ RecordApproval(c, ScopeForPolicy(policy))
    /\ IF ScopeForPolicy(policy) = "once"
       THEN /\ yes' = [yes EXCEPT ![c] = @ + 1]
            /\ yesNorm' = [yesNorm EXCEPT ![Norm[c]] = @ + 1]
            /\ UNCHANGED <<saidTurn, saidSession>>
       ELSE /\ saidTurn' = saidTurn \cup {c}
            /\ saidSession' = IF ScopeForPolicy(policy) = "session"
                              THEN saidSession \cup {c} ELSE saidSession
            /\ UNCHANGED <<yes, yesNorm>>
    /\ UNCHANGED <<policy, saidWide, ran, turnNo>>

\* "yes, this turn", offered under on-request only.
AnswerTurn(c) ==
    /\ policy = "on-request"
    /\ Asked(c)
    /\ RecordTurnWideMutatingApproval
    /\ saidWide' = TRUE
    /\ UNCHANGED <<policy, yes, yesNorm, saidTurn, saidSession, ran, turnNo>>

AnswerNo(c) ==
    /\ Asked(c)
    /\ RecordRefusal(c)
    /\ UNCHANGED <<policy, said, ran, turnNo>>

\* Only one-time answers can explain that c runs.
OnlyOnce(c) ==
    c \in NeedsConfirm \ (sessionApproved \cup turnApproved) /\ ~turnWide

\* The agent runs a call that needs no answer, or that the ledger lets
\* through, and consumes a one-time approval of it.
Execute(c) ==
    /\ c \in NeedsConfirm => IsToolPreapproved(c)
    /\ ~IsRefused(c)
    /\ ConsumeApproval(c)
    /\ ran' = IF OnlyOnce(c) THEN [ran EXCEPT ![Norm[c]] = @ + 1] ELSE ran
    /\ UNCHANGED <<policy, said, turnNo>>

\* A new user message: what was said for a turn holds no longer.
NewTurn ==
    /\ turnNo < MaxTurns
    /\ BeginTurn
    /\ yes' = [c \in Calls |-> 0]
    /\ yesNorm' = [n \in NormKeys |-> 0]
    /\ saidTurn' = {}
    /\ saidWide' = FALSE
    /\ ran' = [n \in NormKeys |-> 0]
    /\ turnNo' = turnNo + 1
    /\ UNCHANGED <<policy, saidSession>>

UseNext ==
    \/ NewTurn
    \/ \E c \in Calls : \/ AnswerYes(c)
                        \/ AnswerTurn(c)
                        \/ AnswerNo(c)
                        \/ Execute(c)

UseSpec == UseInit /\ [][UseNext]_useVars

-----------------------------------------------------------------------------
(* Every authorisation the ledger gives goes back to an answer of the user *)
(* that is still in force: the same call approved for this turn or for the *)
(* session, "this turn" said in this turn, or a one-time answer of this    *)
(* turn to a call with the same normalised key.  An approval is never      *)
(* invented by consumption, by a refusal or by the start of a turn.        *)
ApprovalTraceable ==
    \A c \in Calls : IsToolPreapproved(c) =>
        \/ c \in saidTurn \cup saidSession
        \/ saidWide
        \/ \E d \in Calls : Norm[d] = Norm[c] /\ yes[d] > 0

(* The ledger never holds more one-time approvals than the user gave in    *)
(* this turn, per exact call and per normalised key: record_approval and   *)
(* consume_approval keep the two dictionaries from growing apart upwards.  *)
NeverMoreThanSaid ==
    /\ \A c \in Calls : onceApproved[c] <= yes[c]
    /\ \A n \in NormKeys : onceNormalized[n] <= yesNorm[n]

(* Executions that only one-time answers explain stay within two per       *)
(* answer: each answer leaves one exact and one normalised token, and each *)
(* such execution takes at least one of them.                              *)
OnceAtMostTwice == \A n \in NormKeys : ran[n] <= 2 * yesNorm[n]
=============================================================================
