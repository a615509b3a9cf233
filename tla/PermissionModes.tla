-------------------------- MODULE PermissionModes --------------------------
(***************************************************************************)
(* A session's permission decisions: the execution mode is set at the      *)
(* start (default_mode, --deny-mutating) and changed with /mode; the agent *)
(* asks its PermissionChecker about every tool call before it runs it.     *)
(* The checker's policy is the one Agent.__init__ builds it with, the      *)
(* session's approval_policy is the one the configuration names; nothing   *)
(* but the ApprovalManager receives the latter (runtime_session.py).       *)
(* The names leave those of the ledger's module free: both are extended by *)
(* the module of the two components' proofs.                               *)
(***************************************************************************)
EXTENDS Permissions

CONSTANTS
    CheckerPolicies  \* the policies a PermissionChecker may be built with

ASSUME PolicyAssumption ==
    CheckerPolicies \subseteq ApprovalPolicies

VARIABLES
    mode,           \* ReplState.mode
    checkerPolicy,  \* PermissionChecker.policy
    autoReads,      \* config.auto_confirm_read_only
    call,           \* the tool call evaluated last
    calledIn,       \* the mode it was evaluated in
    decision        \* and the answer

checkerVars == <<mode, checkerPolicy, autoReads, call, calledIn, decision>>

NoCall == [name |-> "other", mutating |-> FALSE, risk |-> "low",
           zone |-> "none", reads |-> FALSE]

CheckerTypeOK ==
    /\ mode \in Modes
    /\ checkerPolicy \in CheckerPolicies
    /\ autoReads \in BOOLEAN
    /\ call \in ToolCalls
    /\ calledIn \in Modes
    /\ decision \in Decisions

CheckerInit ==
    /\ mode \in Modes
    /\ checkerPolicy \in CheckerPolicies
    /\ autoReads \in BOOLEAN
    /\ call = NoCall
    /\ calledIn = mode
    /\ decision = Evaluate(NoCall, mode, checkerPolicy, autoReads)

\* /mode plan | default | auto, between two turns
HandleMode(m) ==
    /\ mode' = m
    /\ UNCHANGED <<checkerPolicy, autoReads, call, calledIn, decision>>

\* The agent asks about the next tool call.
EvaluateCall(t) ==
    /\ call' = t
    /\ calledIn' = mode
    /\ decision' = Evaluate(t, mode, checkerPolicy, autoReads)
    /\ UNCHANGED <<mode, checkerPolicy, autoReads>>

CheckerNext ==
    \/ \E m \in Modes : HandleMode(m)
    \/ \E t \in ToolCalls : EvaluateCall(t)

CheckerSpec == CheckerInit /\ [][CheckerNext]_checkerVars

-----------------------------------------------------------------------------
\* Calls with a mutating tool that do not mutate anything.
HarmlessUse(t) ==
    \/ t.name = "bash" /\ t.risk = "low"
    \/ t.name = "memory" /\ t.reads

(* Plan is read-only, whether the mode or the checker's policy says plan   *)
(* and whatever the other one says: a mutating call is never let through   *)
(* nor put to the user.                                                    *)
PlanIsReadOnly ==
    /\ calledIn = "plan" \/ checkerPolicy = "plan"
    /\ call.mutating
    /\ ~HarmlessUse(call)
    => decision = "deny"

(* High-risk and dangerous commands, full overwrites and every write       *)
(* outside the workspace or into .nexus are never let through without      *)
(* asking: no mode and no policy of the checker lifts that.                *)
HighRiskNeverUnasked ==
    \/ call.name = "bash" /\ call.risk \in {"high", "dangerous"}
    \/ call.name = "write_file"
    \/ call.zone \in {"outside", "state", "memory"}
    => decision # "allow"
=============================================================================
