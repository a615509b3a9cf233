-------------------------- MODULE ApprovalManager --------------------------
(***************************************************************************)
(* The approval ledger of one session: security/manager.py,                *)
(* ApprovalManager.  It records the user's answers to confirmation         *)
(* requests and tells the agent whether a tool call may run without        *)
(* asking.  The methods are operators over the ledger's fields; the        *)
(* modules that EXTEND this one say who calls them and when.               *)
(*                                                                         *)
(* A call stands for the exact key "tool:json(arguments)"; Norm maps it to *)
(* the lower-cased, whitespace-collapsed key, which several calls share.   *)
(***************************************************************************)
EXTENDS Naturals, FiniteSets

CONSTANTS
    Calls,      \* tool invocations: tool name with its arguments
    NormKeys,   \* normalised keys
    Norm        \* the normalised key of a call

ASSUME NormAssumption == Norm \in [Calls -> NormKeys]

VARIABLES
    sessionApproved,  \* calls approved for the session
    turnApproved,     \* calls approved for the current turn
    onceApproved,     \* unconsumed one-time approvals of an exact call
    onceNormalized,   \* unconsumed one-time approvals of a normalised key
    turnWide,         \* the blanket approval of the current turn
    turnRefused       \* calls the user refused in the current turn

ledger == <<sessionApproved, turnApproved, onceApproved, onceNormalized,
            turnWide, turnRefused>>

Scopes == {"once", "turn", "session"}

LedgerTypeOK ==
    /\ sessionApproved \subseteq Calls
    /\ turnApproved \subseteq Calls
    /\ onceApproved \in [Calls -> Nat]
    /\ onceNormalized \in [NormKeys -> Nat]
    /\ turnWide \in BOOLEAN
    /\ turnRefused \subseteq Calls

LedgerInit ==
    /\ sessionApproved = {}
    /\ turnApproved = {}
    /\ onceApproved = [c \in Calls |-> 0]
    /\ onceNormalized = [n \in NormKeys |-> 0]
    /\ turnWide = FALSE
    /\ turnRefused = {}

-----------------------------------------------------------------------------
(* Methods that change the ledger.                                         *)

\* Mutant of BeginTurn: forgets to clear the normalised one-time approvals.
BeginTurnKeepsNormalized ==
    /\ onceApproved' = [c \in Calls |-> 0]
    /\ turnApproved' = {}
    /\ turnWide' = FALSE
    /\ turnRefused' = {}
    /\ UNCHANGED <<sessionApproved, onceNormalized>>

\* Mutant of BeginTurn: forgets to end the blanket approval.
BeginTurnKeepsTurnWide ==
    /\ onceApproved' = [c \in Calls |-> 0]
    /\ turnApproved' = {}
    /\ turnRefused' = {}
    /\ onceNormalized' = [n \in NormKeys |-> 0]
    /\ UNCHANGED <<sessionApproved, turnWide>>

BeginTurn ==
    /\ onceApproved' = [c \in Calls |-> 0]
    /\ turnApproved' = {}
    /\ turnWide' = FALSE
    /\ turnRefused' = {}
    /\ onceNormalized' = [n \in NormKeys |-> 0]
    /\ UNCHANGED sessionApproved

RecordApproval(c, scope) ==
    /\ \/ /\ scope = "once"
          /\ onceApproved' = [onceApproved EXCEPT ![c] = @ + 1]
          /\ onceNormalized' = [onceNormalized EXCEPT ![Norm[c]] = @ + 1]
          /\ UNCHANGED <<turnApproved, sessionApproved>>
       \/ /\ scope \in {"turn", "session"}
          /\ turnApproved' = turnApproved \cup {c}
          /\ sessionApproved' = IF scope = "session"
                                THEN sessionApproved \cup {c}
                                ELSE sessionApproved
          /\ UNCHANGED <<onceApproved, onceNormalized>>
    /\ UNCHANGED <<turnWide, turnRefused>>

RecordTurnWideMutatingApproval ==
    /\ turnWide' = TRUE
    /\ UNCHANGED <<sessionApproved, turnApproved, onceApproved,
                   onceNormalized, turnRefused>>

RecordRefusal(c) ==
    /\ turnRefused' = turnRefused \cup {c}
    /\ UNCHANGED <<sessionApproved, turnApproved, onceApproved,
                   onceNormalized, turnWide>>

Decremented(n) == IF n > 0 THEN n - 1 ELSE 0

\* Mutant of ConsumeApproval: leaves the normalised entry behind.
ConsumeExactApprovalOnly(c) ==
    /\ onceApproved' = [onceApproved EXCEPT ![c] = Decremented(@)]
    /\ UNCHANGED <<sessionApproved, turnApproved, onceNormalized, turnWide,
                   turnRefused>>

\* Called after every execution, whatever the execution was authorised by:
\* the exact entry and the normalised entry each lose one, if they have one.
ConsumeApproval(c) ==
    /\ onceApproved' = [onceApproved EXCEPT ![c] = Decremented(@)]
    /\ onceNormalized' = [onceNormalized EXCEPT ![Norm[c]] = Decremented(@)]
    /\ UNCHANGED <<sessionApproved, turnApproved, turnWide, turnRefused>>

-----------------------------------------------------------------------------
(* Queries.                                                                *)

IsPreApproved(c) ==
    \/ c \in sessionApproved
    \/ c \in turnApproved
    \/ onceApproved[c] > 0
    \/ onceNormalized[Norm[c]] > 0

IsRefused(c) == c \in turnRefused

\* approval_scope_for_policy in runtime/turn_runner.py: the scope of a "yes"
ScopeForPolicy(policy) ==
    CASE policy = "approve-turn"    -> "turn"
      [] policy = "approve-session" -> "session"
      [] OTHER                      -> "once"

\* _is_tool_preapproved in runtime/agent.py, with an approval manager
IsToolPreapproved(c) == IsPreApproved(c) \/ turnWide
=============================================================================
