------------------------------ MODULE Consent ------------------------------
(***************************************************************************)
(* What the approval flow promises the user, with no ledger, no batches    *)
(* and no scheduler: a tool call that needs consent is executed only while *)
(* an answer covers it, and a call the user refused is not executed in the *)
(* rest of the turn, nor ever one that the permissions deny.  An answer    *)
(* covers the calls that look alike (the approval manager compares         *)
(* normalised keys), the whole turn, or the session; answers for a turn    *)
(* end with the next message, unless it continues a paused task.           *)
(***************************************************************************)
EXTENDS Naturals, Sequences, SequencesExt

CONSTANTS
    Calls,      \* tool calls
    Norm,       \* calls look alike when Norm maps them to the same key
    Free(_),    \* calls that need no consent under the given rules
    Denied(_)   \* calls no consent can permit under them

VARIABLES
    rules,     \* what the session is configured with
    agreed,    \* calls the user agreed to in this turn
    always,    \* calls the user agreed to for the session
    wide,      \* the user agreed to everything in this turn
    refused,   \* calls the user refused in this turn
    executed   \* the executions of this turn, in order

consentVars == <<executed, agreed, always, wide, refused, rules>>

Covered(c) ==
    \/ c \in Free(rules)
    \/ wide
    \/ \E d \in agreed \cup always : Norm[d] = Norm[c]

Init ==
    /\ agreed = {}
    /\ always = {}
    /\ wide = FALSE
    /\ refused = {}
    /\ executed = <<>>

NewMessage ==
    /\ agreed' = {}
    /\ wide' = FALSE
    /\ refused' = {}
    /\ executed' = <<>>
    /\ UNCHANGED <<always, rules>>

Continue ==
    /\ executed' = <<>>
    /\ UNCHANGED <<agreed, always, wide, refused, rules>>

SayYes(c) ==
    /\ agreed' = agreed \cup {c}
    /\ always' \in {always, always \cup {c}}
    /\ UNCHANGED <<executed, wide, refused, rules>>

SayYesThisTurn ==
    /\ wide' = TRUE
    /\ UNCHANGED <<executed, agreed, always, refused, rules>>

SayNo(c) ==
    /\ refused' = refused \cup {c}
    /\ UNCHANGED <<executed, agreed, always, wide, rules>>

\* One call is executed, or several at once.
Execute ==
    /\ UNCHANGED <<agreed, always, wide, refused>>
    /\ IsPrefix(executed, executed')
    /\ \A i \in DOMAIN executed' \ DOMAIN executed :
          /\ Covered(executed'[i])
          /\ executed'[i] \notin refused \cup Denied(rules)
    /\ UNCHANGED rules

Next ==
    \/ NewMessage
    \/ Continue
    \/ \E c \in Calls : SayYes(c) \/ SayNo(c)
    \/ SayYesThisTurn
    \/ Execute

Spec == Init /\ [][Next]_consentVars
=============================================================================
