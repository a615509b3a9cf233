\* Every checker policy, every mode, every class of tool call.
CONSTANTS
    CheckerPolicies = {"on-request", "approve-turn", "approve-session", "auto", "plan"}
SPECIFICATION CheckerSpec
INVARIANTS
    PlanIsReadOnly
    HighRiskNeverUnasked
