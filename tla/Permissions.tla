---------------------------- MODULE Permissions ----------------------------
(***************************************************************************)
(* PermissionChecker.evaluate (security/permissions.py): what happens to a *)
(* tool call before any approval is looked up.  A call is abstracted to    *)
(*                                                                         *)
(*   name      bash, write_file and memory have rules of their own, "edit" *)
(*             stands for the other path-checked write tools, "other" for  *)
(*             every remaining tool                                        *)
(*   mutating  the tool's is_mutating flag                                 *)
(*   risk      CommandClassifier's verdict on the command (bash only)      *)
(*   zone      where the path argument leads (write tools only; "none"     *)
(*             when there is no path)                                      *)
(*   reads     the memory action is get or list (memory only)              *)
(***************************************************************************)

Modes == {"plan", "default", "auto"}
ApprovalPolicies ==
    {"on-request", "approve-turn", "approve-session", "auto", "plan"}
Decisions == {"allow", "confirm", "deny"}
Risks == {"low", "medium", "high", "dangerous"}
Zones == {"none", "workspace", "outside", "state", "memory"}

ToolCalls ==
    [name : {"bash"}, mutating : {TRUE}, risk : Risks, zone : {"none"},
     reads : {FALSE}]
    \cup [name : {"write_file", "edit"}, mutating : {TRUE}, risk : {"low"},
          zone : Zones, reads : {FALSE}]
    \cup [name : {"memory"}, mutating : {TRUE}, risk : {"low"},
          zone : {"none"}, reads : BOOLEAN]
    \cup [name : {"other"}, mutating : BOOLEAN, risk : {"low"},
          zone : {"none"}, reads : {FALSE}]

-----------------------------------------------------------------------------
\* _path_policy: writes outside the workspace and below .nexus are denied
\* whatever the mode and the policy.
PathDenied(t) ==
    /\ t.name \in {"write_file", "edit"}
    /\ t.zone \in {"outside", "memory", "state"}

\* Mutant of InPlanMode: an explicit auto mode lifts the plan policy.
InPlanModeUnlessAuto(mode, policy) ==
    mode = "plan" \/ (policy = "plan" /\ mode # "auto")

InPlanMode(mode, policy) == mode = "plan" \/ policy = "plan"

InAutoMode(mode, policy) == mode = "auto" \/ policy = "auto"

\* What a mutating call of ordinary risk gets.
Mutation(mode, policy) ==
    IF InPlanMode(mode, policy) THEN "deny"
    ELSE IF InAutoMode(mode, policy) THEN "allow" ELSE "confirm"

\* Mutant of HighRisk: auto covers the high risks too.
HighRiskAllowedInAuto(mode, policy) == Mutation(mode, policy)

\* What high-risk commands and full overwrites get: auto does not help.
HighRisk(mode, policy) ==
    IF InPlanMode(mode, policy) THEN "deny" ELSE "confirm"

BashPolicy(t, mode, policy) ==
    CASE t.risk \in {"high", "dangerous"} -> HighRisk(mode, policy)
      [] t.risk = "medium" -> Mutation(mode, policy)
      [] t.risk = "low" -> "allow"

\* auto_confirm_read_only matters in the default mode only.
ReadOnly(mode, autoReads) ==
    IF mode = "default" /\ ~autoReads THEN "confirm" ELSE "allow"

Evaluate(t, mode, policy, autoReads) ==
    CASE PathDenied(t) -> "deny"
      [] ~PathDenied(t) /\ t.name = "bash" -> BashPolicy(t, mode, policy)
      [] ~PathDenied(t) /\ t.name = "write_file" -> HighRisk(mode, policy)
      [] t.name = "memory" /\ t.reads -> "allow"
      [] t.name = "memory" /\ ~t.reads -> Mutation(mode, policy)
      [] ~PathDenied(t) /\ t.name \in {"edit", "other"} ->
            IF t.mutating THEN Mutation(mode, policy)
                          ELSE ReadOnly(mode, autoReads)
=============================================================================
