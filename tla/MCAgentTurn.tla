---------------------------- MODULE MCAgentTurn ----------------------------
(***************************************************************************)
(* Instances of AgentTurn for TLC.  Each cfg picks its calls from these:   *)
(*   w, w2  write_file on notes.md with two contents                       *)
(*   e      an edit of notes.md                                            *)
(*   v      write_file on other.md                                         *)
(*   p      a write outside the workspace                                  *)
(*   r, r2  read_file of notes.md in two spellings that normalise alike    *)
(*   g      a search that is not cached                                    *)
(*   q      ask_user                                                       *)
(*   u      a tool that does not exist                                     *)
(*   i      a read without its required arguments                          *)
(***************************************************************************)
EXTENDS AgentTurn

CONSTANTS w, w2, e, v, p, r, r2, g, q, u, i, notes, other, none

Perm(name, mutating, zone) ==
    [name |-> name, mutating |-> mutating, risk |-> "low", zone |-> zone,
     reads |-> FALSE]

Call(kind, perm, path, cacheable) ==
    [kind |-> kind, perm |-> perm, path |-> path, cacheable |-> cacheable]

AllTools ==
    w :> Call("tool", Perm("write_file", TRUE, "workspace"), notes, FALSE)
    @@ w2 :> Call("tool", Perm("write_file", TRUE, "workspace"), notes, FALSE)
    @@ e :> Call("tool", Perm("edit", TRUE, "workspace"), notes, FALSE)
    @@ v :> Call("tool", Perm("write_file", TRUE, "workspace"), other, FALSE)
    @@ p :> Call("tool", Perm("write_file", TRUE, "outside"), none, FALSE)
    @@ r :> Call("tool", Perm("other", FALSE, "none"), notes, TRUE)
    @@ r2 :> Call("tool", Perm("other", FALSE, "none"), notes, TRUE)
    @@ g :> Call("tool", Perm("other", FALSE, "none"), none, FALSE)
    @@ q :> Call("question", Perm("other", FALSE, "none"), none, FALSE)
    @@ u :> Call("unknown", Perm("other", FALSE, "none"), none, FALSE)
    @@ i :> Call("invalid", Perm("other", FALSE, "none"), none, FALSE)

MCTool == [c \in Calls |-> AllTools[c]]

\* r and r2 differ only in the case of an argument, as do w and w2.
MCNorm == [c \in Calls |-> IF c = r2 THEN r ELSE IF c = w2 THEN w ELSE c]

-----------------------------------------------------------------------------
\* An interactive session with the defaults of the configuration.
Interactive ==
    [policy |-> "on-request", mode |-> "default", autoConfirm |-> FALSE,
     autoReads |-> TRUE, callback |-> TRUE, parallel |-> FALSE, window |-> 2,
     toolCalls |-> 2, loops |-> 2, questions |-> 2, batch |-> 2, requests |-> {w, v, r}]

\* The sequential loop: consent, the other kinds of calls, a
\* headless run, approvals for the session of calls that look alike.
SequentialConfigs ==
    {Interactive,
     [Interactive EXCEPT !.toolCalls = 3, !.questions = 1,
                         !.requests = {q, u, i, p, w}],
     [Interactive EXCEPT !.mode = "auto", !.callback = FALSE,
                         !.requests = {e, w, r, q}],
     [Interactive EXCEPT !.policy = "approve-session", !.requests = {w, w2}]}

\* The parallel-first scheduler, interrupted by confirmations.
ParallelConfigs ==
    {[Interactive EXCEPT !.parallel = TRUE, !.batch = 3, !.toolCalls = 3],
     [Interactive EXCEPT !.parallel = TRUE, !.batch = 3, !.questions = 1,
                         !.requests = {q, w, u, i}]}

\* The parallel-first scheduler where reads need consent too.
CautiousConfigs ==
    {[Interactive EXCEPT !.parallel = TRUE, !.autoReads = FALSE,
                         !.requests = {w, r}]}

\* The parallel-first scheduler in auto mode, where edits run unasked.
AutoConfigs ==
    {[Interactive EXCEPT !.parallel = TRUE, !.batch = 3, !.mode = "auto",
                         !.requests = {e, r, g, i}]}

TurnConfigs == SequentialConfigs \cup ParallelConfigs \cup CautiousConfigs \cup AutoConfigs

\* A "yes" holds for the turn: every call asks once.
LiveConfigs ==
    {[Interactive EXCEPT !.policy = "approve-turn", !.requests = {w, v}],
     [Interactive EXCEPT !.policy = "approve-turn", !.parallel = TRUE,
                         !.loops = 1, !.requests = {w, r}]}

=============================================================================
