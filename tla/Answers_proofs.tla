--------------------------- MODULE Answers_proofs ---------------------------
(***************************************************************************)
(* The answers of the user, from the key that gives one to the calls it    *)
(* lets through, for every set of requests and calls, every normalisation, *)
(* every policy and any number of prompts: the approval ledger in use      *)
(* (ApprovalUse), the permission checker, which decides what is put to the *)
(* user at all (PermissionModes), and the full-screen interface, where the *)
(* answers are given (Textual).                                            *)
(***************************************************************************)
EXTENDS ApprovalUse, PermissionModes, Textual, FiniteSetTheorems, SequenceTheorems, TLAPS

-----------------------------------------------------------------------------
(***************************************************************************)
(* The ledger: its types, that every authorisation it gives goes back to   *)
(* an answer of the user, that it never holds more one-time approvals than *)
(* were given, and that an approval given once serves at most two          *)
(* executions.                                                             *)
(***************************************************************************)
\* The ledger is an UseInit state typed by the declared domains.
LEMMA InitTypeOK == UseInit => UseTypeOK
<1> SUFFICES ASSUME UseInit PROVE UseTypeOK
  OBVIOUS
<1>1. LedgerTypeOK
  BY DEF UseInit, LedgerInit, LedgerTypeOK
<1>2. QED
  BY <1>1 DEF UseInit, UseTypeOK

\* One step of the answers, of an execution or of a new turn keeps the types.
LEMMA NextTypeOK == UseTypeOK /\ [UseNext]_useVars => UseTypeOK'
<1> SUFFICES ASSUME UseTypeOK, [UseNext]_useVars PROVE UseTypeOK'
  OBVIOUS
<1> USE NormAssumption DEF UseTypeOK, LedgerTypeOK
<1>1. CASE NewTurn
  <2>1. /\ onceApproved' \in [Calls -> Nat]
        /\ onceNormalized' \in [NormKeys -> Nat]
        /\ yes' \in [Calls -> Nat]
        /\ yesNorm' \in [NormKeys -> Nat]
        /\ ran' \in [NormKeys -> Nat]
        /\ policy' \in Policies
    BY <1>1 DEF NewTurn, BeginTurn
  <2>2. turnWide' \in BOOLEAN /\ saidWide' \in BOOLEAN
    BY <1>1, Zenon DEF NewTurn, BeginTurn
  <2>3. /\ sessionApproved' \subseteq Calls /\ turnApproved' \subseteq Calls
        /\ turnRefused' \subseteq Calls /\ turnNo' \in Nat
        /\ saidTurn' \subseteq Calls /\ saidSession' \subseteq Calls
    BY <1>1 DEF NewTurn, BeginTurn
  <2>4. QED
    BY <2>1, <2>2, <2>3
<1>2. ASSUME NEW c \in Calls, AnswerYes(c) PROVE UseTypeOK'
  BY <1>2 DEF AnswerYes, RecordApproval
<1>3. ASSUME NEW c \in Calls, AnswerTurn(c) PROVE UseTypeOK'
  BY <1>3 DEF AnswerTurn, RecordTurnWideMutatingApproval
<1>4. ASSUME NEW c \in Calls, AnswerNo(c) PROVE UseTypeOK'
  BY <1>4 DEF AnswerNo, RecordRefusal, said
<1>5. ASSUME NEW c \in Calls, Execute(c) PROVE UseTypeOK'
  <2>1. \A n \in Nat : Decremented(n) \in Nat
    BY DEF Decremented
  <2>2. LedgerTypeOK'
    BY <1>5, <2>1 DEF Execute, ConsumeApproval
  <2>3. QED
    BY <1>5, <2>2 DEF Execute, said
<1>6. CASE UNCHANGED useVars
  BY <1>6 DEF useVars, ledger, said
<1>7. QED
  BY <1>1, <1>2, <1>3, <1>4, <1>5, <1>6 DEF UseNext

\* Every field of the ledger keeps its type (security/manager.py,
\* ApprovalManager: sets of calls, counters, a flag), whatever the user
\* answers and whatever the agent runs.
THEOREM TypeCorrect == UseSpec => []UseTypeOK
<1>1. QED
  BY InitTypeOK, NextTypeOK, PTL DEF UseSpec

-----------------------------------------------------------------------------
(* What ties the ledger to the user's answers.  The counters of one-time   *)
(* answers bound the ledger's counters; the sets and the flag of the       *)
(* ledger hold only what was said.                                         *)
LedgerInv ==
    /\ NeverMoreThanSaid
    /\ turnApproved \subseteq saidTurn
    /\ sessionApproved \subseteq saidSession
    /\ turnWide => saidWide
    /\ \A n \in NormKeys :
          yesNorm[n] > 0 => \E d \in Calls : Norm[d] = n /\ yes[d] > 0

\* An empty ledger holds nothing that was not said.
LEMMA InitLedgerInv == UseInit => LedgerInv
  BY NormAssumption DEF UseInit, LedgerInit, LedgerInv, NeverMoreThanSaid

\* A "yes" enters the ledger and the record of answers alike: a one-time
\* answer raises the four counters, another scope grows the sets.
LEMMA AnswerYesLedgerInv ==
    ASSUME UseTypeOK, LedgerInv, NEW c \in Calls, AnswerYes(c)
    PROVE  LedgerInv'
<1> USE NormAssumption DEF UseTypeOK, LedgerTypeOK, LedgerInv, NeverMoreThanSaid
<1>1. CASE ScopeForPolicy(policy) = "once"
  <2>1. /\ onceApproved' = [onceApproved EXCEPT ![c] = @ + 1]
        /\ onceNormalized' = [onceNormalized EXCEPT ![Norm[c]] = @ + 1]
        /\ yes' = [yes EXCEPT ![c] = @ + 1]
        /\ yesNorm' = [yesNorm EXCEPT ![Norm[c]] = @ + 1]
        /\ UNCHANGED <<turnApproved, sessionApproved, turnWide, saidTurn,
                       saidSession, saidWide>>
    BY <1>1 DEF AnswerYes, RecordApproval
  <2>2. \A n \in NormKeys :
           yesNorm'[n] > 0 => \E d \in Calls : Norm[d] = n /\ yes'[d] > 0
    <3> SUFFICES ASSUME NEW n \in NormKeys, yesNorm'[n] > 0
                 PROVE  \E d \in Calls : Norm[d] = n /\ yes'[d] > 0
      OBVIOUS
    <3>1. CASE n = Norm[c]
      <4>1. yes'[c] > 0
        BY <2>1
      <4>2. QED
        BY <3>1, <4>1
    <3>2. CASE n # Norm[c]
      <4>1. PICK d \in Calls : Norm[d] = n /\ yes[d] > 0
        BY <2>1, <3>2
      <4>2. yes'[d] > 0
        BY <2>1, <4>1
      <4>3. QED
        BY <4>1, <4>2
    <3>3. QED
      BY <3>1, <3>2
  <2>3. NeverMoreThanSaid'
    BY <2>1
  <2>4. QED
    BY <2>1, <2>2, <2>3
<1>2. CASE ScopeForPolicy(policy) # "once"
  <2>1. /\ turnApproved' = turnApproved \cup {c}
        /\ saidTurn' = saidTurn \cup {c}
        /\ UNCHANGED <<onceApproved, onceNormalized, yes, yesNorm, turnWide,
                       saidWide>>
    BY <1>2 DEF AnswerYes, RecordApproval
  <2>2. sessionApproved' \subseteq saidSession'
    BY <1>2 DEF AnswerYes, RecordApproval
  <2>3. QED
    BY <2>1, <2>2
<1>3. QED
  BY <1>1, <1>2

\* Answers, executions and new turns keep the ledger below the answers.
LEMMA NextLedgerInv == UseTypeOK /\ LedgerInv /\ [UseNext]_useVars => LedgerInv'
<1> SUFFICES ASSUME UseTypeOK, LedgerInv, [UseNext]_useVars PROVE LedgerInv'
  OBVIOUS
<1> USE NormAssumption DEF UseTypeOK, LedgerTypeOK, LedgerInv, NeverMoreThanSaid
<1>1. CASE NewTurn
  BY <1>1 DEF NewTurn, BeginTurn
<1>2. ASSUME NEW c \in Calls, AnswerYes(c) PROVE LedgerInv'
  BY <1>2, AnswerYesLedgerInv
<1>3. ASSUME NEW c \in Calls, AnswerTurn(c) PROVE LedgerInv'
  BY <1>3 DEF AnswerTurn, RecordTurnWideMutatingApproval
<1>4. ASSUME NEW c \in Calls, AnswerNo(c) PROVE LedgerInv'
  BY <1>4 DEF AnswerNo, RecordRefusal, said
<1>5. ASSUME NEW c \in Calls, Execute(c) PROVE LedgerInv'
  <2>1. \A n \in Nat : Decremented(n) \in Nat /\ Decremented(n) <= n
    BY DEF Decremented
  <2>2. /\ onceApproved' = [onceApproved EXCEPT ![c] = Decremented(@)]
        /\ onceNormalized' = [onceNormalized EXCEPT ![Norm[c]] = Decremented(@)]
        /\ UNCHANGED <<turnApproved, sessionApproved, turnWide, said>>
    BY <1>5 DEF Execute, ConsumeApproval
  <2>3. NeverMoreThanSaid'
    BY <2>1, <2>2 DEF said
  <2>4. QED
    BY <2>2, <2>3 DEF said
<1>6. CASE UNCHANGED useVars
  BY <1>6 DEF useVars, ledger, said
<1>7. QED
  BY <1>1, <1>2, <1>3, <1>4, <1>5, <1>6 DEF UseNext

\* The invariant that carries the two theorems below.
LEMMA LedgerInvariant == UseSpec => []LedgerInv
<1>1. QED
  BY TypeCorrect, InitLedgerInv, NextLedgerInv, PTL DEF UseSpec

\* record_approval and consume_approval never leave more one-time approvals
\* in the ledger than the user gave in the current turn, per call and per
\* normalised key.
THEOREM LedgerNeverExceedsAnswers == UseSpec => []NeverMoreThanSaid
<1>1. LedgerInv => NeverMoreThanSaid
  BY DEF LedgerInv
<1>2. QED
  BY <1>1, LedgerInvariant, PTL

\* is_pre_approved and the blanket approval let a call through only where an
\* answer of the user that is still in force covers it.
THEOREM AuthorisationsAreTraceable == UseSpec => []ApprovalTraceable
<1>1. UseTypeOK /\ LedgerInv => ApprovalTraceable
  <2> SUFFICES ASSUME UseTypeOK, LedgerInv, NEW c \in Calls,
                      IsToolPreapproved(c)
               PROVE  \/ c \in saidTurn \cup saidSession
                      \/ saidWide
                      \/ \E d \in Calls : Norm[d] = Norm[c] /\ yes[d] > 0
    BY DEF ApprovalTraceable
  <2> USE NormAssumption DEF UseTypeOK, LedgerTypeOK, LedgerInv, NeverMoreThanSaid
  <2>1. CASE c \in sessionApproved \cup turnApproved
    BY <2>1
  <2>2. CASE onceApproved[c] > 0
    <3>1. yes[c] > 0
      BY <2>2
    <3>2. QED
      BY <3>1
  <2>3. CASE onceNormalized[Norm[c]] > 0
    <3>1. yesNorm[Norm[c]] > 0
      BY <2>3
    <3>2. QED
      BY <3>1
  <2>4. CASE turnWide
    BY <2>4
  <2>5. QED
    BY <2>1, <2>2, <2>3, <2>4 DEF IsToolPreapproved, IsPreApproved
<1>2. QED
  BY <1>1, TypeCorrect, LedgerInvariant, PTL

-----------------------------------------------------------------------------
(* How often one-time answers are used.  A one-time answer leaves an exact *)
(* token of its call and a normalised one.  The exact tokens of a          *)
(* normalised key are counted as a set, one pair for each token of each    *)
(* call that looks alike; every execution that only one-time answers       *)
(* explain takes at least one token of its key.                            *)
ExactTokens(n) ==
    {t \in Calls \X (Nat \ {0}) : Norm[t[1]] = n /\ t[2] <= onceApproved[t[1]]}

TokenInv ==
    \A n \in NormKeys :
        /\ IsFiniteSet(ExactTokens(n))
        /\ ran[n] + onceNormalized[n] + Cardinality(ExactTokens(n))
             <= 2 * yesNorm[n]

(* An empty ledger has no tokens.                                          *)
LEMMA NoExactTokens ==
    ASSUME onceApproved = [c \in Calls |-> 0], NEW n
    PROVE  ExactTokens(n) = {}
  BY DEF ExactTokens

LEMMA TokenInvInit == UseInit => TokenInv
  <1> SUFFICES ASSUME UseInit, NEW n \in NormKeys
               PROVE  /\ IsFiniteSet(ExactTokens(n))
                      /\ ran[n] + onceNormalized[n] + Cardinality(ExactTokens(n))
                           <= 2 * yesNorm[n]
    BY DEF TokenInv
  <1>1. ExactTokens(n) = {}
    BY NoExactTokens DEF UseInit, LedgerInit
  <1> QED
    BY <1>1, FS_EmptySet DEF UseInit, LedgerInit

(* A "yes" adds one exact token, under the key of its call.                *)
LEMMA TokenAdded ==
    ASSUME UseTypeOK, NEW c \in Calls, onceApproved' = [onceApproved EXCEPT ![c] = @ + 1],
           NEW n \in NormKeys, IsFiniteSet(ExactTokens(n))
    PROVE  /\ IsFiniteSet(ExactTokens(n)')
           /\ Cardinality(ExactTokens(n)') =
                Cardinality(ExactTokens(n)) + (IF n = Norm[c] THEN 1 ELSE 0)
  <1> DEFINE token == <<c, onceApproved[c] + 1>>
  <1>1. onceApproved \in [Calls -> Nat]
    BY DEF UseTypeOK, LedgerTypeOK
  <1>2. CASE n = Norm[c]
    <2>1. ExactTokens(n)' = ExactTokens(n) \cup {token}
      BY <1>1, <1>2 DEF ExactTokens
    <2>2. token \notin ExactTokens(n)
      BY <1>1 DEF ExactTokens
    <2> QED
      BY <1>2, <2>1, <2>2, FS_AddElement
  <1>3. CASE n # Norm[c]
    <2>1. ExactTokens(n)' = ExactTokens(n)
      BY <1>1, <1>3 DEF ExactTokens
    <2> QED
      BY <1>3, <2>1, FS_CardinalityType
  <1> QED
    BY <1>2, <1>3

(* Consuming an approval takes the exact token of its call, if it has one. *)
LEMMA TokenTaken ==
    ASSUME UseTypeOK, NEW c \in Calls, ConsumeApproval(c), NEW n \in NormKeys,
           IsFiniteSet(ExactTokens(n))
    PROVE  /\ IsFiniteSet(ExactTokens(n)')
           /\ Cardinality(ExactTokens(n)') =
                Cardinality(ExactTokens(n))
                  - (IF n = Norm[c] /\ onceApproved[c] > 0 THEN 1 ELSE 0)
  <1> DEFINE token == <<c, onceApproved[c]>>
  <1>1. onceApproved \in [Calls -> Nat]
        /\ onceApproved' = [onceApproved EXCEPT
                              ![c] = IF onceApproved[c] > 0
                                     THEN onceApproved[c] - 1 ELSE 0]
    BY DEF UseTypeOK, LedgerTypeOK, ConsumeApproval, Decremented
  <1>2. CASE n = Norm[c] /\ onceApproved[c] > 0
    <2>1. ExactTokens(n)' = ExactTokens(n) \ {token}
      BY <1>1, <1>2 DEF ExactTokens
    <2>2. token \in ExactTokens(n)
      BY <1>1, <1>2 DEF ExactTokens
    <2> QED
      BY <1>2, <2>1, <2>2, FS_RemoveElement
  <1>3. CASE ~(n = Norm[c] /\ onceApproved[c] > 0)
    <2>1. ExactTokens(n)' = ExactTokens(n)
      BY <1>1, <1>3 DEF ExactTokens
    <2> QED
      BY <1>3, <2>1, FS_CardinalityType
  <1> QED
    BY <1>2, <1>3

(* An answer is worth two tokens, an execution costs one, a new turn       *)
(* starts the count again.                                                 *)
LEMMA TokenInvStep == UseTypeOK /\ TokenInv /\ [UseNext]_useVars => TokenInv'
  <1> SUFFICES ASSUME UseTypeOK, TokenInv, [UseNext]_useVars, NEW n \in NormKeys
               PROVE  /\ IsFiniteSet(ExactTokens(n)')
                      /\ ran'[n] + onceNormalized'[n] + Cardinality(ExactTokens(n)')
                           <= 2 * yesNorm'[n]
    BY DEF TokenInv
  <1> DEFINE tokens == Cardinality(ExactTokens(n))
  <1>1. /\ IsFiniteSet(ExactTokens(n)) /\ tokens \in Nat
        /\ ran[n] + onceNormalized[n] + tokens <= 2 * yesNorm[n]
    BY FS_CardinalityType DEF TokenInv
  <1>2. /\ onceApproved \in [Calls -> Nat] /\ onceNormalized \in [NormKeys -> Nat]
        /\ ran \in [NormKeys -> Nat] /\ yesNorm \in [NormKeys -> Nat]
    BY DEF UseTypeOK, LedgerTypeOK
  <1>3. CASE UNCHANGED <<onceApproved, onceNormalized, ran, yesNorm>>
    BY <1>1, <1>3 DEF ExactTokens
  <1>4. CASE NewTurn
    <2>1. ExactTokens(n)' = {}
      BY <1>4 DEF NewTurn, BeginTurn, ExactTokens
    <2> QED
      BY <1>4, <2>1, FS_EmptySet DEF NewTurn, BeginTurn
  <1>5. ASSUME NEW c \in Calls, AnswerYes(c), ScopeForPolicy(policy) = "once"
        PROVE  /\ IsFiniteSet(ExactTokens(n)')
               /\ ran'[n] + onceNormalized'[n] + Cardinality(ExactTokens(n)')
                    <= 2 * yesNorm'[n]
    <2>1. /\ onceApproved' = [onceApproved EXCEPT ![c] = @ + 1]
          /\ onceNormalized' = [onceNormalized EXCEPT ![Norm[c]] = @ + 1]
          /\ yesNorm' = [yesNorm EXCEPT ![Norm[c]] = @ + 1]
          /\ ran' = ran
      BY <1>5 DEF AnswerYes, RecordApproval
    <2>2. /\ IsFiniteSet(ExactTokens(n)')
          /\ Cardinality(ExactTokens(n)') = tokens + (IF n = Norm[c] THEN 1 ELSE 0)
      BY <1>1, <2>1, TokenAdded
    <2>3. CASE n = Norm[c]
      BY <1>1, <1>2, <2>1, <2>2, <2>3
    <2>4. CASE n # Norm[c]
      BY <1>1, <1>2, <2>1, <2>2, <2>4
    <2> QED
      BY <2>3, <2>4
  <1>6. ASSUME NEW c \in Calls, Execute(c)
        PROVE  /\ IsFiniteSet(ExactTokens(n)')
               /\ ran'[n] + onceNormalized'[n] + Cardinality(ExactTokens(n)')
                    <= 2 * yesNorm'[n]
    <2>1. /\ ConsumeApproval(c) /\ yesNorm' = yesNorm
          /\ onceNormalized' = [onceNormalized EXCEPT ![Norm[c]] =
                                  IF onceNormalized[Norm[c]] > 0
                                  THEN onceNormalized[Norm[c]] - 1 ELSE 0]
          /\ ran' = IF OnlyOnce(c) THEN [ran EXCEPT ![Norm[c]] = @ + 1] ELSE ran
      BY <1>6 DEF Execute, ConsumeApproval, Decremented, said
    <2>2. /\ IsFiniteSet(ExactTokens(n)')
          /\ Cardinality(ExactTokens(n)') =
               tokens - (IF n = Norm[c] /\ onceApproved[c] > 0 THEN 1 ELSE 0)
      BY <1>1, <2>1, TokenTaken
    <2>3. OnlyOnce(c) => onceApproved[c] > 0 \/ onceNormalized[Norm[c]] > 0
      BY <1>6 DEF Execute, OnlyOnce, IsToolPreapproved, IsPreApproved
    <2>4. CASE n # Norm[c]
      BY <1>1, <1>2, <2>1, <2>2, <2>4
    <2>5. CASE n = Norm[c]
      <3>1. ran'[n] = IF OnlyOnce(c) THEN ran[n] + 1 ELSE ran[n]
        BY <1>2, <2>1, <2>5
      <3>2. onceNormalized'[n] = IF onceNormalized[n] > 0
                                 THEN onceNormalized[n] - 1 ELSE 0
        BY <1>2, <2>1, <2>5
      <3>3. onceApproved[c] \in Nat
        BY <1>2
      <3> QED
        BY <1>1, <1>2, <2>1, <2>2, <2>3, <2>5, <3>1, <3>2, <3>3
    <2> QED
      BY <2>4, <2>5
  <1>7. ASSUME NEW c \in Calls, AnswerYes(c), ScopeForPolicy(policy) # "once"
        PROVE  UNCHANGED <<onceApproved, onceNormalized, ran, yesNorm>>
    BY <1>7 DEF AnswerYes, RecordApproval
  <1>8. ASSUME NEW c \in Calls, AnswerTurn(c) \/ AnswerNo(c)
        PROVE  UNCHANGED <<onceApproved, onceNormalized, ran, yesNorm>>
    BY <1>8 DEF AnswerTurn, AnswerNo, RecordTurnWideMutatingApproval,
       RecordRefusal, said
  <1>9. CASE UNCHANGED useVars
    BY <1>3, <1>9 DEF useVars, ledger, said
  <1> QED
    BY <1>3, <1>4, <1>5, <1>6, <1>7, <1>8, <1>9 DEF UseNext

(* record_approval writes two entries for one answer and consume_approval  *)
(* takes one or both: calls that only one-time answers let through run at  *)
(* most twice per answer, for calls that look alike taken together.        *)
THEOREM AnswersServeTwice == UseSpec => []OnceAtMostTwice
  <1>1. UseTypeOK /\ TokenInv => OnceAtMostTwice
    <2> SUFFICES ASSUME UseTypeOK, TokenInv, NEW n \in NormKeys
                 PROVE  ran[n] <= 2 * yesNorm[n]
      BY DEF OnceAtMostTwice
    <2>1. /\ Cardinality(ExactTokens(n)) \in Nat
          /\ ran[n] + onceNormalized[n] + Cardinality(ExactTokens(n)) <= 2 * yesNorm[n]
      BY FS_CardinalityType DEF TokenInv
    <2>2. ran[n] \in Nat /\ onceNormalized[n] \in Nat /\ yesNorm[n] \in Nat
      BY DEF UseTypeOK, LedgerTypeOK
    <2> QED
      BY <2>1, <2>2
  <1> QED
    BY <1>1, TypeCorrect, TokenInvInit, TokenInvStep, PTL DEF UseSpec
-----------------------------------------------------------------------------
(***************************************************************************)
(* The permission checker.  Its inductive invariant adds to the type that  *)
(* the answer remembered is the one Evaluate gives for the call, the mode  *)
(* it was evaluated in and the settings of the session; without it a later *)
(* /mode could not be told apart from the mode of the evaluation.          *)
(***************************************************************************)
Decided == decision = Evaluate(call, calledIn, checkerPolicy, autoReads)

DecidedInv == CheckerTypeOK /\ Decided

(* The class of a call has the fields its tool's rules look at.            *)
LEMMA ToolCallFields ==
    ASSUME NEW t \in ToolCalls
    PROVE  /\ t.name \in {"bash", "write_file", "edit", "memory", "other"}
           /\ t.name = "bash" => t.risk \in Risks
           /\ t.name \in {"bash", "write_file", "edit"} => t.mutating
           /\ t.mutating \in BOOLEAN
           /\ t.reads \in BOOLEAN
           /\ t.reads => t.name = "memory"
           /\ t.name = "memory" => t.mutating
           /\ t.zone # "none" => t.name \in {"write_file", "edit"}
  BY DEF ToolCalls, Zones

(* Evaluate, case by case: the path rules first, then the tool's own.      *)
LEMMA EvaluateCases ==
    ASSUME NEW t \in ToolCalls, NEW m, NEW p, NEW a
    PROVE  /\ PathDenied(t) => Evaluate(t, m, p, a) = "deny"
           /\ t.name = "bash" => Evaluate(t, m, p, a) = BashPolicy(t, m, p)
           /\ t.name = "write_file" /\ ~PathDenied(t)
              => Evaluate(t, m, p, a) = HighRisk(m, p)
           /\ t.name = "memory" /\ t.reads => Evaluate(t, m, p, a) = "allow"
           /\ t.name = "memory" /\ ~t.reads
              => Evaluate(t, m, p, a) = Mutation(m, p)
           /\ t.name \in {"edit", "other"} /\ ~PathDenied(t)
              => Evaluate(t, m, p, a) = IF t.mutating THEN Mutation(m, p)
                                                      ELSE ReadOnly(m, a)
  BY ToolCallFields DEF Evaluate, PathDenied

(* What each of the rules can answer.                                      *)
LEMMA RuleAnswers ==
    ASSUME NEW m, NEW p
    PROVE  /\ Mutation(m, p) \in Decisions
           /\ InPlanMode(m, p) => Mutation(m, p) = "deny"
           /\ Mutation(m, p) = "allow" => InAutoMode(m, p)
           /\ HighRisk(m, p) \in {"confirm", "deny"}
           /\ InPlanMode(m, p) => HighRisk(m, p) = "deny"
           /\ \A a \in BOOLEAN : ReadOnly(m, a) \in {"confirm", "allow"}
  BY DEF Mutation, HighRisk, ReadOnly, Decisions

(* A command is let through unasked only when it is of low risk, or of     *)
(* medium risk where mutations are.                                        *)
LEMMA BashAnswers ==
    ASSUME NEW t \in ToolCalls, t.name = "bash", NEW m, NEW p
    PROVE  /\ BashPolicy(t, m, p) \in Decisions
           /\ t.risk \in {"high", "dangerous"}
              => BashPolicy(t, m, p) = HighRisk(m, p)
           /\ t.risk = "medium" => BashPolicy(t, m, p) = Mutation(m, p)
           /\ t.risk = "low" => BashPolicy(t, m, p) = "allow"
  BY ToolCallFields, RuleAnswers DEF BashPolicy, Risks, Decisions

(* Evaluate answers every call.                                            *)
LEMMA EvaluateType ==
    ASSUME NEW t \in ToolCalls, NEW m, NEW p, NEW a \in BOOLEAN
    PROVE  Evaluate(t, m, p, a) \in Decisions
  BY ToolCallFields, EvaluateCases, RuleAnswers, BashAnswers
  DEF Decisions, PathDenied

(* The first evaluation is of a call that is no call at all.               *)
LEMMA NoCallType == NoCall \in ToolCalls
  BY DEF NoCall, ToolCalls

(* DecidedInv is inductive: /mode leaves the last answer and what it was   *)
(* given for alone, an evaluation replaces them together.                  *)
LEMMA DecidedStep == DecidedInv /\ [CheckerNext]_checkerVars => DecidedInv'
  <1> SUFFICES ASSUME DecidedInv, [CheckerNext]_checkerVars PROVE DecidedInv'
    OBVIOUS
  <1> USE DEF DecidedInv, CheckerTypeOK, Decided
  <1>1. CASE \E m \in Modes : HandleMode(m)
    BY <1>1 DEF HandleMode
  <1>2. CASE \E t \in ToolCalls : EvaluateCall(t)
    <2>1. PICK t \in ToolCalls : EvaluateCall(t)
      BY <1>2
    <2>2. decision' \in Decisions
      BY <2>1, EvaluateType DEF EvaluateCall
    <2> QED
      BY <2>1, <2>2 DEF EvaluateCall
  <1>3. CASE UNCHANGED checkerVars
    BY <1>3 DEF checkerVars
  <1> QED
    BY <1>1, <1>2, <1>3 DEF CheckerNext

(* The checker answers every call with one of its three decisions, and the *)
(* answer kept is the checker's for the mode the call was evaluated in.    *)
THEOREM AnswersAreDecided == CheckerSpec => []DecidedInv
  <1>1. CheckerInit => DecidedInv
    BY NoCallType, EvaluateType DEF CheckerInit, DecidedInv, CheckerTypeOK, Decided
  <1> QED
    BY <1>1, DecidedStep, PTL DEF CheckerSpec

(* Plan is read-only, whoever says plan and whatever else is configured.   *)
THEOREM PlanNeverMutates == CheckerSpec => []PlanIsReadOnly
  <1>1. DecidedInv => PlanIsReadOnly
    <2> SUFFICES ASSUME DecidedInv,
                        InPlanMode(calledIn, checkerPolicy),
                        call.mutating,
                        ~HarmlessUse(call)
                 PROVE  decision = "deny"
      BY DEF PlanIsReadOnly, InPlanMode
    <2>1. call \in ToolCalls /\ autoReads \in BOOLEAN
      BY DEF DecidedInv, CheckerTypeOK
    <2>2. decision = Evaluate(call, calledIn, checkerPolicy, autoReads)
      BY DEF DecidedInv, Decided
    <2>3. CASE call.name = "bash"
      BY <2>1, <2>2, <2>3, ToolCallFields, EvaluateCases, RuleAnswers,
         BashAnswers
      DEF HarmlessUse, Risks
    <2>4. CASE call.name # "bash"
      BY <2>1, <2>2, <2>4, ToolCallFields, EvaluateCases, RuleAnswers
      DEF HarmlessUse
    <2> QED
      BY <2>3, <2>4
  <1> QED
    BY <1>1, AnswersAreDecided, PTL

(* No mode and no policy lets a high-risk command, a full overwrite or a   *)
(* write outside the workspace through without asking.                     *)
THEOREM HighRiskAsks == CheckerSpec => []HighRiskNeverUnasked
  <1>1. DecidedInv => HighRiskNeverUnasked
    <2> SUFFICES ASSUME DecidedInv,
                        \/ call.name = "bash"
                           /\ call.risk \in {"high", "dangerous"}
                        \/ call.name = "write_file"
                        \/ call.zone \in {"outside", "state", "memory"}
                 PROVE  decision # "allow"
      BY DEF HighRiskNeverUnasked
    <2>1. call \in ToolCalls /\ autoReads \in BOOLEAN
      BY DEF DecidedInv, CheckerTypeOK
    <2>2. decision = Evaluate(call, calledIn, checkerPolicy, autoReads)
      BY DEF DecidedInv, Decided
    <2>3. CASE call.name = "bash" /\ call.risk \in {"high", "dangerous"}
      BY <2>1, <2>2, <2>3, EvaluateCases, RuleAnswers, BashAnswers
    <2>4. CASE call.name = "write_file" \/ call.zone \in {"outside", "state", "memory"}
      BY <2>1, <2>2, <2>4, ToolCallFields, EvaluateCases, RuleAnswers
      DEF PathDenied
    <2> QED
      BY <2>3, <2>4
  <1> QED
    BY <1>1, AnswersAreDecided, PTL

-----------------------------------------------------------------------------
(***************************************************************************)
(* Two properties of the full-screen interface for any set of requests and *)
(* any number of prompts: an answer handed to the agent was given to that  *)
(* request in that prompt, and what is saved when the application is left  *)
(* is what it knew.                                                        *)
(*                                                                         *)
(* An answer passes through four places: the typed text, the future of the *)
(* preview, the table of answers given before the question, and the        *)
(* response.  The first invariant says of each when its content belongs to *)
(* the prompt at work; the table only does once the turn has begun, since  *)
(* buttons of an interrupted task can be pressed before.  The second       *)
(* invariant says where the message of the prompt at work is.              *)
(***************************************************************************)

Turning == {"running", "shown", "asking", "closing", "unwinding", "question"}
Waiting == {"asking", "closing", "unwinding"}

Said(k, a) == <<prompts, k, a>> \in voice

AnswerInv ==
    /\ stage \in Stages
    /\ shown \in Seq(Keys)
    /\ open \subseteq DOMAIN shown
    /\ stage \in Waiting \cup {"shown"} => shown # <<>>
    /\ queued \in [Keys -> Valid \cup {""}]
    /\ stage \in Turning =>
         \A k \in Keys : queued[k] # "" => Said(k, queued[k])
    /\ click # "" => stage \in Waiting /\ Said(Key, click)
    /\ stage = "closing" => click # ""
    /\ stage \in Waiting /\ keyboard \in {"typed", "done"} => Said(Key, typed)
    /\ AnsweredNow

Known == [messages : Seq(Nat), paused : Nat]

SavedInv ==
    /\ stage \in Stages
    /\ task \in Nat /\ prompts \in Nat
    /\ history \in Seq(Nat)
    /\ session \in Known
    /\ stage \in {"idle", "starting", "ended"} => session.messages = history
    /\ stage \notin {"idle", "starting", "ended"}
         => history = Append(session.messages, task)
    /\ exited => disk = session
    /\ closed => exited
    /\ stage = "ended" => exited

-----------------------------------------------------------------------------
LEMMA AnswerInit == Init => AnswerInv
<1> SUFFICES ASSUME Init PROVE AnswerInv
  OBVIOUS
<1>1. stage = "idle" /\ shown = <<>> /\ open = {} /\ click = "" /\ given = Nothing
      /\ queued = [k \in Keys |-> ""]
  BY DEF Init
<1>2. queued \in [Keys -> Valid \cup {""}]
  BY <1>1
<1>3. AnsweredNow
  BY <1>1 DEF AnsweredNow
<1>4. shown \in Seq(Keys) /\ open \subseteq DOMAIN shown
  <2>1. <<>> \in Seq(Keys) /\ {} \subseteq DOMAIN shown
    OBVIOUS
  <2>2. QED
    BY <1>1, <2>1, Zenon
<1>5. QED
  BY <1>1, <1>2, <1>3, <1>4 DEF AnswerInv, Stages, Turning, Waiting

\* The request that waits is one of the keys.
LEMMA KeyIsKey == ASSUME AnswerInv, stage \in Waiting \cup {"shown"} PROVE Key \in Keys
<1>1. shown \in Seq(Keys) /\ shown # <<>>
  BY DEF AnswerInv
<1>2. QED
  BY <1>1 DEF Key

\* A step that touches none of the places an answer passes through.
LEMMA AnswersAside ==
    ASSUME AnswerInv, stage' \in Stages,
           stage' \in Turning => stage \in Turning \/ \A k \in Keys : queued'[k] = "",
           stage' \in Waiting => stage' = stage,
           stage' = "shown" => stage' = stage,
           stage \in Waiting => stage' = stage \/ click' = "",
           UNCHANGED <<prompts, shown, voice>>, open' \subseteq open,
           click' \in {click, ""}, stage' = "closing" => click' = click,
           queued' \in [Keys -> Valid \cup {""}],
           \A k \in Keys : queued'[k] \in {queued[k], ""},
           stage' \in Waiting /\ keyboard' \in {"typed", "done"}
              => keyboard \in {"typed", "done"} /\ typed' = typed,
           given' \in {given, Nothing}
    PROVE  AnswerInv'
<1> USE DEF AnswerInv, Said
<1>1. Key' = Key
  BY DEF Key
<1>2. \A k, a : Said(k, a)' <=> Said(k, a)
  BY DEF Said
<1>3. shown' \in Seq(Keys) /\ open' \subseteq DOMAIN shown'
  OBVIOUS
<1>4. stage' \in Waiting \cup {"shown"} => shown' # <<>>
  BY DEF Waiting
<1>5. stage' \in Turning =>
        (\A k \in Keys : queued[k] # "" => Said(k, queued[k]))'
  BY <1>2
<1>6. click' # "" => stage' \in Waiting /\ Said(Key, click)'
  BY <1>1, <1>2
<1>7. stage' \in Waiting /\ keyboard' \in {"typed", "done"} => Said(Key, typed)'
  BY <1>1, <1>2
<1>8. AnsweredNow'
  BY DEF AnsweredNow
<1>9. (stage = "closing" => click # "")'
  BY DEF Waiting
<1>10. QED
  BY <1>3, <1>4, <1>5, <1>6, <1>7, <1>8, <1>9

\* A response is an answer that was given.
LEMMA RespondInv ==
    ASSUME AnswerInv, stage \in Waiting \cup {"shown"}, NEW a, Said(Key, a), Respond(a),
           UNCHANGED <<prompts, shown, voice>>,
           queued' \in [Keys -> Valid \cup {""}],
           \A k \in Keys : queued'[k] \in {queued[k], ""}
    PROVE  AnswerInv'
<1> USE DEF AnswerInv, Respond, Said
<1>1. stage \in Turning
  BY DEF Waiting, Turning
<1>2. (\A k \in Keys : queued[k] # "" => Said(k, queued[k]))'
  BY <1>1 DEF Said
<1>3. AnsweredNow'
  BY DEF AnsweredNow, Said
<1>4. open' \subseteq DOMAIN shown'
  OBVIOUS
<1>5. QED
  BY <1>2, <1>3, <1>4 DEF Stages, Waiting, Turning

LEMMA CancelAnswers ==
    ASSUME AnswerInv, Cancel, UNCHANGED <<previews, voice>>
    PROVE  AnswerInv'
<1>1. stage' \in {"idle", "unwinding"} \/ stage' = stage
  BY DEF Cancel, Interrupted
<1>2. UNCHANGED <<prompts, click, given, shown, open, queued, voice>>
  BY DEF Cancel, Interrupted, asking, work, previews
<1>3. CASE stage \in {"begun", "running", "shown", "question"}
  <2>1. stage' = "idle" /\ click = ""
    BY <1>3 DEF Cancel, Interrupted, AnswerInv, Waiting
  <2>2. QED
    BY <1>2, <2>1, AnswersAside DEF AnswerInv, Stages, Turning, Waiting
<1>4. CASE stage \in Waiting
  <2>1. /\ stage' \in Waiting /\ (stage' = "closing" => stage = "closing")
        /\ UNCHANGED <<keyboard, typed>>
    BY <1>4 DEF Cancel, asking, Waiting
  <2>2. /\ (stage \in Turning => \A j \in Keys : queued[j] # "" => Said(j, queued[j]))'
        /\ AnsweredNow'
    BY <1>2, <1>4, <2>1 DEF AnswerInv, Turning, Waiting, Said, AnsweredNow
  <2>3. /\ (click # "" => stage \in Waiting /\ Said(Key, click))'
        /\ (stage = "closing" => click # "")'
        /\ (stage \in Waiting /\ keyboard \in {"typed", "done"} => Said(Key, typed))'
    BY <1>2, <1>4, <2>1 DEF AnswerInv, Said, Key
  <2>4. QED
    BY <1>2, <1>4, <2>1, <2>2, <2>3 DEF AnswerInv, Stages, Waiting
<1>5. QED
  BY <1>3, <1>4 DEF Cancel, Waiting

LEMMA UserAnswersInv == ASSUME AnswerInv, User PROVE AnswerInv'
<1>1. ASSUME NEW resume \in BOOLEAN, Submit(resume) PROVE AnswerInv'
  <2>1. /\ stage = "idle" /\ stage' = "starting" /\ given' = Nothing
        /\ UNCHANGED <<shown, open, queued, click, voice>>
    BY <1>1 DEF Submit, asking, previews
  <2>2. click = ""
    BY <2>1 DEF AnswerInv, Waiting
  <2>3. QED
    BY <2>1, <2>2 DEF AnswerInv, Stages, Turning, Waiting, AnsweredNow
<1>2. ASSUME NEW a \in Answers, Type(a) PROVE AnswerInv'
  <2>1. UNCHANGED <<stage, prompts, click, shown, open, queued, given>>
    BY <1>2 DEF Type, work, previews
  <2>2. voice \subseteq voice'
    BY <1>2 DEF Type
  <2>3. stage \in Waiting /\ keyboard' \in {"typed", "done"} => Said(Key, typed)'
    <3>1. CASE keyboard = "reading" /\ stage # "question"
      BY <1>2, <2>1, <3>1 DEF Type, Said, Key
    <3>2. CASE keyboard = "reading" /\ stage = "question"
      BY <3>2 DEF Waiting
    <3>3. CASE keyboard # "reading"
      BY <1>2, <2>1, <2>2, <3>3 DEF Type, AnswerInv, Said, Key
    <3>4. QED
      BY <3>1, <3>2, <3>3
  <2>4. (stage \in Turning => \A j \in Keys : queued[j] # "" => Said(j, queued[j]))'
    BY <2>1, <2>2 DEF AnswerInv, Said
  <2>5. AnsweredNow'
    BY <2>1, <2>2 DEF AnswerInv, AnsweredNow
  <2>6. (click # "" => stage \in Waiting /\ Said(Key, click))'
    BY <2>1, <2>2 DEF AnswerInv, Said, Key
  <2>7. (stage = "closing" => click # "")'
    BY <2>1 DEF AnswerInv
  <2>8. QED
    BY <2>1, <2>3, <2>4, <2>5, <2>6, <2>7 DEF AnswerInv
<1>3. ASSUME NEW i \in open, NEW a \in Valid, Click(i, a) PROVE AnswerInv'
  <2> DEFINE k == shown[i]
  <2>1. k \in Keys
    <3>1. shown \in Seq(Keys) /\ i \in DOMAIN shown
      BY DEF AnswerInv
    <3>2. QED
      BY <3>1
  <2>2. /\ UNCHANGED <<stage, prompts, keyboard, typed, shown, given>>
        /\ voice' = voice \cup {<<prompts, k, a>>}
        /\ open' \subseteq open /\ Delivered(k, a)
    BY <1>3 DEF Click, work
  <2>3. (click' # "" => stage' \in Waiting /\ Said(Key, click)')
    <3>1. CASE Pending(k)
      BY <2>2, <3>1 DEF Delivered, Pending, AnswerInv, Said, Key, Waiting
    <3>2. CASE ~Pending(k)
      BY <2>2, <3>2 DEF Delivered, AnswerInv, Said, Key
    <3>3. QED
      BY <3>1, <3>2
  <2>4. /\ queued' \in [Keys -> Valid \cup {""}]
        /\ \A j \in Keys : queued'[j] = queued[j] \/ (j = k /\ queued'[j] = a)
    <3>1. queued \in [Keys -> Valid \cup {""}] /\ a \in Valid \cup {""}
      BY DEF AnswerInv
    <3>2. queued' = queued \/ queued' = [queued EXCEPT ![k] = a]
      BY <2>2 DEF Delivered
    <3>3. CASE queued' = [queued EXCEPT ![k] = a]
      <4> HIDE DEF k
      <4>1. QED
        BY <2>1, <3>1, <3>3
    <3>4. QED
      BY <3>1, <3>2, <3>3
  <2>5. (stage \in Turning => \A j \in Keys : queued[j] # "" => Said(j, queued[j]))'
    BY <2>2, <2>4 DEF AnswerInv, Said
  <2>6. AnsweredNow'
    BY <2>2 DEF AnswerInv, AnsweredNow
  <2>7. (stage \in Waiting /\ keyboard \in {"typed", "done"} => Said(Key, typed))'
    BY <2>2 DEF AnswerInv, Said, Key
  <2>8. (stage = "closing" => click # "")'
    <3>1. a # ""
      BY DEF Valid
    <3>2. QED
      BY <2>2, <3>1 DEF Delivered, AnswerInv
  <2>9. shown' \in Seq(Keys) /\ open' \subseteq DOMAIN shown'
    BY <2>2 DEF AnswerInv
  <2>10. QED
    BY <2>2, <2>3, <2>4, <2>5, <2>6, <2>7, <2>8, <2>9 DEF AnswerInv
<1>4. CASE Abort
  BY <1>4, CancelAnswers DEF Abort
<1>5. CASE Quit
  BY <1>5 DEF Quit, asking, previews, AnswerInv, Said, Key, AnsweredNow
<1>6. QED
  BY <1>1, <1>2, <1>3, <1>4, <1>5 DEF User

LEMMA TurnAnswersInv == ASSUME AnswerInv, Turn PROVE AnswerInv'
<1> USE DEF asking, previews, work
<1>1. CASE Begin
  BY <1>1, AnswersAside DEF Begin, AnswerInv, Stages, Turning, Waiting
<1>2. CASE AgentStart
  BY <1>2, AnswersAside DEF AgentStart, StillQueued, AnswerInv, Stages, Turning, Waiting
<1>3. CASE AskQuestion
  BY <1>3, AnswersAside DEF AskQuestion, AnswerInv, Stages, Turning, Waiting
<1>4. CASE Complete
  BY <1>4, AnswersAside DEF Complete, AnswerInv, Stages, Turning, Waiting
<1>5. CASE Finish
  BY <1>5, AnswersAside DEF Finish, AnswerInv, Stages, Turning, Waiting
<1>6. CASE Fail
  BY <1>6, AnswersAside DEF Fail, AnswerInv, Stages, Turning, Waiting
<1>7. ASSUME NEW k \in Keys, Show(k) PROVE AnswerInv'
  <2>1. /\ stage = "running" /\ stage' = "shown" /\ given' = Nothing
        /\ shown' = Append(shown, k) /\ open' \subseteq open \cup {Len(shown) + 1}
        /\ UNCHANGED <<prompts, click, queued, voice>>
    BY <1>7 DEF Show
  <2>2. /\ shown' \in Seq(Keys) /\ shown' # <<>>
        /\ DOMAIN shown' = DOMAIN shown \cup {Len(shown) + 1}
    <3>1. shown \in Seq(Keys)
      BY DEF AnswerInv
    <3>2. shown' \in Seq(Keys) /\ Len(shown') = Len(shown) + 1 /\ Len(shown) \in Nat
      BY <2>1, <3>1, AppendProperties
    <3>3. DOMAIN shown' = 1..(Len(shown) + 1) /\ DOMAIN shown = 1..Len(shown)
      BY <3>1, <3>2
    <3>4. QED
      BY <3>2, <3>3
  <2>3. click = ""
    BY <2>1 DEF AnswerInv, Waiting
  <2>4. open' \subseteq DOMAIN shown'
    BY <2>1, <2>2 DEF AnswerInv
  <2>5. AnsweredNow'
    BY <2>1 DEF AnsweredNow
  <2>6. QED
    BY <2>1, <2>2, <2>3, <2>4, <2>5 DEF AnswerInv, Stages, Turning, Waiting, Said
<1>8. QED
  BY <1>1, <1>2, <1>3, <1>4, <1>5, <1>6, <1>7 DEF Turn

LEMMA AskingAnswersInv == ASSUME AnswerInv, Asking PROVE AnswerInv'
<1> USE DEF asking, previews, work
<1>1. CASE AskApproval
  <2>1. stage = "shown" /\ UNCHANGED <<prompts, shown, voice>> /\ Key \in Keys
    BY <1>1, KeyIsKey DEF AskApproval
  <2>2. CASE queued[Key] # ""
    <3>1. /\ queued' = [queued EXCEPT ![Key] = ""] /\ Respond(queued[Key])
      BY <1>1, <2>2 DEF AskApproval
    <3>2. Said(Key, queued[Key])
      BY <2>1, <2>2 DEF AnswerInv, Turning
    <3>3. queued' \in [Keys -> Valid \cup {""}] /\ \A k \in Keys : queued'[k] \in {queued[k], ""}
      BY <2>1, <3>1 DEF AnswerInv
    <3>4. QED
      BY <2>1, <3>1, <3>2, <3>3, RespondInv
  <2>3. CASE queued[Key] = ""
    <3>1. /\ stage' = "asking" /\ keyboard' = "created"
          /\ UNCHANGED <<click, open, queued, given, shown, prompts, voice>>
      BY <1>1, <2>3 DEF AskApproval
    <3>2. click = ""
      BY <2>1 DEF AnswerInv, Waiting
    <3>3. QED
      BY <2>1, <3>1, <3>2 DEF AnswerInv, Stages, Turning, Waiting, Said, AnsweredNow
  <2>4. QED
    BY <2>2, <2>3
<1>2. CASE KeyboardFirst
  <2>1. /\ stage = "asking" /\ keyboard = "done" /\ click = ""
        /\ UNCHANGED <<prompts, shown, voice, queued>>
    BY <1>2 DEF KeyboardFirst
  <2>2. Said(Key, typed)
    BY <2>1 DEF AnswerInv, Waiting
  <2>3. queued' \in [Keys -> Valid \cup {""}] /\ \A k \in Keys : queued'[k] \in {queued[k], ""}
    BY <2>1 DEF AnswerInv
  <2>4. CASE typed \in Valid
    BY <1>2, <2>1, <2>2, <2>3, <2>4, RespondInv DEF KeyboardFirst, Waiting
  <2>5. CASE typed \notin Valid
    BY <1>2, <2>1, <2>3, <2>5, AnswersAside DEF KeyboardFirst, AnswerInv, Turning
  <2>6. QED
    BY <2>4, <2>5
<1>3. CASE PreviewFirst
  <2>1. /\ stage = "asking" /\ click # "" /\ UNCHANGED <<prompts, shown, voice, queued>>
    BY <1>3 DEF PreviewFirst
  <2>2. Said(Key, click)
    BY <2>1 DEF AnswerInv
  <2>3. queued' \in [Keys -> Valid \cup {""}] /\ \A k \in Keys : queued'[k] \in {queued[k], ""}
    BY <2>1 DEF AnswerInv
  <2>4. CASE Respond(click)
    BY <2>1, <2>2, <2>3, <2>4, RespondInv DEF Waiting
  <2>5. CASE DropKeyboard
    BY <2>1, <2>2, <2>5 DEF DropKeyboard, AnswerInv, Stages, Turning, Waiting, Said, Key, AnsweredNow
  <2>6. QED
    BY <1>3, <2>4, <2>5 DEF PreviewFirst
<1>4. CASE PreviewCounts
  <2>1. /\ stage = "closing" /\ Respond(click) /\ UNCHANGED <<prompts, shown, voice, queued>>
    BY <1>4 DEF PreviewCounts
  <2>2. Said(Key, click)
    BY <2>1 DEF AnswerInv
  <2>3. queued' \in [Keys -> Valid \cup {""}] /\ \A k \in Keys : queued'[k] \in {queued[k], ""}
    BY <2>1 DEF AnswerInv
  <2>4. QED
    BY <2>1, <2>2, <2>3, RespondInv DEF Waiting
<1>5. CASE Unwind
  BY <1>5, AnswersAside DEF Unwind, AnswerInv, Stages, Turning, Waiting
<1>6. CASE Unwound
  BY <1>6, AnswersAside DEF Unwound, Interrupted, AnswerInv, Stages, Turning, Waiting
<1>7. CASE Clarified
  BY <1>7, AnswersAside DEF Clarified, AnswerInv, Stages, Turning, Waiting
<1>8. QED
  BY <1>1, <1>2, <1>3, <1>4, <1>5, <1>6, <1>7 DEF Asking

LEMMA AnswerNext == AnswerInv /\ [Next]_vars => AnswerInv'
<1> SUFFICES ASSUME AnswerInv, [Next]_vars PROVE AnswerInv'
  OBVIOUS
<1>1. CASE User
  BY <1>1, UserAnswersInv
<1>2. CASE Turn
  BY <1>2, TurnAnswersInv
<1>3. CASE Asking
  BY <1>3, AskingAnswersInv
<1>4. CASE Keyboard
  <2>1. /\ UNCHANGED <<stage, prompts, typed, click, shown, open, queued, given, voice>>
        /\ keyboard' \in {"typed", "done"} => keyboard \in {"typed", "done"}
    BY <1>4 DEF Keyboard, KeyboardStart, KeyboardDone, KeyboardCancelled, work, previews
  <2>2. QED
    BY <2>1, AnswersAside DEF AnswerInv
<1>5. CASE CloseLoop
  <2>1. CASE Cancel
    BY <1>5, <2>1, CancelAnswers DEF CloseLoop
  <2>2. CASE /\ stage \in {"idle", "starting"} /\ stage' \in {"idle", "ended"}
             /\ UNCHANGED <<work, asking, given>>
    BY <1>5, <2>2, AnswersAside
       DEF CloseLoop, work, asking, previews, AnswerInv, Stages, Turning, Waiting
  <2>3. QED
    BY <1>5, <2>1, <2>2 DEF CloseLoop
<1>6. CASE End
  BY <1>6, AnswersAside DEF End, work, asking, previews, AnswerInv, Stages, Turning, Waiting
<1>7. CASE UNCHANGED vars
  BY <1>7, AnswersAside DEF vars, work, asking, previews, AnswerInv
<1>8. QED
  BY <1>1, <1>2, <1>3, <1>4, <1>5, <1>6, <1>7 DEF Next

\* A response handed to the agent was given to that request in this prompt
\* (_ask_for_approval_response, _resolve_file_preview_approval,
\* begin_turn_transcript).
THEOREM AnswersAreOfThisPrompt == Spec => []AnsweredNow
<1>1. AnswerInv => AnsweredNow
  BY DEF AnswerInv
<1>2. QED
  BY <1>1, AnswerInit, AnswerNext, PTL DEF Spec

-----------------------------------------------------------------------------
LEMMA SavedInit == Init => SavedInv
<1> SUFFICES ASSUME Init PROVE SavedInv
  OBVIOUS
<1>1. <<>> \in Seq(Nat)
  OBVIOUS
<1>2. session = [messages |-> <<>>, paused |-> 0] /\ history = <<>>
  BY DEF Init
<1>3. session \in Known /\ session.messages = history /\ history \in Seq(Nat)
  BY <1>1, <1>2 DEF Known
<1>4. QED
  BY <1>3 DEF Init, SavedInv, Stages

\* Taking back the message of the prompt leaves what the session had.
LEMMA TakenBack ==
    ASSUME NEW s \in Seq(Nat), NEW t \in Nat
    PROVE  /\ SubSeq(Append(s, t), 1, Len(Append(s, t)) - 1) = s
           /\ Append(s, t) \in Seq(Nat)
<1>1. Append(s, t) \in Seq(Nat) /\ Len(Append(s, t)) = Len(s) + 1 /\ Len(s) \in Nat
  OBVIOUS
<1>2. SubSeq(Append(s, t), 1, Len(s)) \in Seq(Nat) /\ Len(SubSeq(Append(s, t), 1, Len(s))) = Len(s)
  BY <1>1
<1>3. \A i \in 1..Len(s) : SubSeq(Append(s, t), 1, Len(s))[i] = s[i]
  BY <1>1
<1>4. SubSeq(Append(s, t), 1, Len(s)) = s
  BY <1>2, <1>3, SeqEqual
<1>5. QED
  BY <1>1, <1>4

\* The stages in which the message of the prompt is in the history.
Under == Stages \ {"idle", "starting", "ended"}

LEMMA InterruptedInv ==
    ASSUME SavedInv, stage \in Under, Interrupted,
           UNCHANGED <<task, prompts, exited>>, closed' = closed \/ exited
    PROVE  SavedInv'
<1>1. /\ task \in Nat /\ session \in Known
      /\ history = Append(session.messages, task)
  BY DEF SavedInv, Under
<1>2. session.messages \in Seq(Nat)
  BY <1>1 DEF Known
<1>3. history' \in Seq(Nat)
  BY <1>1, <1>2, TakenBack DEF Interrupted
<1>4. session' \in Known /\ session'.messages = history'
  BY <1>1, <1>3 DEF Known, Interrupted
<1>5. stage' = "idle" /\ disk' = session'
  BY DEF Interrupted, Save
<1>6. QED
  BY <1>3, <1>4, <1>5 DEF SavedInv, Stages

\* A step of the prompt's task that neither begins nor ends it.
LEMMA SavedAside ==
    ASSUME SavedInv, UNCHANGED <<task, prompts, history, session>>,
           disk' = disk \/ disk' = session,
           stage' = stage \/ (stage \in Under /\ stage' \in Under),
           exited' = exited \/ (exited' = TRUE /\ disk' = session),
           closed' = closed \/ (exited /\ exited' = exited)
    PROVE  SavedInv'
  BY DEF SavedInv, Under

LEMMA CancelSaved ==
    ASSUME SavedInv, Cancel, exited' = exited, closed' = closed \/ exited
    PROVE  SavedInv'
<1>1. CASE Interrupted /\ UNCHANGED <<task, prompts>>
  <2>1. stage \in Under
    BY <1>1 DEF Cancel, Under, Stages, Interrupted
  <2>2. QED
    BY <1>1, <2>1, InterruptedInv
<1>2. CASE /\ stage \in {"asking", "closing", "unwinding"}
           /\ stage' \in {"closing", "unwinding"} /\ UNCHANGED work
  <2>1. /\ UNCHANGED <<task, prompts, history, session>> /\ disk' = disk
        /\ stage \in Under /\ stage' \in Under
    BY <1>2 DEF work, Under, Stages
  <2>2. QED
    BY <2>1, SavedAside
<1>3. QED
  BY <1>1, <1>2 DEF Cancel

LEMMA SavedNext == SavedInv /\ [Next]_vars => SavedInv'
<1> SUFFICES ASSUME SavedInv, [Next]_vars PROVE SavedInv'
  OBVIOUS
<1>1. ASSUME NEW resume \in BOOLEAN, Submit(resume) PROVE SavedInv'
  <2>1. session \in Known /\ session' = [session EXCEPT !.paused = 0]
    BY <1>1 DEF Submit, SavedInv
  <2>2. session' \in Known /\ session'.messages = session.messages /\ session.paused \in Nat
    BY <2>1 DEF Known
  <2>3. task' \in Nat /\ prompts' \in Nat
    BY <1>1, <2>2 DEF Submit, SavedInv
  <2>4. QED
    BY <1>1, <2>2, <2>3 DEF Submit, SavedInv, Stages, exit
<1>2. CASE Abort
  <2>1. Cancel /\ UNCHANGED <<exited, closed>>
    BY <1>2 DEF Abort, exit
  <2>2. QED
    BY <2>1, CancelSaved
<1>3. CASE Quit
  <2>1. /\ UNCHANGED <<task, prompts, history, session, stage, closed>>
        /\ disk' = session /\ exited' = TRUE
    BY <1>3 DEF Quit
  <2>2. QED
    BY <2>1, SavedAside
<1>4. CASE CloseLoop
  <2>1. CASE Cancel
    BY <1>4, <2>1, CancelSaved DEF CloseLoop
  <2>2. CASE /\ stage \in {"idle", "starting"} /\ stage' \in {"idle", "ended"}
             /\ UNCHANGED <<work, asking, given>>
    BY <1>4, <2>2 DEF CloseLoop, SavedInv, Stages, work
  <2>3. QED
    BY <1>4, <2>1, <2>2 DEF CloseLoop
<1>5. CASE End
  BY <1>5 DEF End, SavedInv, Stages, work, exit
<1>6. CASE Begin
  <2>1. session.messages \in Seq(Nat) /\ task \in Nat
    BY DEF SavedInv, Known
  <2>2. history' = Append(session.messages, task) /\ stage' = "begun"
        /\ UNCHANGED <<task, prompts, session, disk, exit>>
    BY <1>6 DEF Begin, SavedInv
  <2>3. history' \in Seq(Nat)
    BY <2>1, <2>2, TakenBack
  <2>4. QED
    BY <2>2, <2>3 DEF SavedInv, Stages, exit
<1>7. CASE Finish
  <2>1. session' \in Known /\ session'.messages = history
    BY <1>7 DEF Finish, SavedInv, Known
  <2>2. QED
    BY <1>7, <2>1 DEF Finish, SavedInv, Stages, exit
<1>8. CASE Fail
  <2>1. session.messages \in Seq(Nat) /\ task \in Nat /\ history = Append(session.messages, task)
    BY <1>8 DEF Fail, SavedInv, Known
  <2>2. history' = session.messages
    BY <1>8, <2>1, TakenBack DEF Fail
  <2>3. QED
    BY <1>8, <2>1, <2>2 DEF Fail, SavedInv, Stages, exit
<1>9. CASE Unwound
  <2>1. /\ stage \in Under /\ Interrupted
        /\ UNCHANGED <<task, prompts, exited, closed>>
    BY <1>9 DEF Unwound, Under, Stages, exit
  <2>2. QED
    BY <2>1, InterruptedInv
<1>10. CASE \/ AgentStart \/ AskQuestion \/ Complete \/ \E k \in Keys : Show(k)
  <2>1. /\ UNCHANGED <<task, prompts, history, session, disk, exited, closed>>
        /\ stage' = stage \/ (stage \in Under /\ stage' \in Under)
    BY <1>10 DEF AgentStart, AskQuestion, Complete, Show, work, exit, Under, Stages
  <2>2. QED
    BY <2>1, SavedAside
<1>11. CASE AskApproval \/ KeyboardFirst \/ PreviewFirst \/ PreviewCounts
  <2>1. /\ UNCHANGED <<task, prompts, history, session, disk, exited, closed>>
        /\ stage' = stage \/ (stage \in Under /\ stage' \in Under)
    BY <1>11 DEF AskApproval, KeyboardFirst, PreviewFirst, PreviewCounts,
       Respond, DropKeyboard, work, exit, Under, Stages
  <2>2. QED
    BY <2>1, SavedAside
<1>12. CASE Unwind \/ Clarified
  <2>1. /\ UNCHANGED <<task, prompts, history, session, disk, exited, closed>>
        /\ stage' = stage \/ (stage \in Under /\ stage' \in Under)
    BY <1>12 DEF Unwind, Clarified, work, exit, Under, Stages
  <2>2. QED
    BY <2>1, SavedAside
<1>13. CASE Keyboard
  <2>1. /\ UNCHANGED <<task, prompts, history, session, disk, exited, closed>>
        /\ stage' = stage \/ (stage \in Under /\ stage' \in Under)
    BY <1>13 DEF Keyboard, KeyboardStart, KeyboardDone, KeyboardCancelled, work, exit
  <2>2. QED
    BY <2>1, SavedAside
<1>14. CASE \/ \E a \in Answers : Type(a)
            \/ \E i \in open, a \in Valid : Click(i, a)
  <2>1. /\ UNCHANGED <<task, prompts, history, session, disk, exited, closed>>
        /\ stage' = stage \/ (stage \in Under /\ stage' \in Under)
    BY <1>14 DEF Type, Click, work, exit
  <2>2. QED
    BY <2>1, SavedAside
<1>15. CASE UNCHANGED vars
  <2>1. /\ UNCHANGED <<task, prompts, history, session, disk, exited, closed>>
        /\ stage' = stage \/ (stage \in Under /\ stage' \in Under)
    BY <1>15 DEF vars, work, exit
  <2>2. QED
    BY <2>1, SavedAside
<1>16. QED
  BY <1>1, <1>2, <1>3, <1>4, <1>5, <1>6, <1>7, <1>8, <1>9, <1>10, <1>11, <1>12, <1>13,
     <1>14, <1>15 DEF Next, User, Turn, Asking

\* However the application is left, the file holds what the program knew
\* (action_quit, finalize_session, the CancelledError of _handle_prompt).
THEOREM LeavesWhatItKnew == Spec => []LeftAsKnown
<1>1. SavedInv => LeftAsKnown
  BY DEF SavedInv, LeftAsKnown
<1>2. QED
  BY <1>1, SavedInit, SavedNext, PTL DEF Spec
=============================================================================
