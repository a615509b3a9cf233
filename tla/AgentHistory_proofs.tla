------------------------ MODULE AgentHistory_proofs -------------------------
(***************************************************************************)
(* What the history of the turn runner says, to the next turn and to a     *)
(* provider, for every set of calls, every configuration and every bound,  *)
(* from the invariants of AgentTurn_proofs:                                *)
(*   - the history can be replayed: what is committed comes in blocks of   *)
(*     a response and results of its calls, later than what is committed   *)
(*     before, and makes a conversation in shape (ReplayStep);             *)
(*   - what a provider is sent is a conversation in order, and is          *)
(*     understood in each request format (SpokenStep, SpokenSafe).         *)
(***************************************************************************)
EXTENDS AgentTurn_proofs

-----------------------------------------------------------------------------
(* The history can be replayed.  It is a conversation in shape: a response *)
(* with calls is followed by the results of these calls and of no others,  *)
(* and what is said later is about later calls.  Such a history is made of *)
(* events that come in blocks, a response and then results of its calls,   *)
(* and whatever is committed, queued or pending keeps the blocks apart.    *)

\* Every call of the set comes before every one of the other.
Below(A, B) == \A x \in A, y \in B : x < y

\* The places of what a response with its calls should be followed by.
After(s, i) == (i + 1)..(i + Len(s[i].calls))

\* The calls a conversation mentions.
MessageIds(talk) ==
    (UNION {ToSet(m.calls) : m \in ToSet(talk)})
    \cup {m.id : m \in {n \in ToSet(talk) : n.role = "tool"}}

\* What is left of it when the results of calls it does not have are dropped is
\* well formed.
Shaped(talk) ==
    /\ \A i \in 1..Len(talk) : talk[i].calls # <<>> =>
          /\ Increasing(talk[i].calls)
          /\ \A k \in After(talk, i) :
                /\ k \in 1..Len(talk)
                /\ talk[k].role = "tool" /\ talk[k].id \in ToSet(talk[i].calls)
          /\ \A id \in ToSet(talk[i].calls) : \E k \in After(talk, i) : talk[k].id = id
    /\ \A i, k \in 1..Len(talk) :
          talk[k].role = "tool" /\ talk[k].id \in ToSet(talk[i].calls)
          => k \in After(talk, i)
    /\ \A i, k \in 1..Len(talk) : i # k =>
          ToSet(talk[i].calls) \cap ToSet(talk[k].calls) = {}

\* r[m] is how many of the first m elements of s are in K; kept are those.
Ranks(r, s, K, kept) ==
    /\ r \in [0..Len(s) -> Nat]
    /\ \A m \in 1..Len(s) : r[m] = IF s[m] \in K THEN r[m - 1] + 1 ELSE r[m - 1]
    /\ \A m \in 1..Len(s) : s[m] \in K => r[m] \in 1..Len(kept) /\ kept[r[m]] = s[m]
    /\ \A a \in 1..Len(kept) : \E m \in 1..Len(s) : s[m] \in K /\ r[m] = a
    /\ \A m, n \in 0..Len(s) : m <= n => r[m] <= r[n]
    /\ \A m, n \in 1..Len(s) : m < n /\ s[n] \in K => r[m] < r[n]
    /\ r[Len(s)] = Len(kept)

(* KeepIn puts the elements it keeps at their ranks.                       *)
LEMMA KeepInRanks ==
    ASSUME NEW S, NEW s \in Seq(S), NEW K
    PROVE  \E r : Ranks(r, s, K, KeepIn(s, K))
  <1> DEFINE N == Len(s)
             kept == KeepIn(s, K)
  <1>1. PICK f \in [0..N -> Seq(S \cap K)] : Keeps(f, s, K)
    BY KeepInSteps
  <1>0. N \in Nat /\ \A m \in 1..N : m - 1 \in 0..N /\ m \in 0..N /\ s[m] \in S
    OBVIOUS
  <1> DEFINE r == [m \in 0..N |-> Len(f[m])]
  <1>2. \A m \in 0..N : f[m] \in Seq(S \cap K) /\ Len(f[m]) \in Nat
    BY <1>1
  <1>3. r \in [0..N -> Nat]
    BY <1>2
  <1>4. ASSUME NEW m \in 1..N
        PROVE  r[m] = IF s[m] \in K THEN r[m - 1] + 1 ELSE r[m - 1]
    <2>1. f[m] = IF s[m] \in K THEN Append(f[m - 1], s[m]) ELSE f[m - 1]
      BY <1>1 DEF Keeps
    <2>2. f[m - 1] \in Seq(S \cap K) /\ r[m] = Len(f[m]) /\ r[m - 1] = Len(f[m - 1])
      BY <1>0, <1>2
    <2> HIDE DEF r
    <2>3. CASE s[m] \in K
      <3> DEFINE t == f[m - 1]
                 x == s[m]
      <3>1. x \in S \cap K /\ t \in Seq(S \cap K)
        BY <1>0, <2>2, <2>3
      <3> HIDE DEF t, x
      <3>2. Len(Append(t, x)) = Len(t) + 1
        BY <3>1
      <3> QED
        BY <2>1, <2>2, <2>3, <3>2 DEF t, x
    <2> QED
      BY <2>1, <2>2, <2>3
  <1>5. f \in [0..Len(s) -> Seq(S)] /\ kept = f[N] /\ N \in 0..N
    BY <1>0, <1>1 DEF Keeps
  <1>6. ASSUME NEW m \in 1..N, s[m] \in K
        PROVE  r[m] \in 1..Len(kept) /\ kept[r[m]] = s[m]
    <2>1. Placed(f, s, m)
      BY <1>1, <1>5, <1>6, KeepsPlace
    <2>2. N \in m..N /\ r[m] = Len(f[m])
      BY <1>0
    <2> QED
      BY <1>5, <2>1, <2>2 DEF Placed
  <1>7. ASSUME NEW m \in 0..N, NEW n \in 0..N, m <= n PROVE r[m] <= r[n]
    <2> DEFINE G == {l \in Nat : m <= l /\ l <= N => r[m] <= r[l]}
    <2> HIDE DEF r, N
    <2>1. 0 \in G
      BY <1>0, <1>3
    <2>2. ASSUME NEW l \in 1..N, l - 1 \in G PROVE l \in G
      <3>1. l - 1 \in 0..N /\ l \in 0..N /\ r[l - 1] \in Nat /\ r[l] \in Nat
        BY <1>0, <1>3
      <3>2. r[l - 1] <= r[l]
        BY <1>4, <3>1
      <3>3. CASE m <= l - 1
        BY <2>2, <3>1, <3>2, <3>3, <1>3
      <3>4. CASE ~(m <= l - 1)
        BY <3>1, <3>4, <1>0
      <3> QED
        BY <3>3, <3>4
    <2>3. 0..N \subseteq G
      <3> HIDE DEF G
      <3> QED
        BY <1>0, <2>1, <2>2, Climb
    <2> QED
      BY <1>0, <1>7, <2>3
  <1>8. ASSUME NEW m \in 1..N, NEW n \in 1..N, m < n, s[n] \in K PROVE r[m] < r[n]
    <2>1. r[m] <= r[n - 1]
      BY <1>0, <1>7, <1>8
    <2>2. r[n] = r[n - 1] + 1 /\ r[n - 1] \in Nat /\ r[m] \in Nat
      BY <1>0, <1>3, <1>4, <1>8
    <2> HIDE DEF r
    <2> QED
      BY <2>1, <2>2
  <1>9. ASSUME NEW a \in 1..Len(kept) PROVE \E m \in 1..N : s[m] \in K /\ r[m] = a
    <2> DEFINE G == {n \in Nat : n <= N =>
                        \A b \in 1..r[n] : \E m \in 1..n : s[m] \in K /\ r[m] = b}
    <2>0. r[0] = 0
      <3>1. f[0] = <<>> /\ r[0] = Len(f[0])
        BY <1>0, <1>1 DEF Keeps
      <3> QED
        BY <3>1
    <2> HIDE DEF r, N
    <2>1. 0 \in G
      BY <2>0
    <2>2. ASSUME NEW n \in 1..N, n - 1 \in G PROVE n \in G
      <3>1. n - 1 \in 0..N /\ n \in 0..N /\ r[n - 1] \in Nat /\ r[n] \in Nat
        BY <1>0, <1>3
      <3>2. ASSUME NEW b \in 1..r[n] PROVE \E m \in 1..n : s[m] \in K /\ r[m] = b
        <4>1. CASE b \in 1..r[n - 1]
          <5>1. PICK m \in 1..(n - 1) : s[m] \in K /\ r[m] = b
            BY <1>0, <2>2, <3>1, <4>1
          <5>2. m \in 1..n
            BY <1>0
          <5> QED
            BY <5>1, <5>2
        <4>2. CASE b \notin 1..r[n - 1]
          <5>1. s[n] \in K /\ r[n] = r[n - 1] + 1
            BY <1>4, <3>1, <4>2
          <5>2. b = r[n] /\ n \in 1..n
            BY <1>0, <3>1, <4>2, <5>1, SMTT(30)
          <5> QED
            BY <5>1, <5>2
        <4> QED
          BY <4>1, <4>2
      <3> QED
        BY <1>0, <3>2
    <2>3. 0..N \subseteq G
      <3> HIDE DEF G
      <3> QED
        BY <1>0, <2>1, <2>2, Climb
    <2>4. r[N] = Len(kept)
      BY <1>5 DEF r
    <2> HIDE DEF kept
    <2> QED
      BY <1>0, <2>3, <2>4
  <1>10. r[N] = Len(kept)
    BY <1>5
  <1>11. Ranks(r, s, K, kept)
    <2> HIDE DEF r, kept
    <2> QED
      BY <1>3, <1>4, <1>6, <1>7, <1>8, <1>9, <1>10 DEF Ranks
  <1> HIDE DEF r
  <1> QED
    BY <1>11

\* The l elements of s after the m-th are in K.
AllIn(s, K, m, l) ==
    m + l <= Len(s) /\ \A i \in (m + 1)..(m + l) : s[i] \in K

(* Elements that follow each other and are all kept still do.              *)
LEMMA RanksFollow ==
    ASSUME NEW S, NEW s \in Seq(S), NEW K, NEW kept, NEW r, Ranks(r, s, K, kept),
           NEW m \in 0..Len(s), NEW l \in Nat, AllIn(s, K, m, l)
    PROVE  \A i \in 0..l : r[m + i] = r[m] + i
  <1> DEFINE G == {i \in Nat : i <= l => r[m + i] = r[m] + i}
  <1>0. Len(s) \in Nat /\ r \in [0..Len(s) -> Nat]
        /\ \A n \in 1..Len(s) : r[n] = IF s[n] \in K THEN r[n - 1] + 1 ELSE r[n - 1]
    <2>1. Len(s) \in Nat
      OBVIOUS
    <2> QED
      BY <2>1 DEF Ranks
  <1>4. m + l <= Len(s) /\ \A i \in (m + 1)..(m + l) : s[i] \in K
    BY DEF AllIn
  <1>1. 0 \in G
    BY <1>0
  <1>2. ASSUME NEW i \in 1..l, i - 1 \in G PROVE i \in G
    <2>1. m + i \in 1..Len(s) /\ m + i \in (m + 1)..(m + l) /\ (m + i) - 1 = m + (i - 1)
      BY <1>0, <1>4
    <2>2. r[m + i] = r[(m + i) - 1] + 1
      BY <1>0, <1>4, <2>1
    <2>3. r[m + (i - 1)] = r[m] + (i - 1)
      BY <1>2
    <2>4. r[m] \in Nat
      BY <1>0
    <2>5. r[m + i] = r[m] + i
      BY <2>1, <2>2, <2>3, <2>4
    <2> QED
      BY <2>5
  <1>3. 0..l \subseteq G
    <2> HIDE DEF G
    <2> QED
      BY <1>1, <1>2, Climb
  <1> QED
    BY <1>3

(* The fields of a message.                                                *)
LEMMA MessageFields ==
    \A m \in Said : m.calls \in Seq(Nat) /\ m.id \in Nat /\ (m.calls # <<>> => m.role # "tool")
  <1>1. User.calls \in Seq(Nat) /\ User.id \in Nat /\ User.calls = <<>>
    <2>1. <<>> \in Seq(Nat)
      OBVIOUS
    <2> QED
      BY <2>1 DEF User
  <1>2. ASSUME NEW calls \in Seq(Nat)
        PROVE  /\ Assistant(calls).calls \in Seq(Nat) /\ Assistant(calls).id \in Nat
               /\ Assistant(calls).role # "tool"
    BY DEF Assistant
  <1>3. ASSUME NEW id \in Nat
        PROVE  /\ ToolMessage(id).calls \in Seq(Nat) /\ ToolMessage(id).id \in Nat
               /\ ToolMessage(id).calls = <<>>
    <2>1. <<>> \in Seq(Nat)
      OBVIOUS
    <2> QED
      BY <2>1 DEF ToolMessage
  <1> HIDE DEF User, Assistant, ToolMessage
  <1> QED
    BY <1>1, <1>2, <1>3 DEF Said

(* The calls of the messages of a conversation are those it mentions.      *)
LEMMA MessageIdsAt ==
    ASSUME NEW talk, DOMAIN talk = 1..Len(talk), NEW x
    PROVE  x \in MessageIds(talk) <=>
              \E i \in 1..Len(talk) : \/ x \in ToSet(talk[i].calls)
                                      \/ talk[i].role = "tool" /\ x = talk[i].id
  <1>1. \A m : m \in ToSet(talk) <=> \E i \in 1..Len(talk) : m = talk[i]
    BY DEF ToSet
  <1>2. x \in MessageIds(talk) <=>
           \E m \in ToSet(talk) : \/ x \in ToSet(m.calls)
                                  \/ m.role = "tool" /\ x = m.id
    BY DEF MessageIds
  <1> QED
    BY <1>1, <1>2

(* Growing ids differ.                                                     *)
LEMMA IncreasingInjective ==
    ASSUME NEW s \in Seq(Nat), Increasing(s)
    PROVE  IsInjective(s)
  <1>1. Len(s) \in Nat /\ DOMAIN s = 1..Len(s) /\ \A x \in 1..Len(s) : s[x] \in Nat
    OBVIOUS
  <1>2. ASSUME NEW a \in 1..Len(s), NEW b \in 1..Len(s), s[a] = s[b] PROVE a = b
    BY <1>1, <1>2 DEF Increasing
  <1> QED
    BY <1>1, <1>2 DEF IsInjective

\* A conversation in shape, in which no result stands without its call.
Neat(talk) ==
    /\ Shaped(talk)
    /\ \A k \in 1..Len(talk) : talk[k].role = "tool" =>
          \E i \in 1..Len(talk) : k \in After(talk, i)

\* Later results are results of later calls.
ToolsRise(talk) ==
    \A j, k \in 1..Len(talk) :
        j < k /\ talk[j].role = "tool" /\ talk[k].role = "tool" => talk[j].id < talk[k].id

\* The messages of old at the places in K are found in new, in their order and
\* a batch together; what else is new comes from the user.
Moves(r, K, old, new) ==
    /\ K \subseteq 1..Len(old)
    /\ \A m \in K : r[m] \in 1..Len(new) /\ new[r[m]] = old[m]
    /\ \A m, n \in K : m < n => r[m] < r[n]
    /\ \A a \in 1..Len(new) : new[a] = User \/ \E m \in K : r[m] = a
    /\ \A m \in K : old[m].calls # <<>> =>
          \A d \in 0..Len(old[m].calls) : m + d \in K /\ r[m + d] = r[m] + d
    /\ \A k \in K : old[k].role = "tool" => \E i \in K : k \in After(old, i)

(* What is moved like this is neat.                                        *)
LEMMA NeatMoved ==
    ASSUME NEW old \in Seq(Said), Shaped(old), NEW new \in Seq(Said),
           NEW r, NEW K, Moves(r, K, old, new)
    PROVE  /\ Neat(new) /\ MessageIds(new) \subseteq MessageIds(old)
           /\ ToolsRise(old) => ToolsRise(new)
  <1>1. /\ Len(old) \in Nat /\ Len(new) \in Nat
        /\ DOMAIN old = 1..Len(old) /\ DOMAIN new = 1..Len(new)
        /\ \A i \in 1..Len(old) : old[i].calls \in Seq(Nat)
    <2>1. \A i \in 1..Len(old) : old[i] \in Said
      OBVIOUS
    <2> QED
      BY <2>1, MessageFields
  <1>2. /\ K \subseteq 1..Len(old)
        /\ \A m \in K : r[m] \in 1..Len(new) /\ new[r[m]] = old[m]
        /\ \A m, n \in K : m < n => r[m] < r[n]
        /\ \A a \in 1..Len(new) : new[a] = User \/ \E m \in K : r[m] = a
        /\ \A m \in K : old[m].calls # <<>> =>
              \A d \in 0..Len(old[m].calls) : m + d \in K /\ r[m + d] = r[m] + d
        /\ \A k \in K : old[k].role = "tool" => \E i \in K : k \in After(old, i)
    BY DEF Moves
  <1>3. User.calls = <<>> /\ User.role # "tool" /\ ToSet(<<>>) = {}
    BY DEF User, ToSet
  <1>4. ASSUME NEW a \in 1..Len(new), new[a].calls # <<>> \/ new[a].role = "tool"
        PROVE  \E m \in K : r[m] = a /\ new[a] = old[m]
    BY <1>2, <1>3, <1>4
  <1>5. ASSUME NEW i \in K, NEW k \in After(old, i), k \in K
        PROVE  r[k] \in After(new, r[i])
    <2> DEFINE l == Len(old[i].calls)
               d == k - i
    <2>1. l \in Nat /\ i \in Nat /\ r[i] \in Nat
      BY <1>1, <1>2
    <2>2. k \in (i + 1)..(i + l)
      BY <1>5 DEF After
    <2>3. d \in 1..l /\ k = i + d /\ d \in 0..l
      BY <2>1, <2>2
    <2>4. old[i].calls # <<>>
      BY <2>1, <2>3
    <2>5. After(new, r[i]) = (r[i] + 1)..(r[i] + l)
      BY <1>2 DEF After
    <2> HIDE DEF d, l
    <2>6. r[i + d] = r[i] + d
      BY <1>2, <2>3, <2>4 DEF l
    <2> QED
      BY <2>1, <2>3, <2>5, <2>6
  <1>6. ASSUME NEW i \in K, NEW b \in After(new, r[i])
        PROVE  \E k \in K : k \in After(old, i) /\ r[k] = b
    <2> DEFINE l == Len(old[i].calls)
               d == b - r[i]
    <2>1. l \in Nat /\ i \in Nat /\ r[i] \in Nat
      BY <1>1, <1>2
    <2>2. b \in (r[i] + 1)..(r[i] + l)
      BY <1>2, <1>6 DEF After
    <2>3. d \in 1..l /\ b = r[i] + d /\ d \in 0..l
      BY <2>1, <2>2
    <2>4. old[i].calls # <<>>
      BY <2>1, <2>3
    <2>5. After(old, i) = (i + 1)..(i + l)
      BY DEF After
    <2> HIDE DEF d, l
    <2>6. i + d \in K /\ r[i + d] = r[i] + d
      BY <1>2, <2>3, <2>4 DEF l
    <2>7. i + d \in After(old, i)
      BY <2>1, <2>3, <2>5
    <2> QED
      BY <2>3, <2>6, <2>7
  <1>7. ASSUME NEW a \in 1..Len(new), new[a].calls # <<>>
        PROVE  /\ Increasing(new[a].calls)
               /\ \A k \in After(new, a) :
                     /\ k \in 1..Len(new)
                     /\ new[k].role = "tool" /\ new[k].id \in ToSet(new[a].calls)
               /\ \A id \in ToSet(new[a].calls) :
                     \E k \in After(new, a) : new[k].id = id
    <2>1. PICK i \in K : r[i] = a /\ new[a] = old[i]
      BY <1>4, <1>7
    <2>2. /\ Increasing(old[i].calls)
          /\ \A k \in After(old, i) :
                /\ k \in 1..Len(old)
                /\ old[k].role = "tool" /\ old[k].id \in ToSet(old[i].calls)
          /\ \A id \in ToSet(old[i].calls) : \E k \in After(old, i) : old[k].id = id
      BY <1>2, <1>7, <2>1 DEF Shaped
    <2>3. \A k \in After(new, a) : /\ k \in 1..Len(new)
                                   /\ new[k].role = "tool"
                                   /\ new[k].id \in ToSet(new[a].calls)
      <3>1. ASSUME NEW b \in After(new, a)
            PROVE  /\ b \in 1..Len(new)
                   /\ new[b].role = "tool" /\ new[b].id \in ToSet(old[i].calls)
        <4>1. b \in After(new, r[i])
          BY <2>1
        <4>2. PICK k \in K : k \in After(old, i) /\ r[k] = b
          BY <1>6, <4>1
        <4>3. old[k].role = "tool" /\ old[k].id \in ToSet(old[i].calls)
          BY <2>2, <4>2
        <4> QED
          BY <1>2, <4>2, <4>3
      <3> QED
        BY <2>1, <3>1
    <2>4. \A k \in After(old, i) : k \in K
      <3> DEFINE l == Len(old[i].calls)
      <3>1. l \in Nat /\ i \in Nat
        BY <1>1, <1>2
      <3>2. After(old, i) = (i + 1)..(i + l)
        BY DEF After
      <3>3. ASSUME NEW k \in (i + 1)..(i + l) PROVE k - i \in 0..l /\ i + (k - i) = k
        BY <3>1
      <3>4. \A d \in 0..l : i + d \in K
        BY <1>2, <1>7, <2>1
      <3> HIDE DEF l
      <3> QED
        BY <3>2, <3>3, <3>4
    <2>5. ASSUME NEW id \in ToSet(new[a].calls)
          PROVE  \E k \in After(new, a) : new[k].id = id
      <3>1. PICK k \in After(old, i) : old[k].id = id
        BY <2>1, <2>2
      <3> QED
        BY <1>2, <1>5, <2>1, <2>4, <3>1
    <2> QED
      BY <2>1, <2>2, <2>3, <2>5
  <1>8. ASSUME NEW a \in 1..Len(new), NEW b \in 1..Len(new),
               new[b].role = "tool", new[b].id \in ToSet(new[a].calls)
        PROVE  b \in After(new, a)
    <2>1. new[a].calls # <<>>
      BY <1>3, <1>8
    <2>2. PICK i \in K : r[i] = a /\ new[a] = old[i]
      BY <1>4, <2>1
    <2>3. PICK k \in K : r[k] = b /\ new[b] = old[k]
      BY <1>4, <1>8
    <2>4. k \in After(old, i)
      BY <1>2, <1>8, <2>2, <2>3 DEF Shaped
    <2> QED
      BY <1>5, <2>2, <2>3, <2>4
  <1>9. ASSUME NEW a \in 1..Len(new), NEW b \in 1..Len(new), a # b
        PROVE  ToSet(new[a].calls) \cap ToSet(new[b].calls) = {}
    <2>1. CASE new[a].calls = <<>> \/ new[b].calls = <<>>
      BY <1>3, <2>1
    <2>2. CASE new[a].calls # <<>> /\ new[b].calls # <<>>
      <3>1. PICK i \in K : r[i] = a /\ new[a] = old[i]
        BY <1>4, <2>2
      <3>2. PICK k \in K : r[k] = b /\ new[b] = old[k]
        BY <1>4, <2>2
      <3>3. i # k
        BY <1>9, <3>1, <3>2
      <3> QED
        BY <1>2, <3>1, <3>2, <3>3 DEF Shaped
    <2> QED
      BY <2>1, <2>2
  <1>10. ASSUME NEW b \in 1..Len(new), new[b].role = "tool"
         PROVE  \E a \in 1..Len(new) : b \in After(new, a)
    <2>1. PICK k \in K : r[k] = b /\ new[b] = old[k]
      BY <1>4, <1>10
    <2>2. PICK i \in K : k \in After(old, i)
      BY <1>2, <1>10, <2>1
    <2> QED
      BY <1>2, <1>5, <2>1, <2>2
  <1>11. Neat(new)
    BY <1>7, <1>8, <1>9, <1>10 DEF Neat, Shaped
  <1>12. ASSUME NEW x \in MessageIds(new) PROVE x \in MessageIds(old)
    <2>1. PICK a \in 1..Len(new) : \/ x \in ToSet(new[a].calls)
                                   \/ new[a].role = "tool" /\ x = new[a].id
      BY <1>1, <1>12, MessageIdsAt
    <2>2. new[a].calls # <<>> \/ new[a].role = "tool"
      BY <1>3, <2>1
    <2>3. PICK m \in K : new[a] = old[m]
      BY <1>4, <2>2
    <2> QED
      BY <1>1, <1>2, <2>1, <2>3, MessageIdsAt
  <1>13. ASSUME ToolsRise(old), NEW a \in 1..Len(new), NEW b \in 1..Len(new), a < b,
                new[a].role = "tool", new[b].role = "tool"
         PROVE  new[a].id < new[b].id
    <2>1. PICK j \in K : r[j] = a /\ new[a] = old[j]
      BY <1>4, <1>13
    <2>2. PICK k \in K : r[k] = b /\ new[b] = old[k]
      BY <1>4, <1>13
    <2>3. j \in 1..Len(old) /\ k \in 1..Len(old) /\ ~(k < j) /\ j # k
      BY <1>1, <1>2, <1>13, <2>1, <2>2
    <2>4. j < k
      BY <1>1, <2>3
    <2> QED
      BY <1>13, <2>1, <2>2, <2>3, <2>4 DEF ToolsRise
  <1> QED
    BY <1>11, <1>12, <1>13 DEF ToolsRise

(* A neat conversation is well formed.                                     *)
LEMMA NeatFormed ==
    ASSUME NEW talk \in Seq(Said), Neat(talk)
    PROVE  WellFormed(talk)
  <1> DEFINE Answers(i) == {j \in DOMAIN talk :
                               /\ j \in (i + 1)..(i + Len(talk[i].calls))
                               /\ talk[j].role = "tool"}
             callers == {i \in DOMAIN talk : talk[i].calls # <<>>}
  <1>1. /\ Len(talk) \in Nat /\ DOMAIN talk = 1..Len(talk)
        /\ \A i \in 1..Len(talk) : talk[i].calls \in Seq(Nat)
    <2>1. \A i \in 1..Len(talk) : talk[i] \in Said
      OBVIOUS
    <2> QED
      BY <2>1, MessageFields
  <1>2. Shaped(talk)
    BY DEF Neat
  <1>3. ASSUME NEW i \in callers
        PROVE  /\ Increasing(talk[i].calls) /\ IsInjective(talk[i].calls)
               /\ \A j : j \in Answers(i) <=> j \in After(talk, i)
               /\ {talk[j].id : j \in Answers(i)} = ToSet(talk[i].calls)
    <2>1. i \in 1..Len(talk) /\ talk[i].calls # <<>>
      BY <1>1
    <2>2. /\ Increasing(talk[i].calls)
          /\ \A k \in After(talk, i) :
                /\ k \in 1..Len(talk)
                /\ talk[k].role = "tool" /\ talk[k].id \in ToSet(talk[i].calls)
          /\ \A id \in ToSet(talk[i].calls) : \E k \in After(talk, i) : talk[k].id = id
      BY <1>2, <2>1 DEF Shaped
    <2>3. IsInjective(talk[i].calls)
      BY <1>1, <2>1, <2>2, IncreasingInjective
    <2>4. \A j : j \in Answers(i) <=> j \in After(talk, i)
      BY <1>1, <2>2 DEF After
    <2> HIDE DEF Answers
    <2>5. {talk[j].id : j \in Answers(i)} = ToSet(talk[i].calls)
      BY <2>2, <2>4
    <2> QED
      BY <2>2, <2>3, <2>4, <2>5
  <1>4. \A i, k \in callers : i # k => ToSet(talk[i].calls) \cap ToSet(talk[k].calls) = {}
    BY <1>1, <1>2 DEF Shaped
  <1>5. ASSUME NEW j \in DOMAIN talk, talk[j].role = "tool"
        PROVE  \E i \in callers : j \in Answers(i)
    <2>1. PICK i \in 1..Len(talk) : j \in After(talk, i)
      BY <1>1, <1>5 DEF Neat
    <2>2. talk[i].calls # <<>>
      BY <1>1, <2>1 DEF After
    <2> HIDE DEF Answers
    <2> QED
      BY <1>1, <1>3, <2>1, <2>2
  <1> QED
    BY <1>3, <1>4, <1>5 DEF WellFormed

(* The sanitizer makes a shaped conversation neat.                         *)
LEMMA ShapedClean ==
    ASSUME NEW talk \in Seq(Said), Shaped(talk)
    PROVE  /\ Sanitize(talk) \in Seq(Said) /\ Neat(Sanitize(talk))
           /\ MessageIds(Sanitize(talk)) \subseteq MessageIds(talk)
           /\ ToolsRise(talk) => ToolsRise(Sanitize(talk))
  <1> DEFINE N == Len(talk)
             Called(i) == UNION {ToSet(talk[j].calls) : j \in 1..(i - 1)}
             Kept(i) == talk[i].role = "tool" => talk[i].id \in Called(i)
             places == [i \in DOMAIN talk |-> i]
             K == {i \in DOMAIN talk : Kept(i)}
             kept == KeepIn(places, K)
             clean == [k \in DOMAIN kept |-> talk[kept[k]]]
  <1>1. Sanitize(talk) = clean
    BY DEF Sanitize
  <1>2. N \in Nat /\ DOMAIN talk = 1..N /\ \A i \in 1..N : talk[i] \in Said
    OBVIOUS
  <1>3. places \in Seq(1..N) /\ Len(places) = N /\ \A i \in 1..N : places[i] = i
    BY <1>2
  <1>4. \A i \in 1..N : i \in K <=> Kept(i)
    BY <1>2
  <1>5. \A i \in 1..N : /\ talk[i].calls \in Seq(Nat)
                        /\ talk[i].calls # <<>> => talk[i].role # "tool"
    BY <1>2, MessageFields
  <1> HIDE DEF K, places
  <1>6. kept \in Seq(1..N)
    BY <1>3, KeepInIn
  <1>7. PICK r : Ranks(r, places, K, kept)
    BY <1>3, KeepInRanks
  <1> HIDE DEF kept
  <1>8. /\ Len(kept) \in Nat /\ DOMAIN kept = 1..Len(kept)
    BY <1>6
  <1>9. /\ r \in [0..N -> Nat]
        /\ \A m \in K \cap (1..N) : r[m] \in 1..Len(kept) /\ kept[r[m]] = m
        /\ \A a \in 1..Len(kept) : \E m \in K \cap (1..N) : r[m] = a
    <2> HIDE DEF N
    <2>1. /\ r \in [0..N -> Nat]
          /\ \A m \in 1..N : places[m] \in K =>
                r[m] \in 1..Len(kept) /\ kept[r[m]] = places[m]
          /\ \A a \in 1..Len(kept) : \E m \in 1..N : places[m] \in K /\ r[m] = a
      BY <1>3, <1>7 DEF Ranks
    <2>2. \A i \in 1..N : places[i] = i
      BY <1>3
    <2> QED
      BY <2>1, <2>2
  <1>10. DOMAIN clean = 1..Len(kept) /\ \A m \in K \cap (1..N) : clean[r[m]] = talk[m]
    BY <1>8, <1>9
  <1>12. clean \in Seq(Said) /\ Len(clean) = Len(kept)
    <2> DEFINE M == Said
    <2> HIDE DEF M
    <2>1. \A i \in 1..N : talk[i] \in M
      BY <1>2 DEF M
    <2>2. \A k \in 1..Len(kept) : kept[k] \in 1..N
      BY <1>6
    <2>3. clean \in [1..Len(kept) -> M]
      BY <1>8, <2>1, <2>2
    <2> HIDE DEF clean
    <2> QED
      BY <1>8, <2>3 DEF M
  <1> HIDE DEF clean
  <1>11. ASSUME NEW i \in 1..N, talk[i].calls # <<>>
         PROVE  /\ i \in K /\ Len(talk[i].calls) \in Nat
                /\ i + Len(talk[i].calls) \in 1..N
                /\ \A k \in After(talk, i) : k \in K /\ k \in 1..N
                /\ \A d \in 0..Len(talk[i].calls) : r[i + d] = r[i] + d
    <2> DEFINE l == Len(talk[i].calls)
    <2>1. l \in Nat /\ l # 0
      BY <1>5, <1>11
    <2>2. \A k \in After(talk, i) :
             /\ k \in 1..N
             /\ talk[k].role = "tool" /\ talk[k].id \in ToSet(talk[i].calls)
      BY <1>11 DEF Shaped
    <2>3. i + l \in After(talk, i)
      BY <1>2, <2>1 DEF After
    <2>4. ASSUME NEW k \in After(talk, i) PROVE k \in K
      <3>1. i \in 1..(k - 1)
        BY <1>2, <2>1 DEF After
      <3>2. talk[k].id \in Called(k)
        BY <2>2, <3>1
      <3> QED
        BY <1>4, <2>2, <3>2
    <2>5. \A k \in (i + 1)..(i + Len(talk[i].calls)) : places[k] \in K
      BY <1>3, <2>2, <2>4 DEF After
    <2>6. i \in 0..Len(places) /\ i + l <= Len(places) /\ places \in Seq(1..N)
      BY <1>2, <1>3, <2>2, <2>3
    <2> HIDE DEF l
    <2>7. \A d \in 0..l : r[i + d] = r[i] + d
      <3> DEFINE T == 1..N
      <3>1. \A k \in (i + 1)..(i + l) : places[k] \in K
        BY <2>5 DEF l
      <3>2. places \in Seq(T) /\ i \in 0..Len(places) /\ l \in Nat
            /\ i + l <= Len(places)
        BY <2>1, <2>6
      <3>3. Ranks(r, places, K, kept) /\ AllIn(places, K, i, l)
        BY <1>7, <3>1, <3>2 DEF AllIn
      <3> HIDE DEF N, T
      <3> QED
        BY <3>1, <3>2, <3>3, RanksFollow
    <2>8. i \in K
      BY <1>4, <1>5, <1>11
    <2> QED
      BY <2>1, <2>2, <2>3, <2>4, <2>7, <2>8 DEF l
  <1>13. ASSUME NEW m \in 1..N, NEW n \in 1..N, m \in K, n \in K, m < n
         PROVE  r[m] < r[n]
    <2>1. places[n] \in K /\ Len(places) = N
      BY <1>3, <1>13
    <2> QED
      BY <1>7, <1>13, <2>1 DEF Ranks
  <1>14. ASSUME NEW k \in 1..N, k \in K, talk[k].role = "tool"
         PROVE  \E i \in 1..N : i \in K /\ k \in After(talk, i)
    <2>1. talk[k].id \in Called(k)
      BY <1>4, <1>14
    <2>2. PICK i \in 1..(k - 1) : talk[k].id \in ToSet(talk[i].calls)
      BY <2>1
    <2>3. i \in 1..N
      BY <1>2
    <2>4. k \in After(talk, i)
      BY <1>14, <2>2, <2>3 DEF Shaped
    <2>5. talk[i].calls # <<>>
      BY <1>5, <2>3, <2>4 DEF After
    <2> QED
      BY <1>11, <2>3, <2>4, <2>5
  <1> DEFINE P == K \cap (1..N)
  <1>15. P \subseteq 1..Len(talk)
    OBVIOUS
  <1>16. \A m \in P : r[m] \in 1..Len(clean) /\ clean[r[m]] = talk[m]
    BY <1>9, <1>10, <1>12
  <1>17. \A m, n \in P : m < n => r[m] < r[n]
    BY <1>13
  <1>18. \A a \in 1..Len(clean) : \E m \in P : r[m] = a
    BY <1>9, <1>12
  <1>19. ASSUME NEW m \in P, talk[m].calls # <<>>, NEW d \in 0..Len(talk[m].calls)
         PROVE  m + d \in P /\ r[m + d] = r[m] + d
    <2>1. /\ Len(talk[m].calls) \in Nat /\ m \in Nat
          /\ \A k \in After(talk, m) : k \in K /\ k \in 1..N
          /\ \A i \in 0..Len(talk[m].calls) : r[m + i] = r[m] + i
      BY <1>2, <1>11, <1>19
    <2>2. m + d \in After(talk, m) \/ m + d = m
      BY <2>1 DEF After
    <2> QED
      BY <2>1, <2>2
  <1>20. \A k \in P : talk[k].role = "tool" => \E i \in P : k \in After(talk, i)
    BY <1>14
  <1> HIDE DEF P
  <1>21. Moves(r, P, talk, clean)
    BY <1>15, <1>16, <1>17, <1>18, <1>19, <1>20 DEF Moves
  <1> QED
    BY <1>1, <1>12, <1>21, NeatMoved

(* The calls a conversation mentions are numbers.                          *)
LEMMA MessageIdsTyped ==
    ASSUME NEW talk \in Seq(Said)
    PROVE  MessageIds(talk) \subseteq Nat
  <1>1. DOMAIN talk = 1..Len(talk) /\ \A i \in 1..Len(talk) : talk[i] \in Said
    OBVIOUS
  <1>2. ASSUME NEW x \in MessageIds(talk) PROVE x \in Nat
    <2>1. PICK i \in 1..Len(talk) : \/ x \in ToSet(talk[i].calls)
                                    \/ talk[i].role = "tool" /\ x = talk[i].id
      BY <1>1, <1>2, MessageIdsAt
    <2>2. talk[i].calls \in Seq(Nat) /\ talk[i].id \in Nat
      BY <1>1, MessageFields
    <2>3. ToSet(talk[i].calls) \subseteq Nat
      BY <2>2, ToSetIn
    <2> QED
      BY <2>1, <2>2, <2>3
  <1> QED
    BY <1>2

(* A call of a message, or the call a tool message answers, is one the     *)
(* conversation mentions.                                                  *)
LEMMA Mentioned ==
    ASSUME NEW talk \in Seq(Said), NEW i \in 1..Len(talk)
    PROVE  /\ ToSet(talk[i].calls) \subseteq MessageIds(talk)
           /\ talk[i].role = "tool" => talk[i].id \in MessageIds(talk)
  <1>1. DOMAIN talk = 1..Len(talk)
    OBVIOUS
  <1> QED
    BY <1>1, MessageIdsAt

(* Two shaped conversations about different calls make one.                *)
LEMMA ShapedJoined ==
    ASSUME NEW h \in Seq(Said), NEW t \in Seq(Said), Shaped(h), Shaped(t),
           Below(MessageIds(h), MessageIds(t))
    PROVE  /\ h \o t \in Seq(Said) /\ Shaped(h \o t)
           /\ MessageIds(h \o t) = MessageIds(h) \cup MessageIds(t)
  <1> DEFINE all == h \o t
             n == Len(h)
  <1>1. /\ all \in Seq(Said)
        /\ Len(all) = n + Len(t)
        /\ \A k \in 1..n : all[k] = h[k]
        /\ \A k \in 1..Len(t) : all[n + k] = t[k]
        /\ \A k \in 1..Len(all) :
              k > n => k - n \in 1..Len(t) /\ all[k] = t[k - n]
    BY Concatenated
  <1>2. n \in Nat /\ Len(t) \in Nat
    OBVIOUS
  <1>3. MessageIds(all) = MessageIds(h) \cup MessageIds(t)
    <2>1. ToSet(all) = ToSet(h) \cup ToSet(t)
      BY ToSetJoined
    <2> HIDE DEF all
    <2> QED
      BY <2>1 DEF MessageIds
  <1>4. \A x : ~(x \in MessageIds(h) /\ x \in MessageIds(t))
    BY MessageIdsTyped DEF Below
  <1> DEFINE InFirst(i, k) == i \in 1..n /\ k \in 1..n /\ all[i] = h[i] /\ all[k] = h[k]
             InSecond(i, k) == /\ i - n \in 1..Len(t) /\ k - n \in 1..Len(t)
                               /\ all[i] = t[i - n] /\ all[k] = t[k - n]
  <1> HIDE DEF all
  <1>5. ASSUME NEW i \in 1..Len(all)
        PROVE  \/ i \in 1..n /\ all[i] = h[i]
               \/ i - n \in 1..Len(t) /\ all[i] = t[i - n]
    BY <1>1, <1>2
  <1>6. ASSUME NEW i \in 1..Len(all), NEW k \in 1..Len(all), NEW x,
               x \in ToSet(all[i].calls),
               \/ x \in ToSet(all[k].calls)
               \/ all[k].role = "tool" /\ x = all[k].id
        PROVE  InFirst(i, k) \/ InSecond(i, k)
    <2>1. CASE i \in 1..n /\ all[i] = h[i] /\ k - n \in 1..Len(t) /\ all[k] = t[k - n]
      <3>1. x \in MessageIds(h)
        BY <1>6, <2>1, Mentioned
      <3>2. x \in MessageIds(t)
        BY <1>6, <2>1, Mentioned
      <3> QED
        BY <1>4, <3>1, <3>2
    <2>2. CASE k \in 1..n /\ all[k] = h[k] /\ i - n \in 1..Len(t) /\ all[i] = t[i - n]
      <3>1. x \in MessageIds(h)
        BY <1>6, <2>2, Mentioned
      <3>2. x \in MessageIds(t)
        BY <1>6, <2>2, Mentioned
      <3> QED
        BY <1>4, <3>1, <3>2
    <2> QED
      BY <1>5, <2>1, <2>2
  <1>7. ASSUME NEW i \in 1..Len(all), all[i].calls # <<>>
        PROVE  /\ Increasing(all[i].calls)
               /\ \A k \in After(all, i) :
                     /\ k \in 1..Len(all)
                     /\ all[k].role = "tool" /\ all[k].id \in ToSet(all[i].calls)
               /\ \A id \in ToSet(all[i].calls) : \E k \in After(all, i) : all[k].id = id
    <2>1. CASE i \in 1..n /\ all[i] = h[i]
      <3> DEFINE l == Len(h[i].calls)
      <3>1. /\ Increasing(h[i].calls)
            /\ \A k \in (i + 1)..(i + l) :
                  /\ k \in 1..n
                  /\ h[k].role = "tool" /\ h[k].id \in ToSet(h[i].calls)
            /\ \A id \in ToSet(h[i].calls) : \E k \in (i + 1)..(i + l) : h[k].id = id
        BY <1>7, <2>1 DEF Shaped, After
      <3>2. \A k \in 1..n : k \in 1..Len(all) /\ all[k] = h[k]
        BY <1>1, <1>2
      <3>3. After(all, i) = (i + 1)..(i + l)
        BY <2>1 DEF After
      <3> HIDE DEF l, n
      <3> QED
        BY <2>1, <3>1, <3>2, <3>3
    <2>2. CASE i - n \in 1..Len(t) /\ all[i] = t[i - n]
      <3> DEFINE j == i - n
                 l == Len(t[j].calls)
      <3>1. /\ Increasing(t[j].calls)
            /\ \A k \in (j + 1)..(j + l) :
                  /\ k \in 1..Len(t)
                  /\ t[k].role = "tool" /\ t[k].id \in ToSet(t[j].calls)
            /\ \A id \in ToSet(t[j].calls) : \E k \in (j + 1)..(j + l) : t[k].id = id
        BY <1>7, <2>2 DEF Shaped, After
      <3>2. \A k \in 1..Len(t) : n + k \in 1..Len(all) /\ all[n + k] = t[k]
        BY <1>1, <1>2
      <3>3. After(all, i) = (i + 1)..(i + l) /\ j \in Nat /\ i = n + j /\ i \in Nat
            /\ all[i] = t[j]
        BY <1>2, <2>2 DEF After
      <3>4. l \in Nat
        <4>1. t[j] \in Said
          BY <2>2
        <4>2. t[j].calls \in Seq(Nat)
          BY <4>1, MessageFields
        <4> QED
          BY <4>2
      <3> HIDE DEF l, n, j
      <3>5. ASSUME NEW k \in After(all, i)
            PROVE  /\ k \in 1..Len(all)
                   /\ all[k].role = "tool" /\ all[k].id \in ToSet(all[i].calls)
        <4>0. k \in (i + 1)..(i + l)
          BY <3>3
        <4>1. k - n \in (j + 1)..(j + l) /\ k = n + (k - n)
          <5>1. i = n + j /\ n \in Nat /\ j \in Nat /\ i \in Nat
            BY <1>2, <3>3
          <5> QED
            BY <3>4, <4>0, <5>1
        <4> DEFINE m == k - n
        <4>2. m \in 1..Len(t) /\ t[m].role = "tool" /\ t[m].id \in ToSet(t[j].calls)
          BY <3>1, <4>1
        <4>3. k = n + m
          BY <4>1
        <4> HIDE DEF m
        <4>4. k \in 1..Len(all) /\ all[k] = t[m]
          BY <3>2, <4>2, <4>3
        <4> QED
          BY <3>3, <4>2, <4>4
      <3>6. ASSUME NEW id \in ToSet(all[i].calls)
            PROVE  \E k \in After(all, i) : all[k].id = id
        <4>1. PICK k \in (j + 1)..(j + l) : t[k].id = id
          BY <3>1, <3>3
        <4>2. n + k \in After(all, i) /\ all[n + k] = t[k]
          BY <1>2, <3>1, <3>2, <3>3, <3>4
        <4> QED
          BY <4>1, <4>2
      <3> QED
        BY <3>1, <3>3, <3>5, <3>6
    <2> QED
      BY <1>5, <2>1, <2>2
  <1>8. ASSUME NEW i \in 1..Len(all), NEW k \in 1..Len(all),
               all[k].role = "tool", all[k].id \in ToSet(all[i].calls)
        PROVE  k \in After(all, i)
    <2>1. CASE i \in 1..n /\ k \in 1..n /\ all[i] = h[i] /\ all[k] = h[k]
      BY <1>8, <2>1 DEF Shaped, After
    <2>2. CASE /\ i - n \in 1..Len(t) /\ k - n \in 1..Len(t)
               /\ all[i] = t[i - n] /\ all[k] = t[k - n]
      <3> DEFINE j == i - n
                 l == Len(t[j].calls)
      <3>1. k - n \in (j + 1)..(j + l)
        BY <1>8, <2>2 DEF Shaped, After
      <3>2. l \in Nat
        <4>1. t[j] \in Said
          BY <2>2
        <4>2. t[j].calls \in Seq(Nat)
          BY <4>1, MessageFields
        <4> QED
          BY <4>2
      <3>3. j \in Nat /\ i = n + j /\ After(all, i) = (i + 1)..(i + l) /\ k \in Nat
        BY <1>1, <1>2, <2>2 DEF After
      <3> HIDE DEF l, n, j
      <3> QED
        BY <1>2, <3>1, <3>2, <3>3
    <2>3. InFirst(i, k) \/ InSecond(i, k)
      <3> HIDE DEF InFirst, InSecond
      <3> QED
        BY <1>6, <1>8
    <2> QED
      BY <2>1, <2>2, <2>3
  <1>9. ASSUME NEW i \in 1..Len(all), NEW k \in 1..Len(all), i # k, NEW x,
               x \in ToSet(all[i].calls), x \in ToSet(all[k].calls)
        PROVE  FALSE
    <2>1. \/ i \in 1..n /\ k \in 1..n /\ all[i] = h[i] /\ all[k] = h[k]
          \/ /\ i - n \in 1..Len(t) /\ k - n \in 1..Len(t) /\ i - n # k - n
             /\ all[i] = t[i - n] /\ all[k] = t[k - n]
      <3>1. InFirst(i, k) \/ InSecond(i, k)
        <4> HIDE DEF InFirst, InSecond
        <4> QED
          BY <1>6, <1>9
      <3>2. i - n # k - n
        BY <1>1, <1>2, <1>9
      <3> QED
        BY <3>1, <3>2
    <2> QED
      BY <1>9, <2>1 DEF Shaped
  <1>10. Shaped(all)
    BY <1>7, <1>8, <1>9 DEF Shaped
  <1> QED
    BY <1>1, <1>3, <1>10 DEF all

(* A message of the user mentions no call.                                 *)
LEMMA UserShaped ==
    <<User>> \in Seq(Said) /\ Shaped(<<User>>) /\ MessageIds(<<User>>) = {}
  <1> DEFINE u == User
             M == Said
             one == <<u>>
  <1>1. u \in M /\ u.calls = <<>> /\ u.role # "tool" /\ ToSet(<<>>) = {}
    BY DEF Said, User, ToSet
  <1> HIDE DEF u, M
  <1>2. one \in Seq(M) /\ Len(one) = 1 /\ one[1] = u /\ DOMAIN one = 1..1
    BY <1>1
  <1> HIDE DEF one
  <1>3. \A i \in 1..Len(one) : one[i] = u
    BY <1>2
  <1>4. Shaped(one)
    BY <1>1, <1>3 DEF Shaped
  <1>5. ToSet(one) = {u}
    BY <1>2, <1>3 DEF ToSet
  <1>6. MessageIds(one) = {}
    BY <1>1, <1>5 DEF MessageIds
  <1> QED
    BY <1>2, <1>4, <1>6 DEF one, u, M

(* One more message of the user,                                           *)
LEMMA UserAdded ==
    ASSUME NEW h \in Seq(Said), Shaped(h)
    PROVE  /\ Append(h, User) \in Seq(Said) /\ Shaped(Append(h, User))
           /\ MessageIds(Append(h, User)) = MessageIds(h)
           /\ Append(h, User) # <<>>
           /\ Append(h, User)[Len(Append(h, User))] = User
  <1> DEFINE u == User
             M == Said
  <1>1. u \in M
    BY DEF Said
  <1>2. h \in Seq(M)
    OBVIOUS
  <1> HIDE DEF u, M
  <1>3. /\ Append(h, u) = h \o <<u>> /\ Append(h, u) # <<>>
        /\ Append(h, u)[Len(Append(h, u))] = u
    BY <1>1, <1>2
  <1>4. Below(MessageIds(h), MessageIds(<<User>>))
    BY UserShaped DEF Below
  <1>5. /\ h \o <<User>> \in Seq(Said) /\ Shaped(h \o <<User>>)
        /\ MessageIds(h \o <<User>>) = MessageIds(h) \cup MessageIds(<<User>>)
    BY <1>4, UserShaped, ShapedJoined
  <1> QED
    BY <1>3, <1>5, UserShaped DEF u

(* and one less.                                                           *)
LEMMA UserTaken ==
    ASSUME NEW h \in Seq(Said), Shaped(h), h # <<>>, h[Len(h)] = User
    PROVE  /\ Front(h) \in Seq(Said) /\ Shaped(Front(h))
           /\ MessageIds(Front(h)) \subseteq MessageIds(h)
  <1> DEFINE n == Len(h)
             f == Front(h)
             M == Said
  <1>1. User.calls = <<>> /\ User.role # "tool"
    BY DEF User
  <1>2. h \in Seq(M)
    OBVIOUS
  <1> HIDE DEF M
  <1>3. /\ f \in Seq(M) /\ n \in Nat /\ n # 0 /\ Len(f) = n - 1
        /\ \A k \in 1..Len(f) : f[k] = h[k]
    <2>1. n \in Nat /\ n # 0
      BY <1>2
    <2>2. f = SubSeq(h, 1, n - 1)
      BY DEF Front
    <2> HIDE DEF f, n
    <2>3. n = Len(h) /\ n - 1 \in 0..n
      BY <2>1 DEF n
    <2> QED
      BY <1>2, <2>1, <2>2, <2>3
  <1> HIDE DEF f
  <1>4. \A k \in 1..Len(f) : k \in 1..n /\ f[k] = h[k]
    BY <1>3
  <1>5. \A k \in 1..n : k \in 1..Len(f) \/ h[k] = User
    BY <1>3
  <1>6. ASSUME NEW i \in 1..Len(f), f[i].calls # <<>>
        PROVE  /\ Increasing(f[i].calls)
               /\ \A k \in After(f, i) :
                     /\ k \in 1..Len(f)
                     /\ f[k].role = "tool" /\ f[k].id \in ToSet(f[i].calls)
               /\ \A id \in ToSet(f[i].calls) : \E k \in After(f, i) : f[k].id = id
    <2>1. After(f, i) = After(h, i) /\ f[i] = h[i] /\ i \in 1..n
      BY <1>4 DEF After
    <2>2. /\ Increasing(h[i].calls)
          /\ \A k \in After(h, i) :
                /\ k \in 1..n
                /\ h[k].role = "tool" /\ h[k].id \in ToSet(h[i].calls)
          /\ \A id \in ToSet(h[i].calls) : \E k \in After(h, i) : h[k].id = id
      BY <1>6, <2>1 DEF Shaped
    <2>3. \A k \in After(h, i) : k \in 1..Len(f) /\ f[k] = h[k]
      BY <1>1, <1>4, <1>5, <2>2
    <2> HIDE DEF n
    <2> QED
      BY <2>1, <2>2, <2>3
  <1>7. ASSUME NEW i \in 1..Len(f), NEW k \in 1..Len(f),
               f[k].role = "tool", f[k].id \in ToSet(f[i].calls)
        PROVE  k \in After(f, i)
    <2>1. After(f, i) = After(h, i)
      BY <1>4 DEF After
    <2> QED
      BY <1>4, <1>7, <2>1 DEF Shaped
  <1>8. \A i, k \in 1..Len(f) : i # k => ToSet(f[i].calls) \cap ToSet(f[k].calls) = {}
    BY <1>4 DEF Shaped
  <1>9. Shaped(f)
    BY <1>6, <1>7, <1>8 DEF Shaped
  <1>10. MessageIds(f) \subseteq MessageIds(h)
    <2>1. ToSet(f) \subseteq ToSet(h)
      <3>1. DOMAIN f = 1..Len(f) /\ DOMAIN h = 1..n
        BY <1>3
      <3> QED
        BY <1>4, <3>1 DEF ToSet
    <2> QED
      BY <2>1 DEF MessageIds
  <1> QED
    BY <1>3, <1>9, <1>10 DEF f, M

(* Nothing is stripped from the end of a conversation that ends with the   *)
(* user.                                                                   *)
LEMMA UserPrepared ==
    ASSUME NEW talk \in Seq(Said), talk # <<>>, talk[Len(talk)] = User
    PROVE  PrepareForModel(talk) = Sanitize(talk)
  <1> DEFINE N == Len(talk)
             Called(i) == UNION {ToSet(talk[j].calls) : j \in 1..(i - 1)}
             Kept(i) == talk[i].role = "tool" => talk[i].id \in Called(i)
             places == [i \in DOMAIN talk |-> i]
             K == {i \in DOMAIN talk : Kept(i)}
             kept == KeepIn(places, K)
             clean == [k \in DOMAIN kept |-> talk[kept[k]]]
             results == {m.id : m \in {n \in ToSet(clean) : n.role = "tool"}}
             Stripped(m) == /\ m.role = "assistant"
                            /\ \/ m.calls = <<>>
                               \/ ~(ToSet(m.calls) \subseteq results)
             stops == {i \in DOMAIN clean : ~Stripped(clean[i])}
             last == CHOOSE i \in stops : \A j \in stops : j <= i
             all == SubSeq(clean, 1, IF stops = {} THEN 0 ELSE last)
  <1>1. Sanitize(talk) = clean
    BY DEF Sanitize
  <1>2. PrepareForModel(talk) = all
    BY <1>1 DEF PrepareForModel
  <1>3. N \in Nat /\ N # 0 /\ DOMAIN talk = 1..N /\ N \in 1..N
    OBVIOUS
  <1>4. User.role # "tool" /\ User.role # "assistant"
    BY DEF User
  <1>5. places \in Seq(1..N) /\ Len(places) = N /\ \A i \in 1..N : places[i] = i
    BY <1>3
  <1>6. N \in K
    BY <1>3, <1>4
  <1> HIDE DEF K, places
  <1>7. kept \in Seq(1..N)
    BY <1>5, KeepInIn
  <1>8. PICK r : Ranks(r, places, K, kept)
    BY <1>5, KeepInRanks
  <1> HIDE DEF kept
  <1>9. Len(kept) \in Nat /\ DOMAIN kept = 1..Len(kept)
        /\ \A k \in 1..Len(kept) : kept[k] \in 1..N
    BY <1>7
  <1>10. Len(kept) \in 1..Len(kept) /\ kept[Len(kept)] = N
    <2> HIDE DEF N
    <2>1. r[Len(places)] = Len(kept)
          /\ \A m \in 1..Len(places) : places[m] \in K =>
                r[m] \in 1..Len(kept) /\ kept[r[m]] = places[m]
      BY <1>8 DEF Ranks
    <2> QED
      BY <1>3, <1>5, <1>6, <2>1
  <1>11. clean \in Seq(Said) /\ Len(clean) = Len(kept) /\ DOMAIN clean = 1..Len(kept)
         /\ clean[Len(kept)] = User
    <2>1. \A i \in 1..N : talk[i] \in Said
      BY <1>3
    <2>2. clean \in [1..Len(kept) -> Said]
      BY <1>9, <2>1
    <2> QED
      BY <1>9, <1>10, <2>2
  <1> HIDE DEF clean
  <1>12. Len(kept) \in stops /\ \A j \in stops : j \in 1..Len(kept)
    BY <1>4, <1>10, <1>11
  <1> HIDE DEF stops
  <1>13. last = Len(kept)
    BY <1>9, <1>12
  <1>14. all = SubSeq(clean, 1, Len(clean))
    BY <1>11, <1>12, <1>13
  <1>15. SubSeq(clean, 1, Len(clean)) = clean
    BY <1>11
  <1> QED
    BY <1>1, <1>2, <1>14, <1>15

(* What the next turn replays of a shaped history is well formed.          *)
LEMMA ShapedReplays ==
    ASSUME NEW h \in Seq(Said), Shaped(h)
    PROVE  WellFormed(PrepareForModel(Append(h, User)))
  <1> DEFINE all == Append(h, User)
  <1>1. all \in Seq(Said) /\ Shaped(all) /\ all # <<>> /\ all[Len(all)] = User
    BY UserAdded
  <1> HIDE DEF all
  <1>2. PrepareForModel(all) = Sanitize(all)
    BY <1>1, UserPrepared
  <1>3. WellFormed(Sanitize(all))
    BY <1>1, ShapedClean, NeatFormed
  <1> QED
    BY <1>2, <1>3 DEF all

\* The calls that events mention.
Responses(events) == {e \in ToSet(events) : e.kind = "response"}
EventIds(events) ==
    (UNION {ToSet(e.calls) : e \in Responses(events)}) \cup ResultIds(events)

\* The responses have growing calls and share none, no call has two results,
\* and a result comes after the response with its call, with nothing between
\* them but other results of that response.
Blocks(events) ==
    /\ \A j \in 1..Len(events) : events[j].kind = "response" => Increasing(events[j].calls)
    /\ \A j, k \in 1..Len(events) :
          j # k /\ events[j].kind = "response" /\ events[k].kind = "response" =>
             ToSet(events[j].calls) \cap ToSet(events[k].calls) = {}
    /\ \A j, k \in 1..Len(events) :
          j # k /\ events[j].kind = "result" /\ events[k].kind = "result" =>
             events[j].id # events[k].id
    /\ \A k \in 1..Len(events) : events[k].kind = "result" =>
          \E j \in 1..(k - 1) :
             /\ events[j].kind = "response" /\ events[k].id \in ToSet(events[j].calls)
             /\ \A i \in (j + 1)..k : /\ events[i].kind = "result"
                                      /\ events[i].id \in ToSet(events[j].calls)

(* Which calls are mentioned where.                                        *)
LEMMA EventIdsAt ==
    ASSUME NEW events \in Seq(EventRecords), NEW x
    PROVE  /\ x \in ResultIds(events) <=>
                 \E k \in 1..Len(events) : events[k].kind = "result" /\ x = events[k].id
           /\ x \in EventIds(events) <=>
                 \E k \in 1..Len(events) :
                    \/ events[k].kind = "response" /\ x \in ToSet(events[k].calls)
                    \/ events[k].kind = "result" /\ x = events[k].id
  <1>0. DOMAIN events = 1..Len(events)
    OBVIOUS
  <1>1. \A e : e \in ToSet(events) <=> \E i \in 1..Len(events) : e = events[i]
    BY <1>0 DEF ToSet
  <1>2. x \in ResultIds(events) <=> \E e \in ToSet(events) : e.kind = "result" /\ x = e.id
    BY DEF ResultIds
  <1>3. x \in EventIds(events) <=>
           \/ \E e \in ToSet(events) : e.kind = "response" /\ x \in ToSet(e.calls)
           \/ x \in ResultIds(events)
    BY DEF EventIds, Responses
  <1> QED
    BY <1>1, <1>2, <1>3

(* The fields of an event.                                                 *)
LEMMA EventFields ==
    ASSUME NEW events \in Seq(EventRecords), NEW k \in 1..Len(events)
    PROVE  /\ events[k].calls \in Seq(Nat) /\ events[k].id \in Nat
           /\ ToSet(events[k].calls) \subseteq Nat
  <1>1. events[k] \in EventRecords
    OBVIOUS
  <1>2. events[k].calls \in Seq(Nat) /\ events[k].id \in Nat
    BY <1>1 DEF EventRecords
  <1> QED
    BY <1>2, ToSetIn

(* The calls that are mentioned are numbers.                               *)
LEMMA EventIdsTyped ==
    ASSUME NEW events \in Seq(EventRecords)
    PROVE  EventIds(events) \subseteq Nat
  BY EventIdsAt, EventFields

\* f counts the elements of S up to n.
Enumerates(f, n, S) ==
    /\ f \in [1..n -> S]
    /\ \A a, b \in 1..n : f[a] = f[b] => a = b
    /\ \A x \in S : \E a \in 1..n : f[a] = x

(* Two ways to count the elements of a set count the same.                 *)
LEMMA SameLength ==
    ASSUME NEW S, NEW n \in Nat, NEW l \in Nat, NEW f, NEW g,
           Enumerates(f, n, S), Enumerates(g, l, S)
    PROVE  n = l
  <1>1. f \in Bijection(1..n, S)
    BY DEF Enumerates, Bijection, Injection, Surjection, IsInjective
  <1>2. g \in Bijection(1..l, S)
    BY DEF Enumerates, Bijection, Injection, Surjection, IsInjective
  <1>3. ExistsBijection(1..n, S) /\ ExistsBijection(1..l, S)
    BY <1>1, <1>2 DEF ExistsBijection
  <1>4. Cardinality(S) = n
    BY <1>3, FS_CountingElements
  <1>5. Cardinality(S) = l
    BY <1>3, FS_CountingElements
  <1> QED
    BY <1>4, <1>5

(* The results of a response all of whose calls have one follow it, as     *)
(* many as there are calls.                                                *)
LEMMA AnswersFollow ==
    ASSUME NEW events \in Seq(EventRecords), Blocks(events), NEW j \in 1..Len(events),
           events[j].kind = "response", ToSet(events[j].calls) \subseteq ResultIds(events)
    PROVE  /\ Len(events[j].calls) \in Nat /\ j + Len(events[j].calls) <= Len(events)
           /\ \A k \in (j + 1)..(j + Len(events[j].calls)) :
                 events[k].kind = "result" /\ events[k].id \in ToSet(events[j].calls)
           /\ \A k \in 1..Len(events) :
                 events[k].kind = "result" /\ events[k].id \in ToSet(events[j].calls)
                 => k \in (j + 1)..(j + Len(events[j].calls))
  <1> DEFINE N == Len(events)
             calls == events[j].calls
             C == ToSet(calls)
             l == Len(calls)
             B == {k \in 1..N : events[k].kind = "result" /\ events[k].id \in C}
  <1>1. N \in Nat /\ calls \in Seq(Nat) /\ l \in Nat
    <2>1. calls \in Seq(Nat)
      BY EventFields
    <2> HIDE DEF calls
    <2> QED
      BY <2>1
  <1>2. ASSUME NEW k \in B
        PROVE  j < k /\ \A i \in (j + 1)..k : i \in B
    <2>1. PICK m \in 1..(k - 1) :
              /\ events[m].kind = "response" /\ events[k].id \in ToSet(events[m].calls)
              /\ \A i \in (m + 1)..k : /\ events[i].kind = "result"
                                       /\ events[i].id \in ToSet(events[m].calls)
      BY DEF Blocks
    <2>2. m \in 1..N /\ m < k
      BY <1>1
    <2>3. m = j
      BY <2>1, <2>2 DEF Blocks
    <2>4. \A i \in (j + 1)..k : i \in 1..N
      BY <1>1
    <2> QED
      BY <2>1, <2>2, <2>3, <2>4
  <1>3. CASE C = {}
    <2>1. calls = <<>>
      <3>1. \A i \in 1..Len(calls) : calls[i] \in C
        BY <1>1 DEF ToSet
      <3> QED
        BY <1>1, <1>3, <3>1
    <2>2. l = 0
      BY <2>1
    <2>3. \A k \in (j + 1)..(j + l) : FALSE
      BY <2>2
    <2> HIDE DEF l, C
    <2> QED
      BY <1>1, <1>3, <2>2, <2>3 DEF l, C
  <1>4. CASE C # {}
    <2>1. \A x \in C : \E k \in B : events[k].id = x
      BY EventIdsAt
    <2>2. B \in SUBSET (1..N) /\ B # {}
      BY <1>4, <2>1
    <2>3. PICK top \in B : \A k \in B : k <= top
      BY <1>1, <2>2, Greatest
    <2>4. top \in 1..N /\ j < top /\ \A k \in (j + 1)..top : k \in B
      BY <1>2, <2>3
    <2>5. \A k \in B : k \in (j + 1)..top
      BY <1>1, <1>2, <2>3
    <2> DEFINE n == top - j
               f == [i \in 1..n |-> events[j + i].id]
    <2>6. n \in Nat /\ j \in Nat /\ j + n = top
      BY <1>1, <2>4
    <2>7. ASSUME NEW i \in 1..n PROVE j + i \in B /\ j + i \in 1..N
      <3> HIDE DEF n, B
      <3>1. j + i \in (j + 1)..top
        BY <2>6
      <3> QED
        BY <2>2, <2>4, <3>1
    <2>8. f \in [1..n -> C]
      BY <2>7
    <2>9. ASSUME NEW a \in 1..n, NEW b \in 1..n, f[a] = f[b] PROVE a = b
      <3>1. events[j + a].id = events[j + b].id
        BY <2>9
      <3>2. /\ j + a \in 1..N /\ events[j + a].kind = "result"
            /\ j + b \in 1..N /\ events[j + b].kind = "result"
        BY <2>7
      <3>3. j + a = j + b
        BY <3>1, <3>2 DEF Blocks
      <3> QED
        BY <2>6, <3>3
    <2>10. ASSUME NEW x \in C PROVE \E a \in 1..n : f[a] = x
      <3>1. PICK k \in B : events[k].id = x
        BY <2>1
      <3>2. k - j \in 1..n /\ j + (k - j) = k
        BY <2>5, <2>6
      <3> QED
        BY <3>1, <3>2
    <2>11. calls \in [1..l -> C] /\ \A x \in C : \E a \in 1..l : calls[a] = x
      BY <1>1 DEF ToSet
    <2>12. \A a, b \in 1..l : calls[a] = calls[b] => a = b
      <3>1. Increasing(calls)
        BY DEF Blocks
      <3>2. IsInjective(calls) /\ DOMAIN calls = 1..l
        BY <1>1, <3>1, IncreasingInjective
      <3> HIDE DEF calls, l
      <3> QED
        BY <3>2 DEF IsInjective
    <2> HIDE DEF f, n, C, l, calls
    <2>13. n = l
      <3>1. Enumerates(f, n, C)
        BY <2>8, <2>9, <2>10 DEF Enumerates
      <3>2. Enumerates(calls, l, C)
        BY <2>11, <2>12 DEF Enumerates
      <3> QED
        BY <1>1, <2>6, <3>1, <3>2, SameLength
    <2>14. j + l = top
      BY <2>6, <2>13
    <2> QED
      BY <1>1, <2>4, <2>5, <2>14 DEF C, l, calls
  <1> QED
    BY <1>3, <1>4

\* apply_events makes a message of the event.
Stays(events, m) ==
    \/ events[m].kind = "result"
    \/ events[m].kind = "response" /\ ToSet(events[m].calls) \subseteq ResultIds(events)

\* The messages that are made of the events, each at its rank.
Makes(new, r, events) ==
    /\ r \in [0..Len(events) -> Nat]
    /\ \A m \in 1..Len(events) : Stays(events, m) =>
          /\ r[m] \in 1..Len(new)
          /\ new[r[m]] = IF events[m].kind = "response" THEN Assistant(events[m].calls)
                                                        ELSE ToolMessage(events[m].id)
    /\ \A a \in 1..Len(new) : \E m \in 1..Len(events) : Stays(events, m) /\ r[m] = a
    /\ \A m \in 1..Len(events), l \in Nat :
          m + l <= Len(events) /\ (\A k \in (m + 1)..(m + l) : Stays(events, k))
          => \A d \in 0..l : r[m + d] = r[m] + d
    /\ \A m, n \in 1..Len(events) : m < n /\ Stays(events, n) => r[m] < r[n]

(* apply_events makes these messages.                                      *)
LEMMA EventsMake ==
    ASSUME NEW h \in Seq(Said), NEW events \in Seq(EventRecords)
    PROVE  \E new \in Seq(Said) : \E r :
              ApplyEvents(h, events) = h \o new /\ Makes(new, r, events)
  <1> DEFINE Kept(e) == \/ e.kind = "result"
                        \/ /\ e.kind = "response"
                           /\ ToSet(e.calls) \subseteq ResultIds(events)
             MessageOf(e) == IF e.kind = "response" THEN Assistant(e.calls)
                                                    ELSE ToolMessage(e.id)
             K == {e \in ToSet(events) : Kept(e)}
             kept == KeepIn(events, K)
             new == [i \in DOMAIN kept |-> MessageOf(kept[i])]
             N == Len(events)
  <1>1. ApplyEvents(h, events) = h \o new
    <2> DEFINE KeptOf(t) == KeepIn(t, {e \in ToSet(t) :
                                \/ e.kind = "result"
                                \/ e.kind = "response"
                                   /\ ToSet(e.calls) \subseteq ResultIds(t)})
               New(t) == [i \in DOMAIN KeptOf(t) |-> MessageOf(KeptOf(t)[i])]
               applied == [t \in {events} |-> New(t)]
    <2>1. ApplyEvents(h, events) = h \o applied[events]
      BY DEF ApplyEvents
    <2>2. New(events) = new
      OBVIOUS
    <2>3. applied[events] = New(events)
      <3> HIDE DEF New
      <3> QED
        OBVIOUS
    <2> HIDE DEF New, applied, new
    <2> QED
      BY <2>1, <2>2, <2>3
  <1>2. kept \in Seq(EventRecords)
    BY KeepInIn
  <1>3. \A e \in EventRecords : MessageOf(e) \in Said
    BY DEF EventRecords, Said
  <1>4. PICK r : Ranks(r, events, K, kept)
    BY KeepInRanks
  <1>0. N \in Nat /\ DOMAIN events = 1..N
    OBVIOUS
  <1>5. \A m \in 1..N : events[m] \in K <=> Stays(events, m)
    BY <1>0 DEF ToSet, Stays
  <1> HIDE DEF K, kept
  <1>6. new \in Seq(Said) /\ Len(new) = Len(kept)
        /\ \A i \in 1..Len(kept) : new[i] = MessageOf(kept[i])
    <2> DEFINE M == Said
    <2> HIDE DEF M
    <2>1. \A e \in EventRecords : MessageOf(e) \in M
      BY <1>3 DEF M
    <2> HIDE DEF MessageOf
    <2>2. Len(kept) \in Nat /\ DOMAIN kept = 1..Len(kept)
          /\ \A i \in 1..Len(kept) : kept[i] \in EventRecords
      BY <1>2
    <2>3. new \in [1..Len(kept) -> M]
      BY <2>1, <2>2
    <2>4. new \in Seq(M) /\ Len(new) = Len(kept)
      BY <2>2, <2>3
    <2>5. \A i \in 1..Len(kept) : new[i] = MessageOf(kept[i])
      BY <2>2
    <2> QED
      BY <2>4, <2>5 DEF M
  <1> HIDE DEF new
  <1>7. /\ r \in [0..N -> Nat]
        /\ \A m \in 1..N : events[m] \in K => r[m] \in 1..Len(kept) /\ kept[r[m]] = events[m]
        /\ \A a \in 1..Len(kept) : \E m \in 1..N : events[m] \in K /\ r[m] = a
        /\ \A m, n \in 1..N : m < n /\ events[n] \in K => r[m] < r[n]
    BY <1>4 DEF Ranks
  <1>8. ASSUME NEW m \in 1..N, Stays(events, m)
        PROVE  r[m] \in 1..Len(new) /\ new[r[m]] = MessageOf(events[m])
    <2>1. events[m] \in K
      BY <1>5, <1>8
    <2>2. r[m] \in 1..Len(kept) /\ kept[r[m]] = events[m]
      BY <1>7, <2>1
    <2> HIDE DEF MessageOf
    <2> QED
      BY <1>6, <2>2
  <1>9. ASSUME NEW a \in 1..Len(new) PROVE \E m \in 1..N : Stays(events, m) /\ r[m] = a
    <2> HIDE DEF N
    <2> QED
      BY <1>5, <1>6, <1>7
  <1>10. ASSUME NEW m \in 1..N, NEW l \in Nat, m + l <= N,
                \A k \in (m + 1)..(m + l) : Stays(events, k)
         PROVE  \A d \in 0..l : r[m + d] = r[m] + d
    <2>1. ASSUME NEW k \in (m + 1)..(m + l) PROVE events[k] \in K
      <3>1. k \in 1..N
        BY <1>0, <1>10
      <3> QED
        BY <1>5, <1>10, <3>1
    <2>2. AllIn(events, K, m, l)
      BY <1>10, <2>1 DEF AllIn
    <2>3. m \in 0..Len(events)
      BY <1>0
    <2> HIDE DEF N
    <2> QED
      BY <1>4, <2>2, <2>3, RanksFollow
  <1>11. \A m, n \in 1..N : m < n /\ Stays(events, n) => r[m] < r[n]
    BY <1>5, <1>7
  <1>12. Makes(new, r, events)
    BY <1>7, <1>8, <1>9, <1>10, <1>11 DEF Makes
  <1> QED
    BY <1>1, <1>6, <1>12

(* The messages made of blocks are shaped.                                 *)
LEMMA MadeShaped ==
    ASSUME NEW events \in Seq(EventRecords), Blocks(events), NEW new \in Seq(Said),
           NEW r, Makes(new, r, events)
    PROVE  Shaped(new) /\ MessageIds(new) \subseteq EventIds(events)
  <1> DEFINE N == Len(events)
             Is(m) == events[m].kind = "response"
             R(m) == events[m].kind = "result"
             C(m) == ToSet(events[m].calls)
             Full(m) == Is(m) /\ C(m) \subseteq ResultIds(events)
  <1>1. N \in Nat /\ r \in [0..N -> Nat] /\ DOMAIN new = 1..Len(new)
    BY DEF Makes
  <1>2. \A m \in 1..N : Stays(events, m) <=> R(m) \/ Full(m)
    BY DEF Stays
  <1>3. ToSet(<<>>) = {}
    BY DEF ToSet
  <1>4. ASSUME NEW m \in 1..N, R(m)
        PROVE  /\ r[m] \in 1..Len(new)
               /\ new[r[m]].role = "tool" /\ new[r[m]].id = events[m].id
               /\ new[r[m]].calls = <<>>
    <2>1. r[m] \in 1..Len(new) /\ new[r[m]] = ToolMessage(events[m].id)
      BY <1>2, <1>4 DEF Makes
    <2> QED
      BY <2>1 DEF ToolMessage
  <1>5. ASSUME NEW m \in 1..N, Full(m)
        PROVE  /\ r[m] \in 1..Len(new)
               /\ new[r[m]].role # "tool" /\ new[r[m]].calls = events[m].calls
    <2>1. r[m] \in 1..Len(new) /\ new[r[m]] = Assistant(events[m].calls)
      BY <1>2, <1>5 DEF Makes
    <2> QED
      BY <2>1 DEF Assistant
  <1>6. ASSUME NEW a \in 1..Len(new)
        PROVE  \E m \in 1..N : r[m] = a /\ (R(m) \/ Full(m))
    BY <1>2 DEF Makes
  <1>7. ASSUME NEW m \in 1..N, Full(m)
        PROVE  /\ Len(events[m].calls) \in Nat /\ m + Len(events[m].calls) <= N
               /\ \A k \in (m + 1)..(m + Len(events[m].calls)) :
                     R(k) /\ events[k].id \in C(m)
               /\ \A k \in 1..N : R(k) /\ events[k].id \in C(m)
                     => k \in (m + 1)..(m + Len(events[m].calls))
               /\ \A d \in 0..Len(events[m].calls) : r[m + d] = r[m] + d
    <2> DEFINE l == Len(events[m].calls)
    <2>1. /\ l \in Nat /\ m + l <= N
          /\ \A k \in (m + 1)..(m + l) : R(k) /\ events[k].id \in C(m)
          /\ \A k \in 1..N : R(k) /\ events[k].id \in C(m) => k \in (m + 1)..(m + l)
      BY <1>7, AnswersFollow
    <2>2. \A k \in (m + 1)..(m + l) : Stays(events, k)
      BY <2>1 DEF Stays
    <2>3. \A d \in 0..l : r[m + d] = r[m] + d
      <3> HIDE DEF l
      <3> QED
        BY <2>1, <2>2 DEF Makes
    <2> QED
      BY <2>1, <2>3
  <1> HIDE DEF R, Full, N
  <1>8. ASSUME NEW a \in 1..Len(new), new[a].calls # <<>>
        PROVE  \E m \in 1..N : r[m] = a /\ Full(m)
    BY <1>4, <1>6, <1>8
  <1>9. ASSUME NEW a \in 1..Len(new), new[a].role = "tool"
        PROVE  \E m \in 1..N : r[m] = a /\ R(m)
    BY <1>5, <1>6, <1>9
  <1>10. ASSUME NEW a \in 1..Len(new), new[a].calls # <<>>
         PROVE  /\ Increasing(new[a].calls)
                /\ \A k \in After(new, a) :
                      /\ k \in 1..Len(new)
                      /\ new[k].role = "tool" /\ new[k].id \in ToSet(new[a].calls)
                /\ \A id \in ToSet(new[a].calls) : \E k \in After(new, a) : new[k].id = id
                /\ \A k \in 1..Len(new) :
                      new[k].role = "tool" /\ new[k].id \in ToSet(new[a].calls)
                      => k \in After(new, a)
    <2>1. PICK m \in 1..N : r[m] = a /\ Full(m)
      BY <1>8, <1>10
    <2> DEFINE l == Len(events[m].calls)
    <2>2. /\ l \in Nat /\ m + l <= N /\ m \in Nat /\ a \in Nat
          /\ \A k \in (m + 1)..(m + l) : R(k) /\ events[k].id \in C(m)
          /\ \A k \in 1..N : R(k) /\ events[k].id \in C(m) => k \in (m + 1)..(m + l)
          /\ \A d \in 0..l : r[m + d] = a + d
      <3>1. m \in Nat /\ a \in Nat
        BY <1>1
      <3> QED
        BY <1>7, <2>1, <3>1
    <2>3. new[a].calls = events[m].calls
      BY <1>5, <2>1
    <2>4. After(new, a) = (a + 1)..(a + l)
      BY <2>3 DEF After
    <2>5. Increasing(events[m].calls)
      BY <2>1 DEF Blocks, Full, N
    <2> HIDE DEF l, C
    <2>6. ASSUME NEW k \in (a + 1)..(a + l)
          PROVE  \E n \in (m + 1)..(m + l) : n \in 1..N /\ r[n] = k
      <3> DEFINE d == k - a
      <3>1. d \in 1..l /\ k = a + d
        BY <2>2
      <3> HIDE DEF d
      <3>2. m + d \in (m + 1)..(m + l) /\ m + d \in 1..N /\ d \in 0..l
        BY <1>1, <2>2, <3>1
      <3>3. r[m + d] = k
        BY <2>2, <3>1, <3>2
      <3> QED
        BY <3>2, <3>3
    <2>7. ASSUME NEW n \in (m + 1)..(m + l) PROVE n \in 1..N /\ r[n] \in (a + 1)..(a + l)
      <3> DEFINE d == n - m
      <3>1. d \in 1..l /\ n = m + d /\ n \in 1..N
        BY <1>1, <2>2
      <3> HIDE DEF d
      <3>2. r[n] = a + d
        BY <2>2, <3>1
      <3> QED
        BY <2>2, <3>1, <3>2
    <2>8. ASSUME NEW k \in (a + 1)..(a + l)
          PROVE  k \in 1..Len(new) /\ new[k].role = "tool" /\ new[k].id \in C(m)
      <3>1. PICK n \in (m + 1)..(m + l) : n \in 1..N /\ r[n] = k
        BY <2>6
      <3>2. R(n) /\ events[n].id \in C(m)
        BY <2>2
      <3> QED
        BY <1>4, <3>1, <3>2
    <2>9. ASSUME NEW id \in C(m) PROVE \E k \in (a + 1)..(a + l) : new[k].id = id
      <3>1. PICK n \in 1..N : R(n) /\ events[n].id = id
        <4>1. id \in ResultIds(events)
          BY <2>1 DEF Full
        <4> QED
          BY <4>1, EventIdsAt DEF R, N
      <3>2. n \in (m + 1)..(m + l)
        BY <2>2, <3>1
      <3> QED
        BY <1>4, <2>7, <3>1, <3>2
    <2>10. ASSUME NEW k \in 1..Len(new), new[k].role = "tool", new[k].id \in C(m)
           PROVE  k \in (a + 1)..(a + l)
      <3>1. PICK n \in 1..N : r[n] = k /\ R(n)
        BY <1>9, <2>10
      <3>2. events[n].id \in C(m)
        BY <1>4, <2>10, <3>1
      <3>3. n \in (m + 1)..(m + l)
        BY <2>2, <3>1, <3>2
      <3> QED
        BY <2>7, <3>1, <3>3
    <2>11. ToSet(new[a].calls) = C(m)
      BY <2>3 DEF C
    <2> QED
      BY <2>3, <2>4, <2>5, <2>8, <2>9, <2>10, <2>11
  <1>11. \A a \in 1..Len(new) : ToSet(new[a].calls) # {} => new[a].calls # <<>>
    BY <1>3
  <1>12. ASSUME NEW a \in 1..Len(new), NEW b \in 1..Len(new), a # b
         PROVE  ToSet(new[a].calls) \cap ToSet(new[b].calls) = {}
    <2>1. CASE new[a].calls = <<>> \/ new[b].calls = <<>>
      BY <1>3, <2>1
    <2>2. CASE new[a].calls # <<>> /\ new[b].calls # <<>>
      <3>1. PICK m \in 1..N : r[m] = a /\ Full(m)
        BY <1>8, <2>2
      <3>2. PICK n \in 1..N : r[n] = b /\ Full(n)
        BY <1>8, <2>2
      <3>3. m # n
        BY <1>12, <3>1, <3>2
      <3>4. C(m) \cap C(n) = {}
        BY <3>1, <3>2, <3>3 DEF Blocks, Full, N
      <3> QED
        BY <1>5, <3>1, <3>2, <3>4
    <2> QED
      BY <2>1, <2>2
  <1>13. ASSUME NEW a \in 1..Len(new), NEW k \in 1..Len(new),
                new[k].role = "tool", new[k].id \in ToSet(new[a].calls)
         PROVE  k \in After(new, a)
    <2>1. new[a].calls # <<>>
      BY <1>11, <1>13
    <2> QED
      BY <1>10, <1>13, <2>1
  <1>14. Shaped(new)
    BY <1>10, <1>12, <1>13 DEF Shaped
  <1>15. ASSUME NEW x \in MessageIds(new) PROVE x \in EventIds(events)
    <2>1. PICK a \in 1..Len(new) : \/ x \in ToSet(new[a].calls)
                                   \/ new[a].role = "tool" /\ x = new[a].id
      BY <1>1, <1>15, MessageIdsAt
    <2>2. CASE x \in ToSet(new[a].calls)
      <3>1. PICK m \in 1..N : r[m] = a /\ Full(m)
        BY <1>8, <1>11, <2>2
      <3>2. x \in C(m) /\ Is(m)
        BY <1>5, <2>2, <3>1 DEF Full
      <3> QED
        BY <3>2, EventIdsAt DEF N
    <2>3. CASE new[a].role = "tool" /\ x = new[a].id
      <3>1. PICK m \in 1..N : r[m] = a /\ R(m)
        BY <1>9, <2>3
      <3>2. x = events[m].id
        BY <1>4, <2>3, <3>1
      <3> QED
        BY <3>1, <3>2, EventIdsAt DEF N, R
    <2> QED
      BY <2>1, <2>2, <2>3
  <1> QED
    BY <1>14, <1>15

(* A history stays shaped when blocks about later calls are applied to it. *)
LEMMA BlocksApplied ==
    ASSUME NEW h \in Seq(Said), Shaped(h), NEW events \in Seq(EventRecords),
           Blocks(events), Below(MessageIds(h), EventIds(events))
    PROVE  /\ ApplyEvents(h, events) \in Seq(Said) /\ Shaped(ApplyEvents(h, events))
           /\ MessageIds(ApplyEvents(h, events))
                 \subseteq MessageIds(h) \cup EventIds(events)
  <1>1. PICK new \in Seq(Said) : \E r :
            ApplyEvents(h, events) = h \o new /\ Makes(new, r, events)
    BY EventsMake
  <1>2. PICK r : ApplyEvents(h, events) = h \o new /\ Makes(new, r, events)
    BY <1>1
  <1>3. Shaped(new) /\ MessageIds(new) \subseteq EventIds(events)
    BY <1>2, MadeShaped
  <1>4. Below(MessageIds(h), MessageIds(new))
    BY <1>3 DEF Below
  <1>5. /\ h \o new \in Seq(Said) /\ Shaped(h \o new)
        /\ MessageIds(h \o new) = MessageIds(h) \cup MessageIds(new)
    BY <1>3, <1>4, ShapedJoined
  <1> QED
    BY <1>2, <1>3, <1>5

\* The last response has these calls, and only its results follow it.
Current(events, calls) ==
    \E j \in 1..Len(events) :
       /\ events[j].kind = "response" /\ events[j].calls = calls
       /\ \A i \in (j + 1)..Len(events) : /\ events[i].kind = "result"
                                          /\ events[i].id \in ToSet(calls)

(* The calls that two joined sequences of events mention.                  *)
LEMMA EventIdsJoined ==
    ASSUME NEW s \in Seq(EventRecords), NEW t \in Seq(EventRecords)
    PROVE  EventIds(s \o t) = EventIds(s) \cup EventIds(t)
  <1>1. ToSet(s \o t) = ToSet(s) \cup ToSet(t)
    BY ToSetJoined
  <1>2. ResultIds(s \o t) = ResultIds(s) \cup ResultIds(t)
    BY ResultsJoined
  <1> QED
    BY <1>1, <1>2 DEF EventIds, Responses

(* Blocks followed by blocks about other calls.                            *)
LEMMA BlocksJoined ==
    ASSUME NEW s \in Seq(EventRecords), NEW t \in Seq(EventRecords), Blocks(s), Blocks(t),
           \A x : ~(x \in EventIds(s) /\ x \in EventIds(t))
    PROVE  s \o t \in Seq(EventRecords) /\ Blocks(s \o t)
  <1> DEFINE all == s \o t
             n == Len(s)
             First(i) == i \in 1..n /\ all[i] = s[i]
             Second(i) == i - n \in 1..Len(t) /\ all[i] = t[i - n]
             CallsAt(i) == ToSet(all[i].calls)
             Is(i) == all[i].kind = "response"
             R(i) == all[i].kind = "result"
  <1>1. /\ all \in Seq(EventRecords)
        /\ Len(all) = n + Len(t)
        /\ \A k \in 1..n : all[k] = s[k]
        /\ \A k \in 1..Len(t) : all[n + k] = t[k]
        /\ \A k \in 1..Len(all) : k > n => k - n \in 1..Len(t) /\ all[k] = t[k - n]
    BY Concatenated
  <1>2. n \in Nat /\ Len(t) \in Nat
    OBVIOUS
  <1> HIDE DEF all
  <1>3. ASSUME NEW i \in 1..Len(all) PROVE First(i) \/ Second(i)
    BY <1>1, <1>2
  <1>4. ASSUME NEW i \in 1..Len(all), First(i), NEW x,
               \/ Is(i) /\ x \in CallsAt(i)
               \/ R(i) /\ x = all[i].id
        PROVE  x \in EventIds(s)
    BY <1>4, EventIdsAt
  <1>5. ASSUME NEW i \in 1..Len(all), Second(i), NEW x,
               \/ Is(i) /\ x \in CallsAt(i)
               \/ R(i) /\ x = all[i].id
        PROVE  x \in EventIds(t)
    BY <1>5, EventIdsAt
  <1>6. ASSUME NEW i \in 1..Len(all), NEW k \in 1..Len(all), i # k, Is(i), Is(k),
               NEW x, x \in CallsAt(i), x \in CallsAt(k)
        PROVE  FALSE
    <2>1. CASE First(i) /\ First(k)
      BY <1>6, <2>1 DEF Blocks
    <2>2. CASE Second(i) /\ Second(k)
      <3> DEFINE a == i - n
                 b == k - n
      <3>1. a # b
        BY <1>1, <1>2, <1>6
      <3>2. /\ a \in 1..Len(t) /\ t[a].kind = "response" /\ x \in ToSet(t[a].calls)
            /\ b \in 1..Len(t) /\ t[b].kind = "response" /\ x \in ToSet(t[b].calls)
        BY <1>6, <2>2
      <3> HIDE DEF a, b
      <3>3. ToSet(t[a].calls) \cap ToSet(t[b].calls) = {}
        BY <3>1, <3>2 DEF Blocks
      <3> QED
        BY <3>2, <3>3
    <2>3. CASE (First(i) /\ Second(k)) \/ (Second(i) /\ First(k))
      <3> HIDE DEF First, Second, CallsAt, Is
      <3> QED
        BY <1>4, <1>5, <1>6, <2>3
    <2> QED
      BY <1>3, <2>1, <2>2, <2>3
  <1>7. ASSUME NEW i \in 1..Len(all), NEW k \in 1..Len(all), i # k, R(i), R(k)
        PROVE  all[i].id # all[k].id
    <2>1. CASE First(i) /\ First(k)
      BY <1>7, <2>1 DEF Blocks
    <2>2. CASE Second(i) /\ Second(k)
      <3>1. i - n # k - n
        BY <1>1, <1>2, <1>7
      <3> QED
        BY <1>7, <2>2, <3>1 DEF Blocks
    <2>3. CASE (First(i) /\ Second(k)) \/ (Second(i) /\ First(k))
      <3> HIDE DEF First, Second, CallsAt, R
      <3> QED
        BY <1>4, <1>5, <1>7, <2>3
    <2> QED
      BY <1>3, <2>1, <2>2, <2>3
  <1>8. ASSUME NEW i \in 1..Len(all), Is(i) PROVE Increasing(all[i].calls)
    BY <1>3, <1>8 DEF Blocks
  <1>9. ASSUME NEW k \in 1..Len(all), R(k)
        PROVE  \E j \in 1..(k - 1) :
                  /\ Is(j) /\ all[k].id \in CallsAt(j)
                  /\ \A i \in (j + 1)..k : R(i) /\ all[i].id \in CallsAt(j)
    <2>1. CASE First(k)
      <3>1. PICK j \in 1..(k - 1) :
                /\ s[j].kind = "response" /\ s[k].id \in ToSet(s[j].calls)
                /\ \A i \in (j + 1)..k : /\ s[i].kind = "result"
                                         /\ s[i].id \in ToSet(s[j].calls)
        BY <1>9, <2>1 DEF Blocks
      <3>2. all[j] = s[j] /\ all[k] = s[k] /\ \A i \in (j + 1)..k : all[i] = s[i]
        <4>1. j \in 1..n /\ k \in 1..n /\ \A i \in (j + 1)..k : i \in 1..n
          BY <1>2, <2>1
        <4> QED
          BY <1>1, <4>1
      <3> QED
        BY <3>1, <3>2
    <2>2. CASE Second(k)
      <3> DEFINE m == k - n
      <3>1. m \in 1..Len(t) /\ k = n + m /\ all[k] = t[m]
        BY <1>1, <1>2, <2>2
      <3> HIDE DEF m
      <3>2. PICK j \in 1..(m - 1) :
                /\ t[j].kind = "response" /\ t[m].id \in ToSet(t[j].calls)
                /\ \A i \in (j + 1)..m : /\ t[i].kind = "result"
                                         /\ t[i].id \in ToSet(t[j].calls)
        BY <1>9, <3>1 DEF Blocks
      <3>3. n + j \in 1..(k - 1) /\ all[n + j] = t[j]
        BY <1>1, <1>2, <3>1
      <3>4. ASSUME NEW i \in (n + j + 1)..k PROVE R(i) /\ all[i].id \in ToSet(t[j].calls)
        <4> DEFINE d == i - n
        <4>1. d \in (j + 1)..m /\ i = n + d /\ d \in 1..Len(t)
          BY <1>2, <3>1
        <4> HIDE DEF d
        <4>2. all[i] = t[d]
          BY <1>1, <4>1
        <4> QED
          BY <3>2, <4>1, <4>2
      <3> QED
        BY <3>1, <3>2, <3>3, <3>4
    <2> QED
      BY <1>3, <2>1, <2>2
  <1>10. Blocks(all)
    BY <1>6, <1>7, <1>8, <1>9 DEF Blocks
  <1> QED
    BY <1>1, <1>10 DEF all

\* Results of these calls, one for each.
ResultsIn(results, calls) ==
    /\ \A k \in 1..Len(results) : /\ results[k].kind = "result"
                                  /\ results[k].id \in calls
    /\ \A j, k \in 1..Len(results) : j # k => results[j].id # results[k].id

(* Results of the last response extend its block.                          *)
LEMMA BlocksGrow ==
    ASSUME NEW events \in Seq(EventRecords), Blocks(events), NEW calls,
           Current(events, calls), NEW results \in Seq(EventRecords),
           ResultsIn(results, ToSet(calls) \ ResultIds(events))
    PROVE  /\ events \o results \in Seq(EventRecords)
           /\ Blocks(events \o results) /\ Current(events \o results, calls)
           /\ EventIds(events \o results) = EventIds(events)
  <1> DEFINE all == events \o results
             n == Len(events)
             C == ToSet(calls)
             R(i) == all[i].kind = "result"
  <1>1. /\ all \in Seq(EventRecords)
        /\ Len(all) = n + Len(results)
        /\ \A k \in 1..n : all[k] = events[k]
        /\ \A k \in 1..Len(all) :
              k > n => k - n \in 1..Len(results) /\ all[k] = results[k - n]
    BY Concatenated
  <1>2. n \in Nat /\ Len(results) \in Nat
    OBVIOUS
  <1>3. PICK j \in 1..n :
            /\ events[j].kind = "response" /\ events[j].calls = calls
            /\ \A i \in (j + 1)..n : events[i].kind = "result" /\ events[i].id \in C
    BY DEF Current
  <1>4. ASSUME NEW k \in 1..Len(results)
        PROVE  results[k].kind = "result" /\ results[k].id \in C
               /\ results[k].id \notin ResultIds(events)
    BY DEF ResultsIn
  <1>5. \A i, k \in 1..Len(results) : i # k => results[i].id # results[k].id
    BY DEF ResultsIn
  <1>6. EventIds(all) = EventIds(events)
    <2>1. EventIds(all) = EventIds(events) \cup EventIds(results)
      BY EventIdsJoined
    <2>2. ASSUME NEW x \in EventIds(results) PROVE x \in EventIds(events)
      <3>1. PICK k \in 1..Len(results) : x = results[k].id
        BY <1>4, <2>2, EventIdsAt
      <3>2. x \in ToSet(events[j].calls)
        BY <1>3, <1>4, <3>1
      <3> QED
        BY <1>3, <3>2, EventIdsAt
    <2> QED
      BY <2>1, <2>2
  <1> HIDE DEF all
  <1>7. ASSUME NEW i \in 1..Len(all)
        PROVE  \/ i \in 1..n /\ all[i] = events[i]
               \/ /\ i > n /\ i - n \in 1..Len(results) /\ all[i] = results[i - n]
                  /\ R(i) /\ all[i].id \in C /\ all[i].id \notin ResultIds(events)
    <2>1. i \in 1..n \/ i > n
      BY <1>1, <1>2
    <2> QED
      BY <1>1, <1>4, <2>1
  <1>8. all[j].kind = "response" /\ all[j].calls = calls /\ j \in 1..Len(all)
    BY <1>1, <1>2, <1>3
  <1>9. ASSUME NEW i \in (j + 1)..Len(all) PROVE R(i) /\ all[i].id \in C
    <2>1. i \in 1..Len(all) /\ (i \in 1..n => i \in (j + 1)..n)
      BY <1>2
    <2> QED
      BY <1>3, <1>7, <2>1
  <1>10. Current(all, calls)
    BY <1>8, <1>9 DEF Current
  <1>11. ASSUME NEW i \in 1..Len(all), all[i].kind = "response"
         PROVE  i \in 1..n /\ all[i] = events[i]
    BY <1>7, <1>11
  <1>12. ASSUME NEW i \in 1..Len(all), NEW k \in 1..Len(all), i # k, R(i), R(k)
         PROVE  all[i].id # all[k].id
    <2>1. CASE i \in 1..n /\ k \in 1..n
      <3>1. \A a, b \in 1..n :
               a # b /\ events[a].kind = "result" /\ events[b].kind = "result" =>
                  events[a].id # events[b].id
        BY DEF Blocks
      <3>2. all[i] = events[i] /\ all[k] = events[k]
        BY <1>1, <2>1
      <3> QED
        BY <1>12, <2>1, <3>1, <3>2
    <2>2. CASE i \in 1..n /\ k \notin 1..n
      <3>1. all[i].id \in ResultIds(events)
        BY <1>1, <1>12, <2>2, EventIdsAt
      <3> QED
        BY <1>7, <2>2, <3>1
    <2>3. CASE i \notin 1..n /\ k \in 1..n
      <3>1. all[k].id \in ResultIds(events)
        BY <1>1, <1>12, <2>3, EventIdsAt
      <3> QED
        BY <1>7, <2>3, <3>1
    <2>4. CASE i \notin 1..n /\ k \notin 1..n
      <3>1. i - n \in 1..Len(results) /\ k - n \in 1..Len(results)
            /\ all[i] = results[i - n] /\ all[k] = results[k - n]
        BY <1>7, <2>4
      <3>2. i - n # k - n
        BY <1>1, <1>2, <1>12
      <3> QED
        BY <1>5, <3>1, <3>2
    <2> QED
      BY <2>1, <2>2, <2>3, <2>4
  <1>13. ASSUME NEW k \in 1..Len(all), R(k)
         PROVE  \E m \in 1..(k - 1) :
                   /\ all[m].kind = "response" /\ all[k].id \in ToSet(all[m].calls)
                   /\ \A i \in (m + 1)..k : R(i) /\ all[i].id \in ToSet(all[m].calls)
    <2>1. CASE k \in 1..n
      <3>1. PICK m \in 1..(k - 1) :
                /\ events[m].kind = "response" /\ events[k].id \in ToSet(events[m].calls)
                /\ \A i \in (m + 1)..k : /\ events[i].kind = "result"
                                         /\ events[i].id \in ToSet(events[m].calls)
        BY <1>1, <1>13, <2>1 DEF Blocks
      <3>2. all[m] = events[m] /\ all[k] = events[k] /\ \A i \in (m + 1)..k : all[i] = events[i]
        BY <1>1, <1>2, <2>1
      <3> QED
        BY <3>1, <3>2
    <2>2. CASE k \notin 1..n
      <3>1. j \in 1..(k - 1) /\ \A i \in (j + 1)..k : i \in (j + 1)..Len(all)
        BY <1>2, <2>2
      <3>2. k \in (j + 1)..k
        BY <3>1, <1>2, <2>2
      <3> QED
        BY <1>8, <1>9, <3>1, <3>2
    <2> QED
      BY <2>1, <2>2
  <1>14. /\ \A i \in 1..Len(all) : all[i].kind = "response" => Increasing(all[i].calls)
         /\ \A i, k \in 1..Len(all) :
              i # k /\ all[i].kind = "response" /\ all[k].kind = "response" =>
                 ToSet(all[i].calls) \cap ToSet(all[k].calls) = {}
    <2>1. /\ \A i \in 1..n : events[i].kind = "response" => Increasing(events[i].calls)
          /\ \A i, k \in 1..n :
               i # k /\ events[i].kind = "response" /\ events[k].kind = "response" =>
                  ToSet(events[i].calls) \cap ToSet(events[k].calls) = {}
      BY DEF Blocks
    <2> HIDE DEF n
    <2> QED
      BY <1>11, <2>1
  <1>15. Blocks(all)
    BY <1>12, <1>13, <1>14 DEF Blocks
  <1> QED
    BY <1>1, <1>6, <1>10, <1>15 DEF all

\* Events about no call.
Plain(events) ==
    \A k \in 1..Len(events) : events[k].kind # "result" /\ events[k].calls = <<>>

(* They are blocks, whatever they follow.                                  *)
LEMMA PlainBlocks ==
    ASSUME NEW s \in Seq(EventRecords), Blocks(s), NEW t \in Seq(EventRecords), Plain(t)
    PROVE  /\ s \o t \in Seq(EventRecords) /\ Blocks(s \o t)
           /\ EventIds(s \o t) = EventIds(s)
  <1>1. ToSet(<<>>) = {}
    BY DEF ToSet
  <1>2. Increasing(<<>>)
    BY DEF Increasing
  <1>3. Blocks(t)
    BY <1>1, <1>2 DEF Plain, Blocks
  <1>4. \A x : x \notin EventIds(t)
    BY <1>1, EventIdsAt DEF Plain
  <1>5. s \o t \in Seq(EventRecords) /\ Blocks(s \o t)
    BY <1>3, <1>4, BlocksJoined
  <1>6. EventIds(s \o t) = EventIds(s)
    <2>1. EventIds(t) = {}
      BY <1>4
    <2>2. EventIds(s \o t) = EventIds(s) \cup EventIds(t)
      BY EventIdsJoined
    <2> QED
      BY <2>1, <2>2
  <1> QED
    BY <1>5, <1>6

\* _history_safe_completed_events keeps something of the event.
Left(events, m) ==
    ~ /\ events[m].kind = "response"
      /\ events[m].calls # <<>>
      /\ KeepIn(events[m].calls, ResultIds(events)) = <<>>

\* What it keeps, each at its rank.
SafeRanks(h, r, events) ==
    /\ r \in [0..Len(events) -> Nat]
    /\ \A m \in 1..Len(events) : Left(events, m) =>
          r[m] \in 1..Len(h) /\ Narrows(h[r[m]], events[m], ResultIds(events))
    /\ \A a \in 1..Len(h) : \E m \in 1..Len(events) : Left(events, m) /\ r[m] = a
    /\ \A m, n \in 1..Len(events) : m <= n => r[m] <= r[n]
    /\ \A m, n \in 1..Len(events) : m < n /\ Left(events, n) => r[m] < r[n]

(* The completed part of events with a result.                             *)
LEMMA SafeRanked ==
    ASSUME NEW events \in Seq(EventRecords), ResultIds(events) # {}
    PROVE  \E r : SafeRanks(HistorySafe(events), r, events)
  <1> DEFINE done == ResultIds(events)
             Narrow(e) == [e EXCEPT !.calls = KeepIn(@, done)]
             Dropped(e) == /\ e.kind = "response"
                           /\ e.calls # <<>>
                           /\ Narrow(e).calls = <<>>
             K == {e \in ToSet(events) : ~Dropped(e)}
             kept == KeepIn(events, K)
             h == HistorySafe(events)
             all == [i \in DOMAIN kept |-> Narrow(kept[i])]
             N == Len(events)
  <1>1. h = all
    BY DEF HistorySafe
  <1>2. ASSUME NEW e \in EventRecords
        PROVE  Narrows(Narrow(e), e, done)
    <2> DEFINE c == KeepIn(e.calls, done)
    <2> HIDE DEF c, done
    <2>3. Narrow(e) = [e EXCEPT !.calls = c]
      BY DEF c
    <2> DEFINE x == Narrow(e)
    <2> HIDE DEF x
    <2>4. x.usage = e.usage /\ x.kind = e.kind /\ x.id = e.id /\ x.calls = c
      BY <2>3 DEF EventRecords, x
    <2> QED
      BY <2>4 DEF Narrows, x, c
  <1>3. kept \in Seq(EventRecords)
    BY KeepInIn
  <1>4. PICK r : Ranks(r, events, K, kept)
    BY KeepInRanks
  <1>0. N \in Nat /\ DOMAIN events = 1..N /\ \A m \in 1..N : events[m] \in EventRecords
    OBVIOUS
  <1>5. ASSUME NEW m \in 1..N PROVE events[m] \in K <=> Left(events, m)
    <2>1. events[m] \in K <=> ~Dropped(events[m])
      BY <1>0 DEF ToSet
    <2>2. Narrow(events[m]).calls = KeepIn(events[m].calls, done)
      BY <1>0, <1>2 DEF Narrows
    <2> HIDE DEF K, Narrow
    <2> QED
      BY <2>1, <2>2 DEF Left
  <1> HIDE DEF K, kept, Narrow, h
  <1>6. /\ Len(kept) \in Nat /\ DOMAIN kept = 1..Len(kept)
        /\ \A a \in 1..Len(kept) : kept[a] \in EventRecords
    BY <1>3
  <1>7. Len(all) = Len(kept) /\ \A a \in 1..Len(kept) : all[a] = Narrow(kept[a])
    <2>1. all = [i \in 1..Len(kept) |-> Narrow(kept[i])]
      BY <1>6
    <2> QED
      BY <1>6, <2>1
  <1> HIDE DEF all
  <1>8. /\ r \in [0..N -> Nat]
        /\ \A m \in 1..N : events[m] \in K => r[m] \in 1..Len(kept) /\ kept[r[m]] = events[m]
        /\ \A a \in 1..Len(kept) : \E m \in 1..N : events[m] \in K /\ r[m] = a
        /\ \A m, n \in 0..N : m <= n => r[m] <= r[n]
        /\ \A m, n \in 1..N : m < n /\ events[n] \in K => r[m] < r[n]
    BY <1>4 DEF Ranks
  <1>9. ASSUME NEW m \in 1..N, Left(events, m)
        PROVE  r[m] \in 1..Len(all) /\ Narrows(all[r[m]], events[m], done)
    <2>1. r[m] \in 1..Len(kept) /\ kept[r[m]] = events[m]
      BY <1>5, <1>8, <1>9
    <2> QED
      BY <1>0, <1>2, <1>7, <2>1
  <1>10. \A m, n \in 1..N : m <= n => r[m] <= r[n]
    <2>1. \A m \in 1..N : m \in 0..N
      BY <1>0
    <2> HIDE DEF N
    <2> QED
      BY <1>8, <2>1
  <1>11. /\ \A a \in 1..Len(all) : \E m \in 1..N : Left(events, m) /\ r[m] = a
         /\ \A m, n \in 1..N : m < n /\ Left(events, n) => r[m] < r[n]
    <2> HIDE DEF N
    <2> QED
      BY <1>5, <1>7, <1>8
  <1>12. SafeRanks(all, r, events)
    BY <1>8, <1>9, <1>10, <1>11 DEF SafeRanks
  <1> QED
    BY <1>1, <1>12 DEF h

(* What it keeps of an event with a result stays.                          *)
LEMMA LeftEvents ==
    ASSUME NEW events \in Seq(EventRecords), NEW m \in 1..Len(events)
    PROVE  /\ events[m].kind = "result" => Left(events, m)
           /\ \A x \in ToSet(events[m].calls) \cap ResultIds(events) : Left(events, m)
           /\ ToSet(KeepIn(events[m].calls, ResultIds(events)))
                 = ToSet(events[m].calls) \cap ResultIds(events)
           /\ Increasing(events[m].calls) =>
                 Increasing(KeepIn(events[m].calls, ResultIds(events)))
  <1>1. events[m].calls \in Seq(Nat)
    BY EventFields
  <1>2. ToSet(KeepIn(events[m].calls, ResultIds(events)))
           = ToSet(events[m].calls) \cap ResultIds(events)
    BY <1>1, KeepInToSet
  <1>3. Increasing(events[m].calls) =>
           Increasing(KeepIn(events[m].calls, ResultIds(events)))
    BY <1>1, KeepInIncreasing
  <1>4. ToSet(<<>>) = {}
    BY DEF ToSet
  <1> QED
    BY <1>2, <1>3, <1>4 DEF Left

(* The completed part of blocks is blocks, of the calls with a result.     *)
LEMMA SafeBlocks ==
    ASSUME NEW events \in Seq(EventRecords), Blocks(events)
    PROVE  /\ HistorySafe(events) \in Seq(EventRecords) /\ Blocks(HistorySafe(events))
           /\ EventIds(HistorySafe(events)) \subseteq ResultIds(events)
  <1> DEFINE h == HistorySafe(events)
             done == ResultIds(events)
             N == Len(events)
             C(m) == ToSet(events[m].calls)
  <1>1. h \in Seq(EventRecords)
    BY SafeReplays
  <1>2. CASE done = {}
    <2>1. h = <<>>
      BY <1>2 DEF HistorySafe
    <2>2. Len(h) = 0
      BY <2>1
    <2> HIDE DEF h
    <2>3. Blocks(h)
      BY <2>2 DEF Blocks
    <2> HIDE DEF done, N, C
    <2>5. ASSUME NEW x PROVE x \notin EventIds(h)
      <3>1. \A k \in 1..Len(h) : FALSE
        BY <2>2
      <3>2. x \in EventIds(h) <=>
                 \E k \in 1..Len(h) :
                    \/ h[k].kind = "response" /\ x \in ToSet(h[k].calls)
                    \/ h[k].kind = "result" /\ x = h[k].id
        BY <1>1, EventIdsAt
      <3> QED
        BY <3>1, <3>2
    <2>4. EventIds(h) \subseteq done
      BY <2>5
    <2> QED
      BY <1>1, <2>3, <2>4 DEF h, done
  <1>3. CASE done # {}
    <2>1. PICK r : SafeRanks(h, r, events)
      BY <1>3, SafeRanked
    <2>2. /\ r \in [0..N -> Nat] /\ N \in Nat /\ Len(h) \in Nat
          /\ \A m \in 1..N : Left(events, m) =>
                r[m] \in 1..Len(h) /\ Narrows(h[r[m]], events[m], done)
          /\ \A a \in 1..Len(h) : \E m \in 1..N : Left(events, m) /\ r[m] = a
          /\ \A m, n \in 1..N : m <= n => r[m] <= r[n]
          /\ \A m, n \in 1..N : m < n /\ Left(events, n) => r[m] < r[n]
      <3>1. N \in Nat /\ Len(h) \in Nat
        BY <1>1
      <3> QED
        BY <2>1, <3>1 DEF SafeRanks
    <2> HIDE DEF h, N, done
    <2>3. ASSUME NEW m \in 1..N, Left(events, m)
          PROVE  /\ r[m] \in 1..Len(h)
                 /\ h[r[m]].kind = events[m].kind /\ h[r[m]].id = events[m].id
                 /\ ToSet(h[r[m]].calls) = C(m) \cap done
                 /\ Increasing(events[m].calls) => Increasing(h[r[m]].calls)
      <3>1. r[m] \in 1..Len(h) /\ Narrows(h[r[m]], events[m], done)
        BY <2>2, <2>3
      <3> QED
        BY <3>1, LeftEvents DEF Narrows, done, N
    <2>4. ASSUME NEW a \in 1..Len(h), h[a].kind = "response"
          PROVE  Increasing(h[a].calls)
      <3>1. PICK m \in 1..N : Left(events, m) /\ r[m] = a
        BY <2>2
      <3>2. Increasing(events[m].calls)
        BY <2>3, <2>4, <3>1 DEF Blocks, N
      <3> QED
        BY <2>3, <3>1, <3>2
    <2>5. ASSUME NEW a \in 1..Len(h), NEW b \in 1..Len(h), a # b,
                 h[a].kind = "response", h[b].kind = "response"
          PROVE  ToSet(h[a].calls) \cap ToSet(h[b].calls) = {}
      <3>1. PICK m \in 1..N : Left(events, m) /\ r[m] = a
        BY <2>2
      <3>2. PICK n \in 1..N : Left(events, n) /\ r[n] = b
        BY <2>2
      <3>3. m # n
        BY <2>5, <3>1, <3>2
      <3>5. events[m].kind = "response" /\ events[n].kind = "response"
        BY <2>3, <2>5, <3>1, <3>2
      <3>6. \A j, k \in 1..N :
               j # k /\ events[j].kind = "response" /\ events[k].kind = "response" =>
                  C(j) \cap C(k) = {}
        BY DEF Blocks, N
      <3>4. C(m) \cap C(n) = {}
        BY <3>3, <3>5, <3>6
      <3> HIDE DEF C
      <3> QED
        BY <2>3, <3>1, <3>2, <3>4
    <2>6. ASSUME NEW a \in 1..Len(h), NEW b \in 1..Len(h), a # b,
                 h[a].kind = "result", h[b].kind = "result"
          PROVE  h[a].id # h[b].id
      <3>1. PICK m \in 1..N : Left(events, m) /\ r[m] = a
        BY <2>2
      <3>2. PICK n \in 1..N : Left(events, n) /\ r[n] = b
        BY <2>2
      <3>3. m # n
        BY <2>6, <3>1, <3>2
      <3>4. events[m].id # events[n].id
        BY <2>3, <2>6, <3>1, <3>2, <3>3, SMTT(30) DEF Blocks, N
      <3> QED
        BY <2>3, <3>1, <3>2, <3>4
    <2>7. ASSUME NEW a \in 1..Len(h), h[a].kind = "result"
          PROVE  \E b \in 1..(a - 1) :
                    /\ h[b].kind = "response" /\ h[a].id \in ToSet(h[b].calls)
                    /\ \A i \in (b + 1)..a : /\ h[i].kind = "result"
                                             /\ h[i].id \in ToSet(h[b].calls)
      <3>1. PICK k \in 1..N : Left(events, k) /\ r[k] = a
        BY <2>2
      <3>2. events[k].kind = "result"
        BY <2>3, <2>7, <3>1
      <3>3. PICK j \in 1..(k - 1) :
                /\ events[j].kind = "response" /\ events[k].id \in C(j)
                /\ \A i \in (j + 1)..k : events[i].kind = "result" /\ events[i].id \in C(j)
        BY <3>2 DEF Blocks, N
      <3>4. j \in 1..N /\ j < k
        BY <2>2
      <3>5. ASSUME NEW i \in 1..N, events[i].kind = "result"
            PROVE  events[i].id \in done
        BY <3>5, EventIdsAt DEF N, done
      <3>6. Left(events, j)
        <4>1. events[k].id \in C(j) \cap done
          BY <3>2, <3>3, <3>5
        <4> QED
          BY <3>4, <4>1, LeftEvents DEF N, done
      <3> DEFINE b == r[j]
      <3>7. /\ b \in 1..Len(h) /\ b < a /\ h[b].kind = "response"
            /\ ToSet(h[b].calls) = C(j) \cap done
        BY <2>2, <2>3, <3>1, <3>3, <3>4, <3>6
      <3>8. ASSUME NEW i \in (b + 1)..a
            PROVE  h[i].kind = "result" /\ h[i].id \in C(j) \cap done
        <4>1. i \in 1..Len(h) /\ b < i /\ i <= a
          BY <2>2, <3>7
        <4>2. PICK m \in 1..N : Left(events, m) /\ r[m] = i
          BY <2>2, <4>1
        <4>3. j < m
          <5>1. ~(m <= j)
            BY <2>2, <3>4, <3>7, <4>1, <4>2, SMTT(30)
          <5> QED
            BY <2>2, <3>4, <5>1
        <4>4. m <= k
          <5>1. ~(k < m)
            BY <2>2, <3>1, <4>1, <4>2
          <5> QED
            BY <2>2, <5>1
        <4>5. m \in (j + 1)..k
          BY <2>2, <4>3, <4>4
        <4>6. events[m].kind = "result" /\ events[m].id \in C(j)
          BY <3>3, <4>5
        <4> QED
          BY <2>3, <3>5, <4>2, <4>6
      <3>9. h[a].id \in C(j) \cap done
        BY <2>3, <3>1, <3>2, <3>3, <3>5
      <3>10. b \in 1..(a - 1)
        BY <2>2, <3>7
      <3> HIDE DEF b, C
      <3> QED
        BY <3>7, <3>8, <3>9, <3>10
    <2>8. Blocks(h)
      BY <2>4, <2>5, <2>6, <2>7 DEF Blocks
    <2>9. ASSUME NEW x \in EventIds(h) PROVE x \in done
      <3>1. PICK a \in 1..Len(h) : \/ h[a].kind = "response" /\ x \in ToSet(h[a].calls)
                                   \/ h[a].kind = "result" /\ x = h[a].id
        BY <1>1, <2>9, EventIdsAt DEF h
      <3>2. PICK m \in 1..N : Left(events, m) /\ r[m] = a
        BY <2>2
      <3>3. CASE x \in ToSet(h[a].calls)
        BY <2>3, <3>2, <3>3
      <3>4. CASE h[a].kind = "result" /\ x = h[a].id
        <4>1. events[m].kind = "result" /\ x = events[m].id
          BY <2>3, <3>2, <3>4
        <4> QED
          BY <4>1, EventIdsAt DEF N, done
      <3> QED
        BY <3>1, <3>3, <3>4
    <2> QED
      BY <1>1, <2>8, <2>9 DEF h, done
  <1> QED
    BY <1>2, <1>3

(* Results alone are their completed part.                                 *)
LEMMA SafeResults ==
    ASSUME NEW events \in Seq(EventRecords), NEW C, ResultsIn(events, C)
    PROVE  HistorySafe(events) \in Seq(EventRecords) /\ ResultsIn(HistorySafe(events), C)
  <1> DEFINE h == HistorySafe(events)
             done == ResultIds(events)
             N == Len(events)
  <1>1. h \in Seq(EventRecords)
    BY SafeReplays
  <1>2. CASE done = {}
    <2>1. h = <<>>
      BY <1>2 DEF HistorySafe
    <2>2. Len(h) = 0
      BY <2>1
    <2> HIDE DEF h
    <2> QED
      BY <1>1, <2>2 DEF h, ResultsIn
  <1>3. CASE done # {}
    <2>1. PICK r : SafeRanks(h, r, events)
      BY <1>3, SafeRanked
    <2> HIDE DEF h, done
    <2>2. ASSUME NEW a \in 1..Len(h)
          PROVE  \E m \in 1..N : /\ r[m] = a
                                 /\ h[a].kind = events[m].kind /\ h[a].id = events[m].id
      <3>1. PICK m \in 1..N : Left(events, m) /\ r[m] = a
        BY <2>1 DEF SafeRanks
      <3>2. Narrows(h[r[m]], events[m], done)
        BY <2>1, <3>1 DEF SafeRanks, done
      <3> QED
        BY <3>1, <3>2 DEF Narrows
    <2>3. \A m \in 1..N : events[m].kind = "result" /\ events[m].id \in C
      BY DEF ResultsIn
    <2>4. \A m, n \in 1..N : m # n => events[m].id # events[n].id
      BY DEF ResultsIn
    <2> HIDE DEF N
    <2>5. ASSUME NEW a \in 1..Len(h), NEW b \in 1..Len(h), a # b
          PROVE  h[a].id # h[b].id
      <3>1. PICK m \in 1..N : r[m] = a /\ h[a].id = events[m].id
        BY <2>2
      <3>2. PICK n \in 1..N : r[n] = b /\ h[b].id = events[n].id
        BY <2>2
      <3>3. m # n
        BY <2>5, <3>1, <3>2
      <3> QED
        BY <2>4, <3>1, <3>2, <3>3
    <2>6. \A a \in 1..Len(h) : h[a].kind = "result" /\ h[a].id \in C
      BY <2>2, <2>3
    <2> QED
      BY <1>1, <2>5, <2>6 DEF ResultsIn, h
  <1> QED
    BY <1>2, <1>3

(* A response followed by results of its calls is a block.                 *)
LEMMA OneBlock ==
    ASSUME NEW e \in EventRecords, e.kind = "response", Increasing(e.calls),
           NEW results \in Seq(EventRecords), ResultsIn(results, ToSet(e.calls))
    PROVE  /\ <<e>> \o results \in Seq(EventRecords) /\ Blocks(<<e>> \o results)
           /\ Current(<<e>> \o results, e.calls)
           /\ EventIds(<<e>> \o results) = ToSet(e.calls)
  <1> DEFINE one == <<e>>
  <1>1. one \in Seq(EventRecords) /\ Len(one) = 1 /\ one[1] = e
    OBVIOUS
  <1> HIDE DEF one
  <1>2. \A k \in 1..Len(one) : k = 1
    BY <1>1
  <1>3. Blocks(one)
    BY <1>1, <1>2 DEF Blocks
  <1>4. Current(one, e.calls)
    BY <1>1 DEF Current
  <1>5. \A x : x \in ResultIds(one) <=> FALSE
    BY <1>1, <1>2, EventIdsAt
  <1>6. \A x : x \in EventIds(one) <=> x \in ToSet(e.calls)
    <2>1. 1 \in 1..Len(one)
      BY <1>1
    <2> QED
      BY <1>1, <1>2, <2>1, EventIdsAt
  <1>7. ToSet(e.calls) \ ResultIds(one) = ToSet(e.calls) /\ EventIds(one) = ToSet(e.calls)
    BY <1>5, <1>6
  <1>8. ResultsIn(results, ToSet(e.calls) \ ResultIds(one))
    BY <1>7
  <1>9. /\ one \o results \in Seq(EventRecords)
        /\ Blocks(one \o results) /\ Current(one \o results, e.calls)
        /\ EventIds(one \o results) = EventIds(one)
    BY <1>1, <1>3, <1>4, <1>8, BlocksGrow
  <1> QED
    BY <1>7, <1>9 DEF one

InBatches == {"calls", "prepare", "windows", "items"}

\* Blocks of new calls, later than all that is committed.
Fits(events) ==
    /\ Blocks(events) /\ EventIds(events) \subseteq Ids
    /\ Below(MessageIds(history) \cup EventIds(turn.committed), EventIds(events))

TalkShaped ==
    /\ history \in Seq(Said) /\ Shaped(history) /\ MessageIds(history) \subseteq Ids
    /\ phase # "idle" => history # <<>> /\ history[Len(history)] = User

TurnShaped ==
    phase # "idle" =>
        /\ Blocks(turn.committed) /\ EventIds(turn.committed) \subseteq Ids
        /\ Below(MessageIds(history), EventIds(turn.committed))

RunShaped ==
    /\ phase \in InBatches \cup {"model"} => Fits(run.events)
    /\ phase \in InBatches => Current(run.events, turn.batch)

\* The calls of these items have no result yet.
Unanswered(items) == IdsOf(items) \subseteq ToSet(turn.batch) \ ResultIds(run.events)

QueueShaped ==
    /\ phase \in {"calls", "prepare"} => Below(ResultIds(run.events), ToSet(run.queue))
    /\ phase = "windows" => /\ Unanswered(run.lane) /\ Unanswered(run.window)
                            /\ InOrder(run.window)
                            /\ IdsOf(run.lane) \cap IdsOf(run.window) = {}
    /\ phase \in {"windows", "items"} => Unanswered(run.items)

PendingShaped ==
    phase \in {"asking", "resume"} =>
        /\ Below(MessageIds(history) \cup EventIds(turn.committed), ToSet(turn.pending))
        /\ phase = "asking" => turn.asked \in ToSet(turn.pending)

ResumeShaped ==
    phase = "resume" =>
        /\ ResultsIn(run.events, ToSet(turn.pending))
        /\ Below(ResultIds(run.events), ToSet(run.queue))
        /\ ResultIds(run.events) \cup ToSet(run.queue) = ToSet(turn.pending)

ReplayShape ==
    TalkShaped /\ TurnShaped /\ RunShaped /\ QueueShaped /\ PendingShaped /\ ResumeShaped

ReplayInv == ~RunsAhead => ReplayShape

(* What is committed next is shaped like what was.                         *)
LEMMA FitsCommitted ==
    ASSUME turn.committed \in Seq(EventRecords), TalkShaped, TurnShaped, phase # "idle",
           NEW events \in Seq(EventRecords), Fits(events)
    PROVE  /\ turn.committed \o events \in Seq(EventRecords)
           /\ Blocks(turn.committed \o events)
           /\ EventIds(turn.committed \o events) = EventIds(turn.committed) \cup EventIds(events)
           /\ EventIds(turn.committed \o events) \subseteq Ids
           /\ Below(MessageIds(history), EventIds(turn.committed \o events))
  <1> DEFINE c == turn.committed
             all == c \o events
  <1>1. /\ Blocks(c) /\ EventIds(c) \subseteq Ids /\ Below(MessageIds(history), EventIds(c))
        /\ Blocks(events) /\ EventIds(events) \subseteq Ids
        /\ Below(MessageIds(history) \cup EventIds(c), EventIds(events))
    BY DEF TurnShaped, Fits
  <1>2. EventIds(all) = EventIds(c) \cup EventIds(events)
    BY EventIdsJoined
  <1>3. \A x : ~(x \in EventIds(c) /\ x \in EventIds(events))
    BY <1>1 DEF Below, Ids
  <1>4. all \in Seq(EventRecords) /\ Blocks(all)
    BY <1>1, <1>3, BlocksJoined
  <1> HIDE DEF all, c
  <1>5. Below(MessageIds(history), EventIds(all))
    BY <1>1, <1>2 DEF Below
  <1>6. EventIds(all) \subseteq Ids
    BY <1>1, <1>2
  <1> QED
    BY <1>2, <1>4, <1>5, <1>6 DEF all, c

(* A turn that ends leaves a history in shape.                             *)
LEMMA TurnCloses ==
    ASSUME turn.committed \in Seq(EventRecords), TalkShaped, TurnShaped, phase # "idle",
           UNCHANGED issued, NEW events \in Seq(EventRecords), Fits(events),
           NEW status, FinishTurn(events, status)
    PROVE  ReplayShape'
  <1> DEFINE all == turn.committed \o events
             made == ApplyEvents(history, all)
  <1>1. /\ all \in Seq(EventRecords) /\ Blocks(all) /\ EventIds(all) \subseteq Ids
        /\ Below(MessageIds(history), EventIds(all))
    BY FitsCommitted
  <1>2. history \in Seq(Said) /\ Shaped(history) /\ MessageIds(history) \subseteq Ids
    BY DEF TalkShaped
  <1>3. history' = made /\ phase' = "idle" /\ Ids' = Ids
    BY DEF FinishTurn, Ids
  <1> HIDE DEF all
  <1>4. /\ made \in Seq(Said) /\ Shaped(made)
        /\ MessageIds(made) \subseteq MessageIds(history) \cup EventIds(all)
    BY <1>1, <1>2, BlocksApplied
  <1> HIDE DEF made
  <1>5. TalkShaped'
    <2>1. MessageIds(made) \subseteq Ids
      BY <1>1, <1>2, <1>4
    <2> QED
      BY <1>3, <1>4, <2>1 DEF TalkShaped
  <1> QED
    BY <1>3, <1>5
    DEF ReplayShape, TurnShaped, RunShaped, QueueShaped, PendingShaped, ResumeShaped,
        InBatches

(* Events without calls fit too, after others.                             *)
LEMMA PlainFits ==
    ASSUME NEW events \in Seq(EventRecords), Fits(events),
           NEW t \in Seq(EventRecords), Plain(t)
    PROVE  events \o t \in Seq(EventRecords) /\ Fits(events \o t)
  BY PlainBlocks DEF Fits

(* No events are blocks of no calls.                                       *)
LEMMA NoBlocks == Blocks(<<>>) /\ EventIds(<<>>) = {}
  <1> DEFINE none == <<>>
  <1>1. Len(none) = 0 /\ ToSet(none) = {}
    BY DEF ToSet
  <1> HIDE DEF none
  <1>2. Blocks(none)
    BY <1>1 DEF Blocks
  <1>3. EventIds(none) = {}
    BY <1>1 DEF EventIds, Responses, ResultIds
  <1> QED
    BY <1>2, <1>3 DEF none

(* The last events of a turn are about no call.                            *)
LEMMA LastPlain ==
    /\ Plain(<<Error>>)
    /\ \A n \in Nat : Plain(<<Ask(n)>>)
    /\ \A u \in Seq(Nat), reason \in Ends : Plain(<<Response(<<>>, u), Done(reason)>>)
  <1>1. Error.kind # "result" /\ Error.calls = <<>>
    BY DEF Error, Event
  <1>2. ASSUME NEW n \in Nat PROVE Ask(n).kind # "result" /\ Ask(n).calls = <<>>
    BY DEF Ask, Event
  <1>3. ASSUME NEW u, NEW reason
        PROVE  /\ Response(<<>>, u).kind # "result" /\ Response(<<>>, u).calls = <<>>
               /\ Done(reason).kind # "result" /\ Done(reason).calls = <<>>
    BY DEF Response, Done, Event
  <1>4. ASSUME NEW x, x.kind # "result", x.calls = <<>> PROVE Plain(<<x>>)
    <2> DEFINE one == <<x>>
    <2>1. Len(one) = 1 /\ one[1] = x
      OBVIOUS
    <2> HIDE DEF one
    <2> QED
      BY <1>4, <2>1 DEF Plain, one
  <1>5. ASSUME NEW x, NEW y, x.kind # "result", x.calls = <<>>,
               y.kind # "result", y.calls = <<>>
        PROVE  Plain(<<x, y>>)
    <2> DEFINE two == <<x, y>>
    <2>1. Len(two) = 2 /\ two[1] = x /\ two[2] = y
      OBVIOUS
    <2> HIDE DEF two
    <2>2. \A k \in 1..2 : k = 1 \/ k = 2
      OBVIOUS
    <2>3. \A k \in 1..Len(two) : two[k].kind # "result" /\ two[k].calls = <<>>
      BY <1>5, <2>1, <2>2
    <2> QED
      BY <2>3 DEF Plain, two
  <1> QED
    BY <1>1, <1>2, <1>3, <1>4, <1>5

(* A turn that ends with an error or a notice.                             *)
LEMMA TurnStops ==
    ASSUME turn.committed \in Seq(EventRecords), TalkShaped, TurnShaped, phase # "idle",
           UNCHANGED issued, NEW events \in Seq(EventRecords), Fits(events),
           NEW status \in Ends,
           \/ FinishTurn(Append(events, Error), status)
           \/ EndWithNotice(events, status)
    PROVE  ReplayShape'
  <1> DEFINE e == Error
             d == Done(status)
             r == Response(<<>>, <<>>)
             one == <<e>>
             two == <<r, d>>
  <1>1. e \in EventRecords /\ d \in EventRecords /\ r \in EventRecords
    <2>1. <<>> \in Seq(Nat)
      OBVIOUS
    <2> QED
      BY <2>1, LastEvents
  <1>2. Plain(one) /\ Plain(two)
    <2>1. <<>> \in Seq(Nat)
      OBVIOUS
    <2> QED
      BY <2>1, LastPlain
  <1>3. EndWithNotice(events, status) => FinishTurn(events \o two, status)
    BY DEF EndWithNotice
  <1> HIDE DEF e, d, r
  <1>4. Append(events, e) = events \o one /\ one \in Seq(EventRecords)
        /\ two \in Seq(EventRecords)
    BY <1>1
  <1> HIDE DEF one, two
  <1>5. /\ events \o one \in Seq(EventRecords) /\ Fits(events \o one)
        /\ events \o two \in Seq(EventRecords) /\ Fits(events \o two)
    BY <1>2, <1>4, PlainFits
  <1>6. CASE FinishTurn(Append(events, Error), status)
    <2>1. FinishTurn(events \o one, status)
      BY <1>4, <1>6 DEF e
    <2> QED
      BY <1>5, <2>1, TurnCloses
  <1>7. CASE EndWithNotice(events, status)
    <2>1. FinishTurn(events \o two, status)
      BY <1>3, <1>7
    <2> QED
      BY <1>5, <2>1, TurnCloses
  <1> QED
    BY <1>6, <1>7

(* A turn that is forgotten leaves the history as it was.                  *)
LEMMA TurnDropped ==
    ASSUME TalkShaped, phase # "idle", UNCHANGED issued, NEW status, ForgetTurn(status)
    PROVE  ReplayShape'
  <1>1. /\ history \in Seq(Said) /\ Shaped(history) /\ MessageIds(history) \subseteq Ids
        /\ history # <<>> /\ history[Len(history)] = User
    BY DEF TalkShaped
  <1>2. history' = Front(history) /\ phase' = "idle" /\ Ids' = Ids
    BY DEF ForgetTurn, Ids
  <1>3. history' \in Seq(Said) /\ Shaped(history') /\ MessageIds(history') \subseteq Ids
    BY <1>1, <1>2, UserTaken
  <1>4. TalkShaped'
    BY <1>2, <1>3 DEF TalkShaped
  <1> QED
    BY <1>2, <1>4
    DEF ReplayShape, TurnShaped, RunShaped, QueueShaped, PendingShaped, ResumeShaped,
        InBatches

(* A run begins with nothing.                                              *)
LEMMA RunBegins ==
    ASSUME TalkShaped', TurnShaped', run'.events = <<>>, phase' = "model"
    PROVE  ReplayShape'
  <1>1. Blocks(<<>>) /\ EventIds(<<>>) = {}
    BY NoBlocks
  <1>2. Fits(run.events)'
    BY <1>1 DEF Fits, Below
  <1>3. RunShaped'
    BY <1>2 DEF RunShaped, InBatches
  <1> QED
    BY <1>3 DEF ReplayShape, QueueShaped, PendingShaped, ResumeShaped

(* The calls of the last response are among those mentioned.               *)
LEMMA CurrentCalls ==
    ASSUME NEW events \in Seq(EventRecords), NEW calls, Current(events, calls)
    PROVE  ToSet(calls) \subseteq EventIds(events)
  <1>1. PICK j \in 1..Len(events) : events[j].kind = "response" /\ events[j].calls = calls
    BY DEF Current
  <1> QED
    BY <1>1, EventIdsAt

(* A question in a batch commits what is completed before it.              *)
LEMMA AskShapes ==
    ASSUME TurnFields, turn.committed \in Seq(EventRecords), TalkShaped, TurnShaped,
           phase # "idle", UNCHANGED issued, turn.batch \in Seq(Ids),
           Increasing(turn.batch),
           NEW events \in Seq(EventRecords), Fits(events),
           Current(events, turn.batch), LastResponse(events, turn.batch),
           NEW id \in ToSet(turn.batch), \A x \in ResultIds(events) : x < id,
           NEW questions, AskUser(events, id, questions)
    PROVE  ReplayShape'
  <1> DEFINE safe == HistorySafe(events)
             c == turn.committed
             a == Ask(id)
             one == <<a>>
             all == c \o safe
             new == Committed(safe)
             rest == PendingFrom(events, id)
             K == {i \in ToSet(turn.batch) : i >= id}
  <1>1. AskUser(events, id, questions) <=>
          IF config.callback
          THEN /\ phase' = "asking"
               /\ turn' = [new EXCEPT !.pending = rest, !.asked = id, !.resuming = FALSE,
                                      !.questions = questions]
               /\ run' = FreshRun
               /\ UNCHANGED <<history, paused, ended>>
          ELSE FinishTurn(Append(safe, a), "awaiting_confirmation")
    BY DEF AskUser
  <1>2. /\ safe \in Seq(EventRecords) /\ Blocks(safe)
        /\ EventIds(safe) \subseteq ResultIds(events)
    BY SafeBlocks DEF Fits
  <1>3. ResultIds(events) \subseteq EventIds(events)
    BY DEF EventIds
  <1>4. Fits(safe)
    <2> HIDE DEF safe
    <2> QED
      BY <1>2, <1>3 DEF Fits, Below
  <1>5. /\ all \in Seq(EventRecords) /\ Blocks(all)
        /\ EventIds(all) = EventIds(c) \cup EventIds(safe)
        /\ EventIds(all) \subseteq Ids /\ Below(MessageIds(history), EventIds(all))
    BY <1>2, <1>4, FitsCommitted
  <1>6. id \in Nat
    BY ToSetIn DEF Ids
  <1>7. CASE ~config.callback
    <2>1. a \in EventRecords /\ Plain(one)
      BY <1>6, LastEvents, LastPlain
    <2> HIDE DEF a, safe
    <2>2. one \in Seq(EventRecords) /\ Append(safe, a) = safe \o one
      BY <1>2, <2>1
    <2> HIDE DEF one
    <2>3. safe \o one \in Seq(EventRecords) /\ Fits(safe \o one)
      BY <1>2, <1>4, <2>1, <2>2, PlainFits
    <2>4. FinishTurn(safe \o one, "awaiting_confirmation")
      BY <1>1, <1>7, <2>2
    <2> QED
      BY <2>3, <2>4, TurnCloses
  <1>8. CASE config.callback
    <2>1. /\ phase' = "asking" /\ history' = history
          /\ turn' = [new EXCEPT !.pending = rest, !.asked = id, !.resuming = FALSE,
                                 !.questions = questions]
      BY <1>1, <1>8
    <2>2. HasFields(new, TurnNames) /\ new.committed = all
      BY CommittedMore
    <2>3. rest = KeepIn(turn.batch, K)
      BY PendingCalls
    <2>4. ToSet(rest) = ToSet(turn.batch) \cap K
      BY <2>3, KeepInToSet
    <2> HIDE DEF new, rest, all
    <2>5. turn'.committed = all /\ turn'.pending = rest /\ turn'.asked = id
      BY <2>1, <2>2 DEF HasFields, TurnNames
    <2>6. Ids' = Ids
      BY DEF Ids
    <2>7. TalkShaped' /\ TurnShaped'
      BY <1>5, <2>1, <2>5, <2>6 DEF TalkShaped, TurnShaped
    <2>8. id \in ToSet(rest)
      BY <1>6, <2>4
    <2>9. Below(MessageIds(history) \cup EventIds(all), ToSet(rest))
      <3>1. ToSet(turn.batch) \subseteq EventIds(events)
        BY CurrentCalls
      <3>2. Below(MessageIds(history) \cup EventIds(c), EventIds(events))
        BY DEF Fits
      <3>3. ASSUME NEW x \in EventIds(safe), NEW y \in ToSet(rest) PROVE x < y
        <4>1. x < id /\ x \in EventIds(events)
          BY <1>2, <1>3
        <4>2. y >= id /\ y \in EventIds(events)
          BY <2>4, <3>1
        <4>3. x \in Nat /\ y \in Nat
          BY <4>1, <4>2, EventIdsTyped
        <4> QED
          BY <1>6, <4>1, <4>2, <4>3
      <3> HIDE DEF c, safe
      <3> QED
        BY <1>5, <2>4, <3>1, <3>2, <3>3 DEF Below
    <2>10. PendingShaped'
      BY <2>1, <2>5, <2>8, <2>9 DEF PendingShaped
    <2> QED
      BY <2>1, <2>7, <2>10 DEF ReplayShape, RunShaped, QueueShaped, ResumeShaped, InBatches
  <1> QED
    BY <1>7, <1>8

(* A response asks for new calls, later than all before.                   *)
LEMMA RequestsShape ==
    ASSUME ConsentBase, TurnInv, UsageInv, ReplayShape, ModelRequestsTools
    PROVE  ReplayShape'
  <1>1. PICK n \in 1..config.batch : \E calls \in [1..n -> config.requests] :
          LET ids == [i \in 1..n |-> Len(issued) + i]
          IN  /\ Len(issued) + n <= MaxIssued
              /\ issued' = issued \o calls
              /\ run' = [run EXCEPT !.events = Append(@, Response(ids, ids)),
                                    !.queue = ids,
                                    !.loops = @ + 1,
                                    !.muts = {},
                                    !.seen = {}]
    BY DEF ModelRequestsTools
  <1> DEFINE ids == [i \in 1..n |-> Len(issued) + i]
             r == Response(ids, ids)
             s == run.events
             all == Append(s, r)
             one == <<r>>
             m == Len(issued)
  <1>2. n \in Nat /\ n >= 1 /\ issued \in Seq(Calls) /\ m \in Nat
    BY DEF ConsentBase
  <1>3. PICK calls \in [1..n -> config.requests] : issued' = issued \o calls
    BY <1>1
  <1>4. calls \in Seq(Calls) /\ Len(calls) = n
    BY <1>2, RequestedCalls
  <1>5. Len(issued') = m + n
    BY <1>2, <1>3, <1>4, Concatenated
  <1>6. /\ RunFields /\ TurnFields /\ s \in Seq(EventRecords)
        /\ turn.committed \in Seq(EventRecords) /\ phase = "model"
    BY EventsTyped DEF ModelRequestsTools, CanAsk
  <1>7. ids \in Seq(Nat) /\ Increasing(ids) /\ \A x \in ToSet(ids) : x \in (m + 1)..(m + n)
    <2>1. DOMAIN ids = 1..n /\ Len(ids) = n
      BY <1>2
    <2>2. \A i \in 1..n : m + i \in (m + 1)..(m + n)
      BY <1>2
    <2>3. Increasing(ids)
      BY <1>2, <2>1 DEF Increasing
    <2>4. ids \in Seq(Nat)
      BY <1>2
    <2>5. \A x \in ToSet(ids) : \E i \in 1..n : x = m + i
      BY <2>1 DEF ToSet
    <2>6. \A x \in ToSet(ids) : x \in (m + 1)..(m + n)
      BY <2>2, <2>5
    <2> QED
      BY <2>3, <2>4, <2>6
  <1>8. r.calls = ids /\ r.kind = "response" /\ r \in EventRecords
    <2> HIDE DEF ids
    <2>1. r = [kind |-> "response", calls |-> ids, usage |-> ids, id |-> 0, note |-> ""]
      BY DEF Response, Event
    <2>2. "" \in EventNotes
      BY DEF EventNotes, Ends
    <2> HIDE DEF r
    <2> QED
      BY <1>7, <2>1, <2>2 DEF EventRecords
  <1>9. run' = [run EXCEPT !.events = all, !.queue = ids, !.loops = run.loops + 1,
                           !.muts = {}, !.seen = {}]
    BY <1>1
  <1>10. turn' = [turn EXCEPT !.batch = ids]
    <2>1. turn' = [turn EXCEPT !.batch =
                  [i \in 1..(Len(issued') - Len(issued)) |-> Len(issued) + i]]
      BY DEF ModelRequestsTools
    <2>2. Len(issued') - Len(issued) = n
      BY <1>2, <1>5
    <2> QED
      BY <2>1, <2>2
  <1>11. phase' \in {"calls", "prepare"} /\ history' = history
    BY DEF ModelRequestsTools
  <1> HIDE DEF ids, r, all
  <1>12. run'.events = all /\ run'.queue = ids
    BY <1>6, <1>9 DEF RunFields, HasFields
  <1>13. turn'.committed = turn.committed /\ turn'.batch = ids
    BY <1>6, <1>10 DEF TurnFields, TurnNames, HasFields
  <1>14. Ids \subseteq Nat /\ Ids \subseteq Ids' /\ (\A x \in Ids : x <= m)
         /\ ToSet(ids) \subseteq Ids' /\ ToSet(ids) \subseteq Nat
         /\ \A x \in Ids, y \in ToSet(ids) : x < y
    BY <1>2, <1>5, <1>7 DEF Ids
  <1>15. one \in Seq(EventRecords) /\ Blocks(one) /\ EventIds(one) = ToSet(ids)
    <2>1. <<>> \in Seq(EventRecords) /\ Len(<<>>) = 0
      OBVIOUS
    <2>2. ResultsIn(<<>>, ToSet(r.calls))
      BY <2>1 DEF ResultsIn
    <2>3. Blocks(one \o <<>>) /\ EventIds(one \o <<>>) = ToSet(ids)
      BY <1>7, <1>8, <2>1, <2>2, OneBlock
    <2>4. one \in Seq(EventRecords)
      BY <1>8
    <2>5. one \o <<>> = one
      BY <2>4, EmptyJoined
    <2> QED
      BY <2>3, <2>4, <2>5
  <1>16. /\ all = s \o one /\ all \in Seq(EventRecords) /\ Len(all) = Len(s) + 1
         /\ Len(s) \in Nat /\ all[Len(s) + 1] = r
    BY <1>6, <1>8 DEF all
  <1> HIDE DEF one
  <1>17. Fits(s) /\ TalkShaped /\ TurnShaped
    BY <1>6 DEF ReplayShape, RunShaped
  <1>18. /\ Blocks(s) /\ EventIds(s) \subseteq Ids /\ MessageIds(history) \subseteq Ids
         /\ EventIds(turn.committed) \subseteq Ids
         /\ Below(MessageIds(history) \cup EventIds(turn.committed), EventIds(s))
    BY <1>6, <1>17 DEF Fits, TalkShaped, TurnShaped
  <1>19. Blocks(all) /\ EventIds(all) = EventIds(s) \cup ToSet(ids)
    <2>1. \A x : ~(x \in EventIds(s) /\ x \in EventIds(one))
      BY <1>14, <1>15, <1>18
    <2>2. EventIds(s \o one) = EventIds(s) \cup EventIds(one)
      BY <1>6, <1>15, EventIdsJoined
    <2>3. Blocks(s \o one)
      BY <1>6, <1>15, <1>18, <2>1, BlocksJoined
    <2> QED
      BY <1>15, <1>16, <2>2, <2>3
  <1>20. Fits(run.events)'
    <2>1. EventIds(all) \subseteq Ids'
      BY <1>14, <1>18, <1>19
    <2>2. Below(MessageIds(history) \cup EventIds(turn.committed), EventIds(all))
      BY <1>14, <1>18, <1>19 DEF Below
    <2> QED
      BY <1>11, <1>12, <1>13, <1>19, <2>1, <2>2 DEF Fits
  <1>21. Current(all, ids)
    BY <1>8, <1>16 DEF Current
  <1>22. RunShaped'
    BY <1>11, <1>12, <1>13, <1>20, <1>21 DEF RunShaped, InBatches
  <1>23. QueueShaped'
    <2>1. ToSet(all) = ToSet(s) \cup {r}
      BY <1>6, ToSetAppend DEF all
    <2>2. ResultIds(all) \subseteq EventIds(s)
      BY <1>8, <2>1 DEF ResultIds, EventIds
    <2>3. Below(ResultIds(all), ToSet(ids))
      BY <1>14, <1>18, <2>2 DEF Below
    <2> QED
      BY <1>11, <1>12, <2>3 DEF QueueShaped
  <1>24. TalkShaped' /\ TurnShaped'
    BY <1>6, <1>11, <1>13, <1>14, <1>17 DEF TalkShaped, TurnShaped
  <1> QED
    BY <1>11, <1>22, <1>23, <1>24 DEF ReplayShape, PendingShaped, ResumeShaped

(* The model's other answers end the turn.                                 *)
LEMMA ModelStepShapes ==
    ASSUME ConsentBase, TurnInv, UsageInv, ReplayShape, ModelStep
    PROVE  ReplayShape'
  <1>1. /\ phase = "model" /\ run.events \in Seq(EventRecords) /\ RunFields
        /\ turn.committed \in Seq(EventRecords)
    BY EventsTyped
    DEF ModelStep, ModelRequestsTools, ModelAnswersText, ModelTruncated, ModelFails,
        LoopLimit, CanAsk
  <1>2. Fits(run.events) /\ TalkShaped /\ TurnShaped
    BY <1>1 DEF ReplayShape, RunShaped
  <1>3. CASE ModelRequestsTools
    BY <1>3, RequestsShape
  <1>4. CASE ModelTruncated
    <2>1. /\ run' = [run EXCEPT !.loops = @ + 1] /\ phase' = "model"
          /\ UNCHANGED <<turn, history, issued>>
      BY <1>1, <1>4 DEF ModelTruncated, world
    <2>2. run'.events = run.events
      BY <1>1, <2>1 DEF RunFields, HasFields
    <2>3. Ids' = Ids
      BY <2>1 DEF Ids
    <2>4. Fits(run.events)'
      BY <1>2, <2>1, <2>2, <2>3 DEF Fits
    <2>5. TalkShaped' /\ TurnShaped'
      BY <1>1, <1>2, <2>1, <2>3 DEF TalkShaped, TurnShaped
    <2> QED
      BY <2>1, <2>4, <2>5
      DEF ReplayShape, RunShaped, QueueShaped, PendingShaped, ResumeShaped, InBatches
  <1>5. CASE ModelAnswersText
    <2> DEFINE u == <<Len(issued) + 1>>
               r == Response(<<>>, u)
               d == Done("stop")
               two == <<r, d>>
    <2>1. FinishTurn(run.events \o two, "stop") /\ UNCHANGED issued
      BY <1>5 DEF ModelAnswersText, world
    <2>2. u \in Seq(Nat)
      BY DEF ConsentBase
    <2> HIDE DEF u
    <2>3. r \in EventRecords /\ d \in EventRecords /\ Plain(two)
      BY <2>2, LastEvents, LastPlain DEF Ends
    <2> HIDE DEF r, d
    <2>4. two \in Seq(EventRecords)
      BY <2>3
    <2> HIDE DEF two
    <2>5. run.events \o two \in Seq(EventRecords) /\ Fits(run.events \o two)
      BY <1>1, <1>2, <2>3, <2>4, PlainFits
    <2> QED
      BY <1>1, <1>2, <2>1, <2>5, TurnCloses
  <1>6. CASE LoopLimit
    <2>1. EndWithNotice(run.events, "max_turns") /\ "max_turns" \in Ends /\ UNCHANGED issued
      BY <1>6 DEF LoopLimit, Ends, Limits, world
    <2> QED
      BY <1>1, <1>2, <2>1, TurnStops
  <1>7. CASE ModelFails
    <2>1. FinishTurn(Append(run.events, Error), "failed") /\ "failed" \in Ends
          /\ UNCHANGED issued
      BY <1>7 DEF ModelFails, Ends, world
    <2> QED
      BY <1>1, <1>2, <2>1, TurnStops
  <1> QED
    BY <1>3, <1>4, <1>5, <1>6, <1>7 DEF ModelStep

(* Results of the last response fit where it does.                         *)
LEMMA ResultsFit ==
    ASSUME NEW events \in Seq(EventRecords), Fits(events), NEW calls,
           Current(events, calls), NEW results \in Seq(EventRecords),
           ResultsIn(results, ToSet(calls) \ ResultIds(events))
    PROVE  /\ events \o results \in Seq(EventRecords)
           /\ Fits(events \o results) /\ Current(events \o results, calls)
  <1>1. Blocks(events)
    BY DEF Fits
  <1>2. /\ events \o results \in Seq(EventRecords)
        /\ Blocks(events \o results) /\ Current(events \o results, calls)
        /\ EventIds(events \o results) = EventIds(events)
    BY <1>1, BlocksGrow
  <1> QED
    BY <1>2 DEF Fits

(* One result.                                                             *)
LEMMA OneResult ==
    ASSUME NEW id \in Nat, NEW note \in EventNotes
    PROVE  /\ <<Result(id, note)>> \in Seq(EventRecords)
           /\ \A C : id \in C => ResultsIn(<<Result(id, note)>>, C)
           /\ \A s \in Seq(EventRecords) :
                 s \o <<Result(id, note)>> = Append(s, Result(id, note))
  <1> DEFINE r == Result(id, note)
             one == <<r>>
  <1>1. r \in EventRecords /\ r.kind = "result" /\ r.id = id
    <2>1. r \in EventRecords
      BY ResultEvent
    <2> QED
      BY <2>1 DEF Result, Event
  <1> HIDE DEF r
  <1>2. one \in Seq(EventRecords) /\ Len(one) = 1 /\ one[1] = r
        /\ \A s \in Seq(EventRecords) : s \o one = Append(s, r)
    BY <1>1
  <1> HIDE DEF one
  <1>3. \A k \in 1..Len(one) : k = 1
    BY <1>2
  <1>4. \A C : id \in C => ResultsIn(one, C)
    BY <1>1, <1>2, <1>3 DEF ResultsIn
  <1> QED
    BY <1>2, <1>4 DEF one, r

(* It fits, too.                                                           *)
LEMMA ResultFits ==
    ASSUME NEW events \in Seq(EventRecords), Fits(events), NEW calls,
           Current(events, calls), NEW id \in Nat, id \in ToSet(calls),
           id \notin ResultIds(events), NEW note \in EventNotes
    PROVE  /\ Append(events, Result(id, note)) \in Seq(EventRecords)
           /\ Fits(Append(events, Result(id, note)))
           /\ Current(Append(events, Result(id, note)), calls)
           /\ ResultIds(Append(events, Result(id, note))) = ResultIds(events) \cup {id}
  <1> DEFINE one == <<Result(id, note)>>
             C == ToSet(calls) \ ResultIds(events)
  <1>1. /\ one \in Seq(EventRecords) /\ (id \in C => ResultsIn(one, C))
        /\ events \o one = Append(events, Result(id, note))
    BY OneResult
  <1>2. id \in C
    OBVIOUS
  <1> HIDE DEF one, C
  <1>3. ResultsIn(one, C)
    BY <1>1, <1>2
  <1>4. Fits(events \o one) /\ Current(events \o one, calls)
    BY <1>1, <1>3, ResultsFit DEF C
  <1> QED
    BY <1>1, <1>4, ResultGrows

(* What is in order and below more.                                        *)
LEMMA BelowTail ==
    ASSUME NEW A, NEW s \in Seq(Nat), s # <<>>, Increasing(s), Below(A, ToSet(s))
    PROVE  /\ Head(s) \in ToSet(s) /\ Head(s) \notin A
           /\ ToSet(s) = {Head(s)} \cup ToSet(Tail(s))
           /\ Below(A \cup {Head(s)}, ToSet(Tail(s)))
           /\ \A x \in A : x < Head(s)
  <1>1. /\ Head(s) \in ToSet(s) /\ \A x \in ToSet(Tail(s)) : x \in ToSet(s) /\ Head(s) < x
    BY IncreasingTail
  <1>2. Head(s) \in Nat /\ ToSet(s) = {Head(s)} \cup ToSet(Tail(s))
    BY HeadAndTail
  <1>3. \A x \in A, y \in ToSet(s) : x < y
    BY DEF Below
  <1>4. Head(s) \notin A
    BY <1>1, <1>2, <1>3
  <1>5. Below(A \cup {Head(s)}, ToSet(Tail(s)))
    BY <1>1, <1>3 DEF Below
  <1> QED
    BY <1>1, <1>2, <1>3, <1>4, <1>5

(* The next call gets its result.                                          *)
LEMMA CallShapes ==
    ASSUME ConsentBase, TurnInv, OnceInv, UsageInv, ReplayShape, phase = "calls",
           run.queue # <<>>, UNCHANGED issued, NEW out \in EventNotes
    PROVE  /\ NextId \in ToSet(turn.batch)
           /\ \A x \in ResultIds(run.events) : x < NextId
           /\ Append(run.events, Result(NextId, out)) \in Seq(EventRecords)
           /\ Fits(Append(run.events, Result(NextId, out)))
           /\ UNCHANGED <<history, turn, phase>>
              /\ run'.queue = Tail(run.queue)
              /\ run'.events = Append(run.events, Result(NextId, out))
              => ReplayShape'
  <1>1. /\ run.events \in Seq(EventRecords) /\ run.queue \in Seq(Ids)
        /\ ToSet(run.queue) \subseteq ToSet(turn.batch) /\ Increasing(run.queue)
    BY DEF TurnInv, UsageInv, OfBatch, OnceInv, QueueOnce
  <1>2. run.queue \in Seq(Nat)
    BY <1>1 DEF Ids
  <1>3. /\ Fits(run.events) /\ Current(run.events, turn.batch)
        /\ Below(ResultIds(run.events), ToSet(run.queue))
    BY DEF ReplayShape, RunShaped, QueueShaped, InBatches
  <1> DEFINE e == Append(run.events, Result(NextId, out))
             q == Tail(run.queue)
             done == ResultIds(run.events)
  <1>4. /\ NextId \in ToSet(run.queue) /\ NextId \notin done
        /\ Below(done \cup {NextId}, ToSet(q)) /\ \A x \in done : x < NextId
    BY <1>1, <1>2, <1>3, BelowTail DEF NextId
  <1>5. NextId \in Nat
    BY <1>2, HeadAndTail DEF NextId
  <1>6. /\ e \in Seq(EventRecords) /\ Fits(e) /\ Current(e, turn.batch)
        /\ ResultIds(e) = done \cup {NextId}
    BY <1>1, <1>3, <1>4, <1>5, ResultFits
  <1> HIDE DEF e, q, done
  <1>7. ASSUME UNCHANGED <<history, turn, phase>>, run'.queue = q, run'.events = e
        PROVE  ReplayShape'
    <2>0. Ids' = Ids
      BY DEF Ids
    <2>1. Fits(run.events)'
      BY <1>6, <1>7, <2>0 DEF Fits
    <2>2. RunShaped'
      BY <1>6, <1>7, <2>1 DEF RunShaped, InBatches
    <2>3. QueueShaped'
      BY <1>4, <1>6, <1>7 DEF QueueShaped
    <2>4. TalkShaped' /\ TurnShaped'
      BY <1>7, <2>0 DEF ReplayShape, TalkShaped, TurnShaped
    <2> QED
      BY <1>7, <2>2, <2>3, <2>4 DEF ReplayShape, PendingShaped, ResumeShaped
  <1> QED
    BY <1>1, <1>4, <1>6, <1>7 DEF e, q, done

(* The sequential loop answers the calls one after the other.              *)
LEMMA SequentialStepShapes ==
    ASSUME ConsentBase, TurnInv, OnceInv, UsageInv, ReplayShape, SequentialStep
    PROVE  ReplayShape'
  <1>1. /\ phase = "calls" /\ run.events \in Seq(EventRecords) /\ RunFields /\ TurnFields
        /\ turn.committed \in Seq(EventRecords) /\ UNCHANGED issued
        /\ turn.batch \in Seq(Ids) /\ Increasing(turn.batch)
        /\ LastResponse(run.events, turn.batch)
    <2>1. phase = "calls" /\ UNCHANGED issued
      BY DEF SequentialStep, CallLimit, CallAnswered, CallAsks, CallExecutes, CallRaises,
         BatchDone, InBatch, world, ToolInterrupted
    <2> QED
      BY <2>1, EventsTyped DEF TurnInv, OnceInv, BatchOrder
  <1>2. Fits(run.events) /\ Current(run.events, turn.batch) /\ TalkShaped /\ TurnShaped
    BY <1>1 DEF ReplayShape, RunShaped, InBatches
  <1>3. CASE CallLimit
    <2>1. EndWithNotice(run.events, "tool_call_limit") /\ "tool_call_limit" \in Ends
      BY <1>3 DEF CallLimit, Ends, Limits
    <2> QED
      BY <1>1, <1>2, <2>1, TurnStops
  <1>4. CASE CallRaises
    <2>1. FinishTurn(Append(run.events, Error), "failed") /\ "failed" \in Ends
      BY <1>4 DEF CallRaises, Ends
    <2> QED
      BY <1>1, <1>2, <2>1, TurnStops
  <1>5. CASE BatchDone
    <2>1. phase' = "model" /\ UNCHANGED <<history, turn, run>>
      BY <1>5 DEF BatchDone
    <2>2. Ids' = Ids
      BY <1>1 DEF Ids
    <2>3. Fits(run.events)'
      BY <1>2, <2>1, <2>2 DEF Fits
    <2>4. TalkShaped' /\ TurnShaped'
      BY <1>1, <1>2, <2>1, <2>2 DEF TalkShaped, TurnShaped
    <2> QED
      BY <2>1, <2>3, <2>4
      DEF ReplayShape, RunShaped, QueueShaped, PendingShaped, ResumeShaped, InBatches
  <1>6. CASE CallAnswered
    <2> DEFINE out == SequentialOutcome(NextCall)
               p == Processed(out)
               e == Append(run.events, Result(NextId, out))
    <2>1. run.queue # <<>> /\ out \in EventNotes
      BY <1>6 DEF CallAnswered, InBatch, EventNotes
    <2> HIDE DEF out
    <2>2. /\ e \in Seq(EventRecords) /\ Fits(e)
          /\ UNCHANGED <<history, turn, phase>> /\ run'.queue = Tail(run.queue)
             /\ run'.events = e => ReplayShape'
      BY <1>1, <2>1, CallShapes
    <2>3. CASE EndWithNotice(p.events, "invalid_tool_call")
      <3>1. p.events = e
        <4>1. \E q, x, m, s, r : p = [run EXCEPT !.events = e, !.queue = q, !.executed = x,
                                                 !.muts = m, !.seen = s, !.retries = r]
          BY DEF Processed
        <4> HIDE DEF p, e
        <4> QED
          BY <1>1, <4>1 DEF RunFields, HasFields
      <3> HIDE DEF p, e
      <3>2. EndWithNotice(e, "invalid_tool_call") /\ "invalid_tool_call" \in Ends
        BY <2>3, <3>1 DEF Ends
      <3> QED
        BY <1>1, <1>2, <2>2, <3>2, TurnStops
    <2>4. CASE ~EndWithNotice(p.events, "invalid_tool_call")
      <3>1. run' = p /\ UNCHANGED <<history, turn, phase>>
        BY <1>6, <2>4 DEF CallAnswered, out
      <3>2. run'.queue = Tail(run.queue) /\ run'.events = e
        BY <1>1, <3>1, ProcessedFields
      <3> QED
        BY <2>2, <3>1, <3>2
    <2> QED
      BY <2>3, <2>4
  <1>7. CASE CallExecutes
    <2>1. /\ run.queue # <<>> /\ run' = Processed("run") /\ "run" \in EventNotes
          /\ UNCHANGED <<history, turn, phase>>
      BY <1>7 DEF CallExecutes, InBatch, EventNotes
    <2>2. /\ run'.queue = Tail(run.queue)
          /\ run'.events = Append(run.events, Result(NextId, "run"))
      BY <1>1, <2>1, ProcessedFields
    <2> QED
      BY <1>1, <2>1, <2>2, CallShapes
  <1>8. CASE CallAsks
    <2>1. /\ AskUser(run.events, NextId, Counted(SequentialOutcome(NextCall)))
          /\ run.queue # <<>> /\ "run" \in EventNotes
      BY <1>8 DEF CallAsks, InBatch, EventNotes
    <2>2. NextId \in ToSet(turn.batch) /\ \A x \in ResultIds(run.events) : x < NextId
      BY <1>1, <2>1, CallShapes
    <2> QED
      BY <1>1, <1>2, <2>1, <2>2, AskShapes
  <1> QED
    BY <1>3, <1>4, <1>5, <1>6, <1>7, <1>8 DEF SequentialStep

(* Another result among results.                                           *)
LEMMA ResultsMore ==
    ASSUME NEW s \in Seq(EventRecords), NEW C, ResultsIn(s, C), NEW id \in Nat, id \in C,
           id \notin ResultIds(s), NEW note \in EventNotes
    PROVE  ResultsIn(Append(s, Result(id, note)), C)
  <1> DEFINE r == Result(id, note)
             all == Append(s, r)
             n == Len(s) + 1
  <1>1. r.kind = "result" /\ r.id = id
    BY DEF Result, Event
  <1> HIDE DEF r
  <1>2. /\ Len(all) = n /\ all[n] = r
        /\ \A k \in 1..Len(s) : all[k] = s[k]
        /\ \A k \in 1..n : k \in 1..Len(s) \/ k = n
    OBVIOUS
  <1>3. \A k \in 1..Len(s) : s[k].kind = "result" /\ s[k].id \in C /\ s[k].id # id
    BY EventIdsAt DEF ResultsIn
  <1>4. \A j, k \in 1..Len(s) : j # k => s[j].id # s[k].id
    BY DEF ResultsIn
  <1> HIDE DEF all, n
  <1>5. \A k \in 1..Len(all) : all[k].kind = "result" /\ all[k].id \in C
    BY <1>1, <1>2, <1>3
  <1>6. ASSUME NEW j \in 1..Len(all), NEW k \in 1..Len(all), j # k
        PROVE  all[j].id # all[k].id
    <2>1. CASE j \in 1..Len(s) /\ k \in 1..Len(s)
      BY <1>2, <1>4, <1>6, <2>1
    <2>2. CASE j \in 1..Len(s) /\ k = n
      BY <1>1, <1>2, <1>3, <2>2
    <2>3. CASE j = n /\ k \in 1..Len(s)
      BY <1>1, <1>2, <1>3, <2>3
    <2> QED
      BY <1>2, <1>6, <2>1, <2>2, <2>3
  <1> QED
    BY <1>5, <1>6 DEF ResultsIn, all, r

(* What is committed of resumed calls is their response and their results. *)
LEMMA ResumedFits ==
    ASSUME TurnInv, OnceInv, UsageInv, ReplayShape, phase = "resume"
    PROVE  /\ Resumed(run.events) \in Seq(EventRecords) /\ Fits(Resumed(run.events))
           /\ EventIds(Resumed(run.events)) \subseteq ResultIds(run.events)
  <1> DEFINE events == run.events
             done == ResultIds(events)
             P == ToSet(turn.pending)
             before == MessageIds(history) \cup EventIds(turn.committed)
             calls == KeepIn(turn.pending, done)
             rest == HistorySafe(events)
             r == ResponseFor(calls)
             all == <<r>> \o rest
  <1>1. /\ turn.pending \in Seq(Ids) /\ events \in Seq(EventRecords)
        /\ turn.batch \in Seq(Ids) /\ Increasing(turn.pending)
    BY DEF TurnInv, UsageInv, OfBatch, OnceInv, ResumeOnce
  <1>2. Below(before, P) /\ ResultsIn(events, P) /\ done \subseteq P
    BY DEF ReplayShape, PendingShaped, ResumeShaped
  <1>3. turn.pending \in Seq(Nat) /\ P \subseteq Ids
    BY <1>1, ToSetIn DEF Ids
  <1>4. /\ Resumed(events) \in Seq(EventRecords)
        /\ Resumed(events) = IF calls = <<>> THEN <<>> ELSE all
    BY <1>2, ResumedReplays DEF Resumed
  <1>5. calls \in Seq(Ids) /\ ToSet(calls) = done /\ Increasing(calls)
    <2> HIDE DEF done
    <2>1. calls \in Seq(Ids)
      BY <1>1, KeepInIn
    <2>2. ToSet(calls) = ToSet(turn.pending) \cap done
      BY <1>1, KeepInToSet
    <2>3. Increasing(calls)
      BY <1>1, <1>3, KeepInIncreasing
    <2> QED
      BY <1>2, <2>1, <2>2, <2>3
  <1>6. CASE calls = <<>>
    <2>1. Blocks(<<>>) /\ EventIds(<<>>) = {}
      BY NoBlocks
    <2>2. Fits(<<>>)
      BY <2>1 DEF Fits, Below
    <2> QED
      BY <1>4, <1>6, <2>1, <2>2
  <1>7. CASE calls # <<>>
    <2>1. r \in EventRecords /\ r.kind = "response" /\ r.calls = calls
      <3>1. Resumed(events) = all
        BY <1>4, <1>7
      <3>2. all[1] = r /\ 1 \in 1..Len(all)
        <4>1. rest \in Seq(EventRecords)
          BY <1>1, SafeReplays
        <4> HIDE DEF rest, r
        <4> QED
          BY <4>1
      <3>3. r.kind = "response" /\ r.calls = calls
        BY DEF ResponseFor, Response, Event
      <3> HIDE DEF all, r
      <3> QED
        BY <1>4, <3>1, <3>2, <3>3
    <2>2. ResultsIn(events, done)
      <3>1. \A k \in 1..Len(events) : events[k].kind = "result" => events[k].id \in done
        BY <1>1, EventIdsAt
      <3> QED
        BY <1>2, <3>1 DEF ResultsIn
    <2> HIDE DEF events, done
    <2>3. rest \in Seq(EventRecords) /\ ResultsIn(rest, done)
      BY <1>1, <2>2, SafeResults
    <2> HIDE DEF r, calls, rest
    <2>4. Increasing(r.calls) /\ ResultsIn(rest, ToSet(r.calls))
      BY <1>5, <2>1, <2>3
    <2>5. Blocks(all) /\ EventIds(all) = done
      BY <1>5, <2>1, <2>3, <2>4, OneBlock
    <2> HIDE DEF all
    <2>6. done \subseteq Ids /\ Below(before, done)
      BY <1>2, <1>3 DEF Below
    <2>7. Fits(all)
      BY <2>5, <2>6 DEF Fits
    <2> QED
      BY <1>4, <1>7, <2>5, <2>7 DEF events, done
  <1> QED
    BY <1>6, <1>7

(* The resumed calls are answered one after the other.                     *)
LEMMA ResumeStepShapes ==
    ASSUME ConsentBase, TurnInv, OnceInv, UsageInv, ReplayShape, ResumeStep
    PROVE  ReplayShape'
  <1> DEFINE done == ResultIds(run.events)
             P == ToSet(turn.pending)
             Q == ToSet(run.queue)
             before == MessageIds(history) \cup EventIds(turn.committed)
  <1>1. /\ phase = "resume" /\ RunFields /\ TurnFields /\ run.events \in Seq(EventRecords)
        /\ run.queue \in Seq(Ids) /\ turn.committed \in Seq(EventRecords)
        /\ turn.pending \in Seq(Ids) /\ UNCHANGED issued /\ Increasing(run.queue)
    <2>1. phase = "resume" /\ UNCHANGED issued
      BY DEF ResumeStep, ResumeAnswered, ResumeExecutes, ResumeAsks, ResumeDone,
         ResumeRaises, InResume, world, ToolInterrupted
    <2> QED
      BY <2>1, EventsTyped DEF TurnInv, OnceInv, ResumeOnce
  <1>2. /\ TalkShaped /\ TurnShaped /\ ResultsIn(run.events, P) /\ Below(done, Q)
        /\ done \cup Q = P /\ Below(before, P)
    BY <1>1 DEF ReplayShape, ResumeShaped, PendingShaped
  <1>3. run.queue \in Seq(Nat) /\ Ids' = Ids
    BY <1>1 DEF Ids
  <1>4. ASSUME run.queue # <<>>
        PROVE  /\ NextId \in Nat /\ NextId \in Q /\ NextId \notin done
               /\ Q = {NextId} \cup ToSet(Tail(run.queue))
               /\ Below(done \cup {NextId}, ToSet(Tail(run.queue)))
    <2> HIDE DEF done
    <2>1. NextId \in Nat
      BY <1>3, <1>4, HeadAndTail DEF NextId
    <2> QED
      BY <1>1, <1>2, <1>3, <1>4, <2>1, BelowTail DEF NextId
  <1>5. ASSUME run.queue # <<>>, UNCHANGED <<history, turn, phase>>,
               NEW out \in EventNotes, run' = ResumeProcessed(out)
        PROVE  ReplayShape'
    <2> DEFINE e == Append(run.events, Result(NextId, out))
               q == Tail(run.queue)
    <2>1. run'.queue = q /\ run'.events = e
      BY <1>1, <1>5, ProcessedFields
    <2>2. ResultIds(e) = done \cup {NextId}
      BY <1>1, <1>4, <1>5, ResultGrows
    <2>3. ResultsIn(e, P)
      <3>1. NextId \in P /\ NextId \in Nat /\ NextId \notin ResultIds(run.events)
        BY <1>2, <1>4, <1>5
      <3> HIDE DEF P
      <3> QED
        BY <1>1, <1>2, <3>1, ResultsMore
    <2> HIDE DEF e, q, done
    <2>4. Below(ResultIds(e), ToSet(q)) /\ ResultIds(e) \cup ToSet(q) = P
      BY <1>2, <1>4, <1>5, <2>2 DEF q
    <2>5. ResumeShaped'
      BY <1>5, <2>1, <2>3, <2>4 DEF ResumeShaped
    <2>6. PendingShaped'
      BY <1>1, <1>2, <1>5 DEF PendingShaped
    <2>7. TalkShaped' /\ TurnShaped'
      BY <1>2, <1>3, <1>5 DEF TalkShaped, TurnShaped
    <2> QED
      BY <1>1, <1>5, <2>5, <2>6, <2>7 DEF ReplayShape, RunShaped, QueueShaped, InBatches
  <1>6. CASE ResumeAnswered
    <2> DEFINE out == ResumeOutcome(NextCall)
    <2>1. /\ out \in EventNotes /\ run' = ResumeProcessed(out)
          /\ UNCHANGED <<history, turn, phase>> /\ run.queue # <<>>
      BY <1>6 DEF ResumeAnswered, InResume, EventNotes
    <2> HIDE DEF out
    <2> QED
      BY <1>5, <2>1
  <1>7. CASE ResumeExecutes
    <2>1. /\ run' = ResumeProcessed("run") /\ run.queue # <<>>
          /\ UNCHANGED <<history, turn, phase>> /\ "run" \in EventNotes
      BY <1>7 DEF ResumeExecutes, InResume, EventNotes
    <2> QED
      BY <1>5, <2>1
  <1>8. CASE ResumeRaises
    <2>1. ForgetTurn("raised")
      BY <1>8 DEF ResumeRaises
    <2> QED
      BY <1>1, <1>2, <2>1, TurnDropped
  <1>9. CASE ResumeAsks \/ ResumeDone
    <2> DEFINE new == CommitResumed(run.events)
               more == Resumed(run.events)
               all == turn.committed \o more
               left == KeepIn(turn.pending, P \ done)
    <2>1. HasFields(new, TurnNames) /\ new.committed = all /\ new.pending = left
      <3>1. HasFields(new, TurnNames) /\ new.committed = all
        BY <1>1, ResumedMore
      <3>2. new.pending = left
        BY <1>1, ResumedFields
      <3> QED
        BY <3>1, <3>2
    <2>2. more \in Seq(EventRecords) /\ Fits(more) /\ EventIds(more) \subseteq done
      BY <1>1, ResumedFits
    <2>3. ToSet(left) = P \ done
      <3> HIDE DEF done
      <3>1. ToSet(left) = P \cap (P \ done)
        BY <1>1, KeepInToSet
      <3> QED
        BY <3>1
    <2> HIDE DEF new, more, left
    <2>4. /\ Blocks(all) /\ EventIds(all) = EventIds(turn.committed) \cup EventIds(more)
          /\ EventIds(all) \subseteq Ids /\ Below(MessageIds(history), EventIds(all))
      BY <1>1, <1>2, <2>2, FitsCommitted
    <2> HIDE DEF all
    <2>5. /\ \/ /\ ResumeAsks
                /\ \E n : turn' = [new EXCEPT !.asked = NextId, !.resuming = TRUE,
                                              !.questions = n]
                /\ phase' = "asking"
             \/ /\ turn' = [new EXCEPT !.asked = 0, !.resuming = FALSE]
                /\ phase' = "model"
          /\ run' = FreshRun /\ UNCHANGED history
      BY <1>9 DEF ResumeAsks, ResumeDone, StartRun, new
    <2>6. /\ turn'.committed = all /\ turn'.pending = left
          /\ phase' = "asking" => turn'.asked = NextId /\ ResumeAsks
      BY <2>1, <2>5 DEF HasFields, TurnNames
    <2>7. run'.events = <<>>
      BY <2>5 DEF FreshRun
    <2>8. TalkShaped' /\ TurnShaped'
      BY <1>1, <1>2, <1>3, <2>4, <2>5, <2>6 DEF TalkShaped, TurnShaped
    <2>9. CASE phase' = "model"
      BY <2>7, <2>8, <2>9, RunBegins
    <2>10. CASE phase' = "asking"
      <3>1. run.queue # <<>>
        BY <2>6, <2>10 DEF ResumeAsks, InResume
      <3>2. NextId \in ToSet(left)
        BY <1>2, <1>4, <2>3, <3>1
      <3>3. Below(MessageIds(history) \cup EventIds(all), ToSet(left))
        <4>1. P \ done \subseteq Q
          BY <1>2
        <4> HIDE DEF done
        <4> QED
          BY <1>2, <2>2, <2>3, <2>4, <4>1 DEF Below
      <3>4. PendingShaped'
        BY <2>5, <2>6, <2>10, <3>2, <3>3 DEF PendingShaped
      <3> QED
        BY <2>8, <2>10, <3>4 DEF ReplayShape, RunShaped, QueueShaped, ResumeShaped, InBatches
    <2> QED
      BY <2>5, <2>9, <2>10
  <1> QED
    BY <1>6, <1>7, <1>8, <1>9 DEF ResumeStep

(* Resuming begins without results.                                        *)
LEMMA ResumeBegins ==
    ASSUME TurnInv, ReplayShape, phase = "asking", UNCHANGED <<issued, history, turn>>,
           StartResume(turn.pending)
    PROVE  ReplayShape'
  <1>1. run'.events = <<>> /\ run'.queue = turn.pending /\ phase' = "resume"
    BY DEF StartResume, FreshRun
  <1> DEFINE none == run'.events
  <1>2. none \in Seq(EventRecords) /\ Len(none) = 0 /\ ToSet(none) = {}
    BY <1>1 DEF ToSet
  <1> HIDE DEF none
  <1>3. ResultIds(none) = {} /\ \A C : ResultsIn(none, C)
    BY <1>2 DEF ResultIds, ResultsIn
  <1>4. ResumeShaped'
    <2>1. ResultsIn(none, ToSet(turn.pending)) /\ Below(ResultIds(none), ToSet(turn.pending))
          /\ ResultIds(none) \cup ToSet(turn.pending) = ToSet(turn.pending)
      BY <1>3 DEF Below
    <2> QED
      BY <1>1, <2>1 DEF ResumeShaped, none
  <1>5. PendingShaped'
    BY <1>1 DEF ReplayShape, PendingShaped
  <1>6. TalkShaped' /\ TurnShaped'
    <2>1. Ids' = Ids
      BY DEF Ids
    <2> QED
      BY <1>1, <2>1 DEF ReplayShape, TalkShaped, TurnShaped
  <1> QED
    BY <1>1, <1>4, <1>5, <1>6 DEF ReplayShape, RunShaped, QueueShaped, InBatches

(* An answered question is a response of one call and its result.          *)
LEMMA AnswerShapes ==
    ASSUME TurnInv, UsageInv, ReplayShape, AnswerQuestion
    PROVE  ReplayShape'
  <1>1. /\ phase = "asking" /\ phase' = "model" /\ run' = FreshRun
        /\ UNCHANGED <<issued, history>>
    BY DEF AnswerQuestion, StartRun
  <1>2. /\ TurnFields /\ turn.asked \in Ids /\ turn.batch \in Seq(Ids)
        /\ turn.committed \in Seq(EventRecords) /\ TalkShaped /\ TurnShaped
        /\ turn.asked \in ToSet(turn.pending)
        /\ Below(MessageIds(history) \cup EventIds(turn.committed), ToSet(turn.pending))
    BY <1>1, EventsTyped DEF TurnInv, UsageInv, OfBatch, ReplayShape, PendingShaped
  <1> DEFINE id == turn.asked
             calls == <<id>>
             r == ResponseFor(calls)
             a == Result(id, "answered")
             one == <<a>>
             both == <<r, a>>
             new == Committed(both)
             all == turn.committed \o both
  <1>3. turn' = [new EXCEPT !.pending = <<>>, !.asked = 0]
    BY DEF AnswerQuestion, Answer
  <1>4. HasFields(new, TurnNames) /\ new.committed = all
    BY <1>2, CommittedMore
  <1>5. /\ id \in Nat /\ turn.batch \in Seq(Nat) /\ "answered" \in EventNotes
        /\ "" \in EventNotes
    BY <1>2 DEF Ids, EventNotes, Ends
  <1>6. calls \in Seq(Nat) /\ Len(calls) = 1 /\ ToSet(calls) = {id} /\ Increasing(calls)
    <2>0. id \in Nat
      BY <1>5
    <2>1. calls \in Seq(Nat) /\ Len(calls) = 1 /\ calls[1] = id
      BY <2>0
    <2> HIDE DEF calls
    <2>2. \A k \in 1..Len(calls) : k = 1
      BY <2>1
    <2>3. DOMAIN calls = 1..Len(calls)
      BY <2>1
    <2>4. ToSet(calls) = {id}
      <3>1. 1 \in 1..Len(calls)
        BY <2>1
      <3>2. \A x \in ToSet(calls) : x = id
        BY <2>1, <2>2, <2>3 DEF ToSet
      <3>3. id \in ToSet(calls)
        BY <2>1, <2>3, <3>1 DEF ToSet
      <3> QED
        BY <3>2, <3>3
    <2>5. Increasing(calls)
      BY <2>2 DEF Increasing
    <2> QED
      BY <2>1, <2>4, <2>5
  <1> HIDE DEF calls
  <1>7. r \in EventRecords /\ r.kind = "response" /\ r.calls = calls
    <2> DEFINE none == <<>>
               u == IF UsageCommitted THEN none ELSE turn.batch
    <2>1. none \in Seq(Nat)
      OBVIOUS
    <2>2. r = [kind |-> "response", calls |-> calls, usage |-> u, id |-> 0, note |-> ""]
      BY DEF ResponseFor, Response, Event
    <2> HIDE DEF none, r
    <2>3. u \in Seq(Nat)
      BY <1>5, <2>1
    <2> HIDE DEF u
    <2> QED
      BY <1>5, <1>6, <2>2, <2>3 DEF EventRecords
  <1>8. one \in Seq(EventRecords) /\ a \in EventRecords /\ ResultsIn(one, {id})
    <2>1. id \in {id} /\ a \in EventRecords
      BY <1>5, ResultEvent
    <2> QED
      BY <1>5, <2>1, OneResult
  <1>9. both = <<r>> \o one
    BY PairJoined
  <1> HIDE DEF r, a, one, id
  <1>10. both \in Seq(EventRecords) /\ Blocks(both) /\ EventIds(both) = {id}
    <2>1. Increasing(r.calls) /\ ResultsIn(one, ToSet(r.calls))
      BY <1>6, <1>7, <1>8
    <2>2. Blocks(<<r>> \o one) /\ EventIds(<<r>> \o one) = ToSet(r.calls)
          /\ <<r>> \o one \in Seq(EventRecords)
      BY <1>7, <1>8, <2>1, OneBlock
    <2> QED
      BY <1>6, <1>7, <1>9, <2>2
  <1> HIDE DEF both, new
  <1>11. Fits(both)
    BY <1>2, <1>10 DEF Fits, Below, id
  <1>12. /\ Blocks(all) /\ EventIds(all) \subseteq Ids
         /\ Below(MessageIds(history), EventIds(all))
    BY <1>1, <1>2, <1>10, <1>11, FitsCommitted
  <1> HIDE DEF all
  <1>13. turn'.committed = all /\ run'.events = <<>> /\ Ids' = Ids
    BY <1>1, <1>3, <1>4 DEF HasFields, TurnNames, FreshRun, Ids
  <1>14. TalkShaped' /\ TurnShaped'
    BY <1>1, <1>2, <1>12, <1>13 DEF TalkShaped, TurnShaped
  <1> QED
    BY <1>1, <1>13, <1>14, RunBegins

(* Every answer leaves the history in shape.                               *)
LEMMA UserAnswerShapes ==
    ASSUME TurnInv, UsageInv, ReplayShape, UserAnswer
    PROVE  ReplayShape'
  <1>1. /\ phase = "asking" /\ UNCHANGED issued
        /\ turn.committed \in Seq(EventRecords) /\ TalkShaped /\ TurnShaped
    <2>1. phase = "asking" /\ UNCHANGED issued
      BY DEF UserAnswer, AnswerYes, AnswerYesThisTurn, AnswerNo, AnswerQuestion, NoAnswer,
         world
    <2> QED
      BY <2>1, EventsTyped DEF ReplayShape
  <1>2. CASE StartResume(turn.pending) /\ UNCHANGED <<history, turn>>
    BY <1>1, <1>2, ResumeBegins
  <1>3. CASE StartRun /\ UNCHANGED <<history, turn>>
    <2>1. run'.events = <<>> /\ phase' = "model" /\ Ids' = Ids
      BY <1>1, <1>3 DEF StartRun, FreshRun, Ids
    <2>2. TalkShaped' /\ TurnShaped'
      BY <1>1, <1>3, <2>1 DEF TalkShaped, TurnShaped
    <2> QED
      BY <2>1, <2>2, RunBegins
  <1>4. CASE AnswerQuestion
    BY <1>4, AnswerShapes
  <1>5. CASE NoAnswer
    <2> DEFINE a == Ask(turn.asked)
               one == <<a>>
               none == <<>>
               status == IF turn.resuming THEN "awaiting_confirmation" ELSE "stopped"
    <2>1. FinishTurn(one, status)
      BY <1>5 DEF NoAnswer
    <2>2. a \in EventRecords /\ Plain(one)
      <3>1. turn.asked \in Nat
        BY <1>1 DEF TurnInv, Ids
      <3> QED
        BY <3>1, LastEvents, LastPlain
    <2> HIDE DEF a, status
    <2>3. one \in Seq(EventRecords)
      BY <2>2
    <2> HIDE DEF one
    <2>4. none \in Seq(EventRecords) /\ none \o one = one
      BY <2>3
    <2>5. Fits(none)
      BY NoBlocks DEF Fits, Below
    <2> HIDE DEF none
    <2>6. Fits(none \o one)
      BY <2>2, <2>3, <2>4, <2>5, PlainFits
    <2>7. Fits(one)
      BY <2>4, <2>6
    <2> QED
      BY <1>1, <2>1, <2>3, <2>7, TurnCloses
  <1>6. CASE AnswerYes \/ AnswerYesThisTurn
    BY <1>2, <1>6 DEF AnswerYes, AnswerYesThisTurn
  <1>7. CASE AnswerNo
    BY <1>2, <1>3, <1>7 DEF AnswerNo
  <1> QED
    BY <1>4, <1>5, <1>6, <1>7 DEF UserAnswer

(* A message joins the history.                                            *)
LEMMA UserMessageShapes ==
    ASSUME ReplayShape, NEW continue, UserMessage(continue)
    PROVE  ReplayShape'
  <1>1. /\ run'.events = <<>> /\ phase' = "model" /\ history' = Append(history, User)
        /\ turn'.committed = <<>> /\ UNCHANGED issued
    BY DEF UserMessage, StartRun, FreshRun, FreshTurn
  <1>2. history \in Seq(Said) /\ Shaped(history) /\ MessageIds(history) \subseteq Ids
    BY DEF ReplayShape, TalkShaped
  <1>3. /\ history' \in Seq(Said) /\ Shaped(history')
        /\ MessageIds(history') = MessageIds(history)
        /\ history' # <<>> /\ history'[Len(history')] = User
    BY <1>1, <1>2, UserAdded
  <1>4. Ids' = Ids
    BY <1>1 DEF Ids
  <1>5. TalkShaped'
    BY <1>2, <1>3, <1>4 DEF TalkShaped
  <1>6. TurnShaped'
    BY <1>1, NoBlocks DEF TurnShaped, Below
  <1> QED
    BY <1>1, <1>5, <1>6, RunBegins

(* No call is in the lane and kept apart.                                  *)
LEMMA LanesApart ==
    ASSUME NEW s \in Seq(LaneItems), NEW t \in Seq(SideItems)
    PROVE  IdsOf(s) \cap IdsOf(t) = {}
  <1>1. \A x \in ToSet(s) : ParallelCall(issued[x.id])
    BY ToSetIn DEF LaneItems
  <1>2. \A x \in ToSet(t) : ~ParallelCall(issued[x.id])
    BY ToSetIn DEF SideItems
  <1>3. ASSUME NEW x \in ToSet(s), NEW y \in ToSet(t) PROVE x.id # y.id
    BY <1>1, <1>2
  <1> QED
    BY <1>3 DEF IdsOf

(* No items.                                                               *)
LEMMA NoItems == IdsOf(<<>>) = {} /\ InOrder(<<>>)
  <1>1. ToSet(<<>>) = {} /\ Len(<<>>) = 0
    BY DEF ToSet
  <1> QED
    BY <1>1 DEF IdsOf, InOrder

(* Where nothing is changed but the phase.                                 *)
LEMMA SameTalk ==
    ASSUME TalkShaped, TurnShaped, phase # "idle", UNCHANGED <<history, issued>>,
           turn'.committed = turn.committed
    PROVE  TalkShaped' /\ TurnShaped' /\ Ids' = Ids
  <1>1. Ids' = Ids
    BY DEF Ids
  <1> QED
    BY <1>1 DEF TalkShaped, TurnShaped

(* The calls of a sorted batch have no results.                            *)
LEMMA PrepareShapes ==
    ASSUME ConsentBase, TurnInv, OnceInv, OnceInv', UsageInv, ReplayShape, PrepareBatch
    PROVE  ReplayShape'
  <1> DEFINE budget == RemainingBudget
             cut == budget < Len(run.queue)
             calls == IF cut THEN SubSeq(run.queue, 1, budget) ELSE run.queue
             sorted == Sorted(calls)
  <1>1. /\ phase = "prepare" /\ UNCHANGED issued /\ RunFields /\ TurnFields
        /\ run.events \in Seq(EventRecords) /\ turn.committed \in Seq(EventRecords)
        /\ run.window = <<>> /\ turn.batch \in Seq(Ids) /\ run.queue = turn.batch
    <2>1. phase = "prepare" /\ UNCHANGED issued
      BY DEF PrepareBatch, world
    <2> QED
      BY <2>1, EventsTyped DEF TurnInv, OnceInv, QueueOnce
  <1>2. /\ Fits(run.events) /\ Current(run.events, turn.batch) /\ TalkShaped /\ TurnShaped
        /\ Below(ResultIds(run.events), ToSet(turn.batch))
    BY <1>1 DEF ReplayShape, RunShaped, QueueShaped, InBatches
  <1>3. CASE EndWithNotice(run.events, "tool_call_limit")
    <2>1. "tool_call_limit" \in Ends
      BY DEF Ends, Limits
    <2> QED
      BY <1>1, <1>2, <1>3, <2>1, TurnStops
  <1>4. CASE ~EndWithNotice(run.events, "tool_call_limit")
    <2>1. /\ phase' = "windows" /\ UNCHANGED history
          /\ \E r : run' = [run EXCEPT !.queue = <<>>, !.lane = sorted.lane,
                                       !.items = sorted.items, !.retries = r, !.cut = cut]
          /\ \E q : turn' = [turn EXCEPT !.questions = q]
      BY <1>4 DEF PrepareBatch
    <2> HIDE DEF sorted, cut
    <2>2. run'.events = run.events /\ run'.window = <<>>
      BY <1>1, <2>1 DEF RunFields, HasFields
    <2>3. turn'.committed = turn.committed /\ turn'.batch = turn.batch
      BY <1>1, <2>1 DEF TurnFields, TurnNames, HasFields
    <2>4. TalkShaped' /\ TurnShaped' /\ Ids' = Ids
      BY <1>1, <1>2, <2>1, <2>3, SameTalk
    <2>5. Fits(run.events)'
      BY <1>2, <2>1, <2>2, <2>3, <2>4 DEF Fits
    <2>6. RunShaped'
      BY <1>2, <2>2, <2>3, <2>5 DEF RunShaped
    <2>7. /\ \A x \in ToSet(run'.lane) : x.id \in ToSet(turn.batch)
          /\ \A x \in ToSet(run'.items) : x.id \in ToSet(turn.batch)
      BY <2>1, <2>3 DEF OnceInv, LaneOnce, ItemsOnce
    <2>8. ToSet(turn.batch) \cap ResultIds(run.events) = {}
      <3>1. ToSet(turn.batch) \subseteq Nat
        BY <1>1, ToSetIn DEF Ids
      <3> QED
        BY <1>2, <3>1 DEF Below
    <2>9. /\ IdsOf(run'.lane) \subseteq ToSet(turn.batch) \ ResultIds(run.events)
          /\ IdsOf(run'.items) \subseteq ToSet(turn.batch) \ ResultIds(run.events)
      BY <2>7, <2>8 DEF IdsOf
    <2>10. /\ Unanswered(run.lane)' /\ Unanswered(run.items)' /\ Unanswered(run.window)'
      BY <2>2, <2>3, <2>9, NoItems DEF Unanswered
    <2>11. QueueShaped'
      BY <2>1, <2>2, <2>10, NoItems DEF QueueShaped
    <2> QED
      BY <2>1, <2>4, <2>6, <2>11 DEF ReplayShape, PendingShaped, ResumeShaped
  <1> QED
    BY <1>3, <1>4

(* A window is the first part of the lane.                                 *)
LEMMA WindowShapes ==
    ASSUME ConsentBase, TurnInv, OnceInv, UsageInv, ReplayShape, OpenWindow
    PROVE  ReplayShape'
  <1> DEFINE size == IF Len(run.lane) < config.window THEN Len(run.lane)
                                                      ELSE config.window
             window == SubSeq(run.lane, 1, size)
             rest == SubSeq(run.lane, size + 1, Len(run.lane))
  <1>1. /\ phase = "windows" /\ phase' = "windows" /\ turn' = turn
        /\ run' = [run EXCEPT !.window = window, !.lane = rest]
        /\ run.window = <<>> /\ UNCHANGED <<history, issued>>
    BY DEF OpenWindow, LaneAfter
  <1>2. run.lane \in Seq(LaneItems) /\ RunFields /\ InOrder(run.lane)
    BY <1>1 DEF TurnInv, OnceInv, LaneOnce
  <1>3. size \in 0..Len(run.lane)
    BY <1>2, ConfigAssumption DEF ConsentBase, Configurations
  <1> HIDE DEF size
  <1>4. /\ InOrder(window) /\ window \in Seq(LaneItems)
        /\ ToSet(run.lane) = ToSet(window) \cup ToSet(rest)
        /\ \A x \in ToSet(window), y \in ToSet(rest) : x.id < y.id
    BY <1>2, <1>3, LaneParts, LaneCut
  <1> HIDE DEF window, rest
  <1>5. IdsOf(run.lane) = IdsOf(window) \cup IdsOf(rest)
    BY <1>4 DEF IdsOf
  <1>6. IdsOf(rest) \cap IdsOf(window) = {}
    <2>1. \A x \in ToSet(window) : x.id \in Nat
      BY <1>4, ToSetIn DEF LaneItems, FitItems, Items, Ids
    <2>2. ASSUME NEW x \in ToSet(window), NEW y \in ToSet(rest) PROVE x.id # y.id
      BY <1>4, <2>1
    <2> QED
      BY <2>2 DEF IdsOf
  <1>7. /\ run'.window = window /\ run'.lane = rest /\ run'.events = run.events
        /\ run'.items = run.items
    BY <1>1, <1>2 DEF RunFields, HasFields
  <1>8. /\ Fits(run.events) /\ Current(run.events, turn.batch) /\ TalkShaped /\ TurnShaped
        /\ Unanswered(run.lane) /\ Unanswered(run.items)
    BY <1>1 DEF ReplayShape, RunShaped, QueueShaped, InBatches
  <1>9. TalkShaped' /\ TurnShaped' /\ Ids' = Ids
    BY <1>1, <1>8, SameTalk
  <1>10. Fits(run.events)'
    BY <1>1, <1>7, <1>8, <1>9 DEF Fits
  <1>11. RunShaped'
    BY <1>1, <1>7, <1>8, <1>10 DEF RunShaped
  <1>12. Unanswered(run.lane)' /\ Unanswered(run.window)' /\ Unanswered(run.items)'
    BY <1>1, <1>5, <1>7, <1>8 DEF Unanswered
  <1>13. QueueShaped'
    BY <1>1, <1>4, <1>6, <1>7, <1>12 DEF QueueShaped
  <1> QED
    BY <1>1, <1>9, <1>11, <1>13 DEF ReplayShape, PendingShaped, ResumeShaped

(* Each item has at most one result.                                       *)
LEMMA CollectedOnce ==
    ASSUME ConsentBase, NEW items \in Seq(LaneItems), InOrder(items)
    PROVE  ResultsOf(items) \in Seq(EventRecords)
           /\ ResultsIn(ResultsOf(items), IdsOf(items))
  <1> DEFINE results == [k \in DOMAIN items |-> Result(items[k].id, items[k].out)]
             K == {r \in ToSet(results) : r.note # "confirm"}
             S == {Result(items[k].id, items[k].out) : k \in DOMAIN items}
             kept == KeepIn(results, K)
             n == Len(items)
  <1>1. DOMAIN items = 1..n /\ n \in Nat
    OBVIOUS
  <1>2. \A k \in 1..n : results[k].kind = "result" /\ results[k].id = items[k].id
    BY <1>1 DEF Result, Event
  <1>3. results \in Seq(S) /\ Len(results) = n
    BY <1>1
  <1>4. ResultsOf(items) \in Seq(EventRecords) /\ ResultsOf(items) = kept
    BY ResultsCollected DEF ResultsOf
  <1>5. \A k \in 1..n : items[k].id \in Nat /\ items[k].id \in IdsOf(items)
    <2>1. \A k \in 1..n : items[k] \in LaneItems /\ items[k] \in ToSet(items)
      BY <1>1 DEF ToSet
    <2> QED
      BY <2>1 DEF LaneItems, FitItems, Items, Ids, IdsOf
  <1>6. ASSUME NEW j \in 1..n, NEW k \in 1..n, j # k PROVE items[j].id # items[k].id
    <2>1. j < k \/ k < j
      BY <1>6
    <2>2. items[j].id < items[k].id \/ items[k].id < items[j].id
      BY <2>1 DEF InOrder
    <2> QED
      BY <1>5, <2>2
  <1> HIDE DEF results, S, K
  <1>7. PICK r : Ranks(r, results, K, kept)
    BY <1>3, KeepInRanks
  <1> HIDE DEF kept
  <1>8. \A a \in 1..Len(kept) : \E m \in 1..n : r[m] = a /\ kept[a] = results[m]
    <2>1. /\ \A m \in 1..n : results[m] \in K => kept[r[m]] = results[m]
          /\ \A a \in 1..Len(kept) : \E m \in 1..n : results[m] \in K /\ r[m] = a
      BY <1>3, <1>7 DEF Ranks
    <2> QED
      BY <2>1
  <1>9. \A a \in 1..Len(kept) : kept[a].kind = "result" /\ kept[a].id \in IdsOf(items)
    BY <1>2, <1>5, <1>8
  <1>10. ASSUME NEW a \in 1..Len(kept), NEW b \in 1..Len(kept), a # b
         PROVE  kept[a].id # kept[b].id
    <2>1. PICK m \in 1..n : r[m] = a /\ kept[a] = results[m]
      BY <1>8
    <2>2. PICK l \in 1..n : r[l] = b /\ kept[b] = results[l]
      BY <1>8
    <2> QED
      BY <1>2, <1>6, <1>10, <2>1, <2>2
  <1> QED
    BY <1>4, <1>9, <1>10 DEF ResultsIn

(* What is collected of a window are the results of its calls.             *)
LEMMA CollectShapes ==
    ASSUME ConsentBase, TurnInv, UsageInv, ReplayShape, ~RunsAhead, CollectWindow
    PROVE  ReplayShape'
  <1> DEFINE window == run.window
             I == {k \in 1..Len(window) : window[k].out = "confirm"}
             J == {k \in 1..Len(window) : window[k].stop}
             stop == SelectInSeq(window, LAMBDA x : x.stop)
             ask == SelectInSeq(window, LAMBDA x : x.out = "confirm")
             part == IF stop = 0 THEN window ELSE SubSeq(window, 1, stop)
             results == ResultsOf(part)
             events == run.events \o results
  <1>1. /\ phase = "windows" /\ UNCHANGED issued
        /\ window \in Seq(LaneItems) /\ RunFields /\ TurnFields
        /\ run.events \in Seq(EventRecords) /\ turn.committed \in Seq(EventRecords)
        /\ run.lane \in Seq(LaneItems) /\ run.items \in Seq(SideItems)
    <2>1. phase = "windows" /\ UNCHANGED issued
      BY DEF CollectWindow, world
    <2> QED
      BY <2>1, EventsTyped DEF TurnInv
  <1>2. /\ Fits(run.events) /\ Current(run.events, turn.batch) /\ TalkShaped /\ TurnShaped
        /\ Unanswered(run.lane) /\ Unanswered(window) /\ Unanswered(run.items)
        /\ InOrder(window) /\ IdsOf(run.lane) \cap IdsOf(window) = {}
    BY <1>1 DEF ReplayShape, RunShaped, QueueShaped, InBatches
  <1>3. ask = 0
    <2>1. \A k \in 1..Len(window) : window[k] \in LaneItems
      BY <1>1
    <2>2. \A k \in 1..Len(window) : window[k].out # "confirm"
      BY <2>1 DEF LaneItems, FitItems, Asking
    <2>3. ask = IF I = {} THEN 0 ELSE Min(I)
      BY DEF SelectInSeq
    <2> QED
      BY <2>2, <2>3
  <1>4. stop \in 0..Len(window)
    <2>1. stop = IF J = {} THEN 0 ELSE Min(J)
      BY DEF SelectInSeq
    <2>2. J \in SUBSET Nat /\ Len(window) \in Nat
      BY <1>1
    <2>3. J # {} => Min(J) \in J
      BY <2>2, MinIn
    <2> QED
      BY <2>1, <2>2, <2>3
  <1>5. \/ EndWithNotice(events, "invalid_tool_call")
        \/ /\ \E x : run' = [run EXCEPT !.events = events, !.executed = x,
                                        !.window = <<>>]
           /\ UNCHANGED <<history, phase, turn>>
    BY <1>3 DEF CollectWindow
  <1>6. /\ part \in Seq(LaneItems) /\ InOrder(part) /\ IdsOf(part) \subseteq IdsOf(window)
    <2> HIDE DEF window, stop
    <2>1. /\ SubSeq(window, 1, stop) \in Seq(LaneItems) /\ InOrder(SubSeq(window, 1, stop))
          /\ ToSet(SubSeq(window, 1, stop)) \subseteq ToSet(window)
      BY <1>1, <1>2, <1>4, LaneCut
    <2>2. IdsOf(SubSeq(window, 1, stop)) \subseteq IdsOf(window)
      BY <2>1 DEF IdsOf
    <2> QED
      BY <1>1, <1>2, <2>1, <2>2
  <1> HIDE DEF window, stop, part
  <1>7. results \in Seq(EventRecords) /\ ResultsIn(results, IdsOf(part))
    BY <1>6, CollectedOnce
  <1> HIDE DEF results
  <1> DEFINE open == ToSet(turn.batch) \ ResultIds(run.events)
  <1>8. ResultsIn(results, open) /\ ResultIds(results) \subseteq IdsOf(window)
    <2>1. IdsOf(part) \subseteq open
      BY <1>2, <1>6 DEF Unanswered
    <2> HIDE DEF open
    <2>2. ResultsIn(results, open)
      BY <1>7, <2>1 DEF ResultsIn
    <2>3. ResultIds(results) \subseteq IdsOf(part)
      BY <1>7, EventIdsAt DEF ResultsIn
    <2> QED
      BY <1>6, <2>2, <2>3
  <1>9. /\ events \in Seq(EventRecords) /\ Fits(events) /\ Current(events, turn.batch)
        /\ ResultIds(events) = ResultIds(run.events) \cup ResultIds(results)
    BY <1>1, <1>2, <1>7, <1>8, ResultsFit, ResultsJoined
  <1> HIDE DEF events
  <1>10. CASE EndWithNotice(events, "invalid_tool_call")
    <2>1. "invalid_tool_call" \in Ends
      BY DEF Ends
    <2> QED
      BY <1>1, <1>2, <1>9, <1>10, <2>1, TurnStops
  <1>11. ASSUME UNCHANGED <<history, phase, turn>>,
                \E x : run' = [run EXCEPT !.events = events, !.executed = x,
                                          !.window = <<>>]
         PROVE  ReplayShape'
    <2>1. /\ run'.events = events /\ run'.window = <<>> /\ run'.lane = run.lane
          /\ run'.items = run.items
      BY <1>1, <1>11 DEF RunFields, HasFields
    <2>2. TalkShaped' /\ TurnShaped' /\ Ids' = Ids
      BY <1>1, <1>2, <1>11, SameTalk
    <2>3. Fits(run.events)'
      BY <1>9, <1>11, <2>1, <2>2 DEF Fits
    <2>4. RunShaped'
      BY <1>9, <1>11, <2>1, <2>3 DEF RunShaped
    <2>5. IdsOf(window) \cap IdsOf(run.items) = {}
      BY <1>1, LanesApart
    <2>6. Unanswered(run.lane)' /\ Unanswered(run.items)' /\ Unanswered(run.window)'
      BY <1>2, <1>8, <1>9, <1>11, <2>1, <2>5, NoItems DEF Unanswered
    <2>7. QueueShaped'
      BY <1>1, <1>11, <2>1, <2>6, NoItems DEF QueueShaped
    <2> QED
      BY <1>1, <1>11, <2>2, <2>4, <2>7 DEF ReplayShape, PendingShaped, ResumeShaped
  <1> QED
    BY <1>5, <1>10, <1>11

(* The items kept apart come after the windows.                            *)
LEMMA DrainedShapes ==
    ASSUME ReplayShape, WindowsDone
    PROVE  ReplayShape'
  <1>1. /\ phase = "windows" /\ phase' = "items"
        /\ UNCHANGED <<history, turn, run, issued>>
    BY DEF WindowsDone, world
  <1>2. /\ Fits(run.events) /\ Current(run.events, turn.batch) /\ TalkShaped /\ TurnShaped
        /\ Unanswered(run.items)
    BY <1>1 DEF ReplayShape, RunShaped, QueueShaped, InBatches
  <1>3. TalkShaped' /\ TurnShaped' /\ Ids' = Ids
    BY <1>1, <1>2, SameTalk
  <1>4. RunShaped'
    BY <1>1, <1>2, <1>3 DEF RunShaped, Fits
  <1>5. QueueShaped'
    BY <1>1, <1>2 DEF QueueShaped, Unanswered
  <1> QED
    BY <1>1, <1>3, <1>4, <1>5 DEF ReplayShape, PendingShaped, ResumeShaped

(* They are answered one after the other.                                  *)
LEMMA ItemsShape ==
    ASSUME ConsentBase, TurnInv, OnceInv, UsageInv, ReplayShape, ~RunsAhead,
           ItemAnswered \/ ItemAsks \/ ItemExecutes \/ ItemRaises \/ ItemsDone
    PROVE  ReplayShape'
  <1>1. /\ phase = "items" /\ RunFields /\ TurnFields
        /\ run.events \in Seq(EventRecords) /\ turn.committed \in Seq(EventRecords)
        /\ run.items \in Seq(SideItems) /\ InOrder(run.items) /\ UNCHANGED issued
    <2>1. phase = "items" /\ UNCHANGED issued
      BY DEF ItemAnswered, ItemAsks, ItemExecutes, ItemRaises, ItemsDone, InItems, world,
         ToolInterrupted
    <2> QED
      BY <2>1, EventsTyped DEF TurnInv, OnceInv, ItemsOnce
  <1>2. /\ Fits(run.events) /\ Current(run.events, turn.batch) /\ TalkShaped /\ TurnShaped
        /\ Unanswered(run.items)
    BY <1>1 DEF ReplayShape, RunShaped, QueueShaped, InBatches
  <1> DEFINE e == Append(run.events, Result(Item.id, Item.out))
             rest == Tail(run.items)
  <1>3. ASSUME run.items # <<>>
        PROVE  /\ Item \in Items /\ Item.out \notin Asking
               /\ Item.id \in Nat /\ Item.id \in IdsOf(run.items)
               /\ IdsOf(rest) \subseteq IdsOf(run.items) \ {Item.id}
    <2>1. Item \in SideItems
      BY <1>1, <1>3, HeadAndTail DEF Item
    <2>2. /\ Item \in ToSet(run.items)
          /\ \A x \in ToSet(rest) : x \in ToSet(run.items) /\ Item.id < x.id
      BY <1>1, <1>3, InOrderTail DEF Item
    <2>3. Item \in Items /\ Item.out \notin Asking /\ Item.id \in Nat
      BY <2>1 DEF SideItems, FitItems, Items, Ids
    <2> HIDE DEF rest
    <2>4. \A x \in ToSet(rest) : x.id # Item.id
      BY <2>2, <2>3
    <2> QED
      BY <2>2, <2>3, <2>4 DEF IdsOf
  <1>4. ItemProcessed.events = e /\ ItemProcessed.items = rest
    <2> DEFINE p == ItemProcessed
    <2>1. \E x : p = [run EXCEPT !.events = e, !.items = rest, !.executed = x]
      BY DEF ItemProcessed
    <2> HIDE DEF p, e, rest
    <2> QED
      BY <1>1, <2>1 DEF RunFields, HasFields, p
  <1>5. ASSUME run.items # <<>>
        PROVE  /\ e \in Seq(EventRecords) /\ Fits(e) /\ Current(e, turn.batch)
               /\ ResultIds(e) = ResultIds(run.events) \cup {Item.id}
    <2>1. /\ Item.id \in Nat /\ Item.id \in ToSet(turn.batch)
          /\ Item.id \notin ResultIds(run.events)
      BY <1>2, <1>3, <1>5 DEF Unanswered
    <2>2. Item.out \in EventNotes
      BY <1>3, <1>5 DEF Items, Asking, EventNotes
    <2> DEFINE id == Item.id
               note == Item.out
    <2> HIDE DEF id, note
    <2>3. /\ id \in Nat /\ id \in ToSet(turn.batch) /\ id \notin ResultIds(run.events)
          /\ note \in EventNotes
      BY <2>1, <2>2 DEF id, note
    <2>4. /\ Append(run.events, Result(id, note)) \in Seq(EventRecords)
          /\ Fits(Append(run.events, Result(id, note)))
          /\ Current(Append(run.events, Result(id, note)), turn.batch)
          /\ ResultIds(Append(run.events, Result(id, note)))
             = ResultIds(run.events) \cup {id}
      BY <1>1, <1>2, <2>3, ResultFits
    <2> QED
      BY <2>4 DEF id, note
  <1> HIDE DEF e, rest
  <1>6. ASSUME run.items # <<>>, run' = ItemProcessed, UNCHANGED <<history, turn, phase>>
        PROVE  ReplayShape'
    <2>1. run'.events = e /\ run'.items = rest
      BY <1>4, <1>6
    <2>2. TalkShaped' /\ TurnShaped' /\ Ids' = Ids
      BY <1>1, <1>2, <1>6, SameTalk
    <2>3. Fits(run.events)'
      BY <1>5, <1>6, <2>1, <2>2 DEF Fits
    <2>4. RunShaped'
      BY <1>5, <1>6, <2>1, <2>3 DEF RunShaped
    <2>5. Unanswered(run.items)'
      BY <1>2, <1>3, <1>5, <1>6, <2>1 DEF Unanswered
    <2>6. QueueShaped'
      BY <1>1, <1>6, <2>5 DEF QueueShaped
    <2> QED
      BY <1>1, <1>6, <2>2, <2>4, <2>6 DEF ReplayShape, PendingShaped, ResumeShaped
  <1>7. CASE ItemAnswered
    <2>1. run.items # <<>>
      BY <1>7 DEF ItemAnswered, InItems
    <2>2. CASE Item.stop
      <3>1. EndWithNotice(e, "invalid_tool_call") /\ "invalid_tool_call" \in Ends
        BY <1>4, <1>7, <2>2 DEF ItemAnswered, Ends
      <3> QED
        BY <1>1, <1>2, <1>5, <2>1, <3>1, TurnStops
    <2>3. CASE ~Item.stop
      <3>1. run' = ItemProcessed /\ UNCHANGED <<history, turn, phase>>
        BY <1>7, <2>3 DEF ItemAnswered
      <3> QED
        BY <1>6, <2>1, <3>1
    <2> QED
      BY <2>2, <2>3
  <1>8. CASE ItemExecutes
    <2>1. run.items # <<>> /\ run' = ItemProcessed /\ UNCHANGED <<history, turn, phase>>
      BY <1>8 DEF ItemExecutes, InItems
    <2> QED
      BY <1>6, <2>1
  <1>9. ~ItemAsks
    BY <1>3 DEF ItemAsks, InItems
  <1>10. CASE ItemRaises
    <2>1. FinishTurn(Append(run.events, Error), "failed") /\ "failed" \in Ends
      BY <1>10 DEF ItemRaises, Ends
    <2> QED
      BY <1>1, <1>2, <2>1, TurnStops
  <1>11. CASE ItemsDone
    <2>1. CASE run.cut
      <3>1. EndWithNotice(run.events, "tool_call_limit") /\ "tool_call_limit" \in Ends
        BY <1>11, <2>1 DEF ItemsDone, Ends, Limits
      <3> QED
        BY <1>1, <1>2, <3>1, TurnStops
    <2>2. CASE ~run.cut
      <3>1. phase' = "model" /\ UNCHANGED <<history, turn, run>>
        BY <1>11, <2>2 DEF ItemsDone
      <3>2. TalkShaped' /\ TurnShaped' /\ Ids' = Ids
        BY <1>1, <1>2, <3>1, SameTalk
      <3>3. Fits(run.events)'
        BY <1>2, <3>1, <3>2 DEF Fits
      <3> QED
        BY <3>1, <3>2, <3>3
        DEF ReplayShape, RunShaped, QueueShaped, PendingShaped, ResumeShaped, InBatches
    <2> QED
      BY <2>1, <2>2
  <1> QED
    BY <1>7, <1>8, <1>9, <1>10, <1>11

(* A step that leaves turn, run and history alone leaves the shape.        *)
LEMMA QuietShapes ==
    ASSUME ReplayShape, UNCHANGED <<history, phase, turn, run, issued>>
    PROVE  ReplayShape'
  <1>1. /\ history' = history /\ phase' = phase /\ turn' = turn /\ run' = run
        /\ issued' = issued /\ Ids' = Ids
    BY DEF Ids
  <1>2. TalkShaped' /\ TurnShaped' /\ PendingShaped' /\ ResumeShaped'
    BY <1>1 DEF ReplayShape, TalkShaped, TurnShaped, PendingShaped, ResumeShaped
  <1>3. RunShaped' /\ QueueShaped'
    BY <1>1 DEF ReplayShape, RunShaped, QueueShaped, Fits, Unanswered
  <1> QED
    BY <1>2, <1>3 DEF ReplayShape

(* A task does, or fails the turn.                                         *)
LEMMA TaskShapes ==
    ASSUME TurnInv, UsageInv, ReplayShape, NEW id \in running,
           TaskFinishes(id) \/ TaskRaises(id)
    PROVE  ReplayShape'
  <1>1. CASE UNCHANGED <<history, phase, turn, run, issued>>
    BY <1>1, QuietShapes
  <1>2. CASE id \in WindowIds /\ FinishTurn(Append(run.events, Error), "failed")
    <2>1. phase = "windows"
      <3>1. WindowIds # {}
        BY <1>2
      <3>2. run.window = <<>> => WindowIds = {}
        BY DEF WindowIds, ToSet
      <3> QED
        BY <3>1, <3>2 DEF TurnInv
    <2>2. /\ Fits(run.events) /\ TalkShaped /\ TurnShaped /\ "failed" \in Ends
          /\ run.events \in Seq(EventRecords) /\ turn.committed \in Seq(EventRecords)
          /\ UNCHANGED issued
      BY <2>1, EventsTyped
      DEF ReplayShape, RunShaped, InBatches, Ends, TaskFinishes, TaskRaises
    <2> QED
      BY <1>2, <2>1, <2>2, TurnStops
  <1> QED
    BY <1>1, <1>2 DEF TaskFinishes, TaskRaises

(* No step breaks the shape.                                               *)
LEMMA ReplayStep ==
    ASSUME ConsentBase, TurnInv, OnceInv, OnceInv', UsageInv, ReplayShape, ~RunsAhead,
           [Next]_vars
    PROVE  ReplayShape'
  <1>1. ASSUME NEW id \in running, TaskFinishes(id) \/ TaskRaises(id) PROVE ReplayShape'
    BY <1>1, TaskShapes
  <1>2. CASE ParallelStep
    BY <1>1, <1>2, PrepareShapes, WindowShapes, CollectShapes, DrainedShapes, ItemsShape
    DEF ParallelStep
  <1>3. CASE TurnStep
    BY <1>2, <1>3, ModelStepShapes, SequentialStepShapes, ResumeStepShapes,
       UserAnswerShapes
    DEF TurnStep
  <1>4. CASE \E continue \in BOOLEAN : UserMessage(continue)
    BY <1>4, UserMessageShapes
  <1>5. CASE Abort
    <2>1. ForgetTurn("aborted") /\ phase # "idle" /\ UNCHANGED issued /\ TalkShaped
      BY <1>5 DEF Abort, ToolInterrupted, ReplayShape
    <2> QED
      BY <2>1, TurnDropped
  <1>6. CASE UNCHANGED vars
    BY <1>6, QuietShapes DEF vars, world
  <1> QED
    BY <1>3, <1>4, <1>5, <1>6 DEF Next

(* Nothing has been said at the start.                                     *)
LEMMA ReplayInit ==
    ASSUME Init
    PROVE  ReplayShape
  <1> DEFINE none == <<>>
  <1>1. history = <<>> /\ phase = "idle"
    BY DEF Init
  <1>2. none \in Seq(Said) /\ Len(none) = 0 /\ ToSet(none) = {}
    BY DEF ToSet
  <1> HIDE DEF none
  <1>3. Shaped(none) /\ MessageIds(none) = {}
    BY <1>2 DEF Shaped, MessageIds
  <1>4. TalkShaped
    BY <1>1, <1>2, <1>3 DEF TalkShaped, none
  <1> QED
    BY <1>1, <1>4
    DEF ReplayShape, TurnShaped, RunShaped, QueueShaped, PendingShaped, ResumeShaped,
        InBatches

(* Where no call runs ahead of a question, what the next message replays   *)
(* of the durable history is a conversation that a provider accepts,       *)
(* however the last turn ended: every call the history keeps is answered   *)
(* once, right after the response that asked for it, and no result stands  *)
(* there without its call.                                                 *)
THEOREM HistoriesStayReplayable == Spec => []ReplaySafe
  <1>1. Init => ConsentBase /\ TurnInv /\ OnceInv /\ UsageInv /\ ReplayInv
    BY RememberInit, ReplayInit DEF ReplayInv
  <1>2. ConsentBase /\ TurnInv /\ OnceInv /\ UsageInv /\ ReplayInv /\ [Next]_vars
        => (ConsentBase /\ TurnInv /\ OnceInv /\ UsageInv /\ ReplayInv)'
    <2> SUFFICES ASSUME ConsentBase, TurnInv, OnceInv, UsageInv, ReplayInv, [Next]_vars
                 PROVE  (ConsentBase /\ TurnInv /\ OnceInv /\ UsageInv /\ ReplayInv)'
      OBVIOUS
    <2>1. (ConsentBase /\ TurnInv /\ OnceInv /\ UsageInv)' /\ UNCHANGED config
      BY ConsentStep, LedgerStep, BaseKept, OnceStep, UsageStep DEF ConsentChange
    <2>2. RunsAhead' = RunsAhead
      BY <2>1 DEF RunsAhead, Verdict, VerdictUnder
    <2>3. ReplayInv'
      BY <2>1, <2>2, ReplayStep DEF ReplayInv
    <2> QED
      BY <2>1, <2>3
  <1>3. ReplayInv => ReplaySafe
    <2> SUFFICES ASSUME ReplayInv, phase = "idle", ~RunsAhead
                 PROVE  WellFormed(PrepareForModel(Append(history, User)))
      BY DEF ReplaySafe
    <2>1. history \in Seq(Said) /\ Shaped(history)
      BY DEF ReplayInv, ReplayShape, TalkShaped
    <2> QED
      BY <2>1, ShapedReplays
  <1> QED
    BY <1>1, <1>2, <1>3, PTL DEF Spec
-----------------------------------------------------------------------------
(* What a provider is sent.  A conversation in order, in which no result   *)
(* stands without its call, is well formed; making a history fit for the   *)
(* model, compacting it and adding what the run has said keep it in order. *)

(* A neat conversation does not begin with a result.                       *)
LEMMA NeatFirst ==
    ASSUME NEW talk \in Seq(Said), Neat(talk), talk # <<>>
    PROVE  1 \in 1..Len(talk) /\ talk[1].role # "tool"
  <1>1. 1 \in 1..Len(talk) /\ Len(talk) \in Nat
    OBVIOUS
  <1>2. ASSUME NEW i \in 1..Len(talk) PROVE 1 \notin After(talk, i)
    <2>1. 1 \notin (i + 1)..(i + Len(talk[i].calls))
      BY <1>1
    <2> QED
      BY <2>1 DEF After
  <1> QED
    BY <1>1, <1>2 DEF Neat

(* A part of a neat conversation is neat when it does not begin with a     *)
(* result and leaves none behind.                                          *)
LEMMA NeatCut ==
    ASSUME NEW talk \in Seq(Said), Neat(talk), NEW a \in 1..(Len(talk) + 1),
           NEW b \in 0..Len(talk), a <= b => talk[a].role # "tool",
           \A k \in (b + 1)..Len(talk) : talk[k].role # "tool"
    PROVE  /\ SubSeq(talk, a, b) \in Seq(Said) /\ Neat(SubSeq(talk, a, b))
           /\ MessageIds(SubSeq(talk, a, b)) \subseteq MessageIds(talk)
           /\ ToolsRise(talk) => ToolsRise(SubSeq(talk, a, b))
  <1> DEFINE N == Len(talk)
             new == SubSeq(talk, a, b)
             K == a..b
             r == [m \in K |-> m - a + 1]
  <1>1. /\ N \in Nat /\ a \in Nat /\ b \in Nat /\ a >= 1 /\ b <= N
        /\ \A i \in 1..N : talk[i].calls \in Seq(Nat)
    <2>1. \A i \in 1..N : talk[i] \in Said
      OBVIOUS
    <2> QED
      BY <2>1, MessageFields
  <1>2. /\ new \in Seq(Said) /\ Len(new) = (IF a <= b THEN b - a + 1 ELSE 0)
        /\ \A j \in 1..Len(new) : new[j] = talk[a + j - 1]
    <2> DEFINE S == Said
    <2> HIDE DEF S
    <2>1. talk \in Seq(S)
      BY DEF S
    <2>2. /\ new \in Seq(S) /\ Len(new) = (IF a <= b THEN b - a + 1 ELSE 0)
          /\ \A j \in 1..Len(new) : new[j] = talk[a + j - 1]
      BY <1>1, <2>1
    <2> QED
      BY <2>2 DEF S
  <1> HIDE DEF new
  <1>3. /\ \A m \in K : m \in 1..N /\ r[m] = m - a + 1 /\ m \in Nat /\ a <= b
    BY <1>1
  <1>4. K \subseteq 1..Len(talk)
    BY <1>3
  <1>5. ASSUME NEW m \in K PROVE r[m] \in 1..Len(new) /\ new[r[m]] = talk[m]
    <2>1. m - a + 1 \in 1..Len(new)
      BY <1>1, <1>2, <1>3
    <2>2. a + (m - a + 1) - 1 = m
      BY <1>1, <1>3
    <2>3. new[m - a + 1] = talk[a + (m - a + 1) - 1]
      BY <1>2, <2>1
    <2> QED
      BY <1>3, <2>1, <2>2, <2>3
  <1>6. \A m, n \in K : m < n => r[m] < r[n]
    BY <1>1, <1>3
  <1>7. ASSUME NEW j \in 1..Len(new) PROVE \E m \in K : r[m] = j
    <2>1. a + j - 1 \in K /\ (a + j - 1) - a + 1 = j
      BY <1>1, <1>2
    <2> QED
      BY <1>3, <2>1
  <1>8. ASSUME NEW m \in K, talk[m].calls # <<>>, NEW d \in 0..Len(talk[m].calls)
        PROVE  m + d \in K /\ r[m + d] = r[m] + d
    <2>1. Len(talk[m].calls) \in Nat /\ m \in 1..N
      BY <1>1, <1>3
    <2>2. d = 0 \/ m + d \in After(talk, m)
      BY <2>1 DEF After
    <2>3. \A k \in After(talk, m) : k \in 1..Len(talk) /\ talk[k].role = "tool"
      BY <1>8, <2>1 DEF Neat, Shaped
    <2>4. d = 0 \/ (m + d \in 1..N /\ m + d \notin (b + 1)..Len(talk))
      BY <2>2, <2>3
    <2>5. m + d \in K
      BY <1>1, <1>3, <2>1, <2>4
    <2>6. r[m + d] = (m + d) - a + 1 /\ r[m] = m - a + 1
      BY <1>3, <2>5
    <2> QED
      BY <1>1, <1>3, <2>1, <2>5, <2>6
  <1>9. ASSUME NEW k \in K, talk[k].role = "tool" PROVE \E i \in K : k \in After(talk, i)
    <2>1. PICK i \in 1..Len(talk) : k \in After(talk, i)
      BY <1>3, <1>9 DEF Neat
    <2>2. Len(talk[i].calls) \in Nat /\ i \in Nat
          /\ k \in (i + 1)..(i + Len(talk[i].calls))
      BY <1>1, <2>1 DEF After
    <2>3. talk[i].calls # <<>>
      BY <2>2
    <2>4. ASSUME i < a PROVE FALSE
      <3>1. a \in (i + 1)..(i + Len(talk[i].calls))
        BY <1>1, <2>2, <2>4
      <3>2. a \in After(talk, i)
        BY <3>1 DEF After
      <3>3. talk[a].role = "tool"
        BY <2>3, <3>2 DEF Neat, Shaped
      <3> QED
        BY <1>3, <3>3
    <2>5. i \in K
      BY <1>1, <2>2, <2>4
    <2> QED
      BY <2>1, <2>5
  <1> HIDE DEF r, K
  <1>10. Moves(r, K, talk, new)
    BY <1>4, <1>5, <1>6, <1>7, <1>8, <1>9 DEF Moves
  <1>11. Shaped(talk)
    BY DEF Neat
  <1> QED
    BY <1>2, <1>10, <1>11, NeatMoved DEF new

(* What is prepared for the model of a shaped conversation is neat.        *)
LEMMA PreparedNeat ==
    ASSUME NEW talk \in Seq(Said), Shaped(talk)
    PROVE  /\ PrepareForModel(talk) \in Seq(Said) /\ Neat(PrepareForModel(talk))
           /\ MessageIds(PrepareForModel(talk)) \subseteq MessageIds(talk)
           /\ ToolsRise(talk) => ToolsRise(PrepareForModel(talk))
  <1> DEFINE clean == Sanitize(talk)
             results == {m.id : m \in {n \in ToSet(clean) : n.role = "tool"}}
             Stripped(m) == /\ m.role = "assistant"
                            /\ \/ m.calls = <<>>
                               \/ ~(ToSet(m.calls) \subseteq results)
             stops == {i \in DOMAIN clean : ~Stripped(clean[i])}
             b == IF stops = {} THEN 0
                  ELSE CHOOSE i \in stops : \A j \in stops : j <= i
  <1>1. /\ clean \in Seq(Said) /\ Neat(clean) /\ MessageIds(clean) \subseteq MessageIds(talk)
        /\ ToolsRise(talk) => ToolsRise(clean)
    BY ShapedClean
  <1>2. PrepareForModel(talk) = SubSeq(clean, 1, b)
    BY DEF PrepareForModel
  <1> HIDE DEF clean, results
  <1>3. DOMAIN clean = 1..Len(clean) /\ Len(clean) \in Nat
    BY <1>1
  <1>4. \A i \in 1..Len(clean) : i \notin stops => clean[i].role # "tool"
    BY <1>3
  <1>5. stops \in SUBSET (1..Len(clean))
    BY <1>3
  <1> HIDE DEF stops
  <1>6. b \in 0..Len(clean) /\ \A k \in (b + 1)..Len(clean) : k \notin stops
    <2>1. CASE stops = {}
      BY <1>3, <2>1
    <2>2. CASE stops # {}
      <3>1. \E i \in stops : \A j \in stops : j <= i
        BY <1>3, <1>5, <2>2, Greatest
      <3>2. b = CHOOSE i \in stops : \A j \in stops : j <= i
        BY <2>2
      <3> HIDE DEF b
      <3>3. b \in stops /\ \A j \in stops : j <= b
        BY <3>1, <3>2, Zenon
      <3> QED
        BY <1>3, <1>5, <3>3
    <2> QED
      BY <2>1, <2>2
  <1> HIDE DEF b
  <1>7. \A k \in (b + 1)..Len(clean) : clean[k].role # "tool"
    BY <1>3, <1>4, <1>6
  <1>8. 1 <= b => clean[1].role # "tool"
    <2>1. 1 <= b => clean # <<>>
      BY <1>1, <1>6
    <2> QED
      BY <1>1, <2>1, NeatFirst
  <1>9. 1 \in 1..(Len(clean) + 1)
    BY <1>3
  <1> QED
    BY <1>1, <1>2, <1>6, <1>7, <1>8, <1>9, NeatCut

(* The boundary that _safe_recent_start finds is not before a result.      *)
LEMMA SafeStart ==
    ASSUME NEW talk \in Seq(Said), NEW start \in 0..Len(talk)
    PROVE  /\ SafeRecentStart(talk, start) \in 0..start
           /\ \/ SafeRecentStart(talk, start) = 0
              \/ SafeRecentStart(talk, start) = Len(talk)
              \/ talk[SafeRecentStart(talk, start) + 1].role # "tool"
  <1> DEFINE P(i) == i = 0 \/ i = Len(talk) \/ talk[i + 1].role # "tool"
             Q(i) == \A j \in (i + 1)..start :
                        j # Len(talk) /\ talk[j + 1].role = "tool"
             S == {i \in 1..start : P(i)}
             s == SafeRecentStart(talk, start)
  <1>1. s = CHOOSE i \in 0..start : P(i) /\ Q(i)
    BY DEF SafeRecentStart
  <1>2. start \in Nat
    OBVIOUS
  <1>3. \E i \in 0..start : P(i) /\ Q(i)
    <2>0. S \in SUBSET (1..start) /\ \A j \in 1..start : j \in S <=> P(j)
      OBVIOUS
    <2>1. \A j : ~P(j) => j # Len(talk) /\ talk[j + 1].role = "tool"
      OBVIOUS
    <2>2. CASE S = {}
      <3>1. \A j \in 1..start : ~P(j)
        BY <2>0, <2>2
      <3>2. P(0) /\ 0 \in 0..start
        BY <1>2
      <3> HIDE DEF P
      <3>3. ASSUME NEW j \in (0 + 1)..start
            PROVE  j # Len(talk) /\ talk[j + 1].role = "tool"
        <4>1. j \in 1..start
          BY <1>2
        <4> QED
          BY <2>1, <3>1, <4>1
      <3>4. Q(0)
        BY <3>3
      <3> HIDE DEF Q
      <3> QED
        BY <3>2, <3>4
    <2>3. CASE S # {}
      <3>1. PICK i \in S : \A j \in S : j <= i
        BY <1>2, <2>0, <2>3, Greatest
      <3>2. i \in 0..start /\ P(i)
        BY <1>2, <2>0
      <3> HIDE DEF P, S
      <3>3. \A j \in (i + 1)..start : j \in 1..start /\ ~(j <= i)
        BY <1>2, <3>2
      <3>4. \A j \in (i + 1)..start : ~P(j)
        BY <2>0, <3>1, <3>3
      <3>5. Q(i)
        BY <2>1, <3>4
      <3> HIDE DEF Q
      <3> QED
        BY <3>2, <3>5
    <2> QED
      BY <2>2, <2>3
  <1> HIDE DEF Q, P, s
  <1>4. s \in 0..start /\ P(s)
    BY <1>1, <1>3, Zenon
  <1> QED
    BY <1>4 DEF P, s

(* The recent part of a neat conversation is neat.                         *)
LEMMA RecentNeat ==
    ASSUME NEW talk \in Seq(Said), Neat(talk), NEW s \in 0..Len(talk),
           s = 0 \/ s = Len(talk) \/ talk[s + 1].role # "tool"
    PROVE  /\ SubSeq(talk, s + 1, Len(talk)) \in Seq(Said)
           /\ Neat(SubSeq(talk, s + 1, Len(talk)))
           /\ MessageIds(SubSeq(talk, s + 1, Len(talk))) \subseteq MessageIds(talk)
           /\ ToolsRise(talk) => ToolsRise(SubSeq(talk, s + 1, Len(talk)))
  <1>1. /\ Len(talk) \in Nat /\ s \in Nat /\ Len(talk) \in 0..Len(talk)
        /\ s + 1 \in 1..(Len(talk) + 1)
    OBVIOUS
  <1>2. s + 1 <= Len(talk) => talk[s + 1].role # "tool"
    <2>1. CASE s = 0
      <3>1. s + 1 <= Len(talk) => talk # <<>>
        BY <1>1, <2>1
      <3> QED
        BY <2>1, <3>1, NeatFirst
    <2> QED
      BY <1>1, <2>1
  <1>3. \A k \in (Len(talk) + 1)..Len(talk) : talk[k].role # "tool"
    BY <1>1
  <1> QED
    BY <1>1, <1>2, <1>3, NeatCut

(* Sequences with the same elements are the same.                          *)
LEMMA SameElements ==
    ASSUME NEW S, NEW s \in Seq(S), NEW t \in Seq(S), Len(s) = Len(t),
           \A k \in 1..Len(s) : s[k] = t[k]
    PROVE  s = t
  <1>1. s \in [1..Len(s) -> S] /\ t \in [1..Len(s) -> S]
    OBVIOUS
  <1> QED
    BY <1>1

(* A part of a part of a sequence.                                         *)
LEMMA PartOfPart ==
    ASSUME NEW S, NEW s \in Seq(S), NEW a \in 1..(Len(s) + 1), NEW b \in 0..Len(s),
           NEW c \in 1..Len(SubSeq(s, a, b))
    PROVE  /\ SubSeq(SubSeq(s, a, b), c, Len(SubSeq(s, a, b))) = SubSeq(s, a + c - 1, b)
           /\ a + c - 1 \in a..b /\ SubSeq(s, a, b)[c] = s[a + c - 1]
  <1> DEFINE t == SubSeq(s, a, b)
             u == SubSeq(t, c, Len(t))
             v == SubSeq(s, a + c - 1, b)
  <1>1. Len(s) \in Nat /\ a \in Nat /\ b \in Nat /\ b <= Len(s)
    OBVIOUS
  <1>2. /\ t \in Seq(S) /\ Len(t) = (IF a <= b THEN b - a + 1 ELSE 0)
        /\ \A j \in 1..Len(t) : t[j] = s[a + j - 1]
    BY <1>1
  <1>3. c \in 1..Len(t)
    OBVIOUS
  <1> HIDE DEF t
  <1>4. a <= b /\ Len(t) = b - a + 1 /\ c \in Nat /\ c >= 1 /\ c <= b - a + 1
    BY <1>1, <1>2, <1>3
  <1>5. a + c - 1 \in a..b
    BY <1>1, <1>4
  <1>6. /\ u \in Seq(S) /\ Len(u) = Len(t) - c + 1
        /\ \A j \in 1..Len(u) : u[j] = t[c + j - 1]
    BY <1>1, <1>2, <1>4
  <1>7. /\ v \in Seq(S) /\ Len(v) = b - (a + c - 1) + 1
        /\ \A j \in 1..Len(v) : v[j] = s[(a + c - 1) + j - 1]
    <2> DEFINE f == a + c - 1
    <2>1. f \in Nat /\ f >= 1 /\ f <= b
      BY <1>1, <1>4
    <2> HIDE DEF f
    <2>2. /\ SubSeq(s, f, b) \in Seq(S) /\ Len(SubSeq(s, f, b)) = b - f + 1
          /\ \A j \in 1..Len(SubSeq(s, f, b)) : SubSeq(s, f, b)[j] = s[f + j - 1]
      BY <1>1, <2>1
    <2> QED
      BY <2>2 DEF f
  <1> HIDE DEF u, v
  <1>8. Len(u) = Len(v) /\ Len(u) \in Nat
    BY <1>1, <1>4, <1>6, <1>7
  <1>9. ASSUME NEW j \in 1..Len(u) PROVE u[j] = v[j]
    <2>1. u[j] = t[c + j - 1] /\ c + j - 1 \in 1..Len(t)
      BY <1>1, <1>4, <1>6
    <2>2. t[c + j - 1] = s[a + (c + j - 1) - 1]
      BY <1>2, <2>1
    <2>3. a + (c + j - 1) - 1 = (a + c - 1) + j - 1
      BY <1>1, <1>4, <1>8
    <2> QED
      BY <1>7, <1>8, <2>1, <2>2, <2>3
  <1>10. u = v
    BY <1>6, <1>7, <1>8, <1>9, SameElements
  <1> QED
    BY <1>2, <1>3, <1>5, <1>10 DEF t, u, v

(* Two parts that follow each other.                                       *)
LEMMA PartsJoined ==
    ASSUME NEW S, NEW s \in Seq(S), NEW b \in 0..Len(s), NEW a \in 1..(b + 1)
    PROVE  SubSeq(s, a, b) \o SubSeq(s, b + 1, Len(s)) = SubSeq(s, a, Len(s))
  <1> DEFINE t == SubSeq(s, a, b)
             u == SubSeq(s, b + 1, Len(s))
             v == SubSeq(s, a, Len(s))
  <1>1. Len(s) \in Nat /\ a \in Nat /\ b \in Nat /\ b <= Len(s) /\ a <= b + 1 /\ a >= 1
    OBVIOUS
  <1>2. /\ t \in Seq(S) /\ Len(t) = b - a + 1
        /\ \A j \in 1..Len(t) : t[j] = s[a + j - 1]
    BY <1>1
  <1>3. /\ u \in Seq(S) /\ Len(u) = Len(s) - b
        /\ \A j \in 1..Len(u) : u[j] = s[b + j]
    <2>1. /\ u \in Seq(S) /\ Len(u) = Len(s) - (b + 1) + 1
          /\ \A j \in 1..Len(u) : u[j] = s[(b + 1) + j - 1]
      BY <1>1
    <2> HIDE DEF u
    <2>2. \A j \in 1..Len(u) : (b + 1) + j - 1 = b + j
      BY <1>1, <2>1
    <2> QED
      BY <1>1, <2>1, <2>2
  <1>4. /\ v \in Seq(S) /\ Len(v) = Len(s) - a + 1
        /\ \A j \in 1..Len(v) : v[j] = s[a + j - 1]
    BY <1>1
  <1> HIDE DEF t, u, v
  <1> DEFINE w == t \o u
  <1>5. /\ w \in Seq(S) /\ Len(w) = Len(t) + Len(u)
        /\ \A j \in 1..Len(w) : w[j] = IF j <= Len(t) THEN t[j] ELSE u[j - Len(t)]
    <2>1. /\ w \in Seq(S) /\ Len(w) = Len(t) + Len(u)
          /\ \A k \in 1..Len(t) : w[k] = t[k]
          /\ \A k \in 1..Len(w) : k > Len(t) => w[k] = u[k - Len(t)]
      <3>1. t \in Seq(S) /\ u \in Seq(S)
        BY <1>2, <1>3
      <3>2. /\ t \o u \in Seq(S) /\ Len(t \o u) = Len(t) + Len(u)
            /\ \A k \in 1..Len(t) : (t \o u)[k] = t[k]
            /\ \A k \in 1..Len(t \o u) : k > Len(t) => (t \o u)[k] = u[k - Len(t)]
        BY <3>1
      <3> QED
        BY <3>2
    <2>2. Len(t) \in Nat
      BY <1>2
    <2> HIDE DEF w
    <2>3. \A j \in 1..Len(w) : j <= Len(t) => j \in 1..Len(t)
      BY <2>2
    <2>4. \A j \in 1..Len(w) : ~(j <= Len(t)) => j > Len(t)
      BY <2>2
    <2> QED
      BY <2>1, <2>3, <2>4
  <1> HIDE DEF w
  <1>6. Len(w) = Len(v) /\ Len(v) \in Nat
    BY <1>1, <1>2, <1>3, <1>4, <1>5
  <1>7. ASSUME NEW j \in 1..Len(v) PROVE w[j] = v[j]
    <2>1. CASE j <= Len(t)
      <3>1. j \in 1..Len(t)
        BY <1>1, <1>2, <1>6, <2>1
      <3> QED
        BY <1>2, <1>4, <1>5, <1>6, <2>1, <3>1
    <2>2. CASE ~(j <= Len(t))
      <3>1. j - Len(t) \in 1..Len(u) /\ b + (j - Len(t)) = a + j - 1
        BY <1>1, <1>2, <1>3, <1>5, <1>6, <2>2
      <3> QED
        BY <1>3, <1>4, <1>5, <1>6, <2>2, <3>1
    <2> QED
      BY <2>1, <2>2
  <1>8. w = v
    BY <1>4, <1>5, <1>6, <1>7, SameElements
  <1> QED
    BY <1>8 DEF t, u, v, w

(* Compacting drops messages from the beginning, and no call without its   *)
(* results: of the messages between the limit and the recent ones it keeps *)
(* those from the first that is not a result.                              *)
LEMMA CompactedNeat ==
    ASSUME NEW talk \in Seq(Said), Neat(talk), NEW keep \in Nat, NEW fit \in Nat
    PROVE  /\ CompactMessages(talk, keep, fit) \in Seq(Said)
           /\ Neat(CompactMessages(talk, keep, fit))
           /\ MessageIds(CompactMessages(talk, keep, fit)) \subseteq MessageIds(talk)
           /\ ToolsRise(talk) => ToolsRise(CompactMessages(talk, keep, fit))
  <1> DEFINE N == Len(talk)
             start == SafeRecentStart(talk, N - keep)
             from == IF fit > start THEN 0 ELSE start - fit
             older == SubSeq(talk, from + 1, start)
             I == {k \in 1..Len(older) : older[k].role # "tool"}
             first == SelectInSeq(older, LAMBDA m : m.role # "tool")
             recent == SubSeq(talk, start + 1, N)
             all == DropLeadingTools(older) \o recent
  <1>1. CompactMessages(talk, keep, fit) = IF N <= keep THEN talk ELSE all
    BY DEF CompactMessages
  <1>2. CASE N <= keep
    BY <1>1, <1>2
  <1>3. CASE ~(N <= keep)
    <2>1. N \in Nat /\ N - keep \in 0..N
      BY <1>3
    <2>2. /\ start \in 0..(N - keep)
          /\ start = 0 \/ start = N \/ talk[start + 1].role # "tool"
      BY <2>1, SafeStart
    <2> HIDE DEF start
    <2>3. start \in 0..N /\ from \in 0..start /\ start \in Nat
      BY <2>1, <2>2
    <2> HIDE DEF from
    <2>4. older \in Seq(Said)
      BY <2>1, <2>3
    <2>5. first = IF I # {} THEN Min(I) ELSE 0
      BY DEF SelectInSeq
    <2>6. DropLeadingTools(older)
             = IF first = 0 THEN <<>> ELSE SubSeq(older, first, Len(older))
      BY DEF DropLeadingTools
    <2> HIDE DEF first
    <2>7. recent \in Seq(Said) /\ <<>> \o recent = recent
      <3>1. recent \in Seq(Said)
        BY <2>1, <2>3
      <3> HIDE DEF recent
      <3> QED
        BY <3>1
    <2>8. CASE first = 0
      <3>1. all = recent
        BY <2>6, <2>7, <2>8
      <3> QED
        BY <1>1, <1>3, <2>2, <2>3, <3>1, RecentNeat
    <2>9. CASE first # 0
      <3>0. I \in SUBSET Nat
        OBVIOUS
      <3>1. I # {}
        <4> HIDE DEF I
        <4> QED
          BY <2>5, <2>9
      <3>2. first \in I
        <4> HIDE DEF I
        <4> QED
          BY <2>5, <3>0, <3>1, MinIn
      <3>3. first \in 1..Len(older) /\ older[first].role # "tool"
        BY <3>2
      <3> DEFINE f == (from + 1) + first - 1
      <3>4. from + 1 \in 1..(N + 1) /\ start \in 0..Len(talk)
        BY <2>1, <2>3
      <3>5. /\ SubSeq(older, first, Len(older)) = SubSeq(talk, f, start)
            /\ f \in (from + 1)..start /\ older[first] = talk[f]
        BY <3>3, <3>4, PartOfPart
      <3> HIDE DEF older, f
      <3>6. f \in 1..(start + 1) /\ f \in 1..N /\ f - 1 \in 0..N /\ (f - 1) + 1 = f
        <4>1. from \in Nat /\ start \in Nat /\ start <= N /\ N \in Nat
          BY <2>1, <2>3
        <4> HIDE DEF N
        <4> QED
          BY <3>5, <4>1
      <3>7. SubSeq(talk, f, start) \o SubSeq(talk, start + 1, N) = SubSeq(talk, f, N)
        BY <2>3, <3>6, PartsJoined
      <3>8. all = SubSeq(talk, f, N)
        BY <2>6, <2>9, <3>5, <3>7
      <3>9. talk[(f - 1) + 1].role # "tool"
        BY <3>3, <3>5, <3>6
      <3>10. all = SubSeq(talk, (f - 1) + 1, Len(talk))
        BY <3>6, <3>8
      <3> HIDE DEF all
      <3> QED
        BY <1>1, <1>3, <3>6, <3>9, <3>10, RecentNeat
    <2> QED
      BY <2>8, <2>9
  <1> QED
    BY <1>2, <1>3

(* So is what the compactor leaves.                                        *)
LEMMA CompactNeat ==
    ASSUME NEW talk \in Seq(Said), Neat(talk), NEW keep \in Nat, NEW fit \in Nat
    PROVE  /\ Compact(talk, keep, fit) \in Seq(Said)
           /\ Neat(Compact(talk, keep, fit))
           /\ MessageIds(Compact(talk, keep, fit)) \subseteq MessageIds(talk)
           /\ ToolsRise(talk) => ToolsRise(Compact(talk, keep, fit))
  <1> DEFINE at == IF keep > Len(talk) THEN 0 ELSE Len(talk) - keep
             start == SafeRecentStart(talk, at)
             recent == SubSeq(talk, start + 1, Len(talk))
  <1>1. Compact(talk, keep, fit) = CompactMessages(recent, keep, fit)
    BY DEF Compact
  <1>2. Len(talk) \in Nat /\ at \in 0..Len(talk)
    OBVIOUS
  <1> HIDE DEF at
  <1>3. /\ start \in 0..at
        /\ start = 0 \/ start = Len(talk) \/ talk[start + 1].role # "tool"
    BY <1>2, SafeStart
  <1> HIDE DEF start
  <1>4. start \in 0..Len(talk)
    BY <1>2, <1>3
  <1>5. /\ recent \in Seq(Said) /\ Neat(recent) /\ MessageIds(recent) \subseteq MessageIds(talk)
        /\ ToolsRise(talk) => ToolsRise(recent)
    BY <1>3, <1>4, RecentNeat
  <1> HIDE DEF recent
  <1>6. /\ CompactMessages(recent, keep, fit) \in Seq(Said)
        /\ Neat(CompactMessages(recent, keep, fit))
        /\ MessageIds(CompactMessages(recent, keep, fit)) \subseteq MessageIds(recent)
        /\ ToolsRise(recent) => ToolsRise(CompactMessages(recent, keep, fit))
    BY <1>5, CompactedNeat
  <1> QED
    BY <1>1, <1>5, <1>6
-----------------------------------------------------------------------------
(* The order of the results.  One call after the other, the results come   *)
(* in the order of the calls, in the run and in what is committed; that is *)
(* what tells them apart in the formats without call ids.                  *)

\* Later results are of later calls.
ResultsRise(events) ==
    \A j, k \in 1..Len(events) :
        j < k /\ events[j].kind = "result" /\ events[k].kind = "result"
        => events[j].id < events[k].id

(* Conversations of which the second is about later calls.                 *)
LEMMA ToolsJoined ==
    ASSUME NEW h \in Seq(Said), NEW t \in Seq(Said), ToolsRise(h), ToolsRise(t),
           Below(MessageIds(h), MessageIds(t))
    PROVE  ToolsRise(h \o t)
  <1> DEFINE all == h \o t
             n == Len(h)
  <1>1. /\ Len(all) = n + Len(t)
        /\ \A k \in 1..n : all[k] = h[k]
        /\ \A k \in 1..Len(all) :
              k > n => k - n \in 1..Len(t) /\ all[k] = t[k - n]
    BY Concatenated
  <1>2. n \in Nat /\ Len(t) \in Nat
    OBVIOUS
  <1> HIDE DEF all
  <1>3. ASSUME NEW i \in 1..Len(all)
        PROVE  \/ i \in 1..n /\ all[i] = h[i]
               \/ i > n /\ i - n \in 1..Len(t) /\ all[i] = t[i - n]
    BY <1>1, <1>2
  <1>4. ASSUME NEW j \in 1..Len(all), NEW k \in 1..Len(all), j < k,
               all[j].role = "tool", all[k].role = "tool"
        PROVE  all[j].id < all[k].id
    <2>1. CASE j \in 1..n /\ k \in 1..n /\ all[j] = h[j] /\ all[k] = h[k]
      BY <1>4, <2>1 DEF ToolsRise
    <2>2. CASE /\ j - n \in 1..Len(t) /\ k - n \in 1..Len(t)
               /\ all[j] = t[j - n] /\ all[k] = t[k - n]
      <3>1. j - n < k - n
        BY <1>2, <1>4
      <3> QED
        BY <1>4, <2>2, <3>1 DEF ToolsRise
    <2>3. CASE j \in 1..n /\ all[j] = h[j] /\ k - n \in 1..Len(t) /\ all[k] = t[k - n]
      <3>1. h[j].id \in MessageIds(h)
        BY <1>4, <2>3, Mentioned
      <3>2. t[k - n].id \in MessageIds(t)
        BY <1>4, <2>3, Mentioned
      <3> QED
        BY <2>3, <3>1, <3>2 DEF Below
    <2>4. ~(j > n /\ k \in 1..n)
      BY <1>2, <1>4
    <2> QED
      BY <1>3, <2>1, <2>2, <2>3, <2>4
  <1> QED
    BY <1>4 DEF ToolsRise, all

(* Two neat conversations about different calls make one.                  *)
LEMMA NeatJoined ==
    ASSUME NEW h \in Seq(Said), NEW t \in Seq(Said), Neat(h), Neat(t),
           Below(MessageIds(h), MessageIds(t))
    PROVE  /\ h \o t \in Seq(Said) /\ Neat(h \o t)
           /\ MessageIds(h \o t) = MessageIds(h) \cup MessageIds(t)
  <1> DEFINE all == h \o t
             n == Len(h)
  <1>1. /\ Len(all) = n + Len(t)
        /\ \A k \in 1..n : all[k] = h[k]
        /\ \A k \in 1..Len(t) : all[n + k] = t[k]
        /\ \A k \in 1..Len(all) :
              k > n => k - n \in 1..Len(t) /\ all[k] = t[k - n]
    BY Concatenated
  <1>2. n \in Nat /\ Len(t) \in Nat
    OBVIOUS
  <1>3. /\ all \in Seq(Said) /\ Shaped(all)
        /\ MessageIds(all) = MessageIds(h) \cup MessageIds(t)
    BY ShapedJoined DEF Neat
  <1> HIDE DEF all
  <1>4. ASSUME NEW k \in 1..Len(all), all[k].role = "tool"
        PROVE  \E i \in 1..Len(all) : k \in After(all, i)
    <2>1. CASE k \in 1..n
      <3>1. PICK i \in 1..n : k \in After(h, i)
        BY <1>1, <1>4, <2>1 DEF Neat
      <3>2. i \in 1..Len(all) /\ all[i] = h[i]
        BY <1>1, <1>2
      <3> QED
        BY <3>1, <3>2 DEF After
    <2>2. CASE k - n \in 1..Len(t) /\ all[k] = t[k - n]
      <3>1. PICK i \in 1..Len(t) : k - n \in After(t, i)
        BY <1>4, <2>2 DEF Neat
      <3>2. n + i \in 1..Len(all) /\ all[n + i] = t[i]
        BY <1>1, <1>2
      <3> DEFINE l == Len(t[i].calls)
      <3>3. l \in Nat
        <4>1. t[i] \in Said
          OBVIOUS
        <4>2. t[i].calls \in Seq(Nat)
          BY <4>1, MessageFields
        <4> QED
          BY <4>2
      <3>4. k - n \in (i + 1)..(i + l) /\ After(all, n + i) = ((n + i) + 1)..((n + i) + l)
        BY <3>1, <3>2 DEF After
      <3> HIDE DEF l
      <3>5. k \in After(all, n + i)
        BY <1>2, <3>3, <3>4
      <3> QED
        BY <3>2, <3>5
    <2> QED
      BY <1>1, <1>2, <2>1, <2>2
  <1> QED
    BY <1>3, <1>4 DEF Neat, all

(* Results that come in the order of their calls are applied in this       *)
(* order.                                                                  *)
LEMMA MadeRises ==
    ASSUME NEW events \in Seq(EventRecords), ResultsRise(events), NEW new \in Seq(Said),
           NEW r, Makes(new, r, events)
    PROVE  ToolsRise(new)
  <1> DEFINE N == Len(events)
  <1>1. N \in Nat /\ r \in [0..N -> Nat]
    BY DEF Makes
  <1>2. ASSUME NEW a \in 1..Len(new), new[a].role = "tool"
        PROVE  \E m \in 1..N : /\ r[m] = a /\ Stays(events, m)
                               /\ events[m].kind = "result" /\ new[a].id = events[m].id
    <2>1. PICK m \in 1..N : Stays(events, m) /\ r[m] = a
      BY DEF Makes
    <2>2. new[a] = IF events[m].kind = "response" THEN Assistant(events[m].calls)
                                                  ELSE ToolMessage(events[m].id)
      BY <2>1 DEF Makes
    <2>3. events[m].kind # "response"
      BY <1>2, <2>2 DEF Assistant
    <2> QED
      BY <2>1, <2>2, <2>3 DEF ToolMessage, Stays
  <1>3. ASSUME NEW a \in 1..Len(new), NEW b \in 1..Len(new), a < b,
               new[a].role = "tool", new[b].role = "tool"
        PROVE  new[a].id < new[b].id
    <2>1. PICK m \in 1..N : /\ r[m] = a /\ Stays(events, m)
                            /\ events[m].kind = "result" /\ new[a].id = events[m].id
      BY <1>2, <1>3
    <2>2. PICK n \in 1..N : /\ r[n] = b /\ Stays(events, n)
                            /\ events[n].kind = "result" /\ new[b].id = events[n].id
      BY <1>2, <1>3
    <2>3. ~(n < m)
      BY <1>3, <2>1, <2>2 DEF Makes
    <2>4. m < n
      BY <1>1, <1>3, <2>1, <2>2, <2>3
    <2> QED
      BY <2>1, <2>2, <2>4 DEF ResultsRise
  <1> QED
    BY <1>3 DEF ToolsRise

(* A history keeps the order when blocks about later calls are applied.    *)
LEMMA AppliedRises ==
    ASSUME NEW h \in Seq(Said), ToolsRise(h), NEW events \in Seq(EventRecords),
           Blocks(events), ResultsRise(events), Below(MessageIds(h), EventIds(events))
    PROVE  ToolsRise(ApplyEvents(h, events))
  <1>1. PICK new \in Seq(Said) : \E r :
            ApplyEvents(h, events) = h \o new /\ Makes(new, r, events)
    BY EventsMake
  <1>2. PICK r : ApplyEvents(h, events) = h \o new /\ Makes(new, r, events)
    BY <1>1
  <1>3. MessageIds(new) \subseteq EventIds(events) /\ ToolsRise(new)
    BY <1>2, MadeShaped, MadeRises
  <1>4. Below(MessageIds(h), MessageIds(new))
    BY <1>3 DEF Below
  <1> QED
    BY <1>2, <1>3, <1>4, ToolsJoined

(* Nothing is said and shaped in order.                                    *)
LEMMA NothingSaid ==
    /\ <<>> \in Seq(Said) /\ Shaped(<<>>) /\ MessageIds(<<>>) = {} /\ ToolsRise(<<>>)
    /\ \A s \in Seq(Said) : <<>> \o s = s
  <1> DEFINE none == <<>>
  <1>1. none \in Seq(Said) /\ Len(none) = 0 /\ ToSet(none) = {}
    BY DEF ToSet
  <1>2. \A s \in Seq(Said) : none \o s = s
    OBVIOUS
  <1> HIDE DEF none
  <1>3. Shaped(none) /\ MessageIds(none) = {} /\ ToolsRise(none)
    BY <1>1 DEF Shaped, MessageIds, ToolsRise
  <1> QED
    BY <1>1, <1>2, <1>3 DEF none

(* What a run whose calls are all answered says is neat.                   *)
LEMMA OwnNeat ==
    ASSUME NEW events \in Seq(EventRecords), Blocks(events), Answered(events, {})
    PROVE  /\ ApplyEvents(<<>>, events) \in Seq(Said) /\ Neat(ApplyEvents(<<>>, events))
           /\ MessageIds(ApplyEvents(<<>>, events)) \subseteq EventIds(events)
           /\ ResultsRise(events) => ToolsRise(ApplyEvents(<<>>, events))
  <1> DEFINE none == <<>>
             N == Len(events)
  <1>1. none \in Seq(Said) /\ \A s \in Seq(Said) : none \o s = s
    BY NothingSaid
  <1> HIDE DEF none
  <1>2. PICK new \in Seq(Said) : \E r :
            ApplyEvents(none, events) = none \o new /\ Makes(new, r, events)
    BY <1>1, EventsMake
  <1>3. PICK r : ApplyEvents(none, events) = none \o new /\ Makes(new, r, events)
    BY <1>2
  <1>4. Shaped(new) /\ MessageIds(new) \subseteq EventIds(events)
        /\ (ResultsRise(events) => ToolsRise(new))
    BY <1>3, MadeShaped, MadeRises
  <1>5. N \in Nat /\ DOMAIN events = 1..N
    OBVIOUS
  <1>6. ASSUME NEW k \in 1..Len(new), new[k].role = "tool"
        PROVE  \E i \in 1..Len(new) : k \in After(new, i)
    <2>1. PICK m \in 1..N : Stays(events, m) /\ r[m] = k
      BY <1>3 DEF Makes
    <2>2. new[k] = IF events[m].kind = "response" THEN Assistant(events[m].calls)
                                                  ELSE ToolMessage(events[m].id)
      BY <1>3, <2>1 DEF Makes
    <2>3. events[m].kind # "response"
      BY <1>6, <2>2 DEF Assistant
    <2>4. events[m].kind = "result" /\ new[k].id = events[m].id
      BY <2>1, <2>2, <2>3 DEF ToolMessage, Stays
    <2>5. PICK j \in 1..(m - 1) : /\ events[j].kind = "response"
                                  /\ events[m].id \in ToSet(events[j].calls)
      BY <2>4 DEF Blocks
    <2>6. j \in 1..N
      BY <1>5
    <2>7. ToSet(events[j].calls) \subseteq ResultIds(events)
      <3>1. events[j] \in ToSet(events)
        BY <1>5, <2>6 DEF ToSet
      <3> QED
        BY <2>5, <3>1 DEF Answered
    <2>8. r[j] \in 1..Len(new) /\ new[r[j]] = Assistant(events[j].calls)
      BY <1>3, <2>5, <2>6, <2>7 DEF Makes, Stays
    <2>9. new[k].id \in ToSet(new[r[j]].calls)
      BY <2>4, <2>5, <2>8 DEF Assistant
    <2> QED
      BY <1>4, <1>6, <2>8, <2>9 DEF Shaped
  <1>7. Neat(new)
    BY <1>4, <1>6 DEF Neat
  <1> QED
    BY <1>1, <1>3, <1>4, <1>7 DEF none

\* The sequences of s joined one after the other.
Joins(f, s) == f[0] = <<>> /\ \A m \in 1..Len(s) : f[m] = f[m - 1] \o s[m]

(* FlattenSeq joins them.                                                  *)
LEMMA FlattenSteps ==
    ASSUME NEW S, NEW s \in Seq(Seq(S))
    PROVE  \E f \in [0..Len(s) -> Seq(S)] : Joins(f, s) /\ FlattenSeq(s) = f[Len(s)]
  <1> DEFINE N == Len(s)
             A == Seq(S)
             Next1(t, m) == t \o s[m]
             step == [p \in A \X (1..N) |-> Next1(p[1], p[2])]
             Flat(f) == f = [i \in 1..N |-> IF i = 1 THEN s[i] ELSE f[i - 1] \o s[i]]
             flat == CHOOSE f : Flat(f)
  <1>0. N \in Nat /\ <<>> \in A /\ \A m \in 1..N : s[m] \in A
    OBVIOUS
  <1>1. \A t \in A, m \in 1..N : Next1(t, m) \in A
    <2>1. ASSUME NEW t \in A, NEW u \in A PROVE t \o u \in A
      OBVIOUS
    <2> HIDE DEF A
    <2> QED
      BY <1>0, <2>1
  <1>9. FlattenSeq(s) = IF N = 0 THEN s ELSE flat[N]
    BY DEF FlattenSeq
  <1>10. N = 0 => s = <<>>
    OBVIOUS
  <1>11. \A t \in A : <<>> \o t = t
    OBVIOUS
  <1> HIDE DEF N, A, Next1
  <1>2. step \in [A \X (1..N) -> A]
    BY <1>1
  <1>3. PICK f \in [0..N -> A] :
            f[0] = <<>> /\ \A m \in 1..N : f[m] = step[<<f[m - 1], m>>]
    <2> DEFINE b == <<>>
    <2>1. b \in A
      BY <1>0
    <2> HIDE DEF step, b
    <2>2. \E f \in [0..N -> A] : Recurses(f, N, b, step)
      BY <1>0, <1>2, <2>1, Recursion
    <2> QED
      BY <2>2 DEF b, Recurses
  <1>4. ASSUME NEW m \in 1..N PROVE f[m] = f[m - 1] \o s[m]
    <2>1. <<f[m - 1], m>> \in A \X (1..N)
      BY <1>0
    <2> QED
      BY <1>3, <2>1 DEF Next1
  <1>13. ASSUME NEW i \in 1..N, i = 1 PROVE f[i] = s[i]
    <2> DEFINE h == i - 1
    <2>1. f[i] = f[h] \o s[i]
      BY <1>4
    <2>2. h = 0
      BY <1>13
    <2> HIDE DEF h
    <2>3. f[i] = <<>> \o s[i]
      BY <1>3, <2>1, <2>2
    <2> QED
      BY <1>0, <1>11, <2>3
  <1> HIDE DEF step
  <1> DEFINE g == [i \in 1..N |-> f[i]]
  <1>5. Flat(g)
    <2>1. ASSUME NEW i \in 1..N
          PROVE  f[i] = IF i = 1 THEN s[i] ELSE g[i - 1] \o s[i]
      <3>1. CASE i = 1
        <4>1. f[i] = s[i]
          BY <1>13, <3>1
        <4> QED
          BY <3>1, <4>1
      <3>2. CASE i # 1
        <4>1. i - 1 \in 1..N
          BY <1>0, <3>2
        <4> QED
          BY <1>4, <3>2, <4>1
      <3> QED
        BY <3>1, <3>2
    <2> QED
      BY <2>1
  <1>6. Flat(flat)
    <2> HIDE DEF Flat, g
    <2> QED
      BY <1>5
  <1> HIDE DEF flat
  <1>7. \A i \in 1..N : flat[i] = IF i = 1 THEN s[i] ELSE flat[i - 1] \o s[i]
    BY <1>6
  <1>8. ASSUME N # 0 PROVE flat[N] = f[N]
    <2> DEFINE G == {i \in 0..N : i # 0 => flat[i] = f[i]}
    <2>1. 0 \in G
      BY <1>0
    <2>2. ASSUME NEW i \in 1..N, i - 1 \in G PROVE i \in G
      <3>1. CASE i = 1
        <4>2. f[i] = s[i]
          BY <1>13, <3>1
        <4>3. flat[i] = s[i]
          BY <1>7, <3>1
        <4> QED
          BY <1>0, <3>1, <4>2, <4>3
      <3>2. CASE i # 1
        <4>1. flat[i - 1] = f[i - 1]
          BY <1>0, <2>2, <3>2
        <4>2. flat[i] = flat[i - 1] \o s[i]
          BY <1>7, <3>2
        <4>3. f[i] = f[i - 1] \o s[i]
          BY <1>4
        <4>4. flat[i] = f[i]
          BY <4>1, <4>2, <4>3, Zenon
        <4> QED
          BY <1>0, <4>4
      <3> QED
        BY <3>1, <3>2
    <2> HIDE DEF G
    <2>3. 0..N \subseteq G
      BY <1>0, <2>1, <2>2, Climb
    <2> QED
      BY <1>0, <1>8, <2>3 DEF G
  <1>12. Joins(f, s)
    BY <1>3, <1>4 DEF Joins, N
  <1>14. FlattenSeq(s) = f[N]
    BY <1>3, <1>8, <1>9, <1>10
  <1> QED
    BY <1>12, <1>14 DEF N, A

\* The second sequence continues the first.
Continues(t, u) == Len(t) <= Len(u) /\ \A j \in 1..Len(t) : u[j] = t[j]
AllContinue(f, N) == \A m, n \in 0..N : m <= n => Continues(f[m], f[n])

(* What was joined stays in its place.                                     *)
LEMMA JoinsKeep ==
    ASSUME NEW S, NEW s \in Seq(Seq(S)), NEW f \in [0..Len(s) -> Seq(S)], Joins(f, s)
    PROVE  AllContinue(f, Len(s))
  <1> SUFFICES ASSUME NEW m \in 0..Len(s), NEW n \in 0..Len(s), m <= n
               PROVE  Continues(f[m], f[n])
    BY DEF AllContinue
  <1> DEFINE N == Len(s)
             G == {k \in 0..N : m <= k =>
                     Len(f[m]) <= Len(f[k]) /\ \A j \in 1..Len(f[m]) : f[k][j] = f[m][j]}
  <1>1. /\ N \in Nat /\ m \in Nat /\ \A k \in 0..N : Len(f[k]) \in Nat
        /\ \A k \in 0..N : f[k] \in Seq(S)
        /\ \A k \in 1..N : s[k] \in Seq(S) /\ f[k] = f[k - 1] \o s[k]
    <2>1. N \in Nat /\ m \in Nat /\ \A k \in 1..N : s[k] \in Seq(S)
      OBVIOUS
    <2>2. \A k \in 0..N : f[k] \in Seq(S)
      OBVIOUS
    <2>3. \A t \in Seq(S) : Len(t) \in Nat
      OBVIOUS
    <2>4. \A k \in 1..N : f[k] = f[k - 1] \o s[k]
      BY DEF Joins
    <2> QED
      BY <2>1, <2>2, <2>3, <2>4
  <1>2. 0 \in G
    BY <1>1
  <1>3. ASSUME NEW k \in 1..N, k - 1 \in G PROVE k \in G
    <2>1. k - 1 \in 0..N /\ k \in 0..N
      BY <1>1
    <2> DEFINE t == f[k - 1]
               u == s[k]
               v == f[k]
               w == f[m]
    <2>2. t \in Seq(S) /\ u \in Seq(S) /\ v = t \o u /\ Len(w) \in Nat
      BY <1>1, <2>1
    <2>7. k - 1 \in G /\ (m <= k - 1 => Len(w) <= Len(t) /\ \A j \in 1..Len(w) : t[j] = w[j])
      BY <1>3
    <2> HIDE DEF t, u, v, w
    <2>3. /\ Len(v) = Len(t) + Len(u)
          /\ \A j \in 1..Len(t) : v[j] = t[j]
      BY <2>2
    <2>4. Len(u) \in Nat /\ Len(t) \in Nat /\ Len(w) \in Nat
      BY <2>2
    <2>8. k \in G <=> (m <= k => Len(w) <= Len(v) /\ \A j \in 1..Len(w) : v[j] = w[j])
      BY <2>1 DEF v, w
    <2> HIDE DEF G
    <2>5. CASE m <= k - 1
      <3>1. Len(w) <= Len(t) /\ \A j \in 1..Len(w) : t[j] = w[j]
        BY <2>5, <2>7
      <3>2. Len(w) <= Len(v)
        BY <2>3, <2>4, <3>1
      <3>3. \A j \in 1..Len(w) : j \in 1..Len(t)
        BY <2>4, <3>1
      <3>4. \A j \in 1..Len(w) : v[j] = w[j]
        BY <2>3, <3>1, <3>3
      <3> QED
        BY <2>8, <3>2, <3>4
    <2>6. CASE ~(m <= k - 1)
      <3>1. m <= k => k = m
        BY <1>1, <2>1, <2>6
      <3>2. k = m => v = w
        BY DEF v, w
      <3>3. Len(w) <= Len(w)
        BY <2>4
      <3> QED
        BY <2>8, <3>1, <3>2, <3>3
    <2> QED
      BY <2>5, <2>6
  <1>4. 0..N \subseteq G
    <2> HIDE DEF G, N
    <2> QED
      BY <1>1, <1>2, <1>3, Climb
  <1> QED
    BY <1>4 DEF Continues

(* A conversation stays neat with the warnings.                            *)
LEMMA WarnedNeat ==
    ASSUME NEW talk \in Seq(Said), Neat(talk)
    PROVE  /\ Warned(talk) \in Seq(Said) /\ Neat(Warned(talk))
           /\ MessageIds(Warned(talk)) \subseteq MessageIds(talk)
           /\ ToolsRise(talk) => ToolsRise(Warned(talk))
  <1> DEFINE N == Len(talk)
             Warns(i) == talk[i].role = "tool" /\ (i = N \/ talk[i + 1].role # "tool")
             Piece(i) == IF Warns(i) THEN <<talk[i], User>> ELSE <<talk[i]>>
             s == [i \in DOMAIN talk |-> Piece(i)]
             new == Warned(talk)
  <1>1. new = FlattenSeq(s)
    BY DEF Warned
  <1>2. /\ N \in Nat /\ DOMAIN talk = 1..N /\ \A i \in 1..N : talk[i] \in Said
        /\ User \in Said
    BY DEF Said
  <1>3. \A i \in 1..N : talk[i].calls \in Seq(Nat)
    BY <1>2, MessageFields
  <1> DEFINE M == Said
  <1> HIDE DEF M
  <1>4. ASSUME NEW i \in 1..N
        PROVE  /\ Piece(i) \in Seq(M) /\ Piece(i)[1] = talk[i]
               /\ Len(Piece(i)) = IF Warns(i) THEN 2 ELSE 1
               /\ Warns(i) => Piece(i)[2] = User
    <2> DEFINE x == talk[i]
               u == User
    <2>1. x \in M /\ u \in M
      BY <1>2 DEF M
    <2> HIDE DEF x, u
    <2>2. /\ <<x, u>> \in Seq(M) /\ <<x, u>>[1] = x /\ <<x, u>>[2] = u /\ Len(<<x, u>>) = 2
          /\ <<x>> \in Seq(M) /\ <<x>>[1] = x /\ Len(<<x>>) = 1
      BY <2>1
    <2>3. Piece(i) = IF Warns(i) THEN <<x, u>> ELSE <<x>>
      BY DEF x, u
    <2> HIDE DEF Piece, Warns
    <2> QED
      BY <2>2, <2>3 DEF x, u
  <1> HIDE DEF Piece
  <1>5. s \in [1..N -> Seq(M)]
    BY <1>2, <1>4
  <1>6. s \in Seq(Seq(M)) /\ Len(s) = N /\ \A i \in 1..N : s[i] = Piece(i)
    BY <1>2, <1>5
  <1> HIDE DEF s, N
  <1>7. PICK f \in [0..N -> Seq(M)] : Joins(f, s) /\ new = f[N]
    BY <1>1, <1>6, FlattenSteps
  <1>8. /\ f[0] = <<>>
        /\ \A m \in 0..N : f[m] \in Seq(M) /\ Len(f[m]) \in Nat
        /\ \A m \in 1..N : f[m] = f[m - 1] \o Piece(m) /\ m - 1 \in 0..N /\ m \in 0..N
    <2>1. \A m \in 1..N : m - 1 \in 0..N /\ m \in 0..N
      BY <1>2
    <2>2. \A m \in 0..N : f[m] \in Seq(M)
      OBVIOUS
    <2>3. \A t \in Seq(M) : Len(t) \in Nat
      OBVIOUS
    <2> QED
      BY <1>6, <1>7, <2>1, <2>2, <2>3 DEF Joins
  <1>9. ASSUME NEW m \in 1..N
        PROVE  /\ Len(f[m]) = Len(f[m - 1]) + (IF Warns(m) THEN 2 ELSE 1)
               /\ f[m][Len(f[m - 1]) + 1] = talk[m]
               /\ \A j \in 1..Len(f[m]) : \/ j \in 1..Len(f[m - 1])
                                          \/ j = Len(f[m - 1]) + 1
                                          \/ f[m][j] = User
    <2> DEFINE t == f[m - 1]
               p == Piece(m)
    <2>1. t \in Seq(M) /\ p \in Seq(M) /\ Len(t) \in Nat /\ f[m] = t \o p
      BY <1>4, <1>8
    <2>2. /\ Len(p) = IF Warns(m) THEN 2 ELSE 1
          /\ p[1] = talk[m] /\ (Warns(m) => p[2] = User)
      BY <1>4
    <2> HIDE DEF t, p, Warns
    <2>3. /\ Len(t \o p) = Len(t) + Len(p)
          /\ \A k \in 1..Len(p) : (t \o p)[Len(t) + k] = p[k]
      BY <2>1, Concatenated
    <2>4. 1 \in 1..Len(p) /\ (Warns(m) => 2 \in 1..Len(p))
      BY <2>2
    <2>5. ASSUME NEW j \in 1..Len(t \o p)
          PROVE  j \in 1..Len(t) \/ j = Len(t) + 1 \/ (j = Len(t) + 2 /\ Warns(m))
      BY <2>1, <2>2, <2>3
    <2> QED
      BY <2>1, <2>2, <2>3, <2>4, <2>5 DEF t
  <1> DEFINE r == [m \in 1..N |-> Len(f[m - 1]) + 1]
             K == 1..N
  <1> HIDE DEF Warns
  <1>10. \A m \in 1..N : /\ r[m] = Len(f[m - 1]) + 1 /\ r[m] \in Nat /\ r[m] >= 1
                         /\ r[m] <= Len(f[m])
    <2>1. ASSUME NEW m \in 1..N
          PROVE  /\ r[m] = Len(f[m - 1]) + 1 /\ r[m] \in Nat /\ r[m] >= 1
                 /\ r[m] <= Len(f[m])
      <3> DEFINE a == Len(f[m - 1])
                 b == Len(f[m])
      <3>1. r[m] = a + 1 /\ a \in Nat /\ b \in Nat
        BY <1>8
      <3>2. b = a + (IF Warns(m) THEN 2 ELSE 1)
        BY <1>9
      <3> HIDE DEF a, b, r
      <3>3. r[m] \in Nat /\ r[m] >= 1 /\ r[m] <= b
        BY <3>1, <3>2
      <3> QED
        BY <3>1, <3>3 DEF a, b
    <2> QED
      BY <2>1
  <1>22. /\ f \in [0..Len(s) -> Seq(M)] /\ s \in Seq(Seq(M)) /\ Joins(f, s)
    BY <1>6, <1>7
  <1>21. AllContinue(f, N)
    BY <1>6, <1>22, JoinsKeep
  <1>11. ASSUME NEW m \in 0..N, NEW n \in 0..N, m <= n
         PROVE  Len(f[m]) <= Len(f[n]) /\ \A j \in 1..Len(f[m]) : f[n][j] = f[m][j]
    <2>1. Continues(f[m], f[n])
      BY <1>11, <1>21 DEF AllContinue
    <2> QED
      BY <2>1 DEF Continues
  <1>12. N \in 0..N /\ \A m \in 0..N : m <= N
    BY <1>2
  <1> HIDE DEF r
  <1>13. ASSUME NEW m \in K PROVE r[m] \in 1..Len(new) /\ new[r[m]] = talk[m]
    <2>1. r[m] \in 1..Len(f[m]) /\ f[m][r[m]] = talk[m]
      <3>1. Len(f[m]) \in Nat
        BY <1>8
      <3>2. r[m] = Len(f[m - 1]) + 1 /\ r[m] \in Nat /\ r[m] >= 1 /\ r[m] <= Len(f[m])
        BY <1>10
      <3>3. f[m][Len(f[m - 1]) + 1] = talk[m]
        BY <1>9
      <3> QED
        BY <3>1, <3>2, <3>3
    <2>2. Len(f[m]) <= Len(new) /\ \A j \in 1..Len(f[m]) : new[j] = f[m][j]
      <3>1. m \in 0..N /\ N \in 0..N /\ m <= N
        BY <1>8, <1>12
      <3>2. Len(f[m]) <= Len(f[N]) /\ \A j \in 1..Len(f[m]) : f[N][j] = f[m][j]
        BY <1>11, <3>1
      <3> QED
        BY <1>7, <3>2
    <2>3. Len(f[m]) \in Nat /\ Len(new) \in Nat
      BY <1>7, <1>8, <1>12
    <2> QED
      BY <2>1, <2>2, <2>3
  <1>14. ASSUME NEW m \in K, NEW n \in K, m < n PROVE r[m] < r[n]
    <2>1. m <= n - 1 /\ m \in 0..N /\ n - 1 \in 0..N
      BY <1>2, <1>14
    <2>2. Len(f[m]) <= Len(f[n - 1])
      BY <1>11, <2>1
    <2>3. Len(f[m]) \in Nat /\ Len(f[n - 1]) \in Nat
      BY <1>8, <2>1
    <2> QED
      BY <1>10, <2>2, <2>3
  <1>15. ASSUME NEW a \in 1..Len(new) PROVE new[a] = User \/ \E m \in K : r[m] = a
    <2> DEFINE G == {n \in 0..N : \A j \in 1..Len(f[n]) :
                        f[n][j] = User \/ \E m \in K : r[m] = j}
    <2>1. 0 \in G
      <3>1. Len(f[0]) = 0
        BY <1>8
      <3> QED
        BY <1>12, <3>1
    <2>2. ASSUME NEW n \in 1..N, n - 1 \in G PROVE n \in G
      <3>1. n \in 0..N /\ n - 1 \in 0..N /\ n - 1 <= n
        BY <1>2
      <3>2. ASSUME NEW j \in 1..Len(f[n]) PROVE f[n][j] = User \/ \E m \in K : r[m] = j
        <4>1. CASE j \in 1..Len(f[n - 1])
          <5>1. f[n][j] = f[n - 1][j]
            BY <1>11, <3>1, <4>1
          <5> QED
            BY <2>2, <4>1, <5>1
        <4>2. CASE j = Len(f[n - 1]) + 1
          BY <1>10, <4>2
        <4> QED
          BY <1>9, <4>1, <4>2
      <3> QED
        BY <3>1, <3>2
    <2> HIDE DEF G, K
    <2>3. 0..N \subseteq G
      BY <1>2, <2>1, <2>2, Climb
    <2> QED
      BY <1>7, <1>12, <2>3 DEF G
  <1>16. ASSUME NEW m \in K, talk[m].calls # <<>>
         PROVE  \A d \in 0..Len(talk[m].calls) : m + d \in K /\ r[m + d] = r[m] + d
    <2> DEFINE l == Len(talk[m].calls)
    <2>1. l \in Nat
      BY <1>3
    <2>2. ASSUME NEW k \in After(talk, m) PROVE k \in 1..N /\ talk[k].role = "tool"
      <3>1. Shaped(talk) /\ m \in 1..Len(talk)
        BY DEF Neat, N
      <3> QED
        BY <1>16, <3>1 DEF Shaped, N
    <2>3. After(talk, m) = (m + 1)..(m + l)
      BY DEF After
    <2> HIDE DEF l
    <2> DEFINE G == {d \in 0..l : m + d \in K /\ r[m + d] = r[m] + d}
    <2>4. 0 \in G
      BY <1>2, <1>10, <2>1
    <2>5. ASSUME NEW d \in 1..l, d - 1 \in G PROVE d \in G
      <3> DEFINE k == m + d
      <3>1. k \in (m + 1)..(m + l) /\ k - 1 = m + (d - 1) /\ k \in Nat
        BY <1>2, <2>1
      <3>2. k \in 1..N /\ talk[k].role = "tool"
        BY <2>2, <2>3, <3>1
      <3>3. k - 1 \in 1..N /\ r[k - 1] = r[m] + (d - 1)
        BY <2>5, <3>1
      <3>4. ~Warns(k - 1)
        <4>1. (k - 1) + 1 = k /\ k - 1 # N
          BY <1>2, <3>1, <3>2
        <4> QED
          BY <3>2, <4>1 DEF Warns
      <3>5. Len(f[k - 1]) = Len(f[(k - 1) - 1]) + 1
        BY <1>9, <3>3, <3>4
      <3>6. r[k - 1] = Len(f[(k - 1) - 1]) + 1 /\ r[k] = Len(f[k - 1]) + 1
        BY <1>10, <3>2, <3>3
      <3>7. r[m] \in Nat /\ Len(f[(k - 1) - 1]) \in Nat /\ d \in Nat
        BY <1>8, <1>10, <2>1, <3>3
      <3> DEFINE a == Len(f[(k - 1) - 1])
                 b == Len(f[k - 1])
      <3>9. /\ r[k - 1] = r[m] + (d - 1) /\ b = a + 1 /\ r[k - 1] = a + 1 /\ r[k] = b + 1
            /\ r[m] \in Nat /\ a \in Nat /\ d \in Nat
        BY <3>3, <3>5, <3>6, <3>7
      <3> HIDE DEF k, a, b
      <3>8. r[k] = r[m] + d
        BY <3>9
      <3> QED
        BY <2>1, <3>2, <3>8 DEF k
    <2>6. 0..l \subseteq G
      <3> HIDE DEF G
      <3> QED
        BY <2>1, <2>4, <2>5, Climb
    <2> QED
      BY <2>6 DEF l
  <1>17. \A k \in K : talk[k].role = "tool" => \E i \in K : k \in After(talk, i)
    BY DEF Neat, N
  <1>18. K \subseteq 1..Len(talk)
    BY DEF N
  <1>19. new \in Seq(Said)
    BY <1>7, <1>8, <1>12 DEF M
  <1>20. Shaped(talk)
    BY DEF Neat
  <1> HIDE DEF K, new
  <1>23. Moves(r, K, talk, new)
    BY <1>13, <1>14, <1>15, <1>16, <1>17, <1>18 DEF Moves
  <1> QED
    BY <1>19, <1>20, <1>23, NeatMoved DEF new

(* Results of later calls after those before them.                         *)
LEMMA RisesJoined ==
    ASSUME NEW s \in Seq(EventRecords), NEW t \in Seq(EventRecords), ResultsRise(s),
           ResultsRise(t), Below(ResultIds(s), ResultIds(t))
    PROVE  s \o t \in Seq(EventRecords) /\ ResultsRise(s \o t)
  <1> DEFINE all == s \o t
             n == Len(s)
  <1>1. /\ all \in Seq(EventRecords) /\ Len(all) = n + Len(t)
        /\ \A k \in 1..n : all[k] = s[k]
        /\ \A k \in 1..Len(all) : k > n => k - n \in 1..Len(t) /\ all[k] = t[k - n]
    BY Concatenated
  <1>2. n \in Nat /\ Len(t) \in Nat
    OBVIOUS
  <1> HIDE DEF all, n
  <1>3. ASSUME NEW j \in 1..Len(all), NEW k \in 1..Len(all), j < k,
               all[j].kind = "result", all[k].kind = "result"
        PROVE  all[j].id < all[k].id
    <2>1. CASE k <= n
      <3>1. j \in 1..n /\ k \in 1..n
        BY <1>1, <1>2, <1>3, <2>1
      <3> QED
        BY <1>1, <1>3, <3>1 DEF ResultsRise, n
    <2>2. CASE j > n
      <3>1. j - n \in 1..Len(t) /\ k - n \in 1..Len(t) /\ j - n < k - n
            /\ all[j] = t[j - n] /\ all[k] = t[k - n]
        BY <1>1, <1>2, <1>3, <2>2
      <3> QED
        BY <1>3, <3>1 DEF ResultsRise
    <2>3. CASE j <= n /\ k > n
      <3>1. j \in 1..n /\ all[j] = s[j] /\ k - n \in 1..Len(t) /\ all[k] = t[k - n]
        BY <1>1, <1>2, <1>3, <2>3
      <3>2. all[j].id \in ResultIds(s) /\ all[k].id \in ResultIds(t)
        BY <1>3, <3>1, EventIdsAt DEF n
      <3> QED
        BY <3>2 DEF Below
    <2> QED
      BY <1>1, <1>2, <1>3, <2>1, <2>2, <2>3
  <1> QED
    BY <1>1, <1>3 DEF ResultsRise, all

(* Events about no call leave the results in order,                        *)
LEMMA PlainRises ==
    ASSUME NEW s \in Seq(EventRecords), ResultsRise(s), NEW t \in Seq(EventRecords), Plain(t)
    PROVE  s \o t \in Seq(EventRecords) /\ ResultsRise(s \o t)
  <1>1. ResultsRise(t) /\ \A x : x \notin ResultIds(t)
    BY EventIdsAt DEF Plain, ResultsRise
  <1>2. Below(ResultIds(s), ResultIds(t))
    BY <1>1 DEF Below
  <1> QED
    BY <1>1, <1>2, RisesJoined

(* and so does a response,                                                 *)
LEMMA ResponseRises ==
    ASSUME NEW s \in Seq(EventRecords), ResultsRise(s), NEW e \in EventRecords,
           e.kind # "result"
    PROVE  Append(s, e) \in Seq(EventRecords) /\ ResultsRise(Append(s, e))
  <1> DEFINE one == <<e>>
  <1>1. one \in Seq(EventRecords) /\ Len(one) = 1 /\ one[1] = e /\ Append(s, e) = s \o one
    OBVIOUS
  <1> HIDE DEF one
  <1>2. \A k \in 1..Len(one) : one[k].kind # "result"
    BY <1>1
  <1>3. ResultsRise(one) /\ \A x : x \notin ResultIds(one)
    BY <1>1, <1>2, EventIdsAt DEF ResultsRise
  <1>4. Below(ResultIds(s), ResultIds(one))
    BY <1>3 DEF Below
  <1> QED
    BY <1>1, <1>3, <1>4, RisesJoined

(* and the result of a later call.                                         *)
LEMMA NextRises ==
    ASSUME NEW s \in Seq(EventRecords), ResultsRise(s), NEW id \in Nat, NEW note \in EventNotes,
           \A x \in ResultIds(s) : x < id
    PROVE  ResultsRise(Append(s, Result(id, note)))
  <1> DEFINE one == <<Result(id, note)>>
  <1>1. /\ one \in Seq(EventRecords) /\ ResultsIn(one, {id})
        /\ s \o one = Append(s, Result(id, note))
    <2>1. id \in {id}
      OBVIOUS
    <2> QED
      BY <2>1, OneResult
  <1>2. Len(one) = 1
    OBVIOUS
  <1> HIDE DEF one
  <1>3. ResultsRise(one)
    <2>1. \A j, k \in 1..Len(one) : ~(j < k)
      BY <1>2
    <2> QED
      BY <2>1 DEF ResultsRise
  <1>4. \A x \in ResultIds(one) : x = id
    BY <1>1, EventIdsAt DEF ResultsIn
  <1>5. Below(ResultIds(s), ResultIds(one))
    BY <1>4 DEF Below
  <1>6. ResultsRise(s \o one)
    BY <1>1, <1>3, <1>5, RisesJoined
  <1> QED
    BY <1>1, <1>6

(* There are no results in nothing.                                        *)
LEMMA NothingRises == ResultsRise(<<>>) /\ <<>> \in Seq(EventRecords) /\ ResultIds(<<>>) = {}
  <1> DEFINE none == <<>>
  <1>1. Len(none) = 0 /\ ToSet(none) = {} /\ none \in Seq(EventRecords)
    BY DEF ToSet
  <1> HIDE DEF none
  <1>2. ResultsRise(none) /\ ResultIds(none) = {}
    BY <1>1 DEF ResultsRise, ResultIds
  <1> QED
    BY <1>1, <1>2 DEF none

(* The completed part of events keeps their order.                         *)
LEMMA SafeRises ==
    ASSUME NEW events \in Seq(EventRecords), ResultsRise(events)
    PROVE  ResultsRise(HistorySafe(events))
  <1> DEFINE h == HistorySafe(events)
             N == Len(events)
  <1>1. CASE ResultIds(events) = {}
    <2>1. h = <<>>
      BY <1>1 DEF HistorySafe
    <2> QED
      BY <2>1, NothingRises
  <1>2. CASE ResultIds(events) # {}
    <2>1. PICK r : SafeRanks(h, r, events)
      BY <1>2, SafeRanked
    <2> HIDE DEF h
    <2>2. /\ r \in [0..N -> Nat]
          /\ \A m \in 1..N : Left(events, m) =>
                r[m] \in 1..Len(h) /\ Narrows(h[r[m]], events[m], ResultIds(events))
          /\ \A a \in 1..Len(h) : \E m \in 1..N : Left(events, m) /\ r[m] = a
          /\ \A m, n \in 1..N : m <= n => r[m] <= r[n]
      BY <2>1 DEF SafeRanks
    <2>3. ASSUME NEW a \in 1..Len(h), NEW b \in 1..Len(h), a < b,
                 h[a].kind = "result", h[b].kind = "result"
          PROVE  h[a].id < h[b].id
      <3>1. PICK m \in 1..N : Left(events, m) /\ r[m] = a
        BY <2>2
      <3>2. PICK n \in 1..N : Left(events, n) /\ r[n] = b
        BY <2>2
      <3>3. m < n
        <4>1. ~(r[n] <= r[m])
          BY <2>3, <3>1, <3>2
        <4>2. ~(n <= m)
          BY <2>2, <4>1
        <4> QED
          BY <4>2
      <3>4. /\ h[a].kind = events[m].kind /\ h[a].id = events[m].id
            /\ h[b].kind = events[n].kind /\ h[b].id = events[n].id
        BY <2>2, <3>1, <3>2 DEF Narrows
      <3> QED
        BY <2>3, <3>3, <3>4 DEF ResultsRise
    <2> QED
      BY <2>3 DEF ResultsRise, h
  <1> QED
    BY <1>1, <1>2

\* The working history is in shape and about calls of the history and of what is
\* committed.
WorkShaped ==
    /\ turn.working \in Seq(Said) /\ Shaped(turn.working)
    /\ MessageIds(turn.working) \subseteq MessageIds(history) \cup EventIds(turn.committed)

\* One call after the other, the results come in the order of the calls.
Rising ==
    /\ ToolsRise(history) /\ ToolsRise(turn.working)
    /\ ResultsRise(turn.committed) /\ ResultsRise(run.events)

TalkRises ==
    /\ WorkShaped
    /\ config.parallel \/ Rising
    /\ phase = "items" => config.parallel

(* Where nothing is committed.                                             *)
LEMMA KeepRises ==
    ASSUME TalkRises, UNCHANGED <<config, history>>, turn'.working = turn.working,
           turn'.committed = turn.committed, config.parallel \/ ResultsRise(run'.events),
           phase' = "items" => config.parallel
    PROVE  TalkRises'
  BY DEF TalkRises, WorkShaped, Rising

(* Where the working history grows by what is committed.                   *)
LEMMA CommitRises ==
    ASSUME TalkRises, TalkShaped, TurnShaped, phase # "idle",
           turn.committed \in Seq(EventRecords), UNCHANGED <<config, history>>,
           NEW events \in Seq(EventRecords), Fits(events),
           config.parallel \/ ResultsRise(events),
           turn'.working = ApplyEvents(turn.working, events),
           turn'.committed = turn.committed \o events, run'.events = <<>>,
           phase' = "items" => config.parallel
    PROVE  TalkRises'
  <1> DEFINE w == turn.working
             c == turn.committed
             all == c \o events
             new == ApplyEvents(w, events)
  <1>1. /\ w \in Seq(Said) /\ Shaped(w)
        /\ MessageIds(w) \subseteq MessageIds(history) \cup EventIds(c)
    BY DEF TalkRises, WorkShaped
  <1>2. Blocks(events) /\ Below(MessageIds(history) \cup EventIds(c), EventIds(events))
    BY DEF Fits
  <1>3. Below(MessageIds(w), EventIds(events))
    BY <1>1, <1>2 DEF Below
  <1>4. EventIds(all) = EventIds(c) \cup EventIds(events)
    BY EventIdsJoined
  <1>5. /\ turn'.working = new /\ turn'.committed = all /\ run'.events = <<>>
        /\ history' = history /\ config' = config
    OBVIOUS
  <1> HIDE DEF w, all, c
  <1>6. /\ new \in Seq(Said) /\ Shaped(new)
        /\ MessageIds(new) \subseteq MessageIds(w) \cup EventIds(events)
    BY <1>1, <1>2, <1>3, BlocksApplied
  <1>7. ASSUME ~config.parallel
        PROVE  ToolsRise(history) /\ ToolsRise(new) /\ ResultsRise(all)
    <2>1. ToolsRise(history) /\ ToolsRise(w) /\ ResultsRise(c) /\ ResultsRise(events)
      BY <1>7 DEF TalkRises, Rising, w, c
    <2>2. ToolsRise(new)
      BY <1>1, <1>2, <1>3, <2>1, AppliedRises
    <2>3. Below(ResultIds(c), ResultIds(events))
      BY <1>2 DEF Below, EventIds
    <2>4. ResultsRise(all)
      BY <2>1, <2>3, RisesJoined DEF all, c
    <2> QED
      BY <2>1, <2>2, <2>4
  <1> HIDE DEF new
  <1>8. WorkShaped'
    BY <1>1, <1>4, <1>5, <1>6 DEF WorkShaped
  <1>9. (config.parallel \/ Rising)'
    BY <1>5, <1>7, NothingRises DEF Rising
  <1> QED
    BY <1>5, <1>8, <1>9 DEF TalkRises

(* Between turns nothing is at work.                                       *)
LEMMA IdleRises ==
    ASSUME turn' = FreshTurn(<<>>), run' = FreshRun, phase' = "idle",
           (config.parallel \/ ToolsRise(history))'
    PROVE  TalkRises'
  <1>1. turn'.working = <<>> /\ turn'.committed = <<>> /\ run'.events = <<>>
    BY DEF FreshTurn, FreshRun
  <1>2. WorkShaped'
    BY <1>1, NothingSaid DEF WorkShaped
  <1>3. (config.parallel \/ Rising)'
    BY <1>1, NothingSaid, NothingRises DEF Rising
  <1> QED
    BY <1>2, <1>3 DEF TalkRises

(* A turn that ends leaves the results in order.                           *)
LEMMA FinishRises ==
    ASSUME TalkRises, TalkShaped, TurnShaped, phase # "idle", UNCHANGED config,
           turn.committed \in Seq(EventRecords), NEW events \in Seq(EventRecords),
           config.parallel \/ (Fits(events) /\ ResultsRise(events)),
           NEW status, FinishTurn(events, status)
    PROVE  TalkRises'
  <1> DEFINE c == turn.committed
             all == c \o events
             made == ApplyEvents(history, all)
  <1>1. /\ turn' = FreshTurn(<<>>) /\ run' = FreshRun /\ phase' = "idle"
        /\ history' = made
    BY DEF FinishTurn
  <1>2. ASSUME ~config.parallel PROVE ToolsRise(made)
    <2>1. ToolsRise(history) /\ ResultsRise(c) /\ ResultsRise(events) /\ Fits(events)
          /\ history \in Seq(Said)
      BY <1>2 DEF TalkRises, Rising, TalkShaped
    <2>2. /\ all \in Seq(EventRecords) /\ Blocks(all)
          /\ Below(MessageIds(history), EventIds(all))
      BY <2>1, FitsCommitted
    <2>3. Below(ResultIds(c), ResultIds(events))
      BY <2>1 DEF Below, EventIds, Fits
    <2>4. ResultsRise(all)
      BY <2>1, <2>3, RisesJoined
    <2> HIDE DEF all
    <2> QED
      BY <2>1, <2>2, <2>4, AppliedRises
  <1> HIDE DEF made
  <1>3. (config.parallel \/ ToolsRise(history))'
    BY <1>1, <1>2
  <1> QED
    BY <1>1, <1>3, IdleRises

(* So does one that ends with an error or a notice,                        *)
LEMMA StopRises ==
    ASSUME TalkRises, TalkShaped, TurnShaped, phase # "idle", UNCHANGED config,
           turn.committed \in Seq(EventRecords), NEW events \in Seq(EventRecords),
           config.parallel \/ (Fits(events) /\ ResultsRise(events)),
           NEW status \in Ends,
           \/ FinishTurn(Append(events, Error), status)
           \/ EndWithNotice(events, status)
    PROVE  TalkRises'
  <1> DEFINE e == Error
             d == Done(status)
             r == Response(<<>>, <<>>)
             one == <<e>>
             two == <<r, d>>
  <1>1. /\ e \in EventRecords /\ d \in EventRecords /\ r \in EventRecords
        /\ Plain(one) /\ Plain(two)
    <2>1. <<>> \in Seq(Nat)
      OBVIOUS
    <2> QED
      BY <2>1, LastEvents, LastPlain
  <1>3. EndWithNotice(events, status) => FinishTurn(events \o two, status)
    BY DEF EndWithNotice
  <1> HIDE DEF e, d, r
  <1>4. Append(events, e) = events \o one /\ one \in Seq(EventRecords)
        /\ two \in Seq(EventRecords)
    BY <1>1
  <1> HIDE DEF one, two
  <1>5. ASSUME NEW t \in Seq(EventRecords), Plain(t), FinishTurn(events \o t, status)
        PROVE  TalkRises'
    <2>1. events \o t \in Seq(EventRecords)
      BY <1>5, Concatenated
    <2>2. config.parallel \/ (Fits(events \o t) /\ ResultsRise(events \o t))
      BY <1>5, PlainFits, PlainRises
    <2> QED
      BY <1>5, <2>1, <2>2, FinishRises
  <1>6. FinishTurn(events \o one, status) \/ FinishTurn(events \o two, status)
    BY <1>3, <1>4 DEF e
  <1> QED
    BY <1>1, <1>4, <1>5, <1>6

(* and one that is forgotten.                                              *)
LEMMA ForgetRises ==
    ASSUME TalkRises, TalkShaped, phase # "idle", UNCHANGED config,
           NEW status, ForgetTurn(status)
    PROVE  TalkRises'
  <1>1. /\ turn' = FreshTurn(<<>>) /\ run' = FreshRun /\ phase' = "idle"
        /\ history' = Front(history)
    BY DEF ForgetTurn
  <1>2. history \in Seq(Said) /\ history # <<>> /\ Len(history) \in Nat
    BY DEF TalkShaped
  <1>3. ASSUME ToolsRise(history) PROVE ToolsRise(Front(history))
    <2> DEFINE f == Front(history)
    <2>1. /\ Len(f) \in Nat /\ Len(f) <= Len(history)
          /\ \A k \in 1..Len(f) : f[k] = history[k]
      BY <1>2 DEF Front
    <2> HIDE DEF f
    <2>2. \A k \in 1..Len(f) : k \in 1..Len(history)
      BY <1>2, <2>1
    <2> QED
      BY <1>3, <2>1, <2>2 DEF ToolsRise, f
  <1>4. (config.parallel \/ ToolsRise(history))'
    BY <1>1, <1>3 DEF TalkRises, Rising
  <1> QED
    BY <1>1, <1>4, IdleRises

(* A message of the user begins a turn without results.                    *)
LEMMA UserMessageRises ==
    ASSUME TalkRises, TalkShaped, NEW continue, UserMessage(continue)
    PROVE  TalkRises'
  <1> DEFINE h == Append(history, User)
             u == User
  <1>1. /\ history' = h /\ turn' = FreshTurn(history') /\ run' = FreshRun
        /\ phase' = "model" /\ config' = config
    BY DEF UserMessage, StartRun
  <1>2. turn'.working = h /\ turn'.committed = <<>> /\ run'.events = <<>>
    BY <1>1 DEF FreshTurn, FreshRun
  <1>3. history \in Seq(Said) /\ Shaped(history)
    BY DEF TalkShaped
  <1>4. h \in Seq(Said) /\ Shaped(h)
    BY <1>3, UserAdded
  <1>5. ASSUME ToolsRise(history) PROVE ToolsRise(h)
    <2>1. u.role # "tool"
      BY DEF User
    <2> DEFINE M == Said
    <2>2. history \in Seq(M) /\ u \in M
      BY <1>3 DEF Said, User
    <2> HIDE DEF M, u
    <2>3. /\ Len(h) = Len(history) + 1 /\ Len(history) \in Nat
          /\ h[Len(history) + 1] = u
          /\ \A k \in 1..Len(history) : h[k] = history[k]
      BY <2>2 DEF u
    <2> HIDE DEF h
    <2>4. \A k \in 1..Len(h) : h[k].role = "tool" => k \in 1..Len(history)
      BY <2>1, <2>3
    <2> QED
      BY <1>5, <2>3, <2>4 DEF ToolsRise
  <1> HIDE DEF h
  <1>6. WorkShaped'
    BY <1>1, <1>2, <1>4 DEF WorkShaped
  <1>7. (config.parallel \/ Rising)'
    BY <1>1, <1>2, <1>5, NothingRises DEF Rising, TalkRises
  <1> QED
    BY <1>1, <1>6, <1>7 DEF TalkRises

(* Committed keeps the working history and what is committed together.     *)
LEMMA CommittedWorks ==
    ASSUME TurnFields, NEW events
    PROVE  /\ HasFields(Committed(events), TurnNames)
           /\ Committed(events).working = ApplyEvents(turn.working, events)
           /\ Committed(events).committed = turn.committed \o events
  <1> DEFINE w == ApplyEvents(turn.working, events)
             c == turn.committed \o events
             new == Committed(events)
  <1>1. new = [turn EXCEPT !.working = w, !.committed = c]
    BY DEF Committed
  <1> HIDE DEF w, c, new
  <1>2. HasFields(new, TurnNames) /\ new.working = w /\ new.committed = c
    BY <1>1 DEF TurnFields, HasFields, TurnNames
  <1> QED
    BY <1>2 DEF w, c, new

(* The completed part of a batch fits, too.                                *)
LEMMA SafeFits ==
    ASSUME NEW events \in Seq(EventRecords), Fits(events)
    PROVE  HistorySafe(events) \in Seq(EventRecords) /\ Fits(HistorySafe(events))
  <1> DEFINE safe == HistorySafe(events)
  <1>1. /\ safe \in Seq(EventRecords) /\ Blocks(safe)
        /\ EventIds(safe) \subseteq ResultIds(events)
    BY SafeBlocks DEF Fits
  <1>2. ResultIds(events) \subseteq EventIds(events)
    BY DEF EventIds
  <1> HIDE DEF safe
  <1>3. Fits(safe)
    BY <1>1, <1>2 DEF Fits, Below
  <1> QED
    BY <1>1, <1>3 DEF safe

(* A question commits what is completed, or ends the turn with it.         *)
LEMMA AskRises ==
    ASSUME TalkRises, TalkShaped, TurnShaped, phase # "idle", UNCHANGED config, TurnFields,
           turn.committed \in Seq(EventRecords), NEW events \in Seq(EventRecords),
           Fits(events), config.parallel \/ ResultsRise(events),
           NEW id \in Nat, NEW questions, AskUser(events, id, questions)
    PROVE  TalkRises'
  <1> DEFINE safe == HistorySafe(events)
             a == Ask(id)
             one == <<a>>
             new == Committed(safe)
             rest == PendingFrom(events, id)
  <1>1. IF config.callback
        THEN /\ phase' = "asking"
             /\ turn' = [new EXCEPT !.pending = rest, !.asked = id, !.resuming = FALSE,
                                    !.questions = questions]
             /\ run' = FreshRun
             /\ UNCHANGED <<history, paused, ended>>
        ELSE FinishTurn(Append(safe, a), "awaiting_confirmation")
    BY DEF AskUser
  <1>2. /\ safe \in Seq(EventRecords) /\ Fits(safe)
        /\ config.parallel \/ ResultsRise(safe)
    BY SafeFits, SafeRises
  <1>3. /\ HasFields(new, TurnNames) /\ new.working = ApplyEvents(turn.working, safe)
        /\ new.committed = turn.committed \o safe
    BY CommittedWorks
  <1>4. a \in EventRecords /\ Plain(one)
    BY LastEvents, LastPlain
  <1> HIDE DEF safe, a, new, rest
  <1>5. Append(safe, a) = safe \o one /\ one \in Seq(EventRecords)
    <2>1. \A s \in Seq(EventRecords), e \in EventRecords :
              Append(s, e) = s \o <<e>> /\ <<e>> \in Seq(EventRecords)
      OBVIOUS
    <2> QED
      BY <1>2, <1>4, <2>1
  <1> HIDE DEF one
  <1>6. CASE config.callback
    <2>1. run'.events = <<>> /\ phase' = "asking" /\ history' = history
      BY <1>1, <1>6 DEF FreshRun
    <2>2. /\ turn'.working = ApplyEvents(turn.working, safe)
          /\ turn'.committed = turn.committed \o safe
      BY <1>1, <1>3, <1>6 DEF HasFields, TurnNames
    <2> QED
      BY <1>2, <2>1, <2>2, CommitRises
  <1>7. CASE ~config.callback
    <2>1. safe \o one \in Seq(EventRecords) /\ Fits(safe \o one)
      BY <1>2, <1>4, <1>5, PlainFits
    <2>2. config.parallel \/ ResultsRise(safe \o one)
      BY <1>2, <1>4, <1>5, PlainRises
    <2>3. FinishTurn(safe \o one, "awaiting_confirmation")
      BY <1>1, <1>5, <1>7
    <2> QED
      BY <2>1, <2>2, <2>3, FinishRises
  <1> QED
    BY <1>6, <1>7

(* What the steps of a running batch start from.                           *)
LEMMA RunRises ==
    ASSUME TurnInv, UsageInv, ReplayShape, TalkRises, phase # "idle"
    PROVE  /\ run.events \in Seq(EventRecords) /\ turn.committed \in Seq(EventRecords)
           /\ RunFields /\ TurnFields /\ TalkShaped /\ TurnShaped
           /\ phase \in InBatches \cup {"model"} => Fits(run.events)
           /\ config.parallel \/ ResultsRise(run.events)
  BY EventsTyped DEF ReplayShape, RunShaped, TalkRises, Rising

(* The model's answers keep the results in order.                          *)
LEMMA ModelStepRises ==
    ASSUME ConsentBase, TurnInv, UsageInv, ReplayShape, TalkRises, UNCHANGED config, ModelStep
    PROVE  TalkRises'
  <1>1. phase = "model"
    BY DEF ModelStep, ModelRequestsTools, ModelAnswersText, ModelTruncated, ModelFails,
       LoopLimit, CanAsk
  <1>2. /\ run.events \in Seq(EventRecords) /\ turn.committed \in Seq(EventRecords)
        /\ RunFields /\ TurnFields /\ TalkShaped /\ TurnShaped
        /\ Fits(run.events) /\ (config.parallel \/ ResultsRise(run.events))
    BY <1>1, RunRises
  <1>3. CASE ModelRequestsTools
    <2>1. PICK n \in 1..config.batch : \E calls \in [1..n -> config.requests] :
            LET ids == [i \in 1..n |-> Len(issued) + i]
            IN  /\ Len(issued) + n <= MaxIssued
                /\ issued' = issued \o calls
                /\ run' = [run EXCEPT !.events = Append(@, Response(ids, ids)),
                                      !.queue = ids,
                                      !.loops = @ + 1,
                                      !.muts = {},
                                      !.seen = {}]
      BY <1>3 DEF ModelRequestsTools
    <2> DEFINE ids == [i \in 1..n |-> Len(issued) + i]
               r == Response(ids, ids)
               all == Append(run.events, r)
    <2>2. /\ run' = [run EXCEPT !.events = all, !.queue = ids, !.loops = run.loops + 1,
                                !.muts = {}, !.seen = {}]
          /\ \E b : turn' = [turn EXCEPT !.batch = b]
          /\ phase' # "items" /\ UNCHANGED history
      BY <1>3, <2>1 DEF ModelRequestsTools
    <2>3. n \in Nat /\ Len(issued) \in Nat
      BY DEF ConsentBase
    <2>4. ids \in Seq(Nat)
      BY <2>3
    <2> HIDE DEF ids
    <2>5. r \in EventRecords /\ r.kind # "result"
      <3>1. r = [kind |-> "response", calls |-> ids, usage |-> ids, id |-> 0, note |-> ""]
        BY DEF Response, Event
      <3>2. "" \in EventNotes
        BY DEF EventNotes, Ends
      <3> HIDE DEF r
      <3> QED
        BY <2>4, <3>1, <3>2 DEF EventRecords
    <2> HIDE DEF r
    <2>6. config.parallel \/ ResultsRise(all)
      BY <1>2, <2>5, ResponseRises
    <2> HIDE DEF all
    <2>7. run'.events = all
      BY <1>2, <2>2 DEF RunFields, HasFields
    <2>8. turn'.working = turn.working /\ turn'.committed = turn.committed
      BY <1>2, <2>2 DEF TurnFields, TurnNames, HasFields
    <2> QED
      BY <2>2, <2>6, <2>7, <2>8, KeepRises
  <1>4. CASE ModelTruncated
    <2>1. /\ run' = [run EXCEPT !.loops = @ + 1] /\ phase' = "model"
          /\ UNCHANGED <<turn, history>>
      BY <1>1, <1>4 DEF ModelTruncated
    <2>2. run'.events = run.events
      BY <1>2, <2>1 DEF RunFields, HasFields
    <2> QED
      BY <1>2, <2>1, <2>2, KeepRises
  <1>5. CASE ModelAnswersText
    <2> DEFINE u == <<Len(issued) + 1>>
               r == Response(<<>>, u)
               d == Done("stop")
               two == <<r, d>>
    <2>1. FinishTurn(run.events \o two, "stop")
      BY <1>5 DEF ModelAnswersText
    <2>2. u \in Seq(Nat)
      BY DEF ConsentBase
    <2> HIDE DEF u
    <2>3. r \in EventRecords /\ d \in EventRecords /\ Plain(two)
      BY <2>2, LastEvents, LastPlain DEF Ends
    <2> HIDE DEF r, d
    <2>4. two \in Seq(EventRecords)
      BY <2>3
    <2> HIDE DEF two
    <2>5. run.events \o two \in Seq(EventRecords) /\ Fits(run.events \o two)
      BY <1>2, <2>3, <2>4, PlainFits
    <2>6. config.parallel \/ ResultsRise(run.events \o two)
      BY <1>2, <2>3, <2>4, PlainRises
    <2> QED
      BY <1>1, <1>2, <2>1, <2>5, <2>6, FinishRises
  <1>6. CASE LoopLimit
    <2>1. EndWithNotice(run.events, "max_turns") /\ "max_turns" \in Ends
      BY <1>6 DEF LoopLimit, Ends, Limits
    <2> QED
      BY <1>1, <1>2, <2>1, StopRises
  <1>7. CASE ModelFails
    <2>1. FinishTurn(Append(run.events, Error), "failed") /\ "failed" \in Ends
      BY <1>7 DEF ModelFails, Ends
    <2> QED
      BY <1>1, <1>2, <2>1, StopRises
  <1> QED
    BY <1>3, <1>4, <1>5, <1>6, <1>7 DEF ModelStep

(* So does the sequential loop,                                            *)
LEMMA SequentialStepRises ==
    ASSUME ConsentBase, TurnInv, OnceInv, UsageInv, ReplayShape, TalkRises,
           UNCHANGED config, SequentialStep
    PROVE  TalkRises'
  <1>1. phase = "calls" /\ UNCHANGED issued
    BY DEF SequentialStep, CallLimit, CallAnswered, CallAsks, CallExecutes, CallRaises,
       BatchDone, InBatch, world, ToolInterrupted
  <1>2. /\ run.events \in Seq(EventRecords) /\ turn.committed \in Seq(EventRecords)
        /\ RunFields /\ TurnFields /\ TalkShaped /\ TurnShaped
        /\ Fits(run.events) /\ (config.parallel \/ ResultsRise(run.events))
        /\ phase # "idle"
    BY <1>1, RunRises DEF InBatches
  <1>3. ASSUME run.queue # <<>>, NEW out \in EventNotes
        PROVE  /\ Append(run.events, Result(NextId, out)) \in Seq(EventRecords)
               /\ Fits(Append(run.events, Result(NextId, out)))
               /\ config.parallel \/ ResultsRise(Append(run.events, Result(NextId, out)))
               /\ NextId \in Nat
    <2>1. /\ \A x \in ResultIds(run.events) : x < NextId
          /\ Append(run.events, Result(NextId, out)) \in Seq(EventRecords)
          /\ Fits(Append(run.events, Result(NextId, out)))
      BY <1>1, <1>3, CallShapes
    <2>2. NextId \in Nat
      <3>1. run.queue \in Seq(Nat)
        BY <1>1 DEF TurnInv, Ids
      <3> QED
        BY <1>3, <3>1, HeadAndTail DEF NextId
    <2> QED
      BY <1>2, <1>3, <2>1, <2>2, NextRises
  <1>4. ASSUME run.queue # <<>>, NEW out \in EventNotes, run' = Processed(out),
               UNCHANGED <<history, turn, phase>>
        PROVE  TalkRises'
    <2>1. run'.events = Append(run.events, Result(NextId, out))
      BY <1>2, <1>4, ProcessedFields
    <2>2. config.parallel \/ ResultsRise(run'.events)
      BY <1>3, <1>4, <2>1
    <2> QED
      BY <1>1, <1>4, <2>2, KeepRises
  <1>5. CASE CallLimit
    <2>1. EndWithNotice(run.events, "tool_call_limit") /\ "tool_call_limit" \in Ends
      BY <1>5 DEF CallLimit, Ends, Limits
    <2> QED
      BY <1>2, <2>1, StopRises
  <1>6. CASE CallRaises
    <2>1. FinishTurn(Append(run.events, Error), "failed") /\ "failed" \in Ends
      BY <1>6 DEF CallRaises, Ends
    <2> QED
      BY <1>2, <2>1, StopRises
  <1>7. CASE BatchDone
    <2>1. phase' = "model" /\ UNCHANGED <<history, turn, run>>
      BY <1>7 DEF BatchDone
    <2> QED
      BY <1>2, <2>1, KeepRises
  <1>8. CASE CallAnswered
    <2> DEFINE out == SequentialOutcome(NextCall)
               p == Processed(out)
               e == Append(run.events, Result(NextId, out))
    <2>1. run.queue # <<>> /\ out \in EventNotes
      BY <1>8 DEF CallAnswered, InBatch, EventNotes
    <2> HIDE DEF out
    <2>2. CASE EndWithNotice(p.events, "invalid_tool_call")
      <3>1. p.events = e
        <4>1. \E q, x, m, s, r : p = [run EXCEPT !.events = e, !.queue = q, !.executed = x,
                                                 !.muts = m, !.seen = s, !.retries = r]
          BY DEF Processed
        <4> HIDE DEF p, e
        <4> QED
          BY <1>2, <4>1 DEF RunFields, HasFields
      <3>2. e \in Seq(EventRecords) /\ Fits(e) /\ (config.parallel \/ ResultsRise(e))
        BY <1>3, <2>1
      <3> HIDE DEF p, e
      <3>3. EndWithNotice(e, "invalid_tool_call") /\ "invalid_tool_call" \in Ends
        BY <2>2, <3>1 DEF Ends
      <3> QED
        BY <1>2, <3>2, <3>3, StopRises
    <2>3. CASE ~EndWithNotice(p.events, "invalid_tool_call")
      <3>1. run' = p /\ UNCHANGED <<history, turn, phase>>
        BY <1>8, <2>3 DEF CallAnswered, out
      <3> QED
        BY <1>4, <2>1, <3>1
    <2> QED
      BY <2>2, <2>3
  <1>9. CASE CallExecutes
    <2>1. /\ run.queue # <<>> /\ run' = Processed("run") /\ "run" \in EventNotes
          /\ UNCHANGED <<history, turn, phase>>
      BY <1>9 DEF CallExecutes, InBatch, EventNotes
    <2> QED
      BY <1>4, <2>1
  <1>10. CASE CallAsks
    <2>1. /\ AskUser(run.events, NextId, Counted(SequentialOutcome(NextCall)))
          /\ run.queue # <<>> /\ "run" \in EventNotes
      BY <1>10 DEF CallAsks, InBatch, EventNotes
    <2>2. NextId \in Nat
      BY <1>3, <2>1
    <2> QED
      BY <1>2, <2>1, <2>2, AskRises
  <1> QED
    BY <1>5, <1>6, <1>7, <1>8, <1>9, <1>10 DEF SequentialStep

(* What is committed of resumed calls has its results in their order.      *)
LEMMA ResumedRises ==
    ASSUME TurnInv, OnceInv, UsageInv, ReplayShape, phase = "resume", ResultsRise(run.events)
    PROVE  ResultsRise(Resumed(run.events))
  <1> DEFINE events == run.events
             calls == KeepIn(turn.pending, ResultIds(events))
             rest == HistorySafe(events)
             r == ResponseFor(calls)
             one == <<r>>
             all == one \o rest
  <1>1. events \in Seq(EventRecords)
    BY EventsTyped
  <1>2. rest \in Seq(EventRecords) /\ ResultsRise(rest)
    BY <1>1, SafeReplays, SafeRises
  <1>3. Resumed(events) = IF calls = <<>> THEN <<>> ELSE all
    BY DEF Resumed
  <1>4. r.kind = "response"
    BY DEF ResponseFor, Response, Event
  <1>5. CASE calls = <<>>
    BY <1>3, <1>5, NothingRises
  <1>6. CASE calls # <<>>
    <2>1. all \in Seq(EventRecords)
      BY <1>3, <1>6, ResumedFits
    <2> HIDE DEF rest, r
    <2>2. /\ Len(all) = 1 + Len(rest) /\ all[1] = r /\ Len(rest) \in Nat
          /\ \A k \in 1..Len(all) : k = 1 \/ (k - 1 \in 1..Len(rest) /\ all[k] = rest[k - 1])
      BY <1>2
    <2> HIDE DEF all
    <2>3. ASSUME NEW j \in 1..Len(all), NEW k \in 1..Len(all), j < k,
                 all[j].kind = "result", all[k].kind = "result"
          PROVE  all[j].id < all[k].id
      <3>1. j # 1 /\ k # 1
        BY <1>4, <2>2, <2>3
      <3>2. /\ j - 1 \in 1..Len(rest) /\ k - 1 \in 1..Len(rest) /\ j - 1 < k - 1
            /\ all[j] = rest[j - 1] /\ all[k] = rest[k - 1]
        BY <2>2, <2>3, <3>1
      <3> QED
        BY <1>2, <2>3, <3>2 DEF ResultsRise
    <2>4. ResultsRise(all)
      BY <2>3 DEF ResultsRise
    <2> QED
      BY <1>3, <1>6, <2>4
  <1> QED
    BY <1>5, <1>6

(* The resumed calls keep their order,                                     *)
LEMMA ResumeStepRises ==
    ASSUME ConsentBase, TurnInv, OnceInv, UsageInv, ReplayShape, TalkRises,
           UNCHANGED config, ResumeStep
    PROVE  TalkRises'
  <1>1. phase = "resume" /\ phase # "idle"
    BY DEF ResumeStep, ResumeAnswered, ResumeExecutes, ResumeAsks, ResumeDone,
       ResumeRaises, InResume
  <1>2. /\ run.events \in Seq(EventRecords) /\ turn.committed \in Seq(EventRecords)
        /\ RunFields /\ TurnFields /\ TalkShaped /\ TurnShaped
        /\ (config.parallel \/ ResultsRise(run.events))
    BY <1>1, RunRises
  <1>3. ASSUME run.queue # <<>>, UNCHANGED <<history, turn, phase>>,
               NEW out \in EventNotes, run' = ResumeProcessed(out)
        PROVE  TalkRises'
    <2>1. run'.events = Append(run.events, Result(NextId, out))
      BY <1>2, <1>3, ProcessedFields
    <2>2. NextId \in Nat /\ NextId \in ToSet(run.queue)
      <3>1. run.queue \in Seq(Nat)
        BY <1>1 DEF TurnInv, Ids
      <3> QED
        BY <1>3, <3>1, HeadAndTail DEF NextId
    <2>3. \A x \in ResultIds(run.events) : x < NextId
      BY <1>1, <2>2 DEF ReplayShape, ResumeShaped, Below
    <2>4. config.parallel \/ ResultsRise(Append(run.events, Result(NextId, out)))
      BY <1>2, <1>3, <2>2, <2>3, NextRises
    <2> QED
      BY <1>1, <1>3, <2>1, <2>4, KeepRises
  <1>4. CASE ResumeAnswered
    <2> DEFINE out == ResumeOutcome(NextCall)
    <2>1. /\ out \in EventNotes /\ run' = ResumeProcessed(out)
          /\ UNCHANGED <<history, turn, phase>> /\ run.queue # <<>>
      BY <1>4 DEF ResumeAnswered, InResume, EventNotes
    <2> HIDE DEF out
    <2> QED
      BY <1>3, <2>1
  <1>5. CASE ResumeExecutes
    <2>1. /\ run' = ResumeProcessed("run") /\ run.queue # <<>>
          /\ UNCHANGED <<history, turn, phase>> /\ "run" \in EventNotes
      BY <1>5 DEF ResumeExecutes, InResume, EventNotes
    <2> QED
      BY <1>3, <2>1
  <1>6. CASE ResumeRaises
    <2>1. ForgetTurn("raised")
      BY <1>6 DEF ResumeRaises
    <2> QED
      BY <1>1, <1>2, <2>1, ForgetRises
  <1>7. CASE ResumeAsks \/ ResumeDone
    <2> DEFINE more == Resumed(run.events)
               w == ApplyEvents(turn.working, more)
               c == turn.committed \o more
               left == KeepIn(turn.pending, ToSet(turn.pending) \ ResultIds(run.events))
               new == CommitResumed(run.events)
    <2>1. more \in Seq(EventRecords) /\ Fits(more) /\ (config.parallel \/ ResultsRise(more))
      BY <1>1, <1>2, ResumedFits, ResumedRises
    <2>2. /\ HasFields(Committed(more), TurnNames) /\ Committed(more).working = w
          /\ Committed(more).committed = c /\ Committed(more).pending = turn.pending
      <3>1. Committed(more).pending = turn.pending
        BY <1>2 DEF Committed, TurnFields, TurnNames, HasFields
      <3> QED
        BY <1>2, <3>1, CommittedWorks
    <2>3. \E p : new = [Committed(more) EXCEPT !.pending = p]
      BY DEF CommitResumed
    <2> HIDE DEF more, w, c, new
    <2>4. HasFields(new, TurnNames) /\ new.working = w /\ new.committed = c
      BY <2>2, <2>3 DEF HasFields, TurnNames
    <2>5. /\ phase' # "items" /\ UNCHANGED history /\ run' = FreshRun
          /\ \/ \E n, i : turn' = [new EXCEPT !.asked = i, !.resuming = TRUE,
                                              !.questions = n]
             \/ turn' = [new EXCEPT !.asked = 0, !.resuming = FALSE]
      BY <1>7 DEF ResumeAsks, ResumeDone, StartRun, new
    <2>6. turn'.working = w /\ turn'.committed = c
      BY <2>4, <2>5 DEF HasFields, TurnNames
    <2>7. run'.events = <<>>
      BY <2>5 DEF FreshRun
    <2> QED
      BY <1>1, <1>2, <2>1, <2>5, <2>6, <2>7, CommitRises DEF w, c
  <1> QED
    BY <1>4, <1>5, <1>6, <1>7 DEF ResumeStep

(* and an answered question is one call with its result.                   *)
LEMMA AnswerRises ==
    ASSUME TurnInv, UsageInv, ReplayShape, TalkRises, UNCHANGED config, AnswerQuestion
    PROVE  TalkRises'
  <1>1. /\ phase = "asking" /\ phase' = "model" /\ run' = FreshRun
        /\ UNCHANGED <<issued, history>>
    BY DEF AnswerQuestion, StartRun
  <1>2. /\ TurnFields /\ turn.asked \in Ids /\ turn.batch \in Seq(Ids)
        /\ turn.committed \in Seq(EventRecords) /\ TalkShaped /\ TurnShaped
        /\ turn.asked \in ToSet(turn.pending)
        /\ Below(MessageIds(history) \cup EventIds(turn.committed), ToSet(turn.pending))
    BY <1>1, EventsTyped DEF TurnInv, UsageInv, OfBatch, ReplayShape, PendingShaped
  <1> DEFINE id == turn.asked
             calls == <<id>>
             r == ResponseFor(calls)
             a == Result(id, "answered")
             one == <<a>>
             both == <<r, a>>
             new == Committed(both)
  <1>3. turn' = [new EXCEPT !.pending = <<>>, !.asked = 0]
    BY DEF AnswerQuestion, Answer
  <1>4. /\ HasFields(new, TurnNames) /\ new.working = ApplyEvents(turn.working, both)
        /\ new.committed = turn.committed \o both
    BY <1>2, CommittedWorks
  <1>5. /\ id \in Nat /\ turn.batch \in Seq(Nat) /\ "answered" \in EventNotes
        /\ "" \in EventNotes
    BY <1>2 DEF Ids, EventNotes, Ends
  <1>6. calls \in Seq(Nat) /\ Len(calls) = 1 /\ ToSet(calls) = {id} /\ Increasing(calls)
    <2>0. id \in Nat
      BY <1>5
    <2>1. calls \in Seq(Nat) /\ Len(calls) = 1 /\ calls[1] = id
      BY <2>0
    <2> HIDE DEF calls
    <2>2. \A k \in 1..Len(calls) : k = 1
      BY <2>1
    <2>3. DOMAIN calls = 1..Len(calls)
      BY <2>1
    <2>4. ToSet(calls) = {id}
      <3>1. 1 \in 1..Len(calls)
        BY <2>1
      <3>2. \A x \in ToSet(calls) : x = id
        BY <2>1, <2>2, <2>3 DEF ToSet
      <3>3. id \in ToSet(calls)
        BY <2>1, <2>3, <3>1 DEF ToSet
      <3> QED
        BY <3>2, <3>3
    <2>5. Increasing(calls)
      BY <2>2 DEF Increasing
    <2> QED
      BY <2>1, <2>4, <2>5
  <1> HIDE DEF calls
  <1>7. r \in EventRecords /\ r.kind = "response" /\ r.calls = calls
    <2> DEFINE none == <<>>
               u == IF UsageCommitted THEN none ELSE turn.batch
    <2>1. none \in Seq(Nat)
      OBVIOUS
    <2>2. r = [kind |-> "response", calls |-> calls, usage |-> u, id |-> 0, note |-> ""]
      BY DEF ResponseFor, Response, Event
    <2> HIDE DEF none, r
    <2>3. u \in Seq(Nat)
      BY <1>5, <2>1
    <2> HIDE DEF u
    <2> QED
      BY <1>5, <1>6, <2>2, <2>3 DEF EventRecords
  <1>8. one \in Seq(EventRecords) /\ a \in EventRecords /\ ResultsIn(one, {id})
    <2>1. id \in {id} /\ a \in EventRecords
      BY <1>5, ResultEvent
    <2> QED
      BY <1>5, <2>1, OneResult
  <1>9. both = <<r>> \o one /\ Len(both) = 2 /\ both[1] = r /\ both[2] = a
    BY PairJoined
  <1> HIDE DEF r, a, one, id
  <1>10. both \in Seq(EventRecords) /\ Blocks(both) /\ EventIds(both) = {id}
    <2>1. Increasing(r.calls) /\ ResultsIn(one, ToSet(r.calls))
      BY <1>6, <1>7, <1>8
    <2>2. Blocks(<<r>> \o one) /\ EventIds(<<r>> \o one) = ToSet(r.calls)
          /\ <<r>> \o one \in Seq(EventRecords)
      BY <1>7, <1>8, <2>1, OneBlock
    <2> QED
      BY <1>6, <1>7, <1>9, <2>2
  <1> HIDE DEF both, new
  <1>11. Fits(both)
    BY <1>2, <1>10 DEF Fits, Below, id
  <1>12. ResultsRise(both)
    <2>1. \A j, k \in 1..Len(both) : j < k => j = 1
      BY <1>9
    <2>2. both[1].kind # "result"
      BY <1>7, <1>9
    <2> QED
      BY <2>1, <2>2 DEF ResultsRise
  <1>13. /\ turn'.working = ApplyEvents(turn.working, both)
         /\ turn'.committed = turn.committed \o both
    BY <1>3, <1>4 DEF HasFields, TurnNames
  <1>14. run'.events = <<>>
    BY <1>1 DEF FreshRun
  <1> QED
    BY <1>1, <1>2, <1>10, <1>11, <1>12, <1>13, <1>14, CommitRises

(* The user's answers keep the order.                                      *)
LEMMA UserAnswerRises ==
    ASSUME TurnInv, UsageInv, ReplayShape, TalkRises, UNCHANGED config, UserAnswer
    PROVE  TalkRises'
  <1>1. phase = "asking" /\ phase # "idle"
    BY DEF UserAnswer, AnswerYes, AnswerYesThisTurn, AnswerNo, AnswerQuestion, NoAnswer
  <1>2. turn.committed \in Seq(EventRecords) /\ TalkShaped /\ TurnShaped
    BY <1>1, RunRises
  <1>3. CASE StartResume(turn.pending) \/ StartRun
    <2>1. CASE UNCHANGED <<history, turn>>
      <3>1. run'.events = <<>> /\ phase' # "items"
        BY <1>3 DEF StartResume, StartRun, FreshRun
      <3> QED
        BY <2>1, <3>1, NothingRises, KeepRises
    <2>2. CASE AnswerQuestion
      BY <2>2, AnswerRises
    <2>3. CASE NoAnswer
      <3>1. phase' = "idle"
        BY <2>3 DEF NoAnswer, FinishTurn
      <3> QED
        BY <1>3, <3>1 DEF StartResume, StartRun
    <2> QED
      BY <2>1, <2>2, <2>3
      DEF UserAnswer, AnswerYes, AnswerYesThisTurn, AnswerNo
  <1>4. CASE NoAnswer
    <2> DEFINE a == Ask(turn.asked)
               one == <<a>>
               none == <<>>
               status == IF turn.resuming THEN "awaiting_confirmation" ELSE "stopped"
    <2>1. FinishTurn(one, status)
      BY <1>4 DEF NoAnswer
    <2>2. a \in EventRecords /\ Plain(one)
      <3>1. turn.asked \in Nat
        BY <1>1 DEF TurnInv, Ids
      <3> QED
        BY <3>1, LastEvents, LastPlain
    <2> HIDE DEF a, status
    <2>3. one \in Seq(EventRecords)
      BY <2>2
    <2> HIDE DEF one
    <2>4. none \in Seq(EventRecords) /\ none \o one = one
      BY <2>3
    <2>5. Fits(none) /\ ResultsRise(none)
      BY NoBlocks, NothingRises DEF Fits, Below
    <2> HIDE DEF none
    <2>6. Fits(none \o one) /\ ResultsRise(none \o one)
      BY <2>2, <2>3, <2>4, <2>5, PlainFits, PlainRises
    <2>7. Fits(one) /\ ResultsRise(one)
      BY <2>4, <2>6
    <2> QED
      BY <1>1, <1>2, <2>1, <2>3, <2>7, FinishRises
  <1> QED
    BY <1>3, <1>4
    DEF UserAnswer, AnswerYes, AnswerYesThisTurn, AnswerNo, AnswerQuestion

(* In parallel the order of the results is left open.                      *)
LEMMA ParallelEnds ==
    ASSUME config.parallel, UNCHANGED config, NEW events, NEW status,
           FinishTurn(events, status) \/ EndWithNotice(events, status)
    PROVE  TalkRises'
  <1>1. turn' = FreshTurn(<<>>) /\ run' = FreshRun /\ phase' = "idle"
    BY DEF FinishTurn, EndWithNotice
  <1> QED
    BY <1>1, IdleRises

LEMMA ParallelKeeps ==
    ASSUME config.parallel, TalkRises, UNCHANGED <<config, history>>,
           turn'.working = turn.working, turn'.committed = turn.committed
    PROVE  TalkRises'
  BY KeepRises

(* The scheduler runs in parallel, and asks nothing ahead of its windows.  *)
LEMMA ParallelStepRises ==
    ASSUME ConsentBase, TurnInv, UsageInv, TalkRises, ~RunsAhead,
           UNCHANGED config, ParallelStep
    PROVE  TalkRises'
  <1>1. TurnFields
    BY DEF TurnInv
  <1>2. CASE PrepareBatch
    <2>1. config.parallel
      BY <1>2 DEF PrepareBatch, TurnInv
    <2>2. CASE EndWithNotice(run.events, "tool_call_limit")
      BY <2>1, <2>2, ParallelEnds
    <2>3. CASE ~EndWithNotice(run.events, "tool_call_limit")
      <3>1. UNCHANGED history /\ \E q : turn' = [turn EXCEPT !.questions = q]
        BY <1>2, <2>3 DEF PrepareBatch
      <3>2. turn'.working = turn.working /\ turn'.committed = turn.committed
        BY <1>1, <3>1 DEF TurnFields, TurnNames, HasFields
      <3> QED
        BY <2>1, <3>1, <3>2, ParallelKeeps
    <2> QED
      BY <2>2, <2>3
  <1>3. CASE OpenWindow \/ WindowsDone
    <2>1. config.parallel /\ UNCHANGED <<history, turn>>
      BY <1>3 DEF OpenWindow, WindowsDone, TurnInv
    <2> QED
      BY <2>1, ParallelKeeps
  <1>4. CASE CollectWindow
    <2> DEFINE window == run.window
               I == {k \in 1..Len(window) : window[k].out = "confirm"}
               stop == SelectInSeq(window, LAMBDA x : x.stop)
               ask == SelectInSeq(window, LAMBDA x : x.out = "confirm")
               part == IF stop = 0 THEN window ELSE SubSeq(window, 1, stop)
               events == run.events \o ResultsOf(part)
    <2>1. config.parallel /\ window \in Seq(LaneItems)
      BY <1>4 DEF CollectWindow, TurnInv
    <2>2. ask = 0
      <3>1. \A k \in 1..Len(window) : window[k] \in LaneItems
        BY <2>1
      <3>2. \A k \in 1..Len(window) : window[k].out # "confirm"
        BY <3>1 DEF LaneItems, FitItems, Asking
      <3>3. ask = IF I = {} THEN 0 ELSE Min(I)
        BY DEF SelectInSeq
      <3> QED
        BY <3>2, <3>3
    <2>3. EndWithNotice(events, "invalid_tool_call") \/ UNCHANGED <<history, turn>>
      BY <1>4, <2>2 DEF CollectWindow
    <2> HIDE DEF events
    <2> QED
      BY <2>1, <2>3, ParallelEnds, ParallelKeeps
  <1>5. ASSUME NEW id \in running, TaskFinishes(id) \/ TaskRaises(id)
        PROVE  TalkRises'
    <2>1. CASE UNCHANGED <<history, phase, turn, run>>
      BY <2>1, KeepRises DEF TalkRises, Rising
    <2>2. CASE id \in WindowIds /\ FinishTurn(Append(run.events, Error), "failed")
      <3>1. phase = "windows"
        <4>1. WindowIds # {}
          BY <2>2
        <4>2. run.window = <<>> => WindowIds = {}
          BY DEF WindowIds, ToSet
        <4> QED
          BY <4>1, <4>2 DEF TurnInv
      <3>2. config.parallel
        BY <3>1 DEF TurnInv
      <3> QED
        BY <2>2, <3>2, ParallelEnds
    <2> QED
      BY <1>5, <2>1, <2>2 DEF TaskFinishes, TaskRaises
  <1>6. CASE ItemAnswered \/ ItemAsks \/ ItemExecutes \/ ItemRaises \/ ItemsDone
    <2>1. phase = "items" /\ config.parallel
      BY <1>6 DEF TalkRises, ItemAnswered, ItemAsks, ItemExecutes, ItemRaises, ItemsDone,
         InItems
    <2>2. run.items # <<>> => Item.out \notin Asking
      <3>1. ASSUME run.items # <<>> PROVE Item \in SideItems
        <4>1. run.items \in Seq(SideItems)
          BY <2>1 DEF TurnInv
        <4> QED
          BY <3>1, <4>1, HeadAndTail DEF Item
      <3> QED
        BY <3>1 DEF SideItems, FitItems
    <2>3. ~ItemAsks
      BY <2>2 DEF ItemAsks, InItems
    <2>4. \/ UNCHANGED <<history, turn>>
          \/ \E events, status : FinishTurn(events, status) \/ EndWithNotice(events, status)
      BY <1>6, <2>3 DEF ItemAnswered, ItemExecutes, ItemRaises, ItemsDone
    <2> QED
      BY <2>1, <2>4, ParallelEnds, ParallelKeeps
  <1> QED
    BY <1>2, <1>3, <1>4, <1>5, <1>6 DEF ParallelStep

(* No step puts the results out of their order.                            *)
LEMMA RiseStep ==
    ASSUME ConsentBase, TurnInv, OnceInv, UsageInv, ReplayShape, TalkRises, ~RunsAhead,
           UNCHANGED config, [Next]_vars
    PROVE  TalkRises'
  <1>1. CASE TurnStep
    BY <1>1, ModelStepRises, SequentialStepRises, ResumeStepRises, ParallelStepRises,
       UserAnswerRises
    DEF TurnStep
  <1>2. CASE \E continue \in BOOLEAN : UserMessage(continue)
    BY <1>2, UserMessageRises DEF ReplayShape
  <1>3. CASE Abort
    <2>1. ForgetTurn("aborted") /\ phase # "idle" /\ TalkShaped
      BY <1>3 DEF Abort, ReplayShape
    <2> QED
      BY <2>1, ForgetRises
  <1>4. CASE UNCHANGED vars
    BY <1>4, KeepRises DEF vars, TalkRises, Rising
  <1> QED
    BY <1>1, <1>2, <1>3, <1>4 DEF Next

(* There are none at first.                                                *)
LEMMA RiseInit ==
    ASSUME Init
    PROVE  TalkRises
  <1>1. /\ turn.working = <<>> /\ turn.committed = <<>> /\ run.events = <<>>
        /\ history = <<>> /\ phase = "idle"
    BY DEF Init, FreshTurn, FreshRun
  <1>2. WorkShaped
    BY <1>1, NothingSaid DEF WorkShaped
  <1> QED
    BY <1>1, <1>2, NothingSaid, NothingRises DEF TalkRises, Rising
-----------------------------------------------------------------------------
(* The request formats.  What the model is sent is in order, and each      *)
(* format carries the calls and results so that each result is found for   *)
(* its call: by its id, or by its place among those of the same function.  *)

\* A conversation without loose results, about calls that were issued.
Sendable(talk) ==
    /\ talk \in Seq(Said) /\ Neat(talk) /\ MessageIds(talk) \subseteq Ids
    /\ config.parallel \/ ToolsRise(talk)

(* What the model is sent of the working history and the run is such.      *)
LEMMA SentNeat ==
    ASSUME TurnInv, UsageInv, ReplayShape, TalkRises, RememberInv, phase = "model",
           NEW sent \in ModelMessages
    PROVE  Sendable(sent)
  <1> DEFINE old == MessageIds(history) \cup EventIds(turn.committed)
             events == run.events
             prepared == PrepareForModel(turn.working)
             own == ApplyEvents(<<>>, events)
  <1>1. /\ events \in Seq(EventRecords) /\ Blocks(events) /\ EventIds(events) \subseteq Ids
        /\ Below(old, EventIds(events)) /\ Answered(events, {}) /\ old \subseteq Ids
        /\ config.parallel \/ ResultsRise(events)
    <2>1. TalkShaped /\ TurnShaped /\ Fits(events) /\ events \in Seq(EventRecords)
          /\ (config.parallel \/ ResultsRise(events))
      BY RunRises
    <2>2. old \subseteq Ids
      BY <2>1 DEF TalkShaped, TurnShaped
    <2> QED
      BY <2>1, <2>2 DEF Fits, RememberInv, RunAnswers
  <1>2. /\ turn.working \in Seq(Said) /\ Shaped(turn.working)
        /\ MessageIds(turn.working) \subseteq old
        /\ config.parallel \/ ToolsRise(turn.working)
    BY DEF TalkRises, WorkShaped, Rising
  <1>3. /\ prepared \in Seq(Said) /\ Neat(prepared) /\ MessageIds(prepared) \subseteq old
        /\ config.parallel \/ ToolsRise(prepared)
    BY <1>2, PreparedNeat
  <1> HIDE DEF events
  <1>4. /\ own \in Seq(Said) /\ Neat(own) /\ MessageIds(own) \subseteq EventIds(events)
        /\ config.parallel \/ ToolsRise(own)
    BY <1>1, OwnNeat
  <1>5. PICK replayed \in {prepared} \cup
                {Compact(prepared, keep, 1) : keep \in 0..Len(prepared)},
             mine \in {own, Warned(own)} : sent = replayed \o mine
    <2> DEFINE replays == {prepared} \cup
                              {Compact(prepared, keep, 1) : keep \in 0..Len(prepared)}
               mines == {own, Warned(own)}
    <2>1. ModelMessages = {replayed \o mine : replayed \in replays, mine \in mines}
      BY DEF ModelMessages, events
    <2> HIDE DEF replays, mines
    <2>2. \E replayed \in replays, mine \in mines : sent = replayed \o mine
      BY <2>1
    <2> QED
      BY <2>2 DEF replays, mines
  <1> HIDE DEF prepared, own, old
  <1>6. /\ replayed \in Seq(Said) /\ Neat(replayed) /\ MessageIds(replayed) \subseteq old
        /\ config.parallel \/ ToolsRise(replayed)
    <2>1. ASSUME NEW keep \in 0..Len(prepared)
          PROVE  /\ Compact(prepared, keep, 1) \in Seq(Said)
                 /\ Neat(Compact(prepared, keep, 1))
                 /\ MessageIds(Compact(prepared, keep, 1)) \subseteq old
                 /\ config.parallel \/ ToolsRise(Compact(prepared, keep, 1))
      <3>1. keep \in Nat /\ 1 \in Nat
        BY <1>3
      <3> QED
        BY <1>3, <3>1, CompactNeat
    <2> QED
      BY <1>3, <1>5, <2>1
  <1>7. /\ mine \in Seq(Said) /\ Neat(mine) /\ MessageIds(mine) \subseteq EventIds(events)
        /\ config.parallel \/ ToolsRise(mine)
    BY <1>4, <1>5, WarnedNeat
  <1>8. Below(MessageIds(replayed), MessageIds(mine))
    BY <1>1, <1>6, <1>7 DEF Below
  <1>9. /\ replayed \o mine \in Seq(Said) /\ Neat(replayed \o mine)
        /\ MessageIds(replayed \o mine) = MessageIds(replayed) \cup MessageIds(mine)
    BY <1>6, <1>7, <1>8, NeatJoined
  <1>10. config.parallel \/ ToolsRise(replayed \o mine)
    BY <1>6, <1>7, <1>8, ToolsJoined
  <1> QED
    BY <1>1, <1>5, <1>6, <1>7, <1>9, <1>10 DEF Sendable

-----------------------------------------------------------------------------
(* What a provider makes of it.                                            *)

(* In a set of places only one has as many others before it.               *)
LEMMA RankUnique ==
    ASSUME NEW M \in SUBSET Nat, IsFiniteSet(M), NEW j \in M, NEW k \in M,
           Cardinality({h \in M : h < j}) = Cardinality({h \in M : h < k})
    PROVE  j = k
  <1>1. ASSUME NEW a \in M, NEW b \in M, a < b
        PROVE  Cardinality({h \in M : h < a}) < Cardinality({h \in M : h < b})
    <2> DEFINE A == {h \in M : h < a}
               B == {h \in M : h < b}
    <2>1. IsFiniteSet(A) /\ IsFiniteSet(B)
      BY FS_Subset
    <2>2. a \notin A /\ A \cup {a} \subseteq B
      <3>1. \A h \in M : h \in Nat
        OBVIOUS
      <3>2. a \in Nat /\ b \in Nat
        BY <3>1
      <3>3. ~(a < a) /\ a \in B
        BY <1>1, <3>2
      <3>4. \A h \in A : h \in B
        BY <1>1, <3>1, <3>2
      <3> HIDE DEF B
      <3>5. a \notin A
        BY <3>3
      <3> HIDE DEF A
      <3> QED
        BY <3>3, <3>4, <3>5
    <2> HIDE DEF A, B
    <2>3. /\ IsFiniteSet(A \cup {a}) /\ Cardinality(A \cup {a}) = Cardinality(A) + 1
          /\ Cardinality(A) \in Nat /\ Cardinality(B) \in Nat
      BY <2>1, <2>2, FS_AddElement, FS_CardinalityType
    <2>4. Cardinality(A \cup {a}) <= Cardinality(B)
      BY <2>1, <2>2, FS_Subset
    <2>5. Cardinality(A) < Cardinality(B)
      BY <2>3, <2>4
    <2> QED
      BY <2>5 DEF A, B
  <1>2. \A a \in M : Cardinality({h \in M : h < a}) \in Nat
    BY FS_Subset, FS_CardinalityType
  <1>3. j \in Nat /\ k \in Nat
    OBVIOUS
  <1>4. CASE j < k
    <2>1. Cardinality({h \in M : h < j}) < Cardinality({h \in M : h < k})
      BY <1>1, <1>4
    <2> QED
      BY <1>2, <2>1
  <1>5. CASE k < j
    <2>1. Cardinality({h \in M : h < k}) < Cardinality({h \in M : h < j})
      BY <1>1, <1>5
    <2> QED
      BY <1>2, <2>1
  <1> QED
    BY <1>3, <1>4, <1>5

(* A set of places that are all moved has as many.                         *)
LEMMA MovedAsMany ==
    ASSUME NEW H \in SUBSET Nat, IsFiniteSet(H), NEW i \in Nat
    PROVE  Cardinality({i + h : h \in H}) = Cardinality(H)
  <1> DEFINE T == {i + h : h \in H}
             f == [h \in H |-> i + h]
  <1>1. f \in [H -> T] /\ \A h \in H : h \in Nat /\ f[h] = i + h
    OBVIOUS
  <1>2. \A t \in T : \E h \in H : f[h] = t
    OBVIOUS
  <1> HIDE DEF f, T
  <1>3. \A a, b \in H : f[a] = f[b] => a = b
    BY <1>1
  <1>4. f \in Bijection(H, T)
    <2>1. f \in Injection(H, T)
      BY <1>1, <1>3 DEF Injection, IsInjective
    <2>2. f \in Surjection(H, T)
      BY <1>1, <1>2 DEF Surjection
    <2> QED
      BY <2>1, <2>2 DEF Bijection
  <1>5. ExistsBijection(H, T)
    BY <1>4 DEF ExistsBijection
  <1> QED
    BY <1>5, FS_Bijection DEF T

(* Results that rise stand in the order of the calls.                      *)
LEMMA RiseInPlace ==
    ASSUME NEW talk \in Seq(Said), Neat(talk), ToolsRise(talk),
           NEW i \in 1..Len(talk), NEW d \in 1..Len(talk[i].calls)
    PROVE  talk[i + d].id = talk[i].calls[d]
  <1> DEFINE calls == talk[i].calls
             l == Len(calls)
             Wrong == {e \in 1..l : talk[i + e].id # calls[e]}
  <1>1. /\ Len(talk) \in Nat /\ calls \in Seq(Nat) /\ l \in Nat
        /\ \A e \in 1..l : calls[e] \in Nat
        /\ \A k \in 1..Len(talk) : talk[k].id \in Nat
    <2>1. \A k \in 1..Len(talk) : talk[k] \in Said
      OBVIOUS
    <2> QED
      BY <2>1, MessageFields
  <1>2. calls # <<>> /\ DOMAIN calls = 1..l
    BY <1>1
  <1>3. /\ Increasing(calls)
        /\ \A k \in After(talk, i) :
              /\ k \in 1..Len(talk)
              /\ talk[k].role = "tool" /\ talk[k].id \in ToSet(calls)
        /\ \A id \in ToSet(calls) : \E k \in After(talk, i) : talk[k].id = id
    BY <1>2 DEF Neat, Shaped
  <1>4. /\ \A e \in 1..l : i + e \in After(talk, i)
        /\ \A k \in After(talk, i) : k - i \in 1..l /\ k = i + (k - i)
    <2>1. After(talk, i) = (i + 1)..(i + l)
      BY DEF After
    <2>2. i \in Nat /\ l \in Nat
      BY <1>1
    <2> HIDE DEF calls, l
    <2>3. \A e \in 1..l : i + e \in After(talk, i)
      BY <2>1, <2>2
    <2>4. \A k \in After(talk, i) : k - i \in 1..l /\ k = i + (k - i)
      BY <2>1, <2>2
    <2> QED
      BY <2>3, <2>4
  <1>5. \A x \in ToSet(calls) : \E e \in 1..l : calls[e] = x
    BY <1>2 DEF ToSet
  <1>6. \A e \in 1..l : calls[e] \in ToSet(calls)
    BY <1>2 DEF ToSet
  <1> HIDE DEF calls, l
  <1>7. ASSUME NEW a \in 1..l, NEW b \in 1..l, a < b
        PROVE  talk[i + a].id < talk[i + b].id /\ calls[a] < calls[b]
    <2>1. i + a \in 1..Len(talk) /\ i + b \in 1..Len(talk) /\ i + a < i + b
          /\ talk[i + a].role = "tool" /\ talk[i + b].role = "tool"
      <3>1. i + a \in After(talk, i) /\ i + b \in After(talk, i)
        BY <1>4
      <3>2. i + a < i + b
        BY <1>1, <1>7
      <3> QED
        BY <1>3, <3>1, <3>2
    <2> QED
      BY <1>3, <1>7, <2>1 DEF ToolsRise, Increasing, l
  <1>8. ASSUME Wrong # {} PROVE FALSE
    <2>1. Wrong \in SUBSET Nat
      BY <1>1
    <2>2. PICK m \in Wrong : \A x \in Wrong : m <= x
      BY <1>8, <2>1, Least
    <2>3. m \in 1..l /\ talk[i + m].id # calls[m]
      BY <2>2
    <2>4. ASSUME NEW e \in 1..l, e < m PROVE talk[i + e].id = calls[e]
      <3>1. ~(m <= e)
        BY <1>1, <2>3, <2>4
      <3> QED
        BY <2>2, <3>1
    <2>5. PICK a \in 1..l : calls[a] = talk[i + m].id
      BY <1>3, <1>4, <1>5, <2>3
    <2>6. ~(a < m)
      <3>1. a < m => talk[i + a].id = calls[a] /\ talk[i + a].id < talk[i + m].id
        BY <1>7, <2>3, <2>4
      <3> QED
        BY <1>1, <2>5, <3>1
    <2>7. m < a /\ calls[m] < calls[a]
      <3>1. m < a
        BY <1>1, <2>3, <2>5, <2>6
      <3> QED
        BY <1>7, <2>3, <3>1
    <2>8. PICK b \in 1..l : talk[i + b].id = calls[m]
      <3>1. PICK k \in After(talk, i) : talk[k].id = calls[m]
        BY <1>3, <1>6, <2>3
      <3> QED
        BY <1>4, <3>1
    <2>9. ~(b < m)
      <3>1. b < m => talk[i + b].id = calls[b] /\ calls[b] < calls[m]
        BY <1>7, <2>3, <2>4
      <3> QED
        BY <1>1, <2>3, <2>8, <3>1
    <2>10. m < b
      BY <1>1, <2>3, <2>8, <2>9
    <2>11. talk[i + m].id < talk[i + b].id
      BY <1>7, <2>3, <2>10
    <2> QED
      BY <1>1, <2>3, <2>5, <2>7, <2>8, <2>11
  <1> QED
    BY <1>8 DEF calls, l

(* A sequence of which everything is kept stays as it is.                  *)
LEMMA KeepAll ==
    ASSUME NEW S, NEW s \in Seq(S), NEW K, \A k \in 1..Len(s) : s[k] \in K
    PROVE  KeepIn(s, K) = s
  <1> DEFINE N == Len(s)
             kept == KeepIn(s, K)
  <1>1. PICK r : Ranks(r, s, K, kept)
    BY KeepInRanks
  <1>2. N \in Nat /\ 0 \in 0..N /\ N \in 0..N /\ \A k \in 1..N : k \in 0..N /\ 0 + k = k
    OBVIOUS
  <1>3. kept \in Seq(S)
    BY KeepInIn
  <1> HIDE DEF kept
  <1>4. /\ r \in [0..N -> Nat]
        /\ \A m \in 1..N : kept[r[m]] = s[m]
        /\ \A a \in 1..Len(kept) : \E m \in 1..N : r[m] = a
        /\ r[N] = Len(kept)
    BY <1>1 DEF Ranks
  <1>5. \A k \in 0..N : r[0 + k] = r[0] + k
    <2>1. AllIn(s, K, 0, N)
      BY <1>2 DEF AllIn
    <2> QED
      BY <1>1, <1>2, <2>1, RanksFollow
  <1>6. \A k \in 0..N : r[k] = r[0] + k /\ r[0] \in Nat
    BY <1>2, <1>4, <1>5
  <1>7. r[0] = 0
    <2>1. CASE r[0] >= 1
      <3>1. 1 \in 1..Len(kept)
        BY <1>2, <1>4, <1>6, <2>1
      <3>2. PICK m \in 1..N : r[m] = 1
        BY <1>4, <3>1
      <3> QED
        BY <1>2, <1>6, <2>1, <3>2
    <2> QED
      BY <1>2, <1>6, <2>1
  <1>8. Len(kept) = N /\ \A k \in 1..N : kept[k] = s[k]
    BY <1>2, <1>4, <1>6, <1>7
  <1> HIDE DEF N
  <1>9. kept = s
    BY <1>3, <1>8, SameElements DEF N
  <1> QED
    BY <1>9 DEF kept

\* The places of the set with n others of it before them.
Earlier(M, j) == {h \in M : h < j}
Ranked(M, n) == {j \in M : Cardinality(Earlier(M, j)) = n}

(* There is only one.                                                      *)
LEMMA OneAnswer ==
    ASSUME NEW M \in SUBSET Nat, IsFiniteSet(M), NEW n, NEW j \in M,
           Cardinality(Earlier(M, j)) = n
    PROVE  Ranked(M, n) = {j}
  <1>1. ASSUME NEW x \in M, Cardinality(Earlier(M, x)) = n PROVE x = j
    BY <1>1, RankUnique DEF Earlier
  <1> QED
    BY <1>1 DEF Ranked

\* A turn for each message, with calls where it has calls and a result where it
\* is one.
Carries(wire, talk) ==
    /\ Len(wire) = Len(talk) /\ DOMAIN wire = 1..Len(talk)
    /\ \A i \in 1..Len(talk) :
          /\ wire[i].uses # <<>> <=> talk[i].calls # <<>>
          /\ DOMAIN wire[i].uses = 1..Len(talk[i].calls)
          /\ Len(wire[i].uses) = Len(talk[i].calls)
          /\ wire[i].result # <<>> <=> talk[i].role = "tool"

\* Every call is answered by the message that is its result.
Found(format, wire, talk) ==
    \A i \in 1..Len(talk) : \A k \in 1..Len(talk[i].calls) :
        \E j \in After(talk, i) : /\ AnswersTo(format, wire, i, k) = {j}
                                  /\ talk[j].id = talk[i].calls[k]

(* This is what understanding comes to.                                    *)
LEMMA FoundUnderstood ==
    ASSUME NEW talk \in Seq(Said), Neat(talk), NEW format, NEW name,
           Carries(Wire(format, talk, name), talk),
           Found(format, Wire(format, talk, name), talk)
    PROVE  Understood(format, talk, name)
  <1> DEFINE wire == Wire(format, talk, name)
             callers == {i \in DOMAIN wire : wire[i].uses # <<>>}
             Window(i) == (i + 1)..(i + Len(wire[i].uses))
  <1>1. Carries(wire, talk) /\ Found(format, wire, talk)
    OBVIOUS
  <1>2. Understood(format, talk, name) <=>
          /\ Len(wire) = Len(talk)
          /\ \A i \in callers :
                /\ \A j \in Window(i) : j \in DOMAIN wire /\ wire[j].result # <<>>
                /\ \A k \in DOMAIN wire[i].uses :
                      \E j \in Window(i) :
                         /\ AnswersTo(format, wire, i, k) = {j}
                         /\ talk[j].id = talk[i].calls[k]
          /\ \A j \in DOMAIN wire : wire[j].result # <<>> =>
                \E i \in callers : j \in Window(i)
    BY DEF Understood
  <1> HIDE DEF wire
  <1>3. /\ Len(wire) = Len(talk) /\ DOMAIN wire = 1..Len(talk)
        /\ \A i \in 1..Len(talk) :
              /\ wire[i].uses # <<>> <=> talk[i].calls # <<>>
              /\ DOMAIN wire[i].uses = 1..Len(talk[i].calls)
              /\ Len(wire[i].uses) = Len(talk[i].calls)
              /\ wire[i].result # <<>> <=> talk[i].role = "tool"
    BY <1>1 DEF Carries
  <1>4. \A i \in 1..Len(talk) : Window(i) = After(talk, i)
    BY <1>3 DEF After
  <1>5. \A i : i \in callers <=> i \in 1..Len(talk) /\ talk[i].calls # <<>>
    BY <1>3
  <1> HIDE DEF callers, Window
  <1>6. ASSUME NEW i \in callers
        PROVE  /\ \A j \in Window(i) : j \in DOMAIN wire /\ wire[j].result # <<>>
               /\ \A k \in DOMAIN wire[i].uses :
                     \E j \in Window(i) :
                        /\ AnswersTo(format, wire, i, k) = {j}
                        /\ talk[j].id = talk[i].calls[k]
    <2>1. i \in 1..Len(talk) /\ talk[i].calls # <<>> /\ Window(i) = After(talk, i)
      BY <1>4, <1>5
    <2>2. \A k \in After(talk, i) : k \in 1..Len(talk) /\ talk[k].role = "tool"
      BY <2>1 DEF Neat, Shaped
    <2>3. \A j \in Window(i) : j \in DOMAIN wire /\ wire[j].result # <<>>
      BY <1>3, <2>1, <2>2
    <2>4. DOMAIN wire[i].uses = 1..Len(talk[i].calls)
      BY <1>3, <2>1
    <2>5. \A k \in 1..Len(talk[i].calls) :
             \E j \in After(talk, i) : /\ AnswersTo(format, wire, i, k) = {j}
                                       /\ talk[j].id = talk[i].calls[k]
      BY <1>1, <2>1 DEF Found
    <2> QED
      BY <2>1, <2>3, <2>4, <2>5
  <1>7. ASSUME NEW j \in DOMAIN wire, wire[j].result # <<>>
        PROVE  \E i \in callers : j \in Window(i)
    <2>1. j \in 1..Len(talk) /\ talk[j].role = "tool"
      BY <1>3, <1>7
    <2>2. PICK i \in 1..Len(talk) : j \in After(talk, i)
      BY <2>1 DEF Neat
    <2>3. talk[i].calls # <<>>
      <3>1. i \in Nat /\ (i + 1)..(i + 0) = {}
        OBVIOUS
      <3> QED
        BY <2>2, <3>1 DEF After
    <2> QED
      BY <1>4, <1>5, <2>2, <2>3
  <1> QED
    BY <1>2, <1>3, <1>6, <1>7

\* Calls and results carry the labels of their ids.
Labels(wire, talk, label) ==
    \A i \in 1..Len(talk) :
        /\ wire[i].uses = [k \in 1..Len(talk[i].calls) |-> label[talk[i].calls[k]]]
        /\ wire[i].result = IF talk[i].role = "tool" THEN <<label[talk[i].id]>> ELSE <<>>

(* Labels carry a conversation,                                            *)
LEMMA LabelsCarry ==
    ASSUME NEW talk \in Seq(Said), NEW wire, NEW label, Labels(wire, talk, label),
           Len(wire) = Len(talk), DOMAIN wire = 1..Len(talk)
    PROVE  Carries(wire, talk)
  <1>1. ASSUME NEW i \in 1..Len(talk)
        PROVE  /\ wire[i].uses # <<>> <=> talk[i].calls # <<>>
               /\ DOMAIN wire[i].uses = 1..Len(talk[i].calls)
               /\ Len(wire[i].uses) = Len(talk[i].calls)
               /\ wire[i].result # <<>> <=> talk[i].role = "tool"
    <2> DEFINE l == Len(talk[i].calls)
               u == wire[i].uses
               S == {label[talk[i].calls[k]] : k \in 1..l}
    <2>1. u = [k \in 1..l |-> label[talk[i].calls[k]]]
      BY DEF Labels
    <2>2. l \in Nat /\ talk[i].calls \in Seq(Nat)
      <3>1. talk[i] \in Said
        OBVIOUS
      <3> QED
        BY <3>1, MessageFields
    <2>3. l = 0 <=> talk[i].calls = <<>>
      BY <2>2
    <2>4. DOMAIN u = 1..l /\ u \in [1..l -> S]
      BY <2>1
    <2> HIDE DEF l, u, S
    <2>5. u \in Seq(S) /\ Len(u) = l
      BY <2>2, <2>4
    <2>6. u = <<>> <=> l = 0
      BY <2>2, <2>5
    <2>7. wire[i].result # <<>> <=> talk[i].role = "tool"
      <3>1. wire[i].result = IF talk[i].role = "tool" THEN <<label[talk[i].id]>> ELSE <<>>
        BY DEF Labels
      <3>2. \A x : <<x>> # <<>>
        OBVIOUS
      <3> QED
        BY <3>1, <3>2
    <2> QED
      BY <2>3, <2>4, <2>5, <2>6, <2>7 DEF l, u
  <1> QED
    BY <1>1 DEF Carries

\* M are the messages with the label of the call, H the calls with it before.
Matches(M, H, talk, label, i, k) ==
    /\ M = {j \in After(talk, i) : label[talk[j].id] = label[talk[i].calls[k]]}
    /\ H = {h \in 1..(k - 1) : label[talk[i].calls[h]] = label[talk[i].calls[k]]}
    /\ M \in SUBSET Nat /\ IsFiniteSet(M) /\ H \in SUBSET Nat /\ IsFiniteSet(H)

Matched(format, wire, talk, label, i, k) ==
    \E M, H : /\ Matches(M, H, talk, label, i, k)
              /\ AnswersTo(format, wire, i, k) = Ranked(M, Cardinality(H))

(* The provider looks for the label of the call among the messages after   *)
(* the response, and counts the calls before it with the same label.       *)
LEMMA LabelsMatch ==
    ASSUME NEW talk \in Seq(Said), Neat(talk), NEW wire, NEW label,
           Labels(wire, talk, label), Carries(wire, talk), NEW format, format # "ollama",
           NEW i \in 1..Len(talk), NEW k \in 1..Len(talk[i].calls)
    PROVE  Matched(format, wire, talk, label, i, k)
  <1> DEFINE calls == talk[i].calls
             l == Len(calls)
             uses == wire[i].uses
             M == {j \in After(talk, i) : wire[j].result = <<uses[k]>>}
             H == {h \in 1..(k - 1) : uses[h] = uses[k]}
  <1>1. /\ l \in Nat /\ i \in Nat /\ k \in 1..l /\ calls # <<>>
    <2>1. talk[i] \in Said
      OBVIOUS
    <2>2. calls \in Seq(Nat)
      BY <2>1, MessageFields
    <2> QED
      BY <2>2
  <1>2. Len(uses) = l /\ \A h \in 1..l : uses[h] = label[calls[h]]
    BY DEF Carries, Labels
  <1>3. \A j \in After(talk, i) : j \in 1..Len(talk) /\ talk[j].role = "tool"
    BY <1>1 DEF Neat, Shaped
  <1>4. \A j \in After(talk, i) : wire[j].result = <<label[talk[j].id]>>
    BY <1>3 DEF Labels
  <1>5. (i + 1)..(i + Len(uses)) = After(talk, i)
    BY <1>2 DEF After
  <1>6. AnswersTo(format, wire, i, k) = Ranked(M, Cardinality(H))
    BY <1>5 DEF AnswersTo, Ranked, Earlier
  <1> HIDE DEF uses, calls
  <1>7. M = {j \in After(talk, i) : label[talk[j].id] = label[calls[k]]}
    BY <1>1, <1>2, <1>4
  <1>8. H = {h \in 1..(k - 1) : label[calls[h]] = label[calls[k]]}
    <2>1. \A h \in 1..(k - 1) : h \in 1..l
      BY <1>1
    <2> QED
      BY <1>1, <1>2, <2>1
  <1>9. After(talk, i) \in SUBSET Nat /\ IsFiniteSet(After(talk, i))
    <2>1. After(talk, i) = (i + 1)..(i + l)
      BY DEF After, calls
    <2>2. IsFiniteSet((i + 1)..(i + l))
      <3>1. i + 1 \in Int /\ i + l \in Int
        BY <1>1
      <3> QED
        BY <3>1, FS_Interval
    <2> HIDE DEF l
    <2> QED
      BY <1>1, <2>1, <2>2
  <1>10. 1..(k - 1) \in SUBSET Nat /\ IsFiniteSet(1..(k - 1))
    <2>1. 1 \in Int /\ k - 1 \in Int
      BY <1>1
    <2>2. IsFiniteSet(1..(k - 1))
      BY <2>1, FS_Interval
    <2> QED
      BY <1>1, <2>2
  <1>11. M \subseteq After(talk, i) /\ H \subseteq 1..(k - 1)
    OBVIOUS
  <1> HIDE DEF M, H
  <1>12. M \in SUBSET Nat /\ IsFiniteSet(M) /\ H \in SUBSET Nat /\ IsFiniteSet(H)
    BY <1>9, <1>10, <1>11, FS_Subset
  <1>13. Matches(M, H, talk, label, i, k)
    BY <1>7, <1>8, <1>12 DEF Matches, calls
  <1> QED
    BY <1>6, <1>13 DEF Matched

(* A label of its own finds each call's result;                            *)
LEMMA FoundById ==
    ASSUME NEW talk \in Seq(Said), Neat(talk), NEW wire, NEW label,
           Labels(wire, talk, label), Carries(wire, talk), NEW format, format # "ollama",
           \A x, y \in Nat : label[x] = label[y] => x = y
    PROVE  Found(format, wire, talk)
  <1> SUFFICES ASSUME NEW i \in 1..Len(talk), NEW k \in 1..Len(talk[i].calls)
               PROVE  \E j \in After(talk, i) : /\ AnswersTo(format, wire, i, k) = {j}
                                                /\ talk[j].id = talk[i].calls[k]
    BY DEF Found
  <1> DEFINE calls == talk[i].calls
             l == Len(calls)
  <1>1. /\ calls \in Seq(Nat) /\ l \in Nat /\ k \in 1..l /\ calls # <<>>
        /\ DOMAIN calls = 1..l /\ \A h \in 1..l : calls[h] \in Nat
        /\ \A j \in 1..Len(talk) : talk[j].id \in Nat
    <2>1. \A j \in 1..Len(talk) : talk[j] \in Said
      OBVIOUS
    <2>2. calls \in Seq(Nat) /\ \A j \in 1..Len(talk) : talk[j].id \in Nat
      BY <2>1, MessageFields
    <2> QED
      BY <2>2
  <1>2. /\ Increasing(calls)
        /\ \A j \in After(talk, i) : j \in 1..Len(talk)
        /\ \A id \in ToSet(calls) : \E j \in After(talk, i) : talk[j].id = id
    BY <1>1 DEF Neat, Shaped
  <1>0. PICK M, H : /\ Matches(M, H, talk, label, i, k)
                    /\ AnswersTo(format, wire, i, k) = Ranked(M, Cardinality(H))
    <2>1. Matched(format, wire, talk, label, i, k)
      BY LabelsMatch
    <2> QED
      BY <2>1 DEF Matched
  <1>3. /\ M = {j \in After(talk, i) : label[talk[j].id] = label[calls[k]]}
        /\ H = {h \in 1..(k - 1) : label[calls[h]] = label[calls[k]]}
        /\ M \in SUBSET Nat /\ IsFiniteSet(M) /\ H \in SUBSET Nat /\ IsFiniteSet(H)
    BY <1>0 DEF Matches
  <1> HIDE DEF calls, l
  <1>4. \A j \in M : j \in After(talk, i) /\ talk[j].id = calls[k]
    BY <1>1, <1>2, <1>3
  <1>5. M # {}
    <2>1. calls[k] \in ToSet(calls)
      BY <1>1 DEF ToSet
    <2>2. PICK j \in After(talk, i) : talk[j].id = calls[k]
      BY <1>2, <2>1
    <2> QED
      BY <1>3, <2>2
  <1>6. H = {}
    <2>1. ASSUME NEW h \in H PROVE FALSE
      <3>1. h \in 1..l /\ h < k /\ label[calls[h]] = label[calls[k]]
        BY <1>1, <1>3
      <3>2. calls[h] < calls[k]
        BY <1>1, <1>2, <3>1 DEF Increasing, l
      <3> QED
        BY <1>1, <3>1, <3>2
    <2> QED
      BY <2>1
  <1>7. PICK j \in M : \A x \in M : j <= x
    BY <1>3, <1>5, Least
  <1>8. Earlier(M, j) = {}
    <2>1. \A h \in M : h \in Nat
      BY <1>3
    <2>2. \A h \in M : ~(h < j)
      BY <1>7, <2>1
    <2> QED
      BY <2>2 DEF Earlier
  <1>9. AnswersTo(format, wire, i, k) = {j}
    <2> DEFINE n == Cardinality(H)
    <2>1. Cardinality(Earlier(M, j)) = n
      BY <1>6, <1>8
    <2>2. M \in SUBSET Nat /\ IsFiniteSet(M) /\ j \in M
      BY <1>3, <1>7
    <2> HIDE DEF n
    <2>3. Ranked(M, n) = {j}
      BY <2>1, <2>2, OneAnswer
    <2> QED
      BY <1>0, <2>3 DEF n
  <1> QED
    BY <1>4, <1>9 DEF calls

(* without one the calls are counted, and their results have to rise,      *)
LEMMA FoundByCount ==
    ASSUME NEW talk \in Seq(Said), Neat(talk), ToolsRise(talk), NEW wire, NEW label,
           Labels(wire, talk, label), Carries(wire, talk), NEW format, format # "ollama"
    PROVE  Found(format, wire, talk)
  <1> SUFFICES ASSUME NEW i \in 1..Len(talk), NEW k \in 1..Len(talk[i].calls)
               PROVE  \E j \in After(talk, i) : /\ AnswersTo(format, wire, i, k) = {j}
                                                /\ talk[j].id = talk[i].calls[k]
    BY DEF Found
  <1> DEFINE calls == talk[i].calls
             l == Len(calls)
  <1>1. l \in Nat /\ k \in 1..l /\ i \in Nat
    <2>1. talk[i] \in Said
      OBVIOUS
    <2>2. calls \in Seq(Nat)
      BY <2>1, MessageFields
    <2> QED
      BY <2>2
  <1>2. \A h \in 1..l : talk[i + h].id = calls[h]
    BY RiseInPlace
  <1>3. After(talk, i) = (i + 1)..(i + l)
    BY DEF After
  <1>0. PICK M, H : /\ Matches(M, H, talk, label, i, k)
                    /\ AnswersTo(format, wire, i, k) = Ranked(M, Cardinality(H))
    <2>1. Matched(format, wire, talk, label, i, k)
      BY LabelsMatch
    <2> QED
      BY <2>1 DEF Matched
  <1>4. /\ M = {j \in After(talk, i) : label[talk[j].id] = label[calls[k]]}
        /\ H = {h \in 1..(k - 1) : label[calls[h]] = label[calls[k]]}
        /\ M \in SUBSET Nat /\ IsFiniteSet(M) /\ H \in SUBSET Nat /\ IsFiniteSet(H)
    BY <1>0 DEF Matches
  <1> HIDE DEF calls, l
  <1> DEFINE here == i + k
  <1>5. here \in After(talk, i) /\ here \in M /\ talk[here].id = calls[k]
    <2>1. here \in After(talk, i) /\ talk[here].id = calls[k]
      BY <1>1, <1>2, <1>3
    <2> HIDE DEF here
    <2> QED
      BY <1>4, <2>1
  <1>6. {j \in M : j < here} = {i + h : h \in H}
    <2>1. ASSUME NEW j \in M, j < here PROVE j - i \in H /\ j = i + (j - i)
      <3>1. j \in (i + 1)..(i + l) /\ label[talk[j].id] = label[calls[k]]
        BY <1>3, <1>4
      <3>2. j - i \in 1..l /\ j - i \in 1..(k - 1) /\ j = i + (j - i)
        BY <1>1, <2>1, <3>1
      <3> DEFINE h == j - i
      <3> HIDE DEF h
      <3>3. talk[i + h].id = calls[h] /\ j = i + h /\ h \in 1..(k - 1)
        BY <1>2, <3>2 DEF h
      <3>4. h \in H
        BY <1>4, <3>1, <3>3
      <3> QED
        BY <3>2, <3>4 DEF h
    <2>2. ASSUME NEW h \in H PROVE i + h \in M /\ i + h < here
      <3>1. h \in 1..(k - 1) /\ label[calls[h]] = label[calls[k]]
        BY <1>4
      <3>2. h \in 1..l /\ i + h \in (i + 1)..(i + l) /\ i + h < here
        BY <1>1, <3>1
      <3>3. talk[i + h].id = calls[h]
        BY <1>2, <3>2
      <3> DEFINE j == i + h
      <3> HIDE DEF j
      <3>4. j \in After(talk, i) /\ label[talk[j].id] = label[calls[k]]
        BY <1>3, <3>1, <3>2, <3>3 DEF j
      <3>5. j \in M
        BY <1>4, <3>4
      <3> QED
        BY <3>2, <3>5 DEF j
    <2> HIDE DEF here
    <2> QED
      BY <2>1, <2>2
  <1>7. Cardinality({i + h : h \in H}) = Cardinality(H)
    BY <1>1, <1>4, MovedAsMany
  <1> HIDE DEF here
  <1>8. Cardinality(Earlier(M, here)) = Cardinality(H)
    BY <1>6, <1>7 DEF Earlier
  <1>9. AnswersTo(format, wire, i, k) = {here}
    <2>1. M \in SUBSET Nat /\ IsFiniteSet(M) /\ here \in M
      BY <1>4, <1>5
    <2> DEFINE n == Cardinality(H)
    <2>2. Cardinality(Earlier(M, here)) = n
      BY <1>8
    <2> HIDE DEF n
    <2>3. Ranked(M, n) = {here}
      BY <2>1, <2>2, OneAnswer
    <2> QED
      BY <1>0, <2>3 DEF n
  <1> QED
    BY <1>5, <1>9 DEF calls

(* as they have to where the place alone counts.                           *)
LEMMA FoundByPlace ==
    ASSUME NEW talk \in Seq(Said), Neat(talk), ToolsRise(talk), NEW wire
    PROVE  Found("ollama", wire, talk)
  <1> SUFFICES ASSUME NEW i \in 1..Len(talk), NEW k \in 1..Len(talk[i].calls)
               PROVE  \E j \in After(talk, i) : /\ AnswersTo("ollama", wire, i, k) = {j}
                                                /\ talk[j].id = talk[i].calls[k]
    BY DEF Found
  <1>1. talk[i + k].id = talk[i].calls[k]
    BY RiseInPlace
  <1>2. AnswersTo("ollama", wire, i, k) = {i + k}
    BY DEF AnswersTo
  <1>3. i + k \in After(talk, i)
    <2>1. talk[i] \in Said
      OBVIOUS
    <2>2. talk[i].calls \in Seq(Nat)
      BY <2>1, MessageFields
    <2>3. Len(talk[i].calls) \in Nat /\ i \in Nat
      BY <2>2
    <2> QED
      BY <2>3 DEF After
  <1> QED
    BY <1>1, <1>2, <1>3

(* A function on the first numbers is as long as there are.                *)
LEMMA WireLength ==
    ASSUME NEW n \in Nat, NEW f, f = [i \in 1..n |-> f[i]]
    PROVE  Len(f) = n /\ DOMAIN f = 1..n
  <1> DEFINE S == {f[i] : i \in 1..n}
  <1>1. DOMAIN f = 1..n /\ f \in [1..n -> S]
    OBVIOUS
  <1> HIDE DEF S
  <1> QED
    BY <1>1

(* There is nothing to label in no calls.                                  *)
LEMMA NoLabels ==
    ASSUME NEW label
    PROVE  <<>> = [k \in 1..Len(<<>>) |-> label[<<>>[k]]]
  <1> DEFINE f == [k \in 1..Len(<<>>) |-> label[<<>>[k]]]
  <1>1. Len(<<>>) = 0 /\ 1..0 = {}
    OBVIOUS
  <1>2. f \in [1..0 -> {}]
    BY <1>1
  <1> HIDE DEF f
  <1>3. f \in Seq({}) /\ Len(f) = 0
    BY <1>2
  <1>4. f = <<>>
    BY <1>3
  <1> QED
    BY <1>4 DEF f

\* The id as a label.
IdLabel == [x \in Nat |-> x]

(* Calls are labelled with themselves.                                     *)
LEMMA CallLabels ==
    ASSUME NEW calls \in Seq(Nat)
    PROVE  calls = [k \in 1..Len(calls) |-> IdLabel[calls[k]]]
  <1>1. \A k \in 1..Len(calls) : IdLabel[calls[k]] = calls[k]
    BY DEF IdLabel
  <1>2. calls = [k \in 1..Len(calls) |-> calls[k]]
    OBVIOUS
  <1> QED
    BY <1>1, <1>2

(* What the messages of a conversation are made of.                        *)
LEMMA TalkFields ==
    ASSUME NEW talk \in Seq(Said)
    PROVE  /\ Len(talk) \in Nat /\ DOMAIN talk = 1..Len(talk)
           /\ \A i \in 1..Len(talk) :
                 /\ talk[i].calls \in Seq(Nat) /\ talk[i].id \in Nat
                 /\ DOMAIN talk[i].calls = 1..Len(talk[i].calls)
                 /\ talk[i].role = "tool" => talk[i].calls = <<>>
  <1>1. \A i \in 1..Len(talk) : talk[i] \in Said
    OBVIOUS
  <1>2. \A i \in 1..Len(talk) : /\ talk[i].calls \in Seq(Nat) /\ talk[i].id \in Nat
                                /\ talk[i].role = "tool" => talk[i].calls = <<>>
    BY <1>1, MessageFields
  <1> QED
    BY <1>2

(* The formats with ids label with them,                                   *)
LEMMA OpenAILabels ==
    ASSUME NEW talk \in Seq(Said), 0 \notin MessageIds(talk), NEW name
    PROVE  /\ Labels(Wire("openai", talk, name), talk, IdLabel)
           /\ Carries(Wire("openai", talk, name), talk)
  <1> DEFINE n == Len(talk)
             K == {m \in ToSet(talk) : m.role = "tool" => m.id # 0}
             wire == Wire("openai", talk, name)
  <1>1. /\ n \in Nat /\ DOMAIN talk = 1..n
        /\ \A i \in 1..n : talk[i].calls \in Seq(Nat) /\ talk[i].id \in Nat
    BY TalkFields
  <1>2. \A k \in 1..n : talk[k] \in K
    <2>1. ASSUME NEW k \in 1..n, talk[k].role = "tool" PROVE talk[k].id # 0
      BY <1>1, <2>1, MessageIdsAt
    <2>2. \A k \in 1..n : talk[k] \in ToSet(talk)
      BY <1>1 DEF ToSet
    <2> QED
      BY <2>1, <2>2
  <1>3. wire = LET sent == KeepIn(talk, K)
               IN  [i \in DOMAIN sent |->
                      Turn(sent[i].role, sent[i].calls,
                           IF sent[i].role = "tool" THEN <<sent[i].id>> ELSE <<>>)]
    BY DEF Wire, ToOpenAI
  <1> HIDE DEF K
  <1>4. KeepIn(talk, K) = talk
    BY <1>2, KeepAll
  <1>5. wire = [i \in 1..n |->
                  Turn(talk[i].role, talk[i].calls,
                       IF talk[i].role = "tool" THEN <<talk[i].id>> ELSE <<>>)]
    BY <1>1, <1>3, <1>4
  <1> HIDE DEF wire
  <1>6. \A i \in 1..n : /\ wire[i].uses = talk[i].calls
                        /\ wire[i].result = IF talk[i].role = "tool" THEN <<talk[i].id>>
                                                                     ELSE <<>>
    BY <1>5 DEF Turn
  <1>7. Labels(wire, talk, IdLabel)
    <2>1. \A i \in 1..n : wire[i].uses
                          = [k \in 1..Len(talk[i].calls) |-> IdLabel[talk[i].calls[k]]]
      BY <1>1, <1>6, CallLabels
    <2>2. \A i \in 1..n : IdLabel[talk[i].id] = talk[i].id
      BY <1>1 DEF IdLabel
    <2> QED
      BY <1>6, <2>1, <2>2 DEF Labels
  <1>8. wire = [i \in 1..n |-> wire[i]]
    BY <1>5
  <1>9. Len(wire) = n /\ DOMAIN wire = 1..n
    BY <1>1, <1>8, WireLength
  <1> QED
    BY <1>7, <1>9, LabelsCarry DEF wire

LEMMA AnthropicLabels ==
    ASSUME NEW talk \in Seq(Said), NEW name
    PROVE  /\ Labels(Wire("anthropic", talk, name), talk, IdLabel)
           /\ Carries(Wire("anthropic", talk, name), talk)
  <1> DEFINE n == Len(talk)
             wire == Wire("anthropic", talk, name)
  <1>1. /\ n \in Nat /\ DOMAIN talk = 1..n
        /\ \A i \in 1..n : /\ talk[i].calls \in Seq(Nat) /\ talk[i].id \in Nat
                           /\ talk[i].role = "tool" => talk[i].calls = <<>>
    BY TalkFields
  <1>2. wire = [i \in 1..n |->
                  LET m == talk[i]
                  IN  IF m.role = "tool" THEN Turn("user", <<>>, <<m.id>>)
                      ELSE Turn(m.role, m.calls, <<>>)]
    BY <1>1 DEF Wire, ToAnthropic
  <1> HIDE DEF wire
  <1>3. \A i \in 1..n : /\ wire[i].uses = talk[i].calls
                        /\ wire[i].result = IF talk[i].role = "tool" THEN <<talk[i].id>>
                                                                     ELSE <<>>
    BY <1>1, <1>2 DEF Turn
  <1>4. Labels(wire, talk, IdLabel)
    <2>1. \A i \in 1..n : wire[i].uses
                          = [k \in 1..Len(talk[i].calls) |-> IdLabel[talk[i].calls[k]]]
      BY <1>1, <1>3, CallLabels
    <2>2. \A i \in 1..n : IdLabel[talk[i].id] = talk[i].id
      BY <1>1 DEF IdLabel
    <2> QED
      BY <1>3, <2>1, <2>2 DEF Labels
  <1>5. wire = [i \in 1..n |-> wire[i]]
    BY <1>2
  <1>6. Len(wire) = n /\ DOMAIN wire = 1..n
    BY <1>1, <1>5, WireLength
  <1> QED
    BY <1>4, <1>6, LabelsCarry DEF wire

(* the others with the name of the function,                               *)
LEMMA GeminiLabels ==
    ASSUME NEW talk \in Seq(Said), NEW name
    PROVE  /\ Labels(Wire("gemini", talk, name), talk, name)
           /\ Carries(Wire("gemini", talk, name), talk)
  <1> DEFINE n == Len(talk)
             wire == Wire("gemini", talk, name)
  <1>1. /\ n \in Nat /\ DOMAIN talk = 1..n
        /\ \A i \in 1..n : /\ DOMAIN talk[i].calls = 1..Len(talk[i].calls)
                           /\ talk[i].role = "tool" => talk[i].calls = <<>>
    BY TalkFields
  <1>2. wire = [i \in 1..n |->
                  LET m == talk[i]
                  IN  IF m.role = "tool" THEN Turn("user", <<>>, <<name[m.id]>>)
                      ELSE Turn(IF m.role = "assistant" THEN "model" ELSE "user",
                                [k \in DOMAIN m.calls |-> name[m.calls[k]]], <<>>)]
    BY <1>1 DEF Wire, ToGemini
  <1> HIDE DEF wire
  <1>3. ASSUME NEW i \in 1..n
        PROVE  /\ wire[i].uses = [k \in 1..Len(talk[i].calls) |-> name[talk[i].calls[k]]]
               /\ wire[i].result = IF talk[i].role = "tool" THEN <<name[talk[i].id]>>
                                                            ELSE <<>>
    <2>1. CASE talk[i].role = "tool"
      <3>1. wire[i] = Turn("user", <<>>, <<name[talk[i].id]>>)
        BY <1>2, <2>1
      <3>2. wire[i].uses = <<>> /\ wire[i].result = <<name[talk[i].id]>>
        BY <3>1 DEF Turn
      <3>3. talk[i].calls = <<>>
        BY <1>1, <2>1
      <3> QED
        BY <2>1, <3>2, <3>3, NoLabels
    <2>2. CASE talk[i].role # "tool"
      <3>1. \E r : wire[i] = Turn(r, [k \in 1..Len(talk[i].calls) |-> name[talk[i].calls[k]]],
                                  <<>>)
        BY <1>1, <1>2, <2>2
      <3> QED
        BY <2>2, <3>1 DEF Turn
    <2> QED
      BY <2>1, <2>2
  <1>4. Labels(wire, talk, name)
    BY <1>3 DEF Labels
  <1>5. wire = [i \in 1..n |-> wire[i]]
    BY <1>2
  <1>6. Len(wire) = n /\ DOMAIN wire = 1..n
    BY <1>1, <1>5, WireLength
  <1> QED
    BY <1>4, <1>6, LabelsCarry DEF wire

(* or not at all.                                                          *)
LEMMA OllamaCarries ==
    ASSUME NEW talk \in Seq(Said), NEW name
    PROVE  Carries(Wire("ollama", talk, name), talk)
  <1> DEFINE n == Len(talk)
             wire == Wire("ollama", talk, name)
  <1>1. /\ n \in Nat /\ DOMAIN talk = 1..n
        /\ \A i \in 1..n : /\ DOMAIN talk[i].calls = 1..Len(talk[i].calls)
                           /\ talk[i].calls \in Seq(Nat)
    BY TalkFields
  <1>2. wire = [i \in 1..n |->
                  LET m == talk[i]
                  IN  Turn(m.role, [k \in DOMAIN m.calls |-> name[m.calls[k]]],
                           IF m.role = "tool" THEN <<"">> ELSE <<>>)]
    BY <1>1 DEF Wire, ToOllama
  <1> HIDE DEF wire
  <1>3. wire = [i \in 1..n |-> wire[i]]
    BY <1>2
  <1>4. Len(wire) = n /\ DOMAIN wire = 1..n
    BY <1>1, <1>3, WireLength
  <1>5. ASSUME NEW i \in 1..n
        PROVE  /\ wire[i].uses # <<>> <=> talk[i].calls # <<>>
               /\ DOMAIN wire[i].uses = 1..Len(talk[i].calls)
               /\ Len(wire[i].uses) = Len(talk[i].calls)
               /\ wire[i].result # <<>> <=> talk[i].role = "tool"
    <2> DEFINE l == Len(talk[i].calls)
               u == [k \in 1..l |-> name[talk[i].calls[k]]]
               S == {name[talk[i].calls[k]] : k \in 1..l}
               t == IF talk[i].role = "tool" THEN <<"">> ELSE <<>>
    <2>1. wire[i] = Turn(talk[i].role, u, t)
      BY <1>1, <1>2
    <2>2. l \in Nat /\ (l = 0 <=> talk[i].calls = <<>>)
      BY <1>1
    <2>3. DOMAIN u = 1..l /\ u \in [1..l -> S]
      OBVIOUS
    <2>4. t # <<>> <=> talk[i].role = "tool"
      <3>1. <<"">> # <<>>
        OBVIOUS
      <3> QED
        BY <3>1
    <2> HIDE DEF l, u, S, t
    <2>5. wire[i].uses = u /\ wire[i].result = t
      BY <2>1 DEF Turn
    <2>6. u \in Seq(S) /\ Len(u) = l
      BY <2>2, <2>3
    <2>7. u = <<>> <=> l = 0
      BY <2>2, <2>6
    <2> QED
      BY <2>2, <2>3, <2>4, <2>5, <2>6, <2>7 DEF l
  <1> QED
    BY <1>4, <1>5 DEF Carries, wire

(* Each provider understands what it is sent.                              *)
LEMMA SentUnderstood ==
    ASSUME NEW sent, Sendable(sent), NEW format \in Formats,
           config.parallel => format \notin WithoutIds, NEW name
    PROVE  Understood(format, sent, name)
  <1>1. /\ sent \in Seq(Said) /\ Neat(sent) /\ 0 \notin MessageIds(sent)
        /\ format \in WithoutIds => ToolsRise(sent)
    BY DEF Sendable, Ids
  <1>2. \A x, y \in Nat : IdLabel[x] = IdLabel[y] => x = y
    BY DEF IdLabel
  <1>3. CASE format = "openai"
    <2>1. Found("openai", Wire("openai", sent, name), sent)
      BY <1>1, <1>2, OpenAILabels, FoundById
    <2> QED
      BY <1>1, <1>3, <2>1, OpenAILabels, FoundUnderstood
  <1>4. CASE format = "anthropic"
    <2>1. Found("anthropic", Wire("anthropic", sent, name), sent)
      BY <1>1, <1>2, AnthropicLabels, FoundById
    <2> QED
      BY <1>1, <1>4, <2>1, AnthropicLabels, FoundUnderstood
  <1>5. CASE format = "gemini"
    <2>1. ToolsRise(sent)
      BY <1>1, <1>5 DEF WithoutIds
    <2>2. Found("gemini", Wire("gemini", sent, name), sent)
      BY <1>1, <2>1, GeminiLabels, FoundByCount
    <2> QED
      BY <1>1, <1>5, <2>2, GeminiLabels, FoundUnderstood
  <1>6. CASE format = "ollama"
    <2>1. ToolsRise(sent)
      BY <1>1, <1>6 DEF WithoutIds
    <2>2. Found("ollama", Wire("ollama", sent, name), sent)
      BY <1>1, <2>1, FoundByPlace
    <2> QED
      BY <1>1, <1>6, <2>2, OllamaCarries, FoundUnderstood
  <1> QED
    BY <1>3, <1>4, <1>5, <1>6 DEF Formats

\* Where no call runs ahead, all that a conversation in order rests on.
SpokenInv == ~RunsAhead => ReplayShape /\ TalkRises /\ RememberInv

(* Every step keeps it.                                                    *)
LEMMA SpokenStep ==
    ASSUME ConsentBase, TurnInv, OnceInv, OnceInv', UsageInv, SpokenInv,
           UNCHANGED config, [Next]_vars
    PROVE  SpokenInv'
  <1>1. RunsAhead' = RunsAhead
    BY DEF RunsAhead, Verdict, VerdictUnder
  <1>2. SUFFICES ASSUME ~RunsAhead PROVE (ReplayShape /\ TalkRises /\ RememberInv)'
    BY <1>1 DEF SpokenInv
  <1>3. ReplayShape /\ TalkRises /\ RememberInv /\ ~LaneAsks
    BY <1>2 DEF SpokenInv, RunsAhead, LaneAsks
  <1> QED
    BY <1>2, <1>3, ReplayStep, RiseStep, RememberStep

(* What the model is sent is well formed and understood.                   *)
LEMMA SpokenSafe ==
    ASSUME TurnInv, UsageInv, SpokenInv
    PROVE  ProviderSafe
  <1> SUFFICES ASSUME phase = "model", ~RunsAhead, NEW sent \in ModelMessages
               PROVE  /\ WellFormed(sent)
                      /\ \A format \in Formats :
                            (config.parallel => format \notin WithoutIds)
                            => Understood(format, sent, NameOf)
    BY DEF ProviderSafe, CanAsk
  <1>1. Sendable(sent)
    BY SentNeat DEF SpokenInv
  <1>2. WellFormed(sent)
    BY <1>1, NeatFormed DEF Sendable
  <1> QED
    BY <1>1, <1>2, SentUnderstood

(* Where no call runs ahead of a question, every conversation the agent    *)
(* sends is one that a provider accepts and understands, whatever history, *)
(* compaction, interruptions, refusals and failures lie behind it and in   *)
(* each request format: each call is answered once, right after the        *)
(* response that asked for it, no result comes without its call, and the   *)
(* provider takes each result for that of its call.  The formats without   *)
(* call ids are excepted under the parallel scheduler, which does not keep *)
(* the order of the calls (runtime/repl_state.py, prepare_turn;            *)
(* context/compactor.py, compact_messages; the adapters of integrations/). *)
THEOREM ConversationsUnderstood == Spec => []ProviderSafe
  <1>1. Init => ConsentBase /\ TurnInv /\ OnceInv /\ UsageInv /\ SpokenInv
    BY RememberInit, ReplayInit, RiseInit DEF SpokenInv
  <1>2. ConsentBase /\ TurnInv /\ OnceInv /\ UsageInv /\ SpokenInv /\ [Next]_vars
        => (ConsentBase /\ TurnInv /\ OnceInv /\ UsageInv /\ SpokenInv)'
    <2> SUFFICES ASSUME ConsentBase, TurnInv, OnceInv, UsageInv, SpokenInv, [Next]_vars
                 PROVE  (ConsentBase /\ TurnInv /\ OnceInv /\ UsageInv /\ SpokenInv)'
      OBVIOUS
    <2>1. (ConsentBase /\ TurnInv /\ OnceInv /\ UsageInv)' /\ UNCHANGED config
      BY ConsentStep, LedgerStep, BaseKept, OnceStep, UsageStep DEF ConsentChange
    <2> QED
      BY <2>1, SpokenStep
  <1>3. TurnInv /\ UsageInv /\ SpokenInv => ProviderSafe
    BY SpokenSafe
  <1> QED
    BY <1>1, <1>2, <1>3, PTL DEF Spec
=============================================================================
