-------------------------- MODULE Providers_proofs --------------------------
(***************************************************************************)
(* Two results about one completion, for every number of attempts, every   *)
(* answer and every size of the queue.                                     *)
(*   - All that the agent is given comes from one request.  The invariant  *)
(*     (Inv) follows the two places where an event can be, the buffer of   *)
(*     the client for Cohere and out: as long as the generator is between  *)
(*     two requests nothing has been given, and what has been given while  *)
(*     it reads is of the stream it reads.                                 *)
(*   - An answer that is reported complete is whole.  The invariant        *)
(*     (WholeInv) says that the queue holds what was read last and not     *)
(*     taken, and that events, buffer and fragments together hold what was *)
(*     taken of the stream.                                                *)
(***************************************************************************)
EXTENDS Providers, SequenceTheorems, FiniteSetTheorems, WellFoundedInduction, TLAPS

IsSeq(s) == \E S : s \in Seq(S)

\* s is a sequence of events of request n.
From(n, s) == \E S : s \in Seq(S) /\ \A e \in S : e.from = n

Inv ==
  /\ IsSeq(streams)
  /\ pc = "read" => From(Now, buffer)
  /\ pc # "ended" => From(Now, out)
  /\ pc \in {"start", "sleep", "post"} => out = <<>>
  /\ \E n : From(n, out)

\* A sequence over events of n is one of events of n.
LEMMA FromIntro ==
    ASSUME NEW n, NEW S, NEW s, s \in Seq(S), \A e \in S : e.from = n
    PROVE  From(n, s)
  BY DEF From

\* No events are events of every request.
LEMMA FromEmpty == ASSUME NEW n PROVE From(n, <<>>)
<1> DEFINE S == {}
<1>1. <<>> \in Seq(S) /\ \A e \in S : e.from = n
  OBVIOUS
<1> HIDE DEF S
<1>2. QED
  BY <1>1, FromIntro

\* One event of n.
LEMMA FromOne == ASSUME NEW n, NEW e, e.from = n PROVE From(n, <<e>>)
<1> DEFINE S == {e}
<1>1. <<e>> \in Seq(S) /\ \A x \in S : x.from = n
  OBVIOUS
<1> HIDE DEF S
<1>2. QED
  BY <1>1, FromIntro

\* Events of n after events of n.
LEMMA FromConcat ==
    ASSUME NEW n, NEW s, NEW t, From(n, s), From(n, t)
    PROVE  From(n, s \o t)
<1>1. PICK S : s \in Seq(S) /\ \A e \in S : e.from = n
  BY DEF From
<1>2. PICK T : t \in Seq(T) /\ \A e \in T : e.from = n
  BY DEF From
<1>3. s \in Seq(S \cup T) /\ t \in Seq(S \cup T)
  BY <1>1, <1>2
<1>4. s \o t \in Seq(S \cup T)
  BY <1>3
<1>5. QED
  BY <1>1, <1>2, <1>4 DEF From

\* Two sequences that make the empty one are empty.
LEMMA ConcatEmpty ==
    ASSUME NEW n, NEW s, NEW t, From(n, s), From(n, t), s \o t = <<>>
    PROVE  s = <<>>
<1>1. PICK S : s \in Seq(S)
  BY DEF From
<1>2. PICK T : t \in Seq(T)
  BY DEF From
<1>3. s \in Seq(S \cup T) /\ t \in Seq(S \cup T)
  BY <1>1, <1>2
<1>4. Len(s) + Len(t) = 0
  BY <1>3
<1>5. Len(s) = 0
  BY <1>3, <1>4
<1>6. QED
  BY <1>3, <1>5

\* Each of the events of n comes from n.
LEMMA FromSame ==
    ASSUME NEW n, NEW s, From(n, s)
    PROVE  \A k \in DOMAIN s : s[k].from = n
  BY DEF From

\* A change of one stream, or a new one.
LEMMA SeqChanged ==
    ASSUME NEW s, IsSeq(s), NEW i, NEW x
    PROVE  /\ IsSeq([s EXCEPT ![i] = x]) /\ Len([s EXCEPT ![i] = x]) = Len(s)
           /\ IsSeq(Append(s, x)) /\ Len(Append(s, x)) = Len(s) + 1
           /\ Len(s) \in Nat
<1>1. PICK S : s \in Seq(S)
  BY DEF IsSeq
<1>2. s \in Seq(S \cup {x})
  BY <1>1
<1>3. [s EXCEPT ![i] = x] \in Seq(S \cup {x}) /\ Len([s EXCEPT ![i] = x]) = Len(s)
  <2>1. CASE i \in 1..Len(s)
    BY <1>2, <2>1, ExceptSeq
  <2>2. CASE i \notin 1..Len(s)
    <3>1. [s EXCEPT ![i] = x] = s
      BY <1>2, <2>2
    <3>2. QED
      BY <1>2, <3>1
  <2>3. QED
    BY <2>1, <2>2
<1>4. Append(s, x) \in Seq(S \cup {x}) /\ Len(Append(s, x)) = Len(s) + 1
  BY <1>2
<1>5. QED
  BY <1>3, <1>4 DEF IsSeq

\* The calls of a request are its events.
LEMMA CallsFrom == ASSUME NEW n, NEW fragments PROVE From(n, CallsOf(n, fragments))
<1>1. ASSUME NEW i PROVE From(n, CallOf(n, i, fragments))
  <2>1. CallEvent(n, i, fragments[i]).from = n
    BY DEF CallEvent
  <2>2. QED
    BY <2>1, FromEmpty, FromOne DEF CallOf
<1>2. QED
  BY <1>1, FromConcat DEF CallsOf

\* Nothing has been asked or given at the start.
LEMMA InitInv == Init => Inv
<1>1. IsSeq(<<>>)
  BY DEF IsSeq
<1>2. QED
  BY <1>1, FromEmpty DEF Init, Inv

\* The completion ends with events of the request it reads.
LEMMA EndsInv ==
    ASSUME Inv, pc # "ended", NEW outcome, NEW events, Ends(outcome, events),
           IsSeq(streams'), From(Now, events)
    PROVE  Inv'
<1>1. From(Now, out')
  BY FromConcat DEF Inv, Ends
<1>2. QED
  BY <1>1 DEF Inv, Ends

\* Closing a stream changes that stream only.
LEMMA CloseSeq ==
    ASSUME NEW s, IsSeq(s), Len(s) = Now
    PROVE  IsSeq(Close(s)) /\ Len(Close(s)) = Len(s)
<1>1. CASE client.style \in Buffered
  BY <1>1 DEF Close
<1>2. CASE client.style \notin Buffered
  <2>1. Close(s) = [s EXCEPT ![Now] = [s[Now] EXCEPT !.cancelled = TRUE]]
    BY <1>2 DEF Close
  <2>2. QED
    <3>1. PICK x : Close(s) = [s EXCEPT ![Now] = x]
      BY <2>1
    <3>2. IsSeq([s EXCEPT ![Now] = x]) /\ Len([s EXCEPT ![Now] = x]) = Len(s)
      <4>1. \A i : IsSeq([s EXCEPT ![i] = x]) /\ Len([s EXCEPT ![i] = x]) = Len(s)
        BY SeqChanged, Zenon
      <4>2. QED
        BY <4>1
    <3>3. QED
      BY <3>1, <3>2, Zenon
<1>3. QED
  BY <1>1, <1>2

\* Taking a token changes the stream that is read only.
LEMMA TakeSeq == ASSUME Inv PROVE IsSeq(Take) /\ Len(Take) = Now
<1>1. Take = [streams EXCEPT ![Now] = [streams[Now] EXCEPT !.queue = Tail(streams[Now].queue)]]
  BY DEF Take
<1>2. QED
  BY <1>1, SeqChanged DEF Inv, Now

\* An event of the stream that is read, buffered or given.
LEMMA EmitInv ==
    ASSUME Inv, pc = "read", NEW e, e.from = Now, Emit(<<e>>), streams' = Take,
           UNCHANGED pc
    PROVE  Inv'
<1>1. From(Now, <<e>>)
  BY FromOne
<1>2. From(Now, buffer') /\ From(Now, out')
  BY <1>1, FromConcat DEF Inv, Emit
<1>3. IsSeq(streams') /\ Len(streams') = Now
  BY TakeSeq
<1>4. QED
  BY <1>2, <1>3 DEF Inv, Now

\* After the last attempt nothing has been given yet.
LEMMA ExhaustedInv ==
    ASSUME Inv, pc # "ended", out = <<>>, NEW problem, Exhausted(problem), IsSeq(streams'),
           Len(streams') = Now
    PROVE  Inv'
<1>1. CASE pc' = "post" /\ UNCHANGED out
  BY <1>1, FromEmpty DEF Inv, Now
<1>2. CASE Ends("error", <<>>)
  BY <1>2, EndsInv, FromEmpty
<1>3. QED
  BY <1>1, <1>2 DEF Exhausted

\* The steps of the generator keep Inv.
LEMMA GeneratorInv == ASSUME Inv, Generator PROVE Inv'
<1>1. CASE Open
  BY <1>1, FromEmpty, SeqChanged DEF Open, Inv, Now
<1>2. CASE NoAttempt
  <2>1. IsSeq(streams') /\ Len(streams') = Now /\ out = <<>> /\ pc = "start"
    BY <1>2 DEF NoAttempt, Inv, Now
  <2>2. QED
    BY <1>2, <2>1, ExhaustedInv DEF NoAttempt
<1>3. CASE TakeText
  <2>1. TextEvent(Now, <<Item.part>>).from = Now
    BY DEF TextEvent
  <2>2. QED
    BY <1>3, <2>1, EmitInv DEF TakeText, Taking
<1>4. CASE TakeFragment
  <2>1. CallEvent(Now, Item.index, <<Item.part>>).from = Now
    BY DEF CallEvent
  <2>2. CASE client.style = "gemini"
    BY <1>4, <2>1, <2>2, EmitInv DEF TakeFragment, Taking
  <2>3. CASE client.style # "gemini"
    BY <1>4, <2>3, TakeSeq DEF TakeFragment, Taking, Inv, Now
  <2>4. QED
    BY <2>2, <2>3
<1>5. CASE TakeProblem
  <2>1. pc = "read" /\ IsSeq(streams') /\ Len(streams') = Now
    BY <1>5, TakeSeq, CloseSeq DEF TakeProblem, Taking
  <2>2. CASE Retries(Item.kind)
    <3>1. out = <<>>
      BY <2>2 DEF Retries
    <3>2. CASE attempt < client.attempts
      BY <1>5, <2>1, <2>2, <3>1, <3>2, FromEmpty DEF TakeProblem, Inv, Now
    <3>3. CASE ~(attempt < client.attempts)
      BY <1>5, <2>1, <2>2, <3>1, <3>3, ExhaustedInv DEF TakeProblem
    <3>4. QED
      BY <3>2, <3>3
  <2>3. CASE ~Retries(Item.kind)
    BY <1>5, <2>1, <2>3, EndsInv, FromEmpty DEF TakeProblem
  <2>4. QED
    BY <2>2, <2>3
<1>6. CASE TakeEnd
  <2> DEFINE events == buffer \o CallsOf(Now, acc)
  <2>1. pc = "read" /\ IsSeq(streams') /\ Len(streams') = Now
    BY <1>6, TakeSeq, CloseSeq DEF TakeEnd, Taking
  <2>2. From(Now, events) /\ From(Now, out)
    BY <2>1, CallsFrom, FromConcat DEF Inv
  <2>3. CASE Ends("complete", events)
    BY <2>1, <2>2, <2>3, EndsInv
  <2>4. CASE pc' = "post" /\ out \o events = <<>> /\ UNCHANGED out
    <3>1. out = <<>>
      BY <2>2, <2>4, ConcatEmpty
    <3>2. QED
      BY <2>1, <2>4, <3>1, FromEmpty DEF Inv, Now
  <2>5. QED
    BY <1>6, <2>3, <2>4 DEF TakeEnd
<1>7. CASE PostAnswers
  <2>1. PICK answer \in Answers :
          LET n    == Now + 1
              text == Parts("text", 0, answer)
              frag == [i \in Indices |-> Parts("frag", i, answer)] IN
          /\ streams' = Posted(answer \o <<End>>)
          /\ Ends("complete", (IF text = <<>> THEN <<>> ELSE <<TextEvent(n, text)>>) \o CallsOf(n, frag))
    BY <1>7 DEF PostAnswers
  <2> DEFINE n    == Now + 1
             text == Parts("text", 0, answer)
             frag == [i \in Indices |-> Parts("frag", i, answer)]
             said == IF text = <<>> THEN <<>> ELSE <<TextEvent(n, text)>>
  <2>2. out = <<>> /\ pc = "post"
    BY <1>7 DEF PostAnswers, Inv
  <2>3. TextEvent(n, text).from = n
    BY DEF TextEvent
  <2>4. From(n, said)
    BY <2>3, FromEmpty, FromOne
  <2>5. From(n, said \o CallsOf(n, frag))
    BY <2>4, CallsFrom, FromConcat
  <2>6. From(n, out') /\ pc' = "ended"
    BY <2>1, <2>2, <2>5, FromEmpty, FromConcat DEF Ends
  <2>7. IsSeq(streams')
    BY <2>1, SeqChanged DEF Posted, Inv
  <2>8. QED
    BY <2>6, <2>7 DEF Inv
<1>8. CASE PostFails
  <2>1. out = <<>> /\ pc = "post"
    BY <1>8 DEF PostFails, Inv
  <2>2. IsSeq(streams')
    <3>1. \E x : streams' = Append(streams, x)
      BY <1>8 DEF PostFails, Posted
    <3>2. QED
      BY <3>1, SeqChanged DEF Inv
  <2>3. CASE UNCHANGED <<pc, out>>
    BY <2>1, <2>2, <2>3, FromEmpty DEF Inv
  <2>4. CASE Ends("raised", <<>>)
    BY <2>1, <2>2, <2>4, EndsInv, FromEmpty
  <2>5. QED
    BY <1>8, <2>3, <2>4 DEF PostFails
<1>9. QED
  BY <1>1, <1>2, <1>3, <1>4, <1>5, <1>6, <1>7, <1>8 DEF Generator

\* The threads only change their own streams.
LEMMA ReaderInv == ASSUME Inv, NEW n \in DOMAIN streams, Reader(n) PROVE Inv'
<1>1. UNCHANGED <<pc, buffer, out>>
  BY DEF Reader, Connect, Put, ReaderEnds
<1>2. \E x : streams' = [streams EXCEPT ![n] = x]
  <2>1. CASE Connect(n)
    BY <2>1 DEF Connect
  <2>2. CASE Put(n)
    BY <2>2 DEF Put, Place
  <2>3. CASE ReaderEnds(n)
    BY <2>3 DEF ReaderEnds
  <2>4. QED
    BY <2>1, <2>2, <2>3 DEF Reader
<1>3. IsSeq(streams') /\ Len(streams') = Now
  <2>1. PICK x : streams' = [streams EXCEPT ![n] = x]
    BY <1>2
  <2>2. IsSeq(streams)
    BY DEF Inv
  <2>3. IsSeq([streams EXCEPT ![n] = x]) /\ Len([streams EXCEPT ![n] = x]) = Len(streams)
    BY <2>2, SeqChanged, Zenon
  <2>4. QED
    BY <2>1, <2>3, Zenon DEF Now
<1>4. QED
  BY <1>1, <1>3 DEF Inv, Now

\* Every step keeps Inv.
LEMMA NextInv == Inv /\ [Next]_vars => Inv'
<1> SUFFICES ASSUME Inv, [Next]_vars PROVE Inv'
  OBVIOUS
<1>1. CASE Generator
  BY <1>1, GeneratorInv
<1>2. CASE ReaderStep
  BY <1>2, ReaderInv DEF ReaderStep
<1>3. CASE Abort
  <2>1. IsSeq(streams')
    BY <1>3, CloseSeq DEF Abort, Inv, Now
  <2>2. QED
    BY <1>3, <2>1, EndsInv, FromEmpty DEF Abort
<1>4. CASE UNCHANGED vars
  BY <1>4 DEF vars, Inv, Now
<1>5. QED
  BY <1>1, <1>2, <1>3, <1>4 DEF Next

\* Whatever failed and was tried again, the agent is given events of one
\* request (the retry loops and the plain request of integrations/).
THEOREM OneRequest == Spec => []OneAnswer
<1>1. Inv => OneAnswer
  BY FromSame DEF Inv, OneAnswer
<1>2. QED
  BY <1>1, InitInv, NextInv, PTL DEF Spec

-----------------------------------------------------------------------------
(* The assembled answer.  Flat is a recursive function: that it exists, and *)
(* what it makes of one more sequence, is known from the least place where  *)
(* it would go wrong.                                                       *)

(* Every nonempty set of naturals has a least element.                     *)
LEMMA Least ==
    ASSUME NEW S \in SUBSET Nat, S # {}
    PROVE  \E m \in S : \A k \in S : m <= k
  <1> DEFINE T == {1..n : n \in S}
  <1>1. T \subseteq FiniteSubsetsOf(Nat) /\ T # {}
    <2>1. ASSUME NEW n \in S PROVE 1..n \in FiniteSubsetsOf(Nat)
      <3>1. IsFiniteSet(1..n) /\ 1..n \in SUBSET Nat
        BY FS_Interval
      <3> QED
        BY <3>1 DEF FiniteSubsetsOf
    <2> QED
      BY <2>1
  <1>2. \E v \in T : \A w \in T : ~(<<w, v>> \in StrictSubsetOrdering(Nat))
    BY <1>1, WFMin, FS_StrictSubsetOrderingWellFounded
  <1>3. PICK m \in S : \A k \in S : ~(<<1..k, 1..m>> \in StrictSubsetOrdering(Nat))
    BY <1>2
  <1>4. ASSUME NEW k \in S, ~(m <= k) PROVE FALSE
    <2>1. 1..k \subseteq 1..m /\ m \in 1..m /\ m \notin 1..k
      BY <1>4
    <2>2. 1..k # 1..m /\ 1..k \in SUBSET Nat /\ 1..m \in SUBSET Nat
      BY <2>1
    <2>3. <<1..k, 1..m>> \in StrictSubsetOrdering(Nat)
      BY <2>1, <2>2 DEF StrictSubsetOrdering
    <2> QED
      BY <1>3, <2>3
  <1> QED
    BY <1>4

(* What holds of 0 and passes from each number to the next holds up to n.  *)
LEMMA Climb ==
    ASSUME NEW n \in Nat, NEW G, 0 \in G, \A m \in 1..n : m - 1 \in G => m \in G
    PROVE  0..n \subseteq G
  <1> SUFFICES ASSUME (0..n) \ G # {} PROVE FALSE
    OBVIOUS
  <1>1. PICK m \in (0..n) \ G : \A k \in (0..n) \ G : m <= k
    <2>1. (0..n) \ G \in SUBSET Nat
      OBVIOUS
    <2> QED
      BY <2>1, Least
  <1>2. m # 0 /\ m - 1 \in 0..n /\ m \in 1..n
    OBVIOUS
  <1> QED
    BY <1>1, <1>2

\* f is built from b by the step, over 0..n.
Recurses(f, n, b, step) ==
    f[0] = b /\ \A m \in 1..n : f[m] = step[<<f[m - 1], m>>]

(* A function defined by recursion over 0..n exists.                       *)
LEMMA Recursion ==
    ASSUME NEW n \in Nat, NEW A, NEW b \in A, NEW step \in [A \X (1..n) -> A]
    PROVE  \E f \in [0..n -> A] : Recurses(f, n, b, step)
  <1> DEFINE Reaches(k) == \E f \in [0..k -> A] : Recurses(f, k, b, step)
             G == {k \in 0..n : Reaches(k)}
  <1> USE DEF Recurses
  <1>1. Reaches(0)
    <2> WITNESS [m \in 0..0 |-> b] \in [0..0 -> A]
    <2> QED
      OBVIOUS
  <1>2. ASSUME NEW k \in 1..n, k - 1 \in G PROVE k \in G
    <2>1. PICK f \in [0..(k - 1) -> A] :
              /\ f[0] = b
              /\ \A m \in 1..(k - 1) : f[m] = step[<<f[m - 1], m>>]
      BY <1>2
    <2> DEFINE g == [m \in 0..k |-> IF m = k THEN step[<<f[k - 1], k>>] ELSE f[m]]
    <2>2. step[<<f[k - 1], k>>] \in A
      OBVIOUS
    <2>3. g \in [0..k -> A]
      BY <2>2
    <2>4. g[0] = b
      BY <2>1
    <2>5. ASSUME NEW m \in 1..k PROVE g[m] = step[<<g[m - 1], m>>]
      BY <2>1
    <2>6. Reaches(k)
      BY <2>3, <2>4, <2>5
    <2> QED
      BY <2>6
  <1>3. 0 \in G
    BY <1>1
  <1> HIDE DEF G
  <1>4. 0..n \subseteq G
    BY <1>2, <1>3, Climb
  <1>5. n \in G
    BY <1>4
  <1> QED
    BY <1>5 DEF G

\* f[k] is what the first k sequences of s make.
Flattens(f, s) ==
    /\ f[0] = <<>>
    /\ \A k \in 1..Len(s) : f[k] = f[k - 1] \o s[k]
    /\ Flat(s) = f[Len(s)]

(* Flat goes through the sequences once.                                   *)
LEMMA FlatSteps ==
    ASSUME NEW s \in Seq(Seq(Nat))
    PROVE  \E f \in [0..Len(s) -> Seq(Nat)] : Flattens(f, s)
  <1> DEFINE N == Len(s)
             A == Seq(Nat)
             step == [p \in A \X (1..N) |-> p[1] \o s[p[2]]]
             Flats(f) == f = [k \in 0..N |-> IF k = 0 THEN <<>> ELSE f[k - 1] \o s[k]]
             flat == CHOOSE f : Flats(f)
  <1>0. N \in Nat /\ <<>> \in A
    OBVIOUS
  <1>1. \A t \in A, k \in 1..N : t \o s[k] \in A
    OBVIOUS
  <1> HIDE DEF N, A
  <1>2. step \in [A \X (1..N) -> A]
    BY <1>1
  <1>3. PICK f \in [0..N -> A] :
            f[0] = <<>> /\ \A k \in 1..N : f[k] = step[<<f[k - 1], k>>]
    <2> DEFINE b == <<>>
    <2>1. b \in A
      BY <1>0
    <2> HIDE DEF step, b
    <2>2. \E f \in [0..N -> A] : Recurses(f, N, b, step)
      BY <1>0, <1>2, <2>1, Recursion
    <2> QED
      BY <2>2 DEF b, Recurses
  <1>4. ASSUME NEW k \in 1..N PROVE f[k] = f[k - 1] \o s[k]
    <2>1. <<f[k - 1], k>> \in A \X (1..N)
      BY <1>0
    <2> QED
      BY <1>3, <2>1
  <1>5. Flats(f)
    <2>1. ASSUME NEW k \in 0..N, k # 0 PROVE k \in 1..N
      BY <1>0, <2>1
    <2> QED
      BY <1>3, <1>4, <2>1
  <1>6. Flats(flat)
    <2> HIDE DEF Flats
    <2> QED
      BY <1>5
  <1> HIDE DEF flat
  <1>7. flat[0] = <<>> /\ \A k \in 1..N : flat[k] = flat[k - 1] \o s[k]
    <2>1. \A k \in 0..N : flat[k] = IF k = 0 THEN <<>> ELSE flat[k - 1] \o s[k]
      BY <1>6, Zenon
    <2>2. 0 \in 0..N /\ \A k \in 1..N : k \in 0..N /\ k # 0
      BY <1>0
    <2> QED
      BY <2>1, <2>2, Zenon
  <1>8. f = flat
    <2> DEFINE G == {k \in 0..N : f[k] = flat[k]}
    <2>1. 0 \in G
      BY <1>0, <1>3, <1>7
    <2>2. ASSUME NEW k \in 1..N, k - 1 \in G PROVE k \in G
      <3>1. k \in 0..N
        BY <1>0
      <3> QED
        BY <1>4, <1>7, <2>2, <3>1
    <2> HIDE DEF G
    <2>3. 0..N \subseteq G
      BY <1>0, <2>1, <2>2, Climb
    <2>4. \A k \in 0..N : f[k] = flat[k]
      BY <2>3 DEF G
    <2>5. DOMAIN flat = 0..N /\ flat = [k \in 0..N |-> flat[k]]
      BY <1>6
    <2> QED
      BY <2>4, <2>5
  <1>9. Flat(s) = flat[N]
    BY DEF Flat, flat, N
  <1>10. f \in [0..N -> A] /\ Flattens(f, s)
    BY <1>3, <1>4, <1>8, <1>9 DEF Flattens, N
  <1> QED
    BY <1>10 DEF A, N

(* One more sequence comes after what the others make.                     *)
LEMMA FlatAppend ==
    ASSUME NEW s \in Seq(Seq(Nat)), NEW x \in Seq(Nat)
    PROVE  /\ Flat(s) \in Seq(Nat)
           /\ Flat(Append(s, x)) = Flat(s) \o x
  <1> DEFINE N == Len(s)
             t == Append(s, x)
  <1>1. /\ N \in Nat /\ t \in Seq(Seq(Nat)) /\ Len(t) = N + 1
        /\ t[N + 1] = x /\ \A k \in 1..N : t[k] = s[k]
    OBVIOUS
  <1> HIDE DEF t
  <1>2. PICK f \in [0..Len(s) -> Seq(Nat)] : Flattens(f, s)
    BY FlatSteps
  <1>3. PICK g \in [0..Len(t) -> Seq(Nat)] : Flattens(g, t)
    BY <1>1, FlatSteps
  <1> DEFINE G == {k \in 0..N : f[k] = g[k]}
  <1>4. 0 \in G
    BY <1>1, <1>2, <1>3 DEF Flattens
  <1>5. ASSUME NEW k \in 1..N, k - 1 \in G PROVE k \in G
    <2>1. k \in 0..N /\ k \in 1..Len(t) /\ k \in 1..Len(s)
      BY <1>1
    <2>2. f[k] = f[k - 1] \o s[k] /\ g[k] = g[k - 1] \o t[k]
      BY <1>2, <1>3, <2>1 DEF Flattens
    <2> QED
      BY <1>1, <1>5, <2>1, <2>2
  <1> HIDE DEF G, N
  <1>6. 0..N \subseteq G
    BY <1>1, <1>4, <1>5, Climb
  <1>7. f[N] = g[N]
    BY <1>1, <1>6 DEF G
  <1>8. N + 1 \in 1..Len(t) /\ (N + 1) - 1 = N
    BY <1>1
  <1>9. g[N + 1] = g[N] \o x
    <2>1. g[N + 1] = g[(N + 1) - 1] \o t[N + 1]
      BY <1>3, <1>8 DEF Flattens
    <2>2. (N + 1) - 1 = N /\ t[N + 1] = x
      BY <1>1
    <2> QED
      BY <2>1, <2>2, Zenon
  <1>10. Flat(t) = g[N + 1] /\ Flat(s) = f[N] /\ f[N] \in Seq(Nat)
    <2>1. Flat(t) = g[Len(t)] /\ Flat(s) = f[Len(s)] /\ Len(t) = N + 1
      BY <1>1, <1>2, <1>3 DEF Flattens
    <2>2. Len(s) \in 0..Len(s)
      OBVIOUS
    <2> QED
      BY <2>1, <2>2 DEF N
  <1> QED
    BY <1>7, <1>9, <1>10 DEF t

(* Nothing makes nothing.                                                  *)
LEMMA FlatEmpty == Flat(<<>>) = <<>>
  <1> DEFINE s == <<>>
  <1>1. s \in Seq(Seq(Nat)) /\ Len(s) = 0
    OBVIOUS
  <1> HIDE DEF s
  <1>2. PICK f \in [0..Len(s) -> Seq(Nat)] : Flattens(f, s)
    BY <1>1, FlatSteps
  <1>3. Flat(s) = <<>>
    BY <1>1, <1>2 DEF Flattens
  <1> QED
    BY <1>3 DEF s

\* What a reader puts into its queue; the end of the answer carries nothing.
ReadTokens ==
    AnswerTokens \cup [kind : {"end"} \cup Problems, index : {0}, part : {0}]

StreamRecords ==
    [pc : {"send", "read", "done"}, sent : Seq(ReadTokens), next : Nat,
     queue : Seq(ReadTokens), cancelled : BOOLEAN]

EventRecords ==
    [kind : {"text", "call"}, from : Nat, index : {0} \cup Indices, parts : Seq(Nat)]

\* How many tokens of a stream the generator has taken, and which.
TakenOf(s) == s.next - 1 - Len(s.queue)
Before(s)  == SubSeq(s.sent, 1, TakenOf(s))

\* The queue holds what was read last and is not taken; the end comes last.
Carries(s) ==
    /\ s.pc = "send" => s.sent = <<>>
    /\ s.next \in 1..(Len(s.sent) + 1) /\ Len(s.queue) < s.next
    /\ \A k \in 1..Len(s.queue) : s.queue[k] = s.sent[TakenOf(s) + k]
    /\ \A k \in 1..Len(s.sent) : s.sent[k] = End => k = Len(s.sent)

\* The events and the fragments of calls hold what was taken of s.
Assembles(events, fragments, s) ==
    /\ Joined("text", 0, events) = Parts("text", 0, Before(s))
    /\ \A i \in Indices :
          Joined("call", i, events) \o fragments[i] = Parts("frag", i, Before(s))

\* All the agent was given is the whole of stream n.
WholeOf(n) ==
    /\ streams[n].pc # "send"
    /\ \A k \in DOMAIN out : out[k].from = n
    /\ Joined("text", 0, out) = Parts("text", 0, streams[n].sent)
    /\ \A i \in Indices : Joined("call", i, out) = Parts("frag", i, streams[n].sent)

PartsTypeOK ==
    /\ streams \in Seq(StreamRecords)
    /\ acc \in [Indices -> Seq(Nat)]
    /\ buffer \in Seq(EventRecords) /\ out \in Seq(EventRecords)

WholeInv ==
    /\ PartsTypeOK
    /\ \A n \in DOMAIN streams : Carries(streams[n])
    /\ client.style = "gemini" => \A i \in Indices : acc[i] = <<>>
    /\ client.style \notin Buffered => buffer = <<>>
    /\ pc = "read" => Now \in DOMAIN streams /\ Assembles(out \o buffer, acc, streams[Now])
    /\ how = "complete" => pc = "ended" /\ \E n \in DOMAIN streams : WholeOf(n)

\* What F makes of the elements of s.
Pieces(F, s) == [k \in DOMAIN s |-> F[s[k]]]

(* The pieces of one more element come last.                               *)
LEMMA PiecesAppend ==
    ASSUME NEW S, NEW s \in Seq(S), NEW x \in S, NEW F \in [S -> Seq(Nat)]
    PROVE  /\ Pieces(F, s) \in Seq(Seq(Nat)) /\ F[x] \in Seq(Nat)
           /\ Pieces(F, Append(s, x)) = Append(Pieces(F, s), F[x])
  <1> DEFINE N == Len(s)
             D == 1..(N + 1)
             t == Append(s, x)
             p == Pieces(F, s)
             q == Pieces(F, t)
             y == F[x]
             a == Append(p, y)
  <1>1. /\ N \in Nat /\ DOMAIN s = 1..N /\ \A k \in 1..N : s[k] \in S
        /\ t \in Seq(S) /\ DOMAIN t = D /\ t[N + 1] = x /\ y \in Seq(Nat)
        /\ \A k \in 1..N : t[k] = s[k]
    OBVIOUS
  <1>2. N + 1 \in D /\ \A k \in D : k \in 1..N \/ k = N + 1
    OBVIOUS
  <1>3. \A k \in 1..N : k \in D
    BY <1>1
  <1> HIDE DEF N, t, y
  <1>4. p \in [1..N -> Seq(Nat)] /\ \A k \in 1..N : p[k] = F[s[k]]
    BY <1>1 DEF Pieces
  <1>5. p \in Seq(Seq(Nat)) /\ Len(p) = N
    <2> HIDE DEF p
    <2> QED
      BY <1>1, <1>4
  <1> HIDE DEF D
  <1>6. q \in [D -> Seq(Nat)] /\ q[N + 1] = y /\ \A k \in 1..N : q[k] = F[s[k]]
    <2>1. \A k \in D : t[k] \in S
      BY <1>1, <1>2
    <2>2. q \in [D -> Seq(Nat)] /\ \A k \in D : q[k] = F[t[k]]
      BY <1>1, <2>1 DEF Pieces
    <2> HIDE DEF q
    <2> QED
      BY <1>1, <1>2, <1>3, <2>2 DEF y
  <1>7. a = Append(p, y)
    OBVIOUS
  <1> HIDE DEF p, q, a
  <1>8. /\ a \in Seq(Seq(Nat)) /\ Len(a) = N + 1 /\ a[N + 1] = y
        /\ \A k \in 1..N : a[k] = p[k]
    BY <1>1, <1>5, <1>7, AppendProperties
  <1>9. a \in [D -> Seq(Nat)]
    BY <1>8 DEF D
  <1>10. \A k \in D : q[k] = a[k]
    BY <1>2, <1>4, <1>6, <1>8
  <1>11. q = a
    BY <1>6, <1>9, <1>10
  <1> QED
    BY <1>1, <1>5, <1>7, <1>11 DEF p, q, y, t

\* The pieces of one more element come after those of the others.
LEMMA FlatPieces ==
    ASSUME NEW S, NEW s \in Seq(S), NEW x \in S, NEW F \in [S -> Seq(Nat)]
    PROVE  /\ Flat(Pieces(F, s)) \in Seq(Nat)
           /\ Flat(Pieces(F, Append(s, x))) = Flat(Pieces(F, s)) \o F[x]
  <1> DEFINE p == Pieces(F, s)
             y == F[x]
  <1>1. p \in Seq(Seq(Nat)) /\ y \in Seq(Nat) /\ Pieces(F, Append(s, x)) = Append(p, y)
    BY PiecesAppend
  <1> HIDE DEF p, y
  <1>2. Flat(p) \in Seq(Nat) /\ Flat(Append(p, y)) = Flat(p) \o y
    BY <1>1, FlatAppend
  <1> QED
    BY <1>1, <1>2 DEF p, y

\* The piece of a token and of an event.
PartOf(kind, i, t) ==
    IF t.kind = kind /\ t.index = i THEN <<t.part>> ELSE <<>>
PartsOf(kind, i, e) ==
    IF e.kind = kind /\ e.index = i THEN e.parts ELSE <<>>

\* The parts of one more token come last.
LEMMA PartsAppend ==
    ASSUME NEW kind, NEW i, NEW tokens \in Seq(ReadTokens), NEW t \in ReadTokens
    PROVE  /\ Parts(kind, i, tokens) \in Seq(Nat)
           /\ Parts(kind, i, Append(tokens, t)) = Parts(kind, i, tokens) \o PartOf(kind, i, t)
  <1> DEFINE F == [u \in ReadTokens |-> PartOf(kind, i, u)]
  <1>1. F \in [ReadTokens -> Seq(Nat)]
    <2>1. \A u \in ReadTokens : u.part \in Nat
      BY DEF ReadTokens, AnswerTokens
    <2> QED
      BY <2>1 DEF PartOf
  <1>2. ASSUME NEW s \in Seq(ReadTokens)
        PROVE  Parts(kind, i, s) = Flat(Pieces(F, s))
    <2>1. \A k \in DOMAIN s : F[s[k]] = PartOf(kind, i, s[k])
      OBVIOUS
    <2>2. Parts(kind, i, s) = Flat([k \in DOMAIN s |-> PartOf(kind, i, s[k])])
      BY DEF Parts, PartOf
    <2> HIDE DEF F
    <2>3. Pieces(F, s) = [k \in DOMAIN s |-> PartOf(kind, i, s[k])]
      BY <2>1 DEF Pieces
    <2> QED
      BY <2>2, <2>3
  <1> HIDE DEF F
  <1>3. Append(tokens, t) \in Seq(ReadTokens) /\ F[t] = PartOf(kind, i, t)
    BY DEF F
  <1>4. /\ Flat(Pieces(F, tokens)) \in Seq(Nat)
        /\ Flat(Pieces(F, Append(tokens, t))) = Flat(Pieces(F, tokens)) \o F[t]
    BY <1>1, FlatPieces
  <1>5. /\ Parts(kind, i, tokens) = Flat(Pieces(F, tokens))
        /\ Parts(kind, i, Append(tokens, t)) = Flat(Pieces(F, Append(tokens, t)))
    BY <1>2, <1>3
  <1> QED
    BY <1>3, <1>4, <1>5

\* The parts of one more event come last.
LEMMA JoinedAppend ==
    ASSUME NEW kind, NEW i, NEW events \in Seq(EventRecords), NEW e \in EventRecords
    PROVE  /\ Joined(kind, i, events) \in Seq(Nat)
           /\ Joined(kind, i, Append(events, e)) = Joined(kind, i, events) \o PartsOf(kind, i, e)
  <1> DEFINE F == [u \in EventRecords |-> PartsOf(kind, i, u)]
  <1>1. F \in [EventRecords -> Seq(Nat)]
    <2>1. \A u \in EventRecords : u.parts \in Seq(Nat)
      BY DEF EventRecords
    <2> QED
      BY <2>1 DEF PartsOf
  <1>2. ASSUME NEW s \in Seq(EventRecords)
        PROVE  Joined(kind, i, s) = Flat(Pieces(F, s))
    <2>1. \A k \in DOMAIN s : F[s[k]] = PartsOf(kind, i, s[k])
      OBVIOUS
    <2>2. Joined(kind, i, s) = Flat([k \in DOMAIN s |-> PartsOf(kind, i, s[k])])
      BY DEF Joined, PartsOf
    <2> HIDE DEF F
    <2>3. Pieces(F, s) = [k \in DOMAIN s |-> PartsOf(kind, i, s[k])]
      BY <2>1 DEF Pieces
    <2> QED
      BY <2>2, <2>3
  <1> HIDE DEF F
  <1>3. Append(events, e) \in Seq(EventRecords) /\ F[e] = PartsOf(kind, i, e)
    BY DEF F
  <1>4. /\ Flat(Pieces(F, events)) \in Seq(Nat)
        /\ Flat(Pieces(F, Append(events, e))) = Flat(Pieces(F, events)) \o F[e]
    BY <1>1, FlatPieces
  <1>5. /\ Joined(kind, i, events) = Flat(Pieces(F, events))
        /\ Joined(kind, i, Append(events, e)) = Flat(Pieces(F, Append(events, e)))
    BY <1>2, <1>3
  <1> QED
    BY <1>3, <1>4, <1>5

\* No tokens and no events have no parts.
LEMMA NothingJoined ==
    ASSUME NEW kind, NEW i
    PROVE  Parts(kind, i, <<>>) = <<>> /\ Joined(kind, i, <<>>) = <<>>
  <1> DEFINE p == [k \in DOMAIN <<>> |-> PartOf(kind, i, <<>>[k])]
             q == [k \in DOMAIN <<>> |-> PartsOf(kind, i, <<>>[k])]
  <1>1. p = <<>> /\ q = <<>>
    OBVIOUS
  <1>2. Parts(kind, i, <<>>) = Flat(p) /\ Joined(kind, i, <<>>) = Flat(q)
    BY DEF Parts, Joined, PartOf, PartsOf
  <1> HIDE DEF p, q
  <1> QED
    BY <1>1, <1>2, FlatEmpty

\* The events with more of the call of index j, and no more text.
AddsTo(events, all, j, more) ==
    /\ all \in Seq(EventRecords)
    /\ Joined("text", 0, all) = Joined("text", 0, events)
    /\ \A i \in Indices :
          Joined("call", i, all)
            = Joined("call", i, events) \o (IF i = j THEN more ELSE <<>>)

\* A call adds its fragments to those of its index.
LEMMA CallAdds ==
    ASSUME NEW events \in Seq(EventRecords), NEW n \in Nat, NEW j \in Indices,
           NEW fragments \in [Indices -> Seq(Nat)]
    PROVE  AddsTo(events, events \o CallOf(n, j, fragments), j, fragments[j])
  <1> DEFINE all == events \o CallOf(n, j, fragments)
             e   == CallEvent(n, j, fragments[j])
  <1>1. Joined("text", 0, events) \in Seq(Nat) /\ \A i \in Indices : Joined("call", i, events) \in Seq(Nat)
    <2>1. e \in EventRecords
      BY DEF CallEvent, EventRecords
    <2> QED
      BY <2>1, JoinedAppend
  <1>2. \A s \in Seq(Nat) : s \o <<>> = s
    OBVIOUS
  <1>3. CASE fragments[j] = <<>>
    <2>1. all = events
      BY <1>3 DEF CallOf
    <2> HIDE DEF all
    <2>2. \A i \in Indices : (IF i = j THEN fragments[j] ELSE <<>>) = <<>>
      BY <1>3
    <2>3. \A i \in Indices : Joined("call", i, events) \o <<>> = Joined("call", i, events)
      BY <1>1, <1>2
    <2>4. \A i \in Indices :
             Joined("call", i, all)
               = Joined("call", i, events) \o (IF i = j THEN fragments[j] ELSE <<>>)
      BY <2>1, <2>2, <2>3
    <2> QED
      BY <2>1, <2>4 DEF all, AddsTo
  <1>4. CASE fragments[j] # <<>>
    <2>1. e \in EventRecords
      BY DEF CallEvent, EventRecords
    <2>2. all = Append(events, e)
      <3>1. all = events \o <<e>>
        BY <1>4 DEF CallOf
      <3> HIDE DEF e
      <3> QED
        BY <2>1, <3>1
    <2>3. PartsOf("text", 0, e) = <<>>
      BY DEF CallEvent, PartsOf
    <2>4. ASSUME NEW i \in Indices
          PROVE  PartsOf("call", i, e) = IF i = j THEN fragments[j] ELSE <<>>
      BY DEF CallEvent, PartsOf
    <2> HIDE DEF all, e
    <2>5. all \in Seq(EventRecords)
      BY <2>1, <2>2
    <2>8. \A kind, i : Joined(kind, i, all) = Joined(kind, i, events) \o PartsOf(kind, i, e)
      BY <2>1, <2>2, JoinedAppend
    <2>6. Joined("text", 0, all) = Joined("text", 0, events)
      BY <1>1, <1>2, <2>3, <2>8
    <2>7. ASSUME NEW i \in Indices
          PROVE  Joined("call", i, all)
                   = Joined("call", i, events) \o (IF i = j THEN fragments[j] ELSE <<>>)
      BY <2>4, <2>8
    <2> QED
      BY <2>5, <2>6, <2>7 DEF all, AddsTo
  <1> QED
    BY <1>3, <1>4

\* The calls add the fragments of each index.
LEMMA CallsAdd ==
    ASSUME NEW events \in Seq(EventRecords), NEW n \in Nat,
           NEW fragments \in [Indices -> Seq(Nat)]
    PROVE  LET all == events \o CallsOf(n, fragments) IN
           /\ all \in Seq(EventRecords)
           /\ Joined("text", 0, all) = Joined("text", 0, events)
           /\ \A i \in Indices :
                 Joined("call", i, all) = Joined("call", i, events) \o fragments[i]
  <1> DEFINE one == events \o CallOf(n, 1, fragments)
             all == events \o CallsOf(n, fragments)
  <1>1. 1 \in Indices /\ 2 \in Indices /\ \A i \in Indices : i = 1 \/ i = 2
    BY DEF Indices
  <1>8. AddsTo(events, one, 1, fragments[1])
    BY <1>1, CallAdds
  <1>2. /\ one \in Seq(EventRecords)
        /\ Joined("text", 0, one) = Joined("text", 0, events)
        /\ \A i \in Indices : Joined("call", i, one)
             = Joined("call", i, events) \o (IF i = 1 THEN fragments[1] ELSE <<>>)
    BY <1>8 DEF AddsTo
  <1> HIDE DEF one
  <1> DEFINE two == one \o CallOf(n, 2, fragments)
  <1>9. AddsTo(one, two, 2, fragments[2])
    BY <1>1, <1>2, CallAdds
  <1>3. /\ two \in Seq(EventRecords)
        /\ Joined("text", 0, two) = Joined("text", 0, one)
        /\ \A i \in Indices : Joined("call", i, two)
             = Joined("call", i, one) \o (IF i = 2 THEN fragments[2] ELSE <<>>)
    BY <1>9 DEF AddsTo
  <1>4. all = two
    <2>1. ASSUME NEW j \in Indices PROVE CallOf(n, j, fragments) \in Seq(EventRecords)
      <3> DEFINE e == CallEvent(n, j, fragments[j])
      <3>1. e \in EventRecords
        BY DEF CallEvent, EventRecords
      <3> HIDE DEF e
      <3>2. <<e>> \in Seq(EventRecords) /\ <<>> \in Seq(EventRecords)
        BY <3>1
      <3> QED
        BY <3>2 DEF CallOf, e
    <2> QED
      BY <1>1, <2>1 DEF CallsOf, one
  <1> HIDE DEF all, two
  <1>5. \A i \in Indices : Joined("call", i, events) \in Seq(Nat) /\ fragments[i] \in Seq(Nat)
    <2>1. CallEvent(n, 1, fragments[1]) \in EventRecords
      BY <1>1 DEF CallEvent, EventRecords
    <2> QED
      BY <2>1, JoinedAppend
  <1>6. /\ \A s, t \in Seq(Nat) : s \o t \in Seq(Nat)
        /\ \A s \in Seq(Nat) : s \o <<>> = s
    OBVIOUS
  <1>7. ASSUME NEW i \in Indices
        PROVE  Joined("call", i, two) = Joined("call", i, events) \o fragments[i]
    <2>1. CASE i = 1
      <3>1. (IF i = 1 THEN fragments[1] ELSE <<>>) = fragments[i]
            /\ (IF i = 2 THEN fragments[2] ELSE <<>>) = <<>>
        BY <2>1
      <3>2. Joined("call", i, one) = Joined("call", i, events) \o fragments[i]
        BY <1>2, <3>1, Zenon
      <3>3. Joined("call", i, two) = Joined("call", i, one) \o <<>>
        BY <1>3, <3>1, Zenon
      <3>4. Joined("call", i, one) \in Seq(Nat)
        BY <1>5, <1>6, <3>2, Zenon
      <3>5. Joined("call", i, one) \o <<>> = Joined("call", i, one)
        BY <3>4
      <3> QED
        BY <3>2, <3>3, <3>5, Zenon
    <2>2. CASE i = 2
      <3>1. (IF i = 1 THEN fragments[1] ELSE <<>>) = <<>>
            /\ (IF i = 2 THEN fragments[2] ELSE <<>>) = fragments[i]
        BY <2>2
      <3>2. Joined("call", i, one) = Joined("call", i, events) \o <<>>
        BY <1>2, <3>1, Zenon
      <3>3. Joined("call", i, two) = Joined("call", i, one) \o fragments[i]
        BY <1>3, <3>1, Zenon
      <3>4. Joined("call", i, events) \o <<>> = Joined("call", i, events)
        BY <1>5
      <3> QED
        BY <3>2, <3>3, <3>4, Zenon
    <2> QED
      BY <1>1, <2>1, <2>2
  <1> QED
    BY <1>2, <1>3, <1>4, <1>7 DEF all

\* Streams that have what they carry.
StreamsOK(ss) == ss \in Seq(StreamRecords) /\ \A n \in DOMAIN ss : Carries(ss[n])

\* A stream that is replaced by one that carries what it should.
LEMMA StreamSet ==
    ASSUME NEW ss, StreamsOK(ss), NEW n \in DOMAIN ss, NEW x \in StreamRecords, Carries(x)
    PROVE  LET tt == [ss EXCEPT ![n] = x] IN
           /\ StreamsOK(tt) /\ DOMAIN tt = DOMAIN ss /\ Len(tt) = Len(ss)
           /\ tt[n] = x /\ \A m \in DOMAIN ss : m # n => tt[m] = ss[m]
  <1> DEFINE tt == [ss EXCEPT ![n] = x]
  <1>1. ss \in Seq(StreamRecords) /\ n \in 1..Len(ss)
    BY DEF StreamsOK
  <1>2. tt \in Seq(StreamRecords) /\ Len(tt) = Len(ss)
    BY <1>1, ExceptSeq
  <1>3. DOMAIN tt = DOMAIN ss /\ tt[n] = x /\ \A m \in DOMAIN ss : m # n => tt[m] = ss[m]
    BY <1>1
  <1> HIDE DEF tt
  <1>4. \A m \in DOMAIN tt : Carries(tt[m])
    BY <1>3 DEF StreamsOK
  <1> QED
    BY <1>2, <1>3, <1>4 DEF StreamsOK, tt

\* A stream that is added.
LEMMA StreamAdded ==
    ASSUME NEW ss, StreamsOK(ss), NEW x \in StreamRecords, Carries(x)
    PROVE  LET tt == Append(ss, x) IN
           /\ StreamsOK(tt) /\ Len(tt) = Len(ss) + 1 /\ Len(ss) + 1 \in DOMAIN tt
           /\ tt[Len(ss) + 1] = x
  <1> DEFINE tt == Append(ss, x)
             N  == Len(ss)
  <1>1. ss \in Seq(StreamRecords) /\ N \in Nat /\ DOMAIN ss = 1..N
    BY DEF StreamsOK
  <1>2. /\ tt \in Seq(StreamRecords) /\ Len(tt) = N + 1 /\ DOMAIN tt = 1..(N + 1)
        /\ tt[N + 1] = x /\ \A m \in 1..N : tt[m] = ss[m]
    BY <1>1
  <1>3. N + 1 \in 1..(N + 1) /\ \A m \in 1..(N + 1) : m \in 1..N \/ m = N + 1
    BY <1>1
  <1> HIDE DEF tt, N
  <1>4. \A m \in DOMAIN tt : Carries(tt[m])
    BY <1>1, <1>2, <1>3 DEF StreamsOK
  <1> QED
    BY <1>2, <1>3, <1>4 DEF StreamsOK, tt, N

\* The fields of a stream.
LEMMA StreamFields ==
    ASSUME NEW s \in StreamRecords
    PROVE  /\ s.pc \in {"send", "read", "done"} /\ s.sent \in Seq(ReadTokens) /\ s.next \in Nat
           /\ s.queue \in Seq(ReadTokens) /\ s.cancelled \in BOOLEAN
           /\ Len(s.sent) \in Nat /\ Len(s.queue) \in Nat
  <1>1. /\ s.pc \in {"send", "read", "done"} /\ s.sent \in Seq(ReadTokens) /\ s.next \in Nat
        /\ s.queue \in Seq(ReadTokens) /\ s.cancelled \in BOOLEAN
    BY DEF StreamRecords
  <1> QED
    BY <1>1

\* A stream with nothing read, and one that a plain request has answered.
LEMMA FreshStream ==
    /\ NewStream \in StreamRecords /\ Carries(NewStream) /\ Before(NewStream) = <<>>
    /\ NewStream.pc = "send"
  <1>1. NewStream \in StreamRecords /\ NewStream.pc = "send"
    BY DEF NewStream, StreamRecords
  <1>2. NewStream.sent = <<>> /\ NewStream.next = 1 /\ NewStream.queue = <<>>
    BY DEF NewStream
  <1>3. TakenOf(NewStream) = 0
    <2>1. Len(<<>>) = 0
      OBVIOUS
    <2>2. Len(NewStream.queue) = 0
      BY <1>2, <2>1
    <2> DEFINE m == NewStream.next
               l == Len(NewStream.queue)
    <2>3. m = 1 /\ l = 0
      BY <1>2, <2>2
    <2> HIDE DEF m, l
    <2>5. m - 1 - l = 0
      BY <2>3
    <2>4. NewStream.next - 1 - Len(NewStream.queue) = 0
      BY <2>5 DEF m, l
    <2> QED
      BY <2>4, Zenon DEF TakenOf
  <1>4. Carries(NewStream) /\ Before(NewStream) = <<>>
    BY <1>2, <1>3 DEF Carries, Before
  <1> QED
    BY <1>1, <1>4

\* An answer, or the part of one, that ends with the end.
LEMMA Ending ==
    ASSUME NEW body \in Seq(ReadTokens), \A k \in 1..Len(body) : body[k] # End
    PROVE  LET sent == body \o <<End>> IN
           /\ sent \in Seq(ReadTokens) /\ Len(sent) = Len(body) + 1
           /\ \A k \in 1..Len(sent) : sent[k] = End => k = Len(sent)
  <1>1. End \in ReadTokens
    BY DEF End, ReadTokens
  <1> HIDE DEF End
  <1> QED
    BY <1>1

\* The part of an answer that arrives, and the problem behind it.
LEMMA AnswersEnd ==
    ASSUME NEW answer \in Seq(AnswerTokens), NEW k \in 0..Len(answer),
           NEW e \in {<<>>} \cup {<<Problem(p)>> : p \in Problems}
    PROVE  LET body == SubSeq(answer, 1, k) \o e IN
           body \in Seq(ReadTokens) /\ \A j \in 1..Len(body) : body[j] # End
  <1> DEFINE first == SubSeq(answer, 1, k)
             T == ReadTokens \ {End}
  <1>1. AnswerTokens \subseteq T
    BY DEF AnswerTokens, ReadTokens, End
  <1>2. first \in Seq(AnswerTokens)
    OBVIOUS
  <1>3. e \in Seq(T)
    <2>1. \A p \in Problems : Problem(p) \in T
      BY DEF Problem, Problems, ReadTokens, End
    <2> HIDE DEF T
    <2>2. CASE e = <<>>
      BY <2>2
    <2>3. ASSUME NEW p \in Problems, e = <<Problem(p)>> PROVE e \in Seq(T)
      <3> DEFINE x == Problem(p)
      <3>1. x \in T /\ e = <<x>>
        BY <2>1, <2>3
      <3> HIDE DEF x
      <3> QED
        BY <3>1
    <2> QED
      BY <2>2, <2>3
  <1> HIDE DEF first, T
  <1>4. first \in Seq(T)
    BY <1>1, <1>2
  <1>5. first \o e \in Seq(T)
    BY <1>3, <1>4
  <1>6. first \o e \in Seq(ReadTokens) /\ \A j \in 1..Len(first \o e) : (first \o e)[j] \in T
    <2> DEFINE b == first \o e
    <2>1. T \subseteq ReadTokens /\ b \in Seq(T)
      BY <1>5 DEF T
    <2> HIDE DEF b
    <2>2. b \in Seq(ReadTokens) /\ \A j \in 1..Len(b) : b[j] \in T
      BY <2>1
    <2> QED
      BY <2>2 DEF b
  <1> QED
    BY <1>6 DEF first, T

\* A reader that connects, puts a token or ends leaves what was taken alone, and
\* what was sent unless it was still to be sent.
LEMMA ReaderKeeps ==
    ASSUME StreamsOK(streams), NEW n \in DOMAIN streams, Reader(n)
    PROVE  \E x \in StreamRecords :
              /\ streams' = [streams EXCEPT ![n] = x]
              /\ Carries(x) /\ Before(x) = Before(streams[n])
              /\ streams[n].pc # "send" => x.pc # "send" /\ x.sent = streams[n].sent
  <1> DEFINE s == streams[n]
  <1>1. s \in StreamRecords /\ Carries(s) /\ DOMAIN streams = 1..Len(streams)
    BY DEF StreamsOK
  <1>2. /\ s.pc \in {"send", "read", "done"} /\ s.sent \in Seq(ReadTokens) /\ s.next \in Nat
        /\ s.queue \in Seq(ReadTokens) /\ s.cancelled \in BOOLEAN
        /\ Len(s.sent) \in Nat /\ Len(s.queue) \in Nat
    BY <1>1, StreamFields
  <1>3. CASE Connect(n)
    <2>0. PICK answer \in Answers :
            \E k \in 0..Len(answer) : \E e \in {<<>>} \cup {<<Problem(p)>> : p \in Problems} :
               streams' = [streams EXCEPT ![n].pc = "read",
                                          ![n].sent = SubSeq(answer, 1, k) \o e \o <<End>>]
      BY <1>3 DEF Connect
    <2>1. PICK k \in 0..Len(answer), e \in {<<>>} \cup {<<Problem(p)>> : p \in Problems} :
            streams' = [streams EXCEPT ![n].pc = "read",
                                       ![n].sent = SubSeq(answer, 1, k) \o e \o <<End>>]
      BY <2>0
    <2>2. s.pc = "send"
      BY <1>3 DEF Connect
    <2> DEFINE body == SubSeq(answer, 1, k) \o e
               sent == body \o <<End>>
               x == [s EXCEPT !.pc = "read", !.sent = sent]
    <2>3. answer \in Seq(AnswerTokens)
      BY ProvidersAssumption
    <2>4. body \in Seq(ReadTokens) /\ \A j \in 1..Len(body) : body[j] # End
      BY <2>3, AnswersEnd
    <2> HIDE DEF body
    <2>5. /\ sent \in Seq(ReadTokens) /\ Len(sent) = Len(body) + 1
          /\ \A j \in 1..Len(sent) : sent[j] = End => j = Len(sent)
      BY <2>4, Ending
    <2>6. streams' = [streams EXCEPT ![n] = x]
      BY <2>1 DEF body
    <2> HIDE DEF sent
    <2>7. x \in StreamRecords
      BY <1>1, <2>5 DEF StreamRecords
    <2>8. x.sent = sent /\ x.next = s.next /\ x.queue = s.queue /\ x.pc = "read"
      BY <1>1 DEF StreamRecords
    <2>9. s.sent = <<>> /\ s.next = 1 /\ Len(s.queue) = 0
      BY <1>1, <1>2, <2>2 DEF Carries
    <2> HIDE DEF x, s
    <2>10. TakenOf(x) = 0 /\ TakenOf(s) = 0 /\ Len(sent) \in Nat
      BY <2>5, <2>8, <2>9 DEF TakenOf
    <2>11. Carries(x)
      BY <2>5, <2>8, <2>9, <2>10 DEF Carries
    <2>12. Before(x) = Before(s)
      BY <2>5, <2>8, <2>9, <2>10, SubSeqEmpty DEF Before
    <2> QED
      BY <2>2, <2>6, <2>7, <2>11, <2>12 DEF s
  <1>4. CASE Put(n)
    <2> DEFINE t == s.sent[s.next]
               q == s.queue
               r == Append(s.queue, t)
               x == [s EXCEPT !.next = @ + 1, !.queue = r]
    <2>1. streams' = [streams EXCEPT ![n] = x] /\ s.pc = "read" /\ s.next <= Len(s.sent)
      BY <1>4 DEF Put, Place
    <2>2. s.next \in 1..Len(s.sent) /\ t \in ReadTokens
      BY <1>1, <1>2, <2>1 DEF Carries
    <2>3. x.sent = s.sent /\ x.next = s.next + 1 /\ x.queue = r /\ x.pc = "read"
      BY <1>1, <2>1 DEF StreamRecords
    <2>4. /\ r \in Seq(ReadTokens) /\ Len(r) = Len(q) + 1 /\ r[Len(q) + 1] = t
          /\ \A k \in 1..Len(q) : r[k] = q[k]
      BY <1>2, <2>2
    <2> HIDE DEF r
    <2>5. x \in StreamRecords
      <3>1. s.next + 1 \in Nat
        BY <1>2
      <3> QED
        BY <1>1, <2>4, <3>1 DEF StreamRecords
    <2> HIDE DEF x, s
    <2>6. TakenOf(x) = TakenOf(s) /\ TakenOf(s) + (Len(q) + 1) = s.next
      <3>1. Len(q) \in Nat /\ q = s.queue
        BY <1>2
      <3> HIDE DEF q
      <3>2. TakenOf(x) = (s.next + 1) - 1 - (Len(q) + 1) /\ TakenOf(s) = s.next - 1 - Len(q)
        BY <2>3, <2>4, <3>1 DEF TakenOf
      <3> QED
        BY <1>2, <3>1, <3>2
    <2> HIDE DEF q
    <2>7. \A k \in 1..Len(r) : r[k] = x.sent[TakenOf(x) + k]
      <3>1. \A k \in 1..Len(r) : k \in 1..Len(q) \/ k = Len(q) + 1
        BY <1>2, <2>4 DEF q
      <3>2. \A k \in 1..Len(q) : q[k] = s.sent[TakenOf(s) + k]
        BY <1>1 DEF Carries, q
      <3>3. ASSUME NEW k \in 1..Len(r) PROVE r[k] = x.sent[TakenOf(x) + k]
        <4>1. CASE k \in 1..Len(q)
          BY <2>3, <2>4, <2>6, <3>2, <4>1
        <4>2. CASE k = Len(q) + 1
          BY <2>3, <2>4, <2>6, <4>2
        <4> QED
          BY <3>1, <4>1, <4>2
      <3> QED
        BY <3>3
    <2>8. Carries(x)
      <3>1. x.next \in 1..(Len(x.sent) + 1) /\ Len(x.queue) < x.next
        BY <1>1, <1>2, <2>2, <2>3, <2>4 DEF Carries, q, r
      <3>2. \A k \in 1..Len(x.sent) : x.sent[k] = End => k = Len(x.sent)
        BY <1>1, <2>3 DEF Carries
      <3> QED
        BY <2>3, <2>7, <3>1, <3>2 DEF Carries, r
    <2> QED
      BY <2>1, <2>3, <2>5, <2>6, <2>8 DEF Before, s
  <1>5. CASE ReaderEnds(n)
    <2> DEFINE x == [s EXCEPT !.pc = "done"]
    <2>1. streams' = [streams EXCEPT ![n] = x] /\ s.pc = "read"
      BY <1>5 DEF ReaderEnds
    <2>2. x \in StreamRecords
      BY <1>1 DEF StreamRecords
    <2>3. /\ x.sent = s.sent /\ x.next = s.next /\ x.queue = s.queue /\ x.pc = "done"
      BY <1>1 DEF StreamRecords
    <2> HIDE DEF x, s
    <2>4. TakenOf(x) = TakenOf(s)
      BY <2>3 DEF TakenOf
    <2>5. Carries(x) /\ Before(x) = Before(s)
      BY <1>1, <2>1, <2>3, <2>4 DEF Carries, Before
    <2> QED
      BY <2>1, <2>2, <2>3, <2>5 DEF s
  <1> QED
    BY <1>3, <1>4, <1>5 DEF Reader

\* The threads keep WholeInv.
LEMMA ReaderWhole ==
    ASSUME Inv, WholeInv, NEW n \in DOMAIN streams, Reader(n) PROVE WholeInv'
  <1>1. StreamsOK(streams)
    BY DEF WholeInv, PartsTypeOK, StreamsOK
  <1>2. UNCHANGED <<client, pc, acc, buffer, out, how>>
    BY DEF Reader, Connect, Put, ReaderEnds
  <1>3. PICK x \in StreamRecords :
           /\ streams' = [streams EXCEPT ![n] = x]
           /\ Carries(x) /\ Before(x) = Before(streams[n])
           /\ streams[n].pc # "send" => x.pc # "send" /\ x.sent = streams[n].sent
    BY <1>1, ReaderKeeps
  <1>4. /\ StreamsOK(streams') /\ DOMAIN streams' = DOMAIN streams /\ Len(streams') = Len(streams)
        /\ streams'[n] = x /\ \A m \in DOMAIN streams : m # n => streams'[m] = streams[m]
    BY <1>1, <1>3, StreamSet, Zenon
  <1>5. PartsTypeOK' /\ \A m \in DOMAIN streams' : Carries(streams'[m])
    BY <1>2, <1>4 DEF WholeInv, PartsTypeOK, StreamsOK
  <1>6. ASSUME pc = "read"
        PROVE  Now' \in DOMAIN streams' /\ Assembles(out \o buffer, acc, streams'[Now'])
    <2>1. Now' = Now /\ Now \in DOMAIN streams /\ Assembles(out \o buffer, acc, streams[Now])
      BY <1>4, <1>6 DEF Now, WholeInv
    <2>2. Before(streams'[Now]) = Before(streams[Now])
      BY <1>3, <1>4, <2>1
    <2> QED
      BY <1>4, <2>1, <2>2 DEF Assembles
  <1>7. ASSUME NEW m \in DOMAIN streams, WholeOf(m) PROVE WholeOf(m)'
    BY <1>2, <1>3, <1>4, <1>7 DEF WholeOf
  <1> QED
    BY <1>2, <1>4, <1>5, <1>6, <1>7 DEF WholeInv

\* s without the first token of its queue.
Taken(s) == [s EXCEPT !.queue = Tail(@)]

\* The generator takes the next token of the stream.
LEMMA TakeOne ==
    ASSUME NEW s \in StreamRecords, Carries(s), s.queue # <<>>
    PROVE  /\ Taken(s) \in StreamRecords /\ Carries(Taken(s))
           /\ Taken(s).sent = s.sent /\ Taken(s).pc = s.pc /\ s.pc # "send"
           /\ s.queue[1] \in ReadTokens /\ Before(s) \in Seq(ReadTokens)
           /\ Before(Taken(s)) = Append(Before(s), s.queue[1])
           /\ s.queue[1] = End => Before(Taken(s)) = s.sent
  <1> DEFINE q == s.queue
             r == Tail(q)
             t == q[1]
             x == Taken(s)
             m == TakenOf(s)
             l == m + 1
  <1>1. /\ s.pc \in {"send", "read", "done"} /\ s.sent \in Seq(ReadTokens) /\ s.next \in Nat
        /\ q \in Seq(ReadTokens) /\ Len(s.sent) \in Nat /\ Len(q) \in Nat
    BY StreamFields
  <1>2. /\ Len(q) \in Nat /\ Len(q) # 0 /\ 1 \in 1..Len(q) /\ t \in ReadTokens
        /\ r \in Seq(ReadTokens) /\ Len(r) = Len(q) - 1
        /\ \A k \in 1..Len(r) : r[k] = q[k + 1]
    BY <1>1
  <1>3. /\ s.next \in 1..(Len(s.sent) + 1) /\ Len(q) < s.next
        /\ \A k \in 1..Len(q) : q[k] = s.sent[m + k]
        /\ \A k \in 1..Len(s.sent) : s.sent[k] = End => k = Len(s.sent)
    BY DEF Carries
  <1> HIDE DEF r
  <1>4. x.sent = s.sent /\ x.pc = s.pc /\ x.next = s.next /\ x.queue = r
    BY DEF Taken, StreamRecords, r
  <1>5. x \in StreamRecords
    BY <1>2 DEF Taken, StreamRecords, r
  <1> HIDE DEF x, q
  <1>6. m = s.next - 1 - Len(q) /\ TakenOf(x) = s.next - 1 - Len(r)
    BY <1>4 DEF TakenOf, q
  <1> HIDE DEF m
  <1>7. m \in Nat /\ TakenOf(x) = l /\ l \in 1..Len(s.sent) /\ s.sent # <<>>
    <2>1. \A a, b, c \in Nat :
             /\ b # 0 /\ b < a /\ a <= c + 1
             => /\ a - 1 - b \in Nat /\ a - 1 - (b - 1) = (a - 1 - b) + 1
                /\ (a - 1 - b) + 1 \in 1..c
      OBVIOUS
    <2>2. s.next <= Len(s.sent) + 1
      BY <1>1, <1>3
    <2>3. m \in Nat /\ TakenOf(x) = l /\ l \in 1..Len(s.sent)
      BY <1>1, <1>2, <1>3, <1>6, <2>1, <2>2
    <2>4. s.sent = <<>> => 1..Len(s.sent) = {}
      OBVIOUS
    <2> QED
      BY <2>3, <2>4
  <1>8. t = s.sent[l] /\ m = l - 1
    <2>1. t = s.sent[m + 1]
      BY <1>2, <1>3, Zenon
    <2>2. m = (m + 1) - 1
      BY <1>7
    <2> QED
      BY <2>1, <2>2, Zenon
  <1> HIDE DEF l, t
  <1>9. \A k \in 1..Len(r) : r[k] = s.sent[l + k]
    <2>1. ASSUME NEW k \in 1..Len(r) PROVE r[k] = s.sent[l + k]
      <3>1. k + 1 \in 1..Len(q) /\ m + (k + 1) = l + k
        BY <1>2, <1>7, <1>8
      <3>2. r[k] = q[k + 1] /\ q[k + 1] = s.sent[m + (k + 1)]
        BY <1>2, <1>3, <3>1
      <3> QED
        BY <3>1, <3>2
    <2> QED
      BY <2>1
  <1>10. s.pc # "send"
    BY <1>7 DEF Carries
  <1>11. Carries(x)
    <2>1. Len(r) < s.next
      BY <1>1, <1>2, <1>3
    <2> QED
      BY <1>3, <1>4, <1>7, <1>9, <1>10, <2>1 DEF Carries
  <1>12. SubSeq(s.sent, 1, m) \in Seq(ReadTokens)
         /\ SubSeq(s.sent, 1, l) = Append(SubSeq(s.sent, 1, m), t)
    <2> DEFINE b == SubSeq(s.sent, 1, m)
    <2>1. b \in Seq(ReadTokens)
      BY <1>1, <1>7, <1>8
    <2>2. 1 \in 1..Len(s.sent) /\ l \in 1..Len(s.sent)
      BY <1>1, <1>7
    <2>3. SubSeq(s.sent, 1, l) = SubSeq(s.sent, 1, l - 1) \o <<s.sent[l]>>
      BY <1>1, <2>2, SubSeqRecursiveSecond
    <2>4. SubSeq(s.sent, 1, l) = b \o <<t>>
      BY <1>8, <2>3
    <2> HIDE DEF b
    <2>5. b \o <<t>> = Append(b, t)
      BY <1>2, <2>1
    <2> QED
      BY <2>1, <2>4, <2>5 DEF b
  <1>13. Before(s) = SubSeq(s.sent, 1, m) /\ Before(x) = SubSeq(s.sent, 1, l)
    BY <1>4, <1>7 DEF Before, m
  <1>14. ASSUME t = End PROVE Before(x) = s.sent
    <2>1. l = Len(s.sent)
      BY <1>3, <1>7, <1>8, <1>14
    <2> QED
      BY <1>1, <1>13, <2>1, SubSeqFull
  <1> QED
    BY <1>2, <1>4, <1>5, <1>10, <1>11, <1>12, <1>13, <1>14 DEF x, t, q

\* A stream that is closed keeps what it carries.
LEMMA Closed ==
    ASSUME NEW ss, StreamsOK(ss), Now \in DOMAIN ss
    PROVE  /\ StreamsOK(Close(ss)) /\ DOMAIN Close(ss) = DOMAIN ss
           /\ Close(ss)[Now].sent = ss[Now].sent /\ Close(ss)[Now].pc = ss[Now].pc
           /\ Before(Close(ss)[Now]) = Before(ss[Now])
  <1>1. CASE client.style \in Buffered
    BY <1>1 DEF Close
  <1>2. CASE client.style \notin Buffered
    <2> DEFINE n == Now
               s == ss[n]
               x == [s EXCEPT !.cancelled = TRUE]
    <2>1. s \in StreamRecords /\ Carries(s)
      BY DEF StreamsOK
    <2>2. x \in StreamRecords /\ x.sent = s.sent /\ x.pc = s.pc /\ x.next = s.next
          /\ x.queue = s.queue
      BY <2>1 DEF StreamRecords
    <2>3. Close(ss) = [ss EXCEPT ![n] = x]
      BY <1>2 DEF Close
    <2> HIDE DEF x, s
    <2>4. TakenOf(x) = TakenOf(s)
      BY <2>2 DEF TakenOf
    <2>5. Carries(x) /\ Before(x) = Before(s)
      BY <2>1, <2>2, <2>4 DEF Carries, Before
    <2>6. n \in DOMAIN ss
      OBVIOUS
    <2> HIDE DEF n
    <2> DEFINE tt == [ss EXCEPT ![n] = x]
    <2>7. StreamsOK(tt) /\ DOMAIN tt = DOMAIN ss /\ tt[n] = x
      BY <2>2, <2>5, <2>6, StreamSet
    <2> HIDE DEF tt
    <2> QED
      BY <2>2, <2>3, <2>5, <2>7 DEF tt, n, s
  <1> QED
    BY <1>1, <1>2

\* The next token is taken, and the stream closed or not.
LEMMA Took ==
    ASSUME WholeInv, pc = "read", streams[Now].queue # <<>>,
           NEW ss, ss = Take \/ ss = Close(Take)
    PROVE  /\ StreamsOK(ss) /\ DOMAIN ss = DOMAIN streams /\ Now \in DOMAIN streams
           /\ Item \in ReadTokens /\ Before(streams[Now]) \in Seq(ReadTokens)
           /\ Before(ss[Now]) = Append(Before(streams[Now]), Item)
           /\ ss[Now].pc # "send"
           /\ Item = End => Before(ss[Now]) = ss[Now].sent
  <1> DEFINE n == Now
             s == streams[n]
             x == Taken(s)
  <1>1. StreamsOK(streams) /\ n \in DOMAIN streams
    BY DEF WholeInv, PartsTypeOK, StreamsOK
  <1>2. s \in StreamRecords /\ Carries(s) /\ s.queue # <<>>
    BY <1>1 DEF StreamsOK
  <1>3. Take = [streams EXCEPT ![n] = x] /\ Item = s.queue[1]
    BY DEF Take, Taken, Item
  <1> HIDE DEF s, x
  <1>4. /\ x \in StreamRecords /\ Carries(x)
        /\ x.sent = s.sent /\ x.pc = s.pc /\ s.pc # "send"
        /\ s.queue[1] \in ReadTokens /\ Before(s) \in Seq(ReadTokens)
        /\ Before(x) = Append(Before(s), s.queue[1])
        /\ s.queue[1] = End => Before(x) = s.sent
    BY <1>2, TakeOne DEF x
  <1> HIDE DEF n
  <1> DEFINE tt == [streams EXCEPT ![n] = x]
  <1>5. StreamsOK(tt) /\ DOMAIN tt = DOMAIN streams /\ tt[n] = x
    BY <1>1, <1>4, StreamSet
  <1>6. Take = tt
    BY <1>3
  <1> HIDE DEF tt
  <1>7. CASE ss = Take
    BY <1>1, <1>3, <1>4, <1>5, <1>6, <1>7 DEF n, s
  <1>8. CASE ss = Close(Take)
    <2>1. Now \in DOMAIN tt
      BY <1>1, <1>5 DEF n
    <2>2. /\ StreamsOK(Close(tt)) /\ DOMAIN Close(tt) = DOMAIN tt
          /\ Close(tt)[Now].sent = tt[Now].sent /\ Close(tt)[Now].pc = tt[Now].pc
          /\ Before(Close(tt)[Now]) = Before(tt[Now])
      BY <1>5, <2>1, Closed
    <2>3. ss = Close(tt)
      BY <1>6, <1>8
    <2> QED
      BY <1>1, <1>3, <1>4, <1>5, <2>2, <2>3 DEF n, s
  <1> QED
    BY <1>7, <1>8

\* A step after which the generator does not read and no answer is complete.
LEMMA NotWhole ==
    ASSUME WholeInv, StreamsOK(streams'), UNCHANGED <<client, acc, buffer, out>>,
           pc' # "read", how' # "complete"
    PROVE  WholeInv'
  <1>1. PartsTypeOK' /\ \A n \in DOMAIN streams' : Carries(streams'[n])
    BY DEF WholeInv, PartsTypeOK, StreamsOK
  <1> QED
    BY <1>1 DEF WholeInv

\* A completion that ends without a further event.
LEMMA EndsUnsaid ==
    ASSUME WholeInv, NEW outcome, Ends(outcome, <<>>)
    PROVE  UNCHANGED out /\ pc' = "ended" /\ how' = outcome
  <1>1. out \o <<>> = out
    BY DEF WholeInv, PartsTypeOK
  <1> QED
    BY <1>1 DEF Ends

\* After the last attempt nothing more is given.
LEMMA ExhaustedUnsaid ==
    ASSUME WholeInv, pc # "ended", NEW problem, Exhausted(problem)
    PROVE  UNCHANGED out /\ pc' # "read" /\ how' # "complete"
  <1>1. how # "complete"
    BY DEF WholeInv
  <1>2. CASE Ends("error", <<>>)
    BY <1>2, EndsUnsaid
  <1>3. CASE pc' = "post" /\ UNCHANGED <<how, out>>
    BY <1>1, <1>3
  <1> QED
    BY <1>2, <1>3 DEF Exhausted

\* What is emitted comes after what was given and buffered.
LEMMA Emitted ==
    ASSUME WholeInv, NEW e \in EventRecords, Emit(<<e>>), UNCHANGED client
    PROVE  /\ out' \in Seq(EventRecords) /\ buffer' \in Seq(EventRecords)
           /\ out \o buffer \in Seq(EventRecords)
           /\ out' \o buffer' = Append(out \o buffer, e)
           /\ client.style \notin Buffered => buffer' = <<>>
  <1>1. out \in Seq(EventRecords) /\ buffer \in Seq(EventRecords)
    BY DEF WholeInv, PartsTypeOK
  <1>2. CASE client.style \in Buffered
    <2>1. buffer' = buffer \o <<e>> /\ out' = out
      BY <1>2 DEF Emit
    <2> QED
      BY <1>1, <1>2, <2>1
  <1>3. CASE client.style \notin Buffered
    <2>1. buffer = <<>> /\ buffer' = <<>> /\ out' = out \o <<e>>
      BY <1>3 DEF Emit, WholeInv
    <2> QED
      BY <1>1, <2>1
  <1> QED
    BY <1>2, <1>3

\* A step of the generator that reads on.
LEMMA ReadsOn ==
    ASSUME Inv, WholeInv, pc = "read", streams[Now].queue # <<>>, streams' = Take,
           UNCHANGED <<client, pc, how>>, acc' \in [Indices -> Seq(Nat)],
           client.style = "gemini" => \A i \in Indices : acc'[i] = <<>>,
           out' \in Seq(EventRecords), buffer' \in Seq(EventRecords),
           client.style \notin Buffered => buffer' = <<>>,
           Joined("text", 0, out' \o buffer')
             = Joined("text", 0, out \o buffer) \o PartOf("text", 0, Item),
           \A i \in Indices :
              Joined("call", i, out' \o buffer') \o acc'[i]
                = (Joined("call", i, out \o buffer) \o acc[i]) \o PartOf("frag", i, Item)
    PROVE  WholeInv'
  <1>1. /\ StreamsOK(streams') /\ DOMAIN streams' = DOMAIN streams /\ Now \in DOMAIN streams
        /\ Item \in ReadTokens /\ Before(streams[Now]) \in Seq(ReadTokens)
        /\ Before(streams'[Now]) = Append(Before(streams[Now]), Item)
    BY Took
  <1>2. Now' = Now
    <2>1. streams \in Seq(StreamRecords) /\ streams' \in Seq(StreamRecords)
      BY <1>1 DEF StreamsOK, WholeInv, PartsTypeOK
    <2>2. Len(streams') = Len(streams)
      BY <1>1, <2>1
    <2> QED
      BY <2>2 DEF Now
  <1>3. PartsTypeOK' /\ \A n \in DOMAIN streams' : Carries(streams'[n])
    BY <1>1 DEF PartsTypeOK, StreamsOK
  <1>4. Assembles(out \o buffer, acc, streams[Now])
    BY DEF WholeInv
  <1>5. \A kind, i : Parts(kind, i, Before(streams'[Now]))
                       = Parts(kind, i, Before(streams[Now])) \o PartOf(kind, i, Item)
    BY <1>1, PartsAppend
  <1>6. Assembles(out' \o buffer', acc', streams'[Now])
    BY <1>4, <1>5 DEF Assembles
  <1>7. how # "complete"
    BY DEF WholeInv
  <1> QED
    BY <1>1, <1>2, <1>3, <1>6, <1>7 DEF WholeInv

\* The calls of accumulated fragments are events.
LEMMA CallsTyped ==
    ASSUME NEW n \in Nat, NEW fragments \in [Indices -> Seq(Nat)]
    PROVE  CallsOf(n, fragments) \in Seq(EventRecords)
  <1>1. ASSUME NEW i \in Indices PROVE CallOf(n, i, fragments) \in Seq(EventRecords)
    <2> DEFINE e == CallEvent(n, i, fragments[i])
    <2>1. e \in EventRecords
      BY DEF CallEvent, EventRecords
    <2> HIDE DEF e
    <2>2. <<e>> \in Seq(EventRecords) /\ <<>> \in Seq(EventRecords)
      BY <2>1
    <2> QED
      BY <2>2 DEF CallOf, e
  <1> QED
    BY <1>1 DEF CallsOf, Indices

\* What is known while the generator reads.
LEMMA Reading ==
    ASSUME Inv, WholeInv, pc = "read"
    PROVE  /\ out \o buffer \in Seq(EventRecords) /\ acc \in [Indices -> Seq(Nat)]
           /\ Now \in Nat /\ Now \in DOMAIN streams
           /\ \A kind, i : Joined(kind, i, out \o buffer) \in Seq(Nat)
           /\ Assembles(out \o buffer, acc, streams[Now])
  <1>1. /\ out \o buffer \in Seq(EventRecords) /\ acc \in [Indices -> Seq(Nat)]
        /\ Now \in Nat /\ Now \in DOMAIN streams
        /\ Assembles(out \o buffer, acc, streams[Now])
    BY DEF WholeInv, PartsTypeOK, Now
  <1>2. CallEvent(0, 1, <<>>) \in EventRecords
    BY DEF CallEvent, EventRecords, Indices
  <1> QED
    BY <1>1, <1>2, JoinedAppend

\* A text joins the texts.
LEMMA TakeTextWhole == ASSUME Inv, WholeInv, TakeText PROVE WholeInv'
  <1> DEFINE e == TextEvent(Now, <<Item.part>>)
             t == Item
  <1>1. pc = "read" /\ streams[Now].queue # <<>> /\ t.kind = "text" /\ streams' = Take
        /\ Emit(<<e>>) /\ UNCHANGED <<client, pc, acc, how>>
    BY DEF TakeText, Taking
  <1>2. t \in ReadTokens
    BY <1>1, Took
  <1>3. t.index = 0 /\ t.part \in Nat
    BY <1>1, <1>2 DEF ReadTokens, AnswerTokens, Problems
  <1>4. /\ out \o buffer \in Seq(EventRecords) /\ acc \in [Indices -> Seq(Nat)] /\ Now \in Nat
        /\ \A kind, i : Joined(kind, i, out \o buffer) \in Seq(Nat)
    BY <1>1, Reading
  <1>5. e \in EventRecords
    BY <1>3, <1>4 DEF TextEvent, EventRecords
  <1>6. PartsOf("text", 0, e) = PartOf("text", 0, t)
        /\ \A i : PartsOf("call", i, e) = <<>> /\ PartOf("frag", i, t) = <<>>
    BY <1>1, <1>3 DEF TextEvent, PartsOf, PartOf
  <1> HIDE DEF e, t
  <1>7. /\ out' \in Seq(EventRecords) /\ buffer' \in Seq(EventRecords)
        /\ out' \o buffer' = Append(out \o buffer, e)
        /\ client.style \notin Buffered => buffer' = <<>>
    BY <1>1, <1>5, Emitted
  <1>8. \A kind, i : Joined(kind, i, out' \o buffer')
                       = Joined(kind, i, out \o buffer) \o PartsOf(kind, i, e)
    BY <1>4, <1>5, <1>7, JoinedAppend
  <1>9. \A s \in Seq(Nat) : s \o <<>> = s
    OBVIOUS
  <1>10. ASSUME NEW i \in Indices
         PROVE  Joined("call", i, out' \o buffer') \o acc'[i]
                  = (Joined("call", i, out \o buffer) \o acc[i]) \o PartOf("frag", i, t)
    <2> DEFINE J == Joined("call", i, out \o buffer)
    <2>1. J \in Seq(Nat) /\ acc[i] \in Seq(Nat) /\ J \o acc[i] \in Seq(Nat)
      BY <1>4
    <2>2. Joined("call", i, out' \o buffer') = J
      BY <1>6, <1>8, <1>9, <2>1
    <2> HIDE DEF J
    <2>3. (J \o acc[i]) \o <<>> = J \o acc[i]
      BY <1>9, <2>1
    <2> QED
      BY <1>1, <1>6, <2>2, <2>3 DEF J
  <1>11. acc' \in [Indices -> Seq(Nat)]
         /\ (client.style = "gemini" => \A i \in Indices : acc'[i] = <<>>)
    BY <1>1, <1>4 DEF WholeInv
  <1>12. Joined("text", 0, out' \o buffer')
           = Joined("text", 0, out \o buffer) \o PartOf("text", 0, t)
    BY <1>6, <1>8
  <1> QED
    BY <1>1, <1>7, <1>10, <1>11, <1>12, ReadsOn DEF t

\* A fragment joins those of its call.
LEMMA TakeFragmentWhole == ASSUME Inv, WholeInv, TakeFragment PROVE WholeInv'
  <1> DEFINE t == Item
             x == t.index
             e == CallEvent(Now, x, <<t.part>>)
  <1>1. pc = "read" /\ streams[Now].queue # <<>> /\ t.kind = "frag" /\ streams' = Take
        /\ UNCHANGED <<client, pc, how>>
    BY DEF TakeFragment, Taking
  <1>2. t \in ReadTokens
    BY <1>1, Took
  <1>3. x \in Indices /\ t.part \in Nat
    BY <1>1, <1>2 DEF ReadTokens, AnswerTokens, Problems
  <1>4. /\ out \o buffer \in Seq(EventRecords) /\ acc \in [Indices -> Seq(Nat)] /\ Now \in Nat
        /\ \A kind, i : Joined(kind, i, out \o buffer) \in Seq(Nat)
    BY <1>1, Reading
  <1>5. PartOf("text", 0, t) = <<>>
        /\ \A i \in Indices : PartOf("frag", i, t) = IF i = x THEN <<t.part>> ELSE <<>>
    BY <1>1 DEF PartOf
  <1>6. \A s \in Seq(Nat) : s \o <<>> = s
    OBVIOUS
  <1>7. CASE client.style = "gemini"
    <2>1. Emit(<<e>>) /\ UNCHANGED acc /\ \A i \in Indices : acc[i] = <<>>
      BY <1>7 DEF TakeFragment, WholeInv
    <2>2. e \in EventRecords
      BY <1>3, <1>4 DEF CallEvent, EventRecords
    <2>3. PartsOf("text", 0, e) = <<>>
          /\ \A i \in Indices : PartsOf("call", i, e) = PartOf("frag", i, t)
      BY <1>1 DEF CallEvent, PartsOf, PartOf
    <2> HIDE DEF e, t
    <2>4. /\ out' \in Seq(EventRecords) /\ buffer' \in Seq(EventRecords)
          /\ out' \o buffer' = Append(out \o buffer, e)
          /\ client.style \notin Buffered => buffer' = <<>>
      BY <1>1, <2>1, <2>2, Emitted
    <2>5. \A kind, i : Joined(kind, i, out' \o buffer')
                         = Joined(kind, i, out \o buffer) \o PartsOf(kind, i, e)
      BY <1>4, <2>2, <2>4, JoinedAppend
    <2>6. ASSUME NEW i \in Indices
          PROVE  Joined("call", i, out' \o buffer') \o acc'[i]
                   = (Joined("call", i, out \o buffer) \o acc[i]) \o PartOf("frag", i, t)
      <3> DEFINE J == Joined("call", i, out \o buffer)
                 K == Joined("call", i, out' \o buffer')
                 P == PartOf("frag", i, t)
      <3>1. J \in Seq(Nat) /\ K = J \o P /\ P \in Seq(Nat)
        <4>1. K = J \o P
          BY <2>3, <2>5
        <4>2. P \in Seq(Nat)
          BY <1>3 DEF PartOf
        <4> QED
          BY <1>4, <4>1, <4>2
      <3>2. acc'[i] = <<>> /\ acc[i] = <<>>
        BY <2>1
      <3> HIDE DEF J, K, P
      <3>3. K \in Seq(Nat) /\ K \o <<>> = K /\ J \o <<>> = J
        BY <3>1
      <3> QED
        BY <3>1, <3>2, <3>3 DEF J, K, P
    <2>7. acc' \in [Indices -> Seq(Nat)] /\ \A i \in Indices : acc'[i] = <<>>
      BY <1>4, <2>1
    <2>8. Joined("text", 0, out' \o buffer')
             = Joined("text", 0, out \o buffer) \o PartOf("text", 0, t)
      BY <1>5, <2>3, <2>5
    <2> QED
      BY <1>1, <2>4, <2>6, <2>7, <2>8, ReadsOn DEF t
  <1>8. CASE client.style # "gemini"
    <2>1. acc' = [acc EXCEPT ![x] = Append(acc[x], t.part)] /\ UNCHANGED <<buffer, out>>
      BY <1>8 DEF TakeFragment
    <2>2. /\ out \in Seq(EventRecords) /\ buffer \in Seq(EventRecords)
          /\ client.style \notin Buffered => buffer = <<>>
      BY DEF WholeInv, PartsTypeOK
    <2> HIDE DEF t, x
    <2>3. acc' \in [Indices -> Seq(Nat)]
      BY <1>3, <1>4, <2>1
    <2>4. ASSUME NEW i \in Indices
          PROVE  Joined("call", i, out \o buffer) \o acc'[i]
                   = (Joined("call", i, out \o buffer) \o acc[i]) \o PartOf("frag", i, t)
      <3> DEFINE J == Joined("call", i, out \o buffer)
                 A == acc[i]
                 p == t.part
      <3>1. J \in Seq(Nat) /\ A \in Seq(Nat) /\ p \in Nat
        BY <1>3, <1>4
      <3>2. CASE i = x
        <4>1. acc'[i] = Append(A, p) /\ PartOf("frag", i, t) = <<p>>
          BY <1>3, <1>4, <1>5, <2>1, <3>2
        <4> HIDE DEF J, A, p
        <4>2. J \o Append(A, p) = (J \o A) \o <<p>>
          BY <3>1
        <4> QED
          BY <4>1, <4>2 DEF J, A, p
      <3>3. CASE i # x
        <4>1. acc'[i] = A /\ PartOf("frag", i, t) = <<>>
          BY <1>3, <1>4, <1>5, <2>1, <3>3
        <4> HIDE DEF J, A, p
        <4>2. J \o A = (J \o A) \o <<>>
          BY <3>1
        <4> QED
          BY <4>1, <4>2 DEF J, A, p
      <3> QED
        BY <3>2, <3>3
    <2>5. Joined("text", 0, out \o buffer)
             = Joined("text", 0, out \o buffer) \o PartOf("text", 0, t)
      BY <1>4, <1>5, <1>6
    <2>6. out' = out /\ buffer' = buffer
      BY <2>1
    <2> QED
      BY <1>1, <1>8, <2>2, <2>3, <2>4, <2>5, <2>6, ReadsOn DEF t
  <1> QED
    BY <1>7, <1>8

\* The answer that has ended is complete.
LEMMA TakeEndWhole == ASSUME Inv, WholeInv, TakeEnd PROVE WholeInv'
  <1>0. PICK n : n = Now
    OBVIOUS
  <1> DEFINE given  == out \o buffer
             calls  == CallsOf(n, acc)
             events == buffer \o calls
             s      == streams[n]
             s2     == streams'[n]
  <1>1. pc = "read" /\ streams[n].queue # <<>> /\ Item.kind = "end"
        /\ streams' = Close(Take) /\ UNCHANGED <<client, acc, buffer>>
    BY <1>0 DEF TakeEnd, Taking
  <1>2. /\ StreamsOK(streams') /\ DOMAIN streams' = DOMAIN streams /\ n \in DOMAIN streams
        /\ Item \in ReadTokens /\ Before(s) \in Seq(ReadTokens)
        /\ Before(s2) = Append(Before(s), Item) /\ s2.pc # "send"
        /\ Item = End => Before(s2) = s2.sent
    BY <1>0, <1>1, Took
  <1>3. Item = End
    BY <1>1, <1>2 DEF ReadTokens, AnswerTokens, End
  <1>4. /\ given \in Seq(EventRecords) /\ acc \in [Indices -> Seq(Nat)] /\ n \in Nat
        /\ Assembles(given, acc, s)
    BY <1>0, <1>1, Reading
  <1>5. /\ given \o calls \in Seq(EventRecords)
        /\ Joined("text", 0, given \o calls) = Joined("text", 0, given)
        /\ \A i \in Indices :
              Joined("call", i, given \o calls) = Joined("call", i, given) \o acc[i]
    <2> HIDE DEF given
    <2> QED
      BY <1>4, CallsAdd
  <1>6. \A kind \in {"text", "frag"} : \A i : Parts(kind, i, s2.sent) = Parts(kind, i, Before(s))
    <2>1. ASSUME NEW kind \in {"text", "frag"}, NEW i
          PROVE  Parts(kind, i, s2.sent) = Parts(kind, i, Before(s))
      <3> DEFINE b == Before(s)
      <3>1. PartOf(kind, i, End) = <<>>
        BY DEF PartOf, End
      <3>2. s2.sent = Append(b, End) /\ End \in ReadTokens /\ b \in Seq(ReadTokens)
        BY <1>2, <1>3
      <3> HIDE DEF b
      <3>3. Parts(kind, i, b) \in Seq(Nat)
            /\ Parts(kind, i, Append(b, End)) = Parts(kind, i, b) \o <<>>
        BY <3>1, <3>2, PartsAppend
      <3>4. Parts(kind, i, b) \o <<>> = Parts(kind, i, b)
        BY <3>3
      <3> QED
        BY <3>2, <3>3, <3>4 DEF b
    <2> QED
      BY <2>1
  <1>7. out \in Seq(EventRecords) /\ buffer \in Seq(EventRecords)
    BY DEF WholeInv, PartsTypeOK
  <1>8. CASE Ends("complete", events)
    <2>1. out' = out \o events /\ pc' = "ended"
      BY <1>8 DEF Ends
    <2>2. out' = given \o calls
      <3>1. calls \in Seq(EventRecords)
        BY <1>4, CallsTyped
      <3> HIDE DEF calls
      <3> QED
        BY <1>7, <2>1, <3>1
    <2>3. From(n, out')
      <3>1. From(n, out) /\ From(n, buffer) /\ From(n, calls)
        BY <1>0, <1>1, CallsFrom DEF Inv
      <3> QED
        BY <2>1, <3>1, FromConcat
    <2>4. \A k \in DOMAIN out' : out'[k].from = n
      BY <2>3, FromSame
    <2>5. Joined("text", 0, out') = Parts("text", 0, s2.sent)
      BY <1>4, <1>5, <1>6, <2>2 DEF Assembles
    <2>6. \A i \in Indices : Joined("call", i, out') = Parts("frag", i, s2.sent)
      BY <1>4, <1>5, <1>6, <2>2 DEF Assembles
    <2>7. WholeOf(n)'
      BY <1>2, <2>4, <2>5, <2>6 DEF WholeOf
    <2>8. PartsTypeOK' /\ \A m \in DOMAIN streams' : Carries(streams'[m])
      BY <1>1, <1>2, <1>4, <1>5, <1>7, <2>2 DEF PartsTypeOK, StreamsOK
    <2>9. \E m \in DOMAIN streams' : WholeOf(m)'
      BY <1>2, <2>7
    <2> QED
      BY <1>1, <2>1, <2>8, <2>9 DEF WholeInv
  <1>9. CASE pc' = "post" /\ UNCHANGED <<how, out>>
    <2>1. how # "complete"
      BY <1>1 DEF WholeInv
    <2> QED
      BY <1>1, <1>2, <1>9, <2>1, NotWhole
  <1> QED
    BY <1>0, <1>8, <1>9 DEF TakeEnd

\* A stream that a plain request has answered or failed.
LEMMA PostedStream ==
    ASSUME NEW sent \in Seq(ReadTokens),
           \A k \in 1..Len(sent) : sent[k] = End => k = Len(sent)
    PROVE  LET x == [NewStream EXCEPT !.pc = "done", !.sent = sent] IN
           x \in StreamRecords /\ Carries(x) /\ x.sent = sent /\ x.pc # "send"
  <1> DEFINE s == NewStream
             x == [s EXCEPT !.pc = "done", !.sent = sent]
  <1>1. s \in StreamRecords /\ s.next = 1 /\ Len(s.queue) = 0
    BY FreshStream DEF NewStream
  <1>2. Len(sent) \in Nat
    OBVIOUS
  <1> HIDE DEF s
  <1>3. x \in StreamRecords
    BY <1>1 DEF StreamRecords
  <1>4. x.pc = "done" /\ x.sent = sent /\ x.next = s.next /\ x.queue = s.queue
    BY <1>1 DEF StreamRecords
  <1> HIDE DEF x
  <1>5. Carries(x)
    <2>1. Len(x.queue) = 0 /\ x.next = 1
      BY <1>1, <1>4
    <2> QED
      BY <1>2, <1>4, <2>1 DEF Carries
  <1> QED
    BY <1>3, <1>4, <1>5 DEF x, s

\* A plain request answers with the whole at once.
LEMMA PostAnswersWhole == ASSUME Inv, WholeInv, PostAnswers PROVE WholeInv'
  <1>0. PICK n : n = Now + 1
    OBVIOUS
  <1>1. PICK answer \in Answers :
          LET text == Parts("text", 0, answer)
              frag == [i \in Indices |-> Parts("frag", i, answer)] IN
          /\ streams' = Posted(answer \o <<End>>)
          /\ Ends("complete", (IF text = <<>> THEN <<>> ELSE <<TextEvent(n, text)>>) \o CallsOf(n, frag))
    BY <1>0 DEF PostAnswers
  <1> DEFINE text == Parts("text", 0, answer)
             frag == [i \in Indices |-> Parts("frag", i, answer)]
             e    == TextEvent(n, text)
             said == IF text = <<>> THEN <<>> ELSE <<e>>
             sent == answer \o <<End>>
             x    == [NewStream EXCEPT !.pc = "done", !.sent = sent]
  <1>2. out = <<>> /\ pc = "post" /\ UNCHANGED <<client, acc, buffer>>
    BY DEF PostAnswers, Inv
  <1>3. StreamsOK(streams) /\ n \in Nat
    BY <1>0 DEF WholeInv, PartsTypeOK, StreamsOK, Now
  <1>4. answer \in Seq(AnswerTokens)
    BY ProvidersAssumption
  <1>5. answer \in Seq(ReadTokens) /\ \A k \in 1..Len(answer) : answer[k] # End
    <2>1. AnswerTokens \subseteq ReadTokens /\ End \notin AnswerTokens
      BY DEF ReadTokens, AnswerTokens, End
    <2> QED
      BY <1>4, <2>1
  <1>6. End \in ReadTokens /\ sent = Append(answer, End)
    <2>1. End \in ReadTokens
      BY DEF ReadTokens, End
    <2> HIDE DEF End
    <2> QED
      BY <1>5, <2>1
  <1>7. /\ sent \in Seq(ReadTokens) /\ Len(sent) = Len(answer) + 1
        /\ \A k \in 1..Len(sent) : sent[k] = End => k = Len(sent)
    BY <1>5, Ending
  <1>8. \A kind \in {"text", "frag"} : \A i :
           Parts(kind, i, answer) \in Seq(Nat) /\ Parts(kind, i, sent) = Parts(kind, i, answer)
    <2>1. ASSUME NEW kind \in {"text", "frag"}, NEW i
          PROVE  Parts(kind, i, answer) \in Seq(Nat)
                 /\ Parts(kind, i, sent) = Parts(kind, i, answer)
      <3>1. PartOf(kind, i, End) = <<>>
        BY DEF PartOf, End
      <3> HIDE DEF sent
      <3>2. Parts(kind, i, answer) \in Seq(Nat)
            /\ Parts(kind, i, sent) = Parts(kind, i, answer) \o <<>>
        BY <1>5, <1>6, <3>1, PartsAppend
      <3>3. Parts(kind, i, answer) \o <<>> = Parts(kind, i, answer)
        BY <3>2
      <3> QED
        BY <3>2, <3>3
    <2> QED
      BY <2>1
  <1>9. x \in StreamRecords /\ Carries(x) /\ x.sent = sent /\ x.pc # "send"
    <2> HIDE DEF sent
    <2> QED
      BY <1>7, PostedStream
  <1>10. streams' = Append(streams, x)
    BY <1>1 DEF Posted
  <1>11. StreamsOK(streams') /\ n \in DOMAIN streams' /\ streams'[n] = x
    <2> HIDE DEF x
    <2>1. LET tt == Append(streams, x) IN
          StreamsOK(tt) /\ Len(streams) + 1 \in DOMAIN tt /\ tt[Len(streams) + 1] = x
      BY <1>3, <1>9, StreamAdded
    <2> QED
      BY <1>0, <1>10, <2>1 DEF Now
  <1> HIDE DEF x, sent
  <1>12. frag \in [Indices -> Seq(Nat)] /\ \A i \in Indices : frag[i] = Parts("frag", i, answer)
    BY <1>8
  <1>13. text \in Seq(Nat)
    BY <1>8
  <1> HIDE DEF frag, text
  <1>14. /\ said \in Seq(EventRecords)
         /\ Joined("text", 0, said) = text
         /\ \A i \in Indices : Joined("call", i, said) = <<>>
    <2>1. CASE text = <<>>
      <3>1. said = <<>>
        BY <2>1
      <3> HIDE DEF said
      <3> QED
        BY <2>1, <3>1, NothingJoined
    <2>2. CASE text # <<>>
      <3>1. e \in EventRecords
        BY <1>3, <1>13 DEF TextEvent, EventRecords
      <3>2. PartsOf("text", 0, e) = text /\ \A i : PartsOf("call", i, e) = <<>>
        BY DEF TextEvent, PartsOf
      <3> DEFINE none == <<>>
      <3>3. said = Append(none, e) /\ none \in Seq(EventRecords)
        BY <2>2
      <3> HIDE DEF e, said
      <3>4. \A kind, i : Joined(kind, i, none) = <<>>
        BY NothingJoined
      <3> HIDE DEF none
      <3>5. said \in Seq(EventRecords)
        BY <3>1, <3>3
      <3>6. \A kind, i : Joined(kind, i, said) = <<>> \o PartsOf(kind, i, e)
        BY <3>1, <3>3, <3>4, JoinedAppend
      <3>7. <<>> \o text = text
        BY <1>13
      <3> QED
        BY <3>2, <3>5, <3>6, <3>7
    <2> QED
      BY <2>1, <2>2
  <1>15. From(n, said \o CallsOf(n, frag))
    <2>1. From(n, said)
      BY FromEmpty, FromOne DEF TextEvent
    <2> QED
      BY <2>1, CallsFrom, FromConcat
  <1>16. Ends("complete", said \o CallsOf(n, frag))
    BY <1>1 DEF frag, text
  <1> HIDE DEF said
  <1> DEFINE all == said \o CallsOf(n, frag)
  <1>17. /\ all \in Seq(EventRecords)
         /\ Joined("text", 0, all) = Joined("text", 0, said)
         /\ \A i \in Indices : Joined("call", i, all) = Joined("call", i, said) \o frag[i]
    BY <1>3, <1>12, <1>14, CallsAdd
  <1>18. ASSUME NEW i \in Indices PROVE Joined("call", i, all) = frag[i]
    <2>1. Joined("call", i, all) = <<>> \o frag[i] /\ frag[i] \in Seq(Nat)
      BY <1>12, <1>14, <1>17
    <2> QED
      BY <2>1
  <1> HIDE DEF all
  <1>19. out' = all /\ pc' = "ended" /\ how' = "complete"
    <2>1. out' = <<>> \o all /\ pc' = "ended" /\ how' = "complete"
      BY <1>2, <1>16 DEF Ends, all
    <2> QED
      BY <1>17, <2>1
  <1>20. \A k \in DOMAIN out' : out'[k].from = n
    BY <1>15, <1>19, FromSame DEF all
  <1>21. WholeOf(n)'
    <2>1. Joined("text", 0, out') = Parts("text", 0, streams'[n].sent)
      BY <1>8, <1>9, <1>11, <1>14, <1>17, <1>19 DEF text
    <2>2. \A i \in Indices : Joined("call", i, out') = Parts("frag", i, streams'[n].sent)
      BY <1>8, <1>9, <1>11, <1>12, <1>18, <1>19
    <2>3. streams'[n].pc # "send"
      BY <1>9, <1>11
    <2> QED
      BY <1>20, <2>1, <2>2, <2>3 DEF WholeOf
  <1>22. PartsTypeOK' /\ \A m \in DOMAIN streams' : Carries(streams'[m])
    BY <1>2, <1>11, <1>17, <1>19 DEF PartsTypeOK, StreamsOK, WholeInv
  <1>23. \E m \in DOMAIN streams' : WholeOf(m)'
    BY <1>11, <1>21
  <1> QED
    BY <1>2, <1>19, <1>22, <1>23 DEF WholeInv

\* A new request starts with nothing.
LEMMA OpenWhole == ASSUME Inv, WholeInv, Open PROVE WholeInv'
  <1>1. /\ streams' = Append(streams, NewStream) /\ pc' = "read" /\ pc # "ended"
        /\ acc' = [i \in Indices |-> <<>>] /\ buffer' = <<>> /\ UNCHANGED <<client, out, how>>
    BY DEF Open
  <1>2. out = <<>> /\ how # "complete"
    BY <1>1 DEF Open, Inv, WholeInv
  <1>3. StreamsOK(streams)
    BY DEF WholeInv, PartsTypeOK, StreamsOK
  <1>4. PICK n : n = Len(streams) + 1
    OBVIOUS
  <1>5. StreamsOK(streams') /\ Len(streams') = n /\ n \in DOMAIN streams' /\ streams'[n] = NewStream
    <2>1. LET tt == Append(streams, NewStream) IN
          /\ StreamsOK(tt) /\ Len(tt) = Len(streams) + 1 /\ Len(streams) + 1 \in DOMAIN tt
          /\ tt[Len(streams) + 1] = NewStream
      BY <1>3, FreshStream, StreamAdded
    <2> QED
      BY <1>1, <1>4, <2>1
  <1>6. Now' \in DOMAIN streams' /\ Before(streams'[Now']) = <<>>
    BY <1>5, FreshStream DEF Now
  <1>7. out' \o buffer' = <<>>
    BY <1>1, <1>2
  <1>8. Assembles(out' \o buffer', acc', streams'[Now'])
    <2>1. \A i \in Indices : <<>> \o acc'[i] = <<>>
      BY <1>1
    <2> QED
      BY <1>6, <1>7, <2>1, NothingJoined DEF Assembles
  <1>9. acc' \in [Indices -> Seq(Nat)] /\ \A i \in Indices : acc'[i] = <<>>
    BY <1>1
  <1>10. PartsTypeOK' /\ \A m \in DOMAIN streams' : Carries(streams'[m])
    <2>1. <<>> \in Seq(EventRecords)
      OBVIOUS
    <2> QED
      BY <1>1, <1>2, <1>5, <1>9, <2>1 DEF PartsTypeOK, StreamsOK
  <1> QED
    BY <1>1, <1>2, <1>6, <1>8, <1>9, <1>10 DEF WholeInv

\* The steps of the generator keep WholeInv.
LEMMA GeneratorWhole == ASSUME Inv, WholeInv, Generator PROVE WholeInv'
  <1>0. StreamsOK(streams) /\ (pc # "ended" => how # "complete")
    BY DEF WholeInv, PartsTypeOK, StreamsOK
  <1>1. CASE NoAttempt
    <2>1. UNCHANGED out /\ pc' # "read" /\ how' # "complete"
      BY <1>1, ExhaustedUnsaid DEF NoAttempt
    <2> QED
      BY <1>0, <1>1, <2>1, NotWhole DEF NoAttempt
  <1>2. CASE TakeProblem
    <2>1. pc = "read" /\ streams[Now].queue # <<>> /\ streams' = Close(Take)
          /\ UNCHANGED <<client, acc, buffer>>
      BY <1>2 DEF TakeProblem, Taking
    <2>2. StreamsOK(streams')
      BY <2>1, Took
    <2>3. UNCHANGED out /\ pc' # "read" /\ how' # "complete"
      <3>1. CASE pc' = "sleep" /\ UNCHANGED <<how, out>>
        BY <1>0, <2>1, <3>1
      <3>2. CASE Exhausted(Item.kind)
        BY <2>1, <3>2, ExhaustedUnsaid
      <3>3. CASE Ends("error", <<>>)
        BY <3>3, EndsUnsaid
      <3> QED
        BY <1>2, <3>1, <3>2, <3>3 DEF TakeProblem
    <2> QED
      BY <2>1, <2>2, <2>3, NotWhole
  <1>3. CASE PostFails
    <2>1. PICK p \in Problems : streams' = Posted(<<Problem(p), End>>)
      BY <1>3 DEF PostFails
    <2>2. StreamsOK(streams')
      <3> DEFINE none == <<>>
                 body == none \o <<Problem(p)>>
                 sent == body \o <<End>>
                 x == [NewStream EXCEPT !.pc = "done", !.sent = sent]
      <3>1. body \in Seq(ReadTokens) /\ \A j \in 1..Len(body) : body[j] # End
        <4>1. none \in Seq(AnswerTokens) /\ 0 \in 0..Len(none) /\ SubSeq(none, 1, 0) = none
          OBVIOUS
        <4>2. <<Problem(p)>> \in {<<>>} \cup {<<Problem(r)>> : r \in Problems}
          OBVIOUS
        <4> HIDE DEF none
        <4>3. LET b == SubSeq(none, 1, 0) \o <<Problem(p)>> IN
              b \in Seq(ReadTokens) /\ \A j \in 1..Len(b) : b[j] # End
          BY <4>1, <4>2, AnswersEnd
        <4> QED
          BY <4>1, <4>3
      <3>2. body \o <<End>> = <<Problem(p), End>>
        <4> DEFINE y == Problem(p)
                   z == End
        <4>1. body = <<y>>
          OBVIOUS
        <4> HIDE DEF y, z, body
        <4> DEFINE u == <<y>> \o <<z>>
                   v == <<y, z>>
                   S == {y, z}
        <4>2. <<y>> \in Seq(S) /\ <<z>> \in Seq(S) /\ v \in Seq(S) /\ Len(v) = 2
              /\ v[1] = y /\ v[2] = z
          OBVIOUS
        <4> HIDE DEF S
        <4>3. u \in Seq(S) /\ Len(u) = 2 /\ u[1] = y /\ u[2] = z
          BY <4>2
        <4> HIDE DEF u, v
        <4>4. u = v
          BY <4>2, <4>3
        <4> QED
          BY <4>1, <4>4 DEF u, v, y, z
      <3> HIDE DEF body
      <3>3. /\ sent \in Seq(ReadTokens)
            /\ \A j \in 1..Len(sent) : sent[j] = End => j = Len(sent)
        BY <3>1, Ending
      <3>4. streams' = Append(streams, x)
        BY <2>1, <3>2 DEF Posted
      <3> HIDE DEF sent
      <3>5. x \in StreamRecords /\ Carries(x)
        BY <3>3, PostedStream
      <3> HIDE DEF x
      <3> QED
        BY <1>0, <3>4, <3>5, StreamAdded
    <2>3. CASE UNCHANGED <<pc, how, out>>
      BY <1>0, <1>3, <2>2, <2>3, NotWhole DEF PostFails
    <2>4. CASE Ends("raised", <<>>)
      BY <1>3, <2>2, <2>4, EndsUnsaid, NotWhole DEF PostFails
    <2> QED
      BY <1>3, <2>3, <2>4 DEF PostFails
  <1> QED
    BY <1>1, <1>2, <1>3, OpenWhole, TakeTextWhole, TakeFragmentWhole, TakeEndWhole,
       PostAnswersWhole DEF Generator

\* An abort gives nothing.
LEMMA AbortWhole == ASSUME Inv, WholeInv, Abort PROVE WholeInv'
  <1>1. StreamsOK(streams) /\ (pc = "read" => Now \in DOMAIN streams)
    BY DEF WholeInv, PartsTypeOK, StreamsOK
  <1>2. StreamsOK(streams')
    BY <1>1, Closed DEF Abort
  <1>3. UNCHANGED out /\ pc' = "ended" /\ how' = "aborted"
    BY EndsUnsaid DEF Abort
  <1> QED
    BY <1>2, <1>3, NotWhole DEF Abort

\* Nothing has been read or given at the start.
LEMMA InitWhole == Init => WholeInv
  <1> SUFFICES ASSUME Init PROVE WholeInv
    OBVIOUS
  <1>1. streams = <<>> /\ buffer = <<>> /\ out = <<>> /\ acc = [i \in Indices |-> <<>>]
        /\ pc = "start" /\ how = "none"
    BY DEF Init
  <1>2. acc \in [Indices -> Seq(Nat)] /\ \A i \in Indices : acc[i] = <<>>
    BY <1>1
  <1>3. PartsTypeOK /\ DOMAIN streams = {}
    BY <1>1, <1>2 DEF PartsTypeOK
  <1> QED
    BY <1>1, <1>2, <1>3 DEF WholeInv

\* Every step keeps WholeInv.
LEMMA NextWhole == Inv /\ WholeInv /\ [Next]_vars => WholeInv'
  <1> SUFFICES ASSUME Inv, WholeInv, [Next]_vars PROVE WholeInv'
    OBVIOUS
  <1>1. CASE ReaderStep
    BY <1>1, ReaderWhole DEF ReaderStep
  <1>2. CASE UNCHANGED vars
    <2>1. PartsTypeOK' /\ \A n : WholeOf(n)' <=> WholeOf(n)
      BY <1>2 DEF vars, WholeInv, PartsTypeOK, WholeOf
    <2> QED
      BY <1>2, <2>1 DEF vars, WholeInv, Assembles, Now
  <1> QED
    BY <1>1, <1>2, GeneratorWhole, AbortWhole DEF Next

(* Through the bounded queue, retries and the plain request, an answer that *)
(* is reported complete has all that the server sent, in its order, and the *)
(* fragments of each call in that call.                                     *)
THEOREM AnswersAreWhole == Spec => []WholeAnswer
  <1>1. WholeInv => WholeAnswer
    BY DEF WholeInv, WholeAnswer, WholeOf
  <1>2. Init => Inv /\ WholeInv
    BY InitInv, InitWhole
  <1>3. Inv /\ WholeInv /\ [Next]_vars => (Inv /\ WholeInv)'
    BY NextInv, NextWhole
  <1> QED
    BY <1>1, <1>2, <1>3, PTL DEF Spec
=============================================================================
