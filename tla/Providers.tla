----------------------------- MODULE Providers -----------------------------
(***************************************************************************)
(* One chat completion of a model client (integrations/): the generator    *)
(* that the agent iterates over, the thread that reads the HTTP response   *)
(* into a queue, the retries, and the plain request that the clients for   *)
(* OpenAI-compatible servers fall back to.  Styles of clients:             *)
(*   openai     emits as it reads, retries until something was emitted     *)
(*   ollama     the same, without the plain request                        *)
(*   cohere     keeps what it reads until the answer has ended             *)
(*   anthropic  emits as it reads, never retries (a library does)          *)
(*   gemini     the same, and emits a tool call when it reads it, whole:   *)
(*              a fragment is a call there                                 *)
(* Parts of a text or of the arguments of a call are known by their places *)
(* in the answer; an answer is what the server would have sent had nothing *)
(* gone wrong.                                                             *)
(***************************************************************************)
EXTENDS Naturals, Sequences

CONSTANTS
  Clients,    \* configurations: a style and the number of attempts
  Answers,    \* answers of the model: sequences of parts
  QueueMax    \* _STREAM_QUEUE_MAXSIZE

Buffered == {"cohere"}
Direct   == {"anthropic", "gemini"}

Text(n)    == [kind |-> "text", index |-> 0, part |-> n]
Frag(i, n) == [kind |-> "frag", index |-> i, part |-> n]
End        == [kind |-> "end", index |-> 0, part |-> 0]
\* 503 and 429 ("busy"), 500 ("server"), a read that timed out, or anything else.
Problem(kind) == [kind |-> kind, index |-> 0, part |-> 0]
Problems == {"busy", "server", "timeout", "fatal"}

Indices == {1, 2}
AnswerTokens == [kind : {"text"}, index : {0}, part : Nat]
                  \cup [kind : {"frag"}, index : Indices, part : Nat]

ASSUME ProvidersAssumption ==
  /\ QueueMax \in Nat \ {0}
  /\ Clients \subseteq [style : {"openai", "ollama"} \cup Buffered \cup Direct, attempts : Nat]
  /\ Answers \subseteq Seq(AnswerTokens)

VARIABLES
  client,   \* the configuration
  streams,  \* the requests sent: what the server sends and how far the reader is
  pc,       \* where the generator is
  attempt,  \* tries so far of the loop the generator is in
  acc,      \* fragments of the tool calls, by index
  buffer,   \* events that wait for the end of the answer
  out,      \* events the agent was given
  how       \* how the completion ended

vars == <<client, streams, pc, attempt, acc, buffer, out, how>>

Init ==
  /\ client \in Clients
  /\ streams = <<>> /\ pc = "start" /\ attempt = 0
  /\ acc = [i \in Indices |-> <<>>] /\ buffer = <<>> /\ out = <<>> /\ how = "none"

Now == Len(streams)

\* The sequences of s, one after the other.
Flat(s) ==
  LET flat[k \in 0..Len(s)] == IF k = 0 THEN <<>> ELSE flat[k - 1] \o s[k]
  IN  flat[Len(s)]

Parts(kind, i, tokens) ==
  Flat([k \in DOMAIN tokens |->
          IF tokens[k].kind = kind /\ tokens[k].index = i THEN <<tokens[k].part>> ELSE <<>>])

\* Events: a text, a tool call with its fragments, each with its request.
TextEvent(n, parts)    == [kind |-> "text", from |-> n, index |-> 0, parts |-> parts]
CallEvent(n, i, parts) == [kind |-> "call", from |-> n, index |-> i, parts |-> parts]

\* The calls of accumulated fragments, in the order of their indices.
CallOf(n, i, fragments) ==
  IF fragments[i] = <<>> THEN <<>> ELSE <<CallEvent(n, i, fragments[i])>>
CallsOf(n, fragments) == CallOf(n, 1, fragments) \o CallOf(n, 2, fragments)

(***************************************************************************)
(* The reader: the thread of _stream_sse and _stream_ndjson.               *)
(***************************************************************************)
NewStream == [pc |-> "send", sent |-> <<>>, next |-> 1, queue |-> <<>>, cancelled |-> FALSE]

\* urlopen answers, or times out; the answer may break off anywhere, with or
\* without a problem that the reader notices.
Connect(n) ==
  /\ streams[n].pc = "send"
  /\ \E answer \in Answers : \E k \in 0..Len(answer) : \E e \in {<<>>} \cup {<<Problem(p)>> : p \in Problems} :
       streams' = [streams EXCEPT ![n].pc = "read",
                                  ![n].sent = SubSeq(answer, 1, k) \o e \o <<End>>]
  /\ UNCHANGED <<client, pc, attempt, acc, buffer, out, how>>

Full(n) == client.style \notin Buffered /\ Len(streams[n].queue) >= QueueMax

\* Mutant of Place: put_nowait drops what does not fit.
PlaceNoWait(n, token) ==
  streams' = [streams EXCEPT ![n].next = @ + 1,
                             ![n].queue = IF Full(n) /\ token # End THEN @ ELSE Append(@, token)]
\* _put_threadsafe: waits until the queue has room.
Place(n, token) ==
  /\ ~Full(n)
  /\ streams' = [streams EXCEPT ![n].next = @ + 1, ![n].queue = Append(@, token)]

Put(n) ==
  /\ streams[n].pc = "read" /\ ~streams[n].cancelled
  /\ streams[n].next <= Len(streams[n].sent)
  /\ Place(n, streams[n].sent[streams[n].next])
  /\ UNCHANGED <<client, pc, attempt, acc, buffer, out, how>>

\* Mutant of Stops: a put that waits for room does not look at the flag.
StopsUnlessFull(n) == streams[n].cancelled /\ ~Full(n)
\* Nobody wants the rest; the response is closed.
Stops(n) == streams[n].cancelled

ReaderEnds(n) ==
  /\ streams[n].pc = "read"
  /\ Stops(n) \/ streams[n].next > Len(streams[n].sent)
  /\ streams' = [streams EXCEPT ![n].pc = "done"]
  /\ UNCHANGED <<client, pc, attempt, acc, buffer, out, how>>

(***************************************************************************)
(* The generator: chat_completion around _stream_sse or _stream_ndjson.    *)
(***************************************************************************)
\* The stream is closed; the client for Cohere leaves its reader alone.
Close(s) == IF client.style \in Buffered THEN s ELSE [s EXCEPT ![Now].cancelled = TRUE]

Ends(outcome, events) == pc' = "ended" /\ how' = outcome /\ out' = out \o events

\* After the last attempt: the plain request after an error 500, or the error.
Exhausted(problem) ==
  IF client.style = "openai" /\ problem = "server"
  THEN pc' = "post" /\ attempt' = 0 /\ UNCHANGED <<how, out>>
  ELSE Ends("error", <<>>) /\ UNCHANGED attempt

Open ==
  /\ pc \in {"start", "sleep"} /\ attempt < client.attempts
  /\ streams' = Append(streams, NewStream) /\ pc' = "read" /\ attempt' = attempt + 1
  /\ acc' = [i \in Indices |-> <<>>] /\ buffer' = <<>>
  /\ UNCHANGED <<client, out, how>>

\* A loop over no attempts.
NoAttempt ==
  /\ pc = "start" /\ client.attempts = 0 /\ Exhausted("none")
  /\ UNCHANGED <<client, streams, acc, buffer>>

Item == streams[Now].queue[1]
Take == [streams EXCEPT ![Now].queue = Tail(@)]
Taking(kinds) == pc = "read" /\ streams[Now].queue # <<>> /\ Item.kind \in kinds

Emit(events) ==
  IF client.style \in Buffered THEN buffer' = buffer \o events /\ UNCHANGED out
  ELSE out' = out \o events /\ UNCHANGED buffer

TakeText ==
  /\ Taking({"text"}) /\ streams' = Take /\ Emit(<<TextEvent(Now, <<Item.part>>)>>)
  /\ UNCHANGED <<client, pc, attempt, acc, how>>

\* tool_calls_acc is keyed by the index of the fragment.
TakeFragment ==
  /\ Taking({"frag"}) /\ streams' = Take
  /\ IF client.style = "gemini"
     THEN Emit(<<CallEvent(Now, Item.index, <<Item.part>>)>>) /\ UNCHANGED acc
     ELSE acc' = [acc EXCEPT ![Item.index] = Append(@, Item.part)] /\ UNCHANGED <<buffer, out>>
  /\ UNCHANGED <<client, pc, attempt, how>>

Transient(problem) ==
  problem \in (IF client.style = "ollama" THEN {"busy", "server"} ELSE {"busy", "server", "timeout"})

\* Mutant of Retries: a problem is transient whatever was said before it.
RetriesAlways(problem) == client.style \notin Direct /\ Transient(problem)
\* A transient problem is retried as long as the agent was given nothing.
Retries(problem) == client.style \notin Direct /\ Transient(problem) /\ out = <<>>

TakeProblem ==
  /\ Taking(Problems) /\ streams' = Close(Take)
  /\ IF Retries(Item.kind)
     THEN IF attempt < client.attempts THEN pc' = "sleep" /\ UNCHANGED <<attempt, how, out>>
          ELSE Exhausted(Item.kind)
     ELSE Ends("error", <<>>) /\ UNCHANGED <<attempt>>
  /\ UNCHANGED <<client, acc, buffer>>

\* The end of the answer: the calls are emitted; an answer without any output
\* is asked for once more without streaming.
TakeEnd ==
  /\ Taking({"end"}) /\ streams' = Close(Take)
  /\ LET events == buffer \o CallsOf(Now, acc) IN
     IF client.style = "openai" /\ out \o events = <<>>
     THEN pc' = "post" /\ attempt' = 0 /\ UNCHANGED <<how, out>>
     ELSE Ends("complete", events) /\ UNCHANGED attempt
  /\ UNCHANGED <<client, acc, buffer>>

\* _non_stream_events and call_with_backoff: an exception leaves the generator.
Posted(tokens) == Append(streams, [NewStream EXCEPT !.pc = "done", !.sent = tokens])

PostAnswers ==
  /\ pc = "post" /\ attempt < client.attempts
  /\ \E answer \in Answers :
       LET n    == Now + 1
           text == Parts("text", 0, answer)
           frag == [i \in Indices |-> Parts("frag", i, answer)] IN
       /\ streams' = Posted(answer \o <<End>>)
       /\ Ends("complete", (IF text = <<>> THEN <<>> ELSE <<TextEvent(n, text)>>) \o CallsOf(n, frag))
  /\ attempt' = attempt + 1 /\ UNCHANGED <<client, acc, buffer>>

PostFails ==
  /\ pc = "post" /\ attempt < client.attempts
  /\ \E p \in Problems :
       /\ streams' = Posted(<<Problem(p), End>>) /\ attempt' = attempt + 1
       /\ IF p # "fatal" /\ attempt + 1 < client.attempts THEN UNCHANGED <<pc, how, out>>
          ELSE Ends("raised", <<>>)
  /\ UNCHANGED <<client, acc, buffer>>

\* The task of the turn is cancelled at any await.
Abort ==
  /\ pc # "ended" /\ Ends("aborted", <<>>)
  /\ streams' = IF pc = "read" THEN Close(streams) ELSE streams
  /\ UNCHANGED <<client, attempt, acc, buffer>>

Generator == Open \/ NoAttempt \/ TakeText \/ TakeFragment \/ TakeProblem \/ TakeEnd
               \/ PostAnswers \/ PostFails
Reader(n) == Connect(n) \/ Put(n) \/ ReaderEnds(n)
ReaderStep == \E n \in DOMAIN streams : Reader(n)
Next == Generator \/ ReaderStep \/ Abort

\* Sockets have timeouts, so that a read returns or raises, and the event loop
\* and the scheduler of the threads run what can run.
Spec == Init /\ [][Next]_vars /\ WF_vars(Generator) /\ WF_vars(ReaderStep)

-----------------------------------------------------------------------------
(***************************************************************************)
(* Properties.                                                             *)
(***************************************************************************)
\* The retry loops of the clients: whatever failed and was tried again, all that
\* the agent is ever given comes from one request.  It shows text at once and
\* runs the calls, so a second answer after part of a first one would be read
\* as one message.
OneAnswer == \A j, k \in DOMAIN out : out[j].from = out[k].from

Joined(kind, i, events) ==
  Flat([k \in DOMAIN events |->
          IF events[k].kind = kind /\ events[k].index = i THEN events[k].parts ELSE <<>>])

\* The queue and the accumulation of _stream_sse: an answer that is reported
\* complete has all the text and all the fragments of each call that the server
\* sent, in their order and none in another call.
WholeAnswer ==
  how = "complete" => \E n \in DOMAIN streams :
     /\ \A k \in DOMAIN out : out[k].from = n
     /\ Joined("text", 0, out) = Parts("text", 0, streams[n].sent)
     /\ \A i \in Indices : Joined("call", i, out) = Parts("frag", i, streams[n].sent)

\* _put_threadsafe and the finally of the generators: every completion ends, by an
\* answer, an error or an abort, and then every reader thread does, also one
\* that waits for room in the queue.
CompletionEnds == <>[](pc = "ended" /\ \A n \in DOMAIN streams : streams[n].pc = "done")
=============================================================================
