------------------------------ MODULE Messages ------------------------------
(***************************************************************************)
(* Conversation histories and the agent events they are made from:         *)
(* apply_events_to_messages (runtime/repl_state.py), sanitize_session_     *)
(* messages and prepare_messages_for_model (runtime/sessions.py),          *)
(* _history_safe_completed_events (runtime/turn_runner.py) and the         *)
(* compaction of a long history (context/compactor.py).  Tool calls        *)
(* are named by their call ids; texts and tool outputs are left out.  The  *)
(* events that only the user interface consumes (starts, deltas) leave no  *)
(* trace in a history and are left out as well.                            *)
(***************************************************************************)
EXTENDS Naturals, Sequences, SequencesExt

User == [role |-> "user", calls |-> <<>>, id |-> 0]
Assistant(calls) == [role |-> "assistant", calls |-> calls, id |-> 0]
ToolMessage(id) == [role |-> "tool", calls |-> <<>>, id |-> id]

\* Agent events: a model response with the ids of its tool calls and the token
\* usage the provider reported with it (named by the calls it was reported
\* with, <<>> for none), a tool result, a confirmation request, the end of a
\* turn with its reason, an error.
Event(kind, calls, usage, id, note) ==
    [kind |-> kind, calls |-> calls, usage |-> usage, id |-> id, note |-> note]
Response(calls, usage) == Event("response", calls, usage, 0, "")
Result(id, note) == Event("result", <<>>, <<>>, id, note)
Ask(id) == Event("ask", <<>>, <<>>, id, "")
Done(reason) == Event("done", <<>>, <<>>, 0, reason)
Error == Event("error", <<>>, <<>>, 0, "")

ResultIds(events) == {e.id : e \in {f \in ToSet(events) : f.kind = "result"}}

-----------------------------------------------------------------------------
\* The elements of a sequence that are in K, in their order.  (The function
\* makes TLC compute K once, and the one of ApplyEvents the events.)
KeepIn(s, K) ==
    LET keep[these \in {K}] ==
            LET kept[n \in 0..Len(s)] ==
                    IF n = 0 THEN <<>>
                    ELSE IF s[n] \in these THEN Append(kept[n - 1], s[n])
                    ELSE kept[n - 1]
            IN  kept[Len(s)]
    IN  keep[K]

\* apply_events_to_messages: a response is kept when each of its calls has a
\* result among the same events, a result is always kept.
ApplyEvents(history, events) ==
    LET Kept(e, done) ==
            \/ e.kind = "result"
            \/ e.kind = "response" /\ ToSet(e.calls) \subseteq done
        MessageOf(e) == IF e.kind = "response" THEN Assistant(e.calls)
                                               ELSE ToolMessage(e.id)
        applied[all \in {events}] ==
            LET kept == KeepIn(all, {e \in ToSet(all) : Kept(e, ResultIds(all))})
            IN  [i \in DOMAIN kept |-> MessageOf(kept[i])]
    IN  history \o applied[events]

\* _history_safe_completed_events: responses are narrowed to the calls that
\* have a result, with the whole usage, and dropped when none has; nothing is
\* kept of events without any result.
HistorySafe(events) ==
    LET done == ResultIds(events)
        Narrow(e) == [e EXCEPT !.calls = KeepIn(@, done)]
        Dropped(e) == /\ e.kind = "response"
                      /\ e.calls # <<>>
                      /\ Narrow(e).calls = <<>>
        kept == KeepIn(events, {e \in ToSet(events) : ~Dropped(e)})
    IN  IF done = {} THEN <<>> ELSE [i \in DOMAIN kept |-> Narrow(kept[i])]

\* Mutant of Sanitize: keeps tool messages without a preceding call.
SanitizeNothing(messages) == messages

\* sanitize_session_messages: a tool message survives only when an assistant
\* message before it made the call.
Sanitize(messages) ==
    LET Called(i) == UNION {ToSet(messages[j].calls) : j \in 1..(i - 1)}
        Kept(i) == messages[i].role = "tool" => messages[i].id \in Called(i)
        kept == KeepIn([i \in DOMAIN messages |-> i],
                       {i \in DOMAIN messages : Kept(i)})
    IN  [k \in DOMAIN kept |-> messages[kept[k]]]

\* prepare_messages_for_model: the sanitized history without the assistant
\* messages at its end that are text or lack a result.
PrepareForModel(messages) ==
    LET clean == Sanitize(messages)
        results == {m.id : m \in {n \in ToSet(clean) : n.role = "tool"}}
        Stripped(m) == /\ m.role = "assistant"
                       /\ \/ m.calls = <<>>
                          \/ ~(ToSet(m.calls) \subseteq results)
        stops == {i \in DOMAIN clean : ~Stripped(clean[i])}
    IN  SubSeq(clean, 1, IF stops = {} THEN 0
                         ELSE CHOOSE i \in stops : \A j \in stops : j <= i)

\* Mutant of SafeRecentStart: the boundary may fall between a call and its
\* result.
SafeRecentStartUnmoved(messages, start) == start

\* _safe_recent_start: how many messages come before the recent ones, fewer
\* than start when the boundary would separate a call from its results
SafeRecentStart(messages, start) ==
    CHOOSE i \in 0..start :
        /\ i = 0 \/ i = Len(messages) \/ messages[i + 1].role # "tool"
        /\ \A j \in (i + 1)..start :
              j # Len(messages) /\ messages[j + 1].role = "tool"

\* _drop_orphaned_leading_tools
DropLeadingTools(messages) ==
    LET first == SelectInSeq(messages, LAMBDA m : m.role # "tool")
    IN  IF first = 0 THEN <<>> ELSE SubSeq(messages, first, Len(messages))

\* compact_messages: the recent messages, and those of the older ones, at most
\* fit of them, that the limit has room for
CompactMessages(messages, keep, fit) ==
    LET start == SafeRecentStart(messages, Len(messages) - keep)
        from == IF fit > start THEN 0 ELSE start - fit
    IN  IF Len(messages) <= keep THEN messages
        ELSE DropLeadingTools(SubSeq(messages, from + 1, start))
             \o SubSeq(messages, start + 1, Len(messages))

\* ContextCompactor.compact: what comes before the recent messages is
\* summarised in the system prompt
Compact(messages, keep, fit) ==
    LET start == SafeRecentStart(messages,
                                 IF keep > Len(messages) THEN 0
                                 ELSE Len(messages) - keep)
    IN  CompactMessages(SubSeq(messages, start + 1, Len(messages)), keep, fit)

\* The agent warns the model of a loop it detects with a message after the
\* results of a batch.  The actions are not told apart here: a history where
\* every batch is followed by a warning.
Warned(messages) ==
    FlattenSeq([i \in DOMAIN messages |->
        IF messages[i].role = "tool"
           /\ (i = Len(messages) \/ messages[i + 1].role # "tool")
        THEN <<messages[i], User>> ELSE <<messages[i]>>])

-----------------------------------------------------------------------------
\* What the chat APIs ask of a conversation (external): the results of an
\* assistant message's calls follow it at once, one for each call, no call id
\* is used twice and no result comes without its call.
WellFormed(messages) ==
    LET Answers(i) == {j \in DOMAIN messages :
                          /\ j \in (i + 1)..(i + Len(messages[i].calls))
                          /\ messages[j].role = "tool"}
        callers == {i \in DOMAIN messages : messages[i].calls # <<>>}
    IN  /\ \A i \in callers :
              {messages[j].id : j \in Answers(i)} = ToSet(messages[i].calls)
        /\ \A i \in callers : IsInjective(messages[i].calls)
        /\ \A i, k \in callers : i # k =>
              ToSet(messages[i].calls) \cap ToSet(messages[k].calls) = {}
        /\ \A j \in DOMAIN messages : messages[j].role = "tool" =>
              \E i \in callers : j \in Answers(i)
=============================================================================
