---------------------------- MODULE WireFormats ----------------------------
(***************************************************************************)
(* What a provider sees of a conversation: the request formats of the      *)
(* model clients (integrations/) and how the providers match the results   *)
(* of tool calls with the calls, by id, by the name of the function, or by *)
(* position.  A turn on the wire has a role, the labels of its calls and,  *)
(* if it carries a result, the label of the result.                        *)
(***************************************************************************)
EXTENDS Messages, FiniteSets

Turn(role, uses, result) == [role |-> role, uses |-> uses, result |-> result]

Formats == {"openai", "anthropic", "gemini", "ollama"}
WithoutIds == {"gemini", "ollama"}

\* OpenAICompatibleAdapter.to_wire_request: calls and results carry their ids,
\* a result without an id is not sent.
ToOpenAI(messages) ==
    LET sent == KeepIn(messages,
                       {m \in ToSet(messages) : m.role = "tool" => m.id # 0})
    IN  [i \in DOMAIN sent |->
            Turn(sent[i].role, sent[i].calls,
                 IF sent[i].role = "tool" THEN <<sent[i].id>> ELSE <<>>)]

\* AnthropicAdapter.messages: a result is a turn of the user.
ToAnthropic(messages) ==
    [i \in DOMAIN messages |->
        LET m == messages[i]
        IN  IF m.role = "tool" THEN Turn("user", <<>>, <<m.id>>)
            ELSE Turn(m.role, m.calls, <<>>)]

\* GeminiAdapter.contents: calls and results are labelled with the name of the
\* function, which name gives for each call id.
ToGemini(messages, name) ==
    [i \in DOMAIN messages |->
        LET m == messages[i]
        IN  IF m.role = "tool" THEN Turn("user", <<>>, <<name[m.id]>>)
            ELSE Turn(IF m.role = "assistant" THEN "model" ELSE "user",
                      [k \in DOMAIN m.calls |-> name[m.calls[k]]], <<>>)]

\* OllamaAdapter._serialise_message: a result has no label at all.
ToOllama(messages, name) ==
    [i \in DOMAIN messages |->
        LET m == messages[i]
        IN  Turn(m.role, [k \in DOMAIN m.calls |-> name[m.calls[k]]],
                 IF m.role = "tool" THEN <<"">> ELSE <<>>)]

Wire(format, messages, name) ==
    CASE format = "openai"    -> ToOpenAI(messages)
      [] format = "anthropic" -> ToAnthropic(messages)
      [] format = "gemini"    -> ToGemini(messages, name)
      [] format = "ollama"    -> ToOllama(messages, name)

-----------------------------------------------------------------------------
\* The turns the k-th call of turn i is answered by in the eyes of the provider
\* (external): the turns right after it with the label of the call, of which
\* the provider gives the first to the first such call.
AnswersTo(format, wire, i, k) ==
    LET uses    == wire[i].uses
        window  == (i + 1)..(i + Len(uses))
        matches == {j \in window : wire[j].result = <<uses[k]>>}
        earlier == Cardinality({h \in 1..(k - 1) : uses[h] = uses[k]})
    IN  IF format = "ollama" THEN {i + k}
        ELSE {j \in matches : Cardinality({h \in matches : h < j}) = earlier}

\* A provider that is sent the messages accepts them, every call having its
\* result right after it and every result its call, and takes each result for
\* that of the call it belongs to.
Understood(format, messages, name) ==
    LET wire    == Wire(format, messages, name)
        callers == {i \in DOMAIN wire : wire[i].uses # <<>>}
        Window(i) == (i + 1)..(i + Len(wire[i].uses))
    IN  /\ Len(wire) = Len(messages)
        /\ \A i \in callers :
              /\ \A j \in Window(i) : j \in DOMAIN wire /\ wire[j].result # <<>>
              /\ \A k \in DOMAIN wire[i].uses :
                    \E j \in Window(i) :
                       /\ AnswersTo(format, wire, i, k) = {j}
                       /\ messages[j].id = messages[i].calls[k]
        /\ \A j \in DOMAIN wire : wire[j].result # <<>> =>
              \E i \in callers : j \in Window(i)
=============================================================================
