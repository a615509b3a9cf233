------------------------------ MODULE Textual ------------------------------
(***************************************************************************)
(* The full-screen interface (ui/textual_app.py) around one running turn:  *)
(* the input line, the single slot in which a question waits for what the  *)
(* user types, the file previews whose buttons answer an approval too, the *)
(* abort command, and the way out of the application.                      *)
(*                                                                         *)
(* Three kinds of steps interleave on one event loop: handlers of user     *)
(* events (Submit, Type, Click, Abort, Quit), the task of the prompt, and  *)
(* the task `keyboard_task` that waits for a typed answer while a preview  *)
(* may answer first.  The loop is first-in first-out: a created task has   *)
(* made its first step before the task that created it is resumed.         *)
(***************************************************************************)
EXTENDS Naturals, Sequences, FiniteSets

CONSTANTS
    Keys,         \* _approval_request_key of the requests
    FileKeys,     \* those of file changes: they have a preview with buttons
    MaxPrompts,   \* bound: prompts of the user
    MaxRequests   \* bound: requests for consent

ASSUME TextualAssumption ==
    /\ FileKeys \subseteq Keys
    /\ {MaxPrompts, MaxRequests} \subseteq Nat

Valid == {"yes", "no"}             \* answers _ask_for_approval_response accepts
Answers == Valid \cup {"unclear"}

VARIABLES
    stage,     \* where the task of the prompt is
    task,      \* the task it works on; a number per new task
    prompts,   \* prompts so far
    history,   \* state.history, by task
    session,   \* state.session: messages, and the paused task (0: none)
    disk,      \* the saved session
    exited,    \* the application was left (_session_finalized)
    closed,    \* the event loop is closing: tasks were cancelled
    slot,      \* _pending_input is set
    keyboard,  \* the progress of keyboard_task, or of a clarification's ask
    dying,     \* a cancelled ask has not run its `finally` yet
    typed,     \* the answer typed
    click,     \* the result of the pending approval's future
    shown,     \* the requests rendered, by key
    open,      \* the rendered requests whose preview still has its buttons
    queued,    \* _queued_preview_approvals
    given,     \* the last response handed to the agent
    voice      \* auxiliary: what the user answered: prompt, key, answer

work == <<task, prompts, history, session, disk>>
asking == <<slot, keyboard, dying, typed, click>>
previews == <<shown, open, queued>>
exit == <<exited, closed>>
vars == <<stage, work, exit, asking, previews, given, voice>>

Stages == {"idle", "starting", "begun", "running", "shown", "asking",
           "closing", "unwinding", "question", "ended"}

\* current_turn_task is set: an abort finds something to cancel.
Abortable == stage \notin {"idle", "starting", "ended"}

Nothing == [prompt |-> 0, key |-> "", answer |-> ""]

Init ==
    /\ stage = "idle"
    /\ task = 0 /\ prompts = 0
    /\ history = <<>>
    /\ session = [messages |-> <<>>, paused |-> 0]
    /\ disk = session
    /\ exited = FALSE /\ closed = FALSE
    /\ slot = FALSE /\ dying = FALSE
    /\ keyboard = "none" /\ typed = "" /\ click = ""
    /\ shown = <<>> /\ open = {}
    /\ queued = [k \in Keys |-> ""]
    /\ given = Nothing
    /\ voice = {}

-----------------------------------------------------------------------------
(* Operators.                                                              *)

Key == shown[Len(shown)]       \* of the request being answered

\* _pending_approval is set, and this is its key.
Pending(k) == stage \in {"asking", "closing"} /\ k = Key

\* _file_preview_entry_for_request: the newest entry with the key.
Newest(k) == {i \in open : shown[i] = k /\ \A j \in DOMAIN shown :
                                                 shown[j] = k => j <= i}

\* _resolve_file_preview_approval after the entry is marked.
Delivered(k, a) ==
    IF Pending(k)
    THEN /\ click' = IF click = "" THEN a ELSE click
         /\ UNCHANGED queued
    ELSE /\ queued' = [queued EXCEPT ![k] = a]
         /\ UNCHANGED click

\* Mutant of StillQueued: a new turn keeps the queued answers.
StillQueuedAlways == queued

\* begin_turn_transcript: what remains queued when a turn begins.
StillQueued == [k \in Keys |-> ""]

\* Leaving _ask_for_approval_response with an answer.
Respond(a) ==
    /\ stage' = "running"
    /\ given' = [prompt |-> prompts, key |-> Key, answer |-> a]
    /\ open' = open \ Newest(Key)
    /\ keyboard' = "none" /\ typed' = "" /\ click' = ""

\* Mutant of Save: an interrupted turn is not written.
SaveNothing(s) == disk

\* SessionStore.save
Save(s) == s

\* CancelledError reaches _handle_prompt: the task is paused, its message
\* popped and the session saved.
Interrupted ==
    /\ stage' = "idle"
    /\ history' = SubSeq(history, 1, Len(history) - 1)
    /\ session' = [messages |-> history', paused |-> task]
    /\ disk' = Save(session')

-----------------------------------------------------------------------------
(* The user.                                                               *)

\* on_input_submitted while idle, and _handle_prompt up to its first await:
\* a paused task is consumed by every prompt, and resumed by "continue".
Submit(resume) ==
    /\ stage = "idle" /\ ~exited
    /\ prompts < MaxPrompts
    /\ resume => session.paused # 0
    /\ stage' = "starting"
    /\ prompts' = prompts + 1
    /\ task' = IF resume THEN session.paused ELSE prompts + 1
    /\ session' = [session EXCEPT !.paused = 0]
    /\ given' = Nothing
    /\ UNCHANGED <<history, disk, exit, asking, previews, voice>>

\* on_input_submitted while a question waits: the slot is emptied first, and
\* a text for a future that is done already goes nowhere.
Type(a) ==
    /\ slot /\ ~exited
    /\ slot' = FALSE
    /\ IF keyboard = "reading"
       THEN /\ keyboard' = "typed"
            /\ typed' = a
            /\ voice' = IF stage = "question" THEN voice
                        ELSE voice \cup {<<prompts, Key, a>>}
       ELSE UNCHANGED <<keyboard, typed, voice>>
    /\ UNCHANGED <<stage, work, exit, dying, click, previews, given>>

\* A button of the preview of request i.  The entry marked is the newest one
\* of the same key.
Click(i, a) ==
    /\ i \in open /\ ~exited
    /\ voice' = voice \cup {<<prompts, shown[i], a>>}
    /\ open' = open \ Newest(shown[i])
    /\ Delivered(shown[i], a)
    /\ UNCHANGED <<stage, work, exit, slot, keyboard, dying, typed, shown,
                   given>>

\* task.cancel() of the prompt's task.  Where it already waits for the
\* cancelled keyboard_task, `suppress(CancelledError)` swallows it.
Cancel ==
    \/ /\ stage \in {"begun", "running", "shown"}
       /\ Interrupted
       /\ UNCHANGED <<task, prompts, asking, given>>
    \/ /\ stage = "question"
       /\ slot' = FALSE /\ keyboard' = "none" /\ typed' = ""
       /\ Interrupted
       /\ UNCHANGED <<task, prompts, dying, click, given>>
    \/ /\ stage = "asking"
       /\ stage' = "unwinding"
       /\ UNCHANGED <<work, asking, given>>
    \/ /\ stage \in {"closing", "unwinding"}
       /\ UNCHANGED <<stage, work, asking, given>>

\* /abort: handle_abort and request_abort_current_turn.
Abort ==
    /\ Abortable /\ ~exited
    /\ Cancel
    /\ UNCHANGED <<exit, previews, voice>>

\* action_quit: finalize_session saves once, then the application exits
\* while a running turn goes on until the loop closes.
Quit ==
    /\ ~exited
    /\ exited' = TRUE
    /\ disk' = session
    /\ UNCHANGED <<stage, task, prompts, history, session, closed, asking,
                   previews, given, voice>>

\* The loop closes: every task is cancelled once.  A prompt that has not
\* begun its turn leaves without a trace.
CloseLoop ==
    /\ exited /\ ~closed
    /\ closed' = TRUE
    /\ \/ stage = "idle" /\ stage' = "ended"
          /\ UNCHANGED <<work, asking, given>>
       \/ stage = "starting" /\ stage' = "idle"
          /\ UNCHANGED <<work, asking, given>>
       \/ Cancel
    /\ UNCHANGED <<exited, previews, voice>>

End ==
    /\ closed /\ stage = "idle"
    /\ stage' = "ended"
    /\ UNCHANGED <<work, exit, asking, previews, given, voice>>

-----------------------------------------------------------------------------
(* The task of the prompt.                                                 *)

\* _emit_prompt_submit returned: the message is appended, begin_running_turn.
Begin ==
    /\ stage = "starting"
    /\ stage' = "begun"
    /\ history' = Append(history, task)
    /\ UNCHANGED <<task, prompts, session, disk, exit, asking, previews,
                   given, voice>>

\* AGENT_START of a new turn: begin_turn_transcript.
AgentStart ==
    /\ stage = "begun"
    /\ stage' = "running"
    /\ queued' = StillQueued
    /\ UNCHANGED <<work, exit, asking, shown, open, given, voice>>

\* CONFIRMATION_REQUESTED: _write_confirmation_request.
Show(k) ==
    /\ stage = "running"
    /\ Len(shown) < MaxRequests
    /\ stage' = "shown"
    /\ shown' = Append(shown, k)
    /\ open' = IF k \in FileKeys THEN open \cup {Len(shown) + 1} ELSE open
    /\ given' = Nothing
    /\ UNCHANGED <<work, exit, asking, queued, voice>>

\* _ask_for_approval_response: an answer given before the question, or the
\* keyboard is asked.
AskApproval ==
    /\ stage = "shown"
    /\ IF queued[Key] # ""
       THEN /\ queued' = [queued EXCEPT ![Key] = ""]
            /\ Respond(queued[Key])
       ELSE /\ stage' = "asking"
            /\ keyboard' = "created"
            /\ UNCHANGED <<typed, click, open, queued, given>>
    /\ UNCHANGED <<work, exit, slot, dying, shown, voice>>

KeyboardStart ==
    /\ keyboard = "created"
    /\ keyboard' = "reading"
    /\ slot' = TRUE
    /\ UNCHANGED <<stage, work, exit, dying, typed, click, previews, given,
                   voice>>

KeyboardDone ==
    /\ keyboard = "typed" /\ stage \in {"asking", "unwinding"}
    /\ keyboard' = "done"
    /\ slot' = FALSE
    /\ UNCHANGED <<stage, work, exit, dying, typed, click, previews, given,
                   voice>>

\* The `finally` of an ask that was cancelled clears the slot, whoever has it.
KeyboardCancelled ==
    /\ dying
    /\ dying' = FALSE
    /\ slot' = FALSE
    /\ UNCHANGED <<stage, work, exit, keyboard, typed, click, previews, given,
                   voice>>

\* The keyboard answered first.  An unclear answer asks again.
KeyboardFirst ==
    /\ stage = "asking" /\ keyboard = "done" /\ click = ""
    /\ IF typed \in Valid THEN Respond(typed)
       ELSE /\ keyboard' = "created" /\ typed' = ""
            /\ UNCHANGED <<stage, click, open, given>>
    /\ UNCHANGED <<work, exit, slot, dying, shown, queued, voice>>

\* Mutant of DropKeyboard: the cancelled task is not awaited.
DropKeyboardUnawaited ==
    /\ dying' = TRUE
    /\ Respond(click)

\* keyboard_task is cancelled and awaited before the answer counts.
DropKeyboard ==
    /\ dying' = TRUE
    /\ stage' = "closing"
    /\ keyboard' = "none" /\ typed' = ""
    /\ UNCHANGED <<click, open, given>>

\* The preview answered, alone or together with the keyboard.
PreviewFirst ==
    /\ stage = "asking" /\ click # "" /\ keyboard # "created"
    /\ IF keyboard = "done" THEN Respond(click) /\ UNCHANGED dying
       ELSE DropKeyboard
    /\ UNCHANGED <<work, exit, slot, shown, queued, voice>>

PreviewCounts ==
    /\ stage = "closing" /\ ~dying
    /\ Respond(click)
    /\ UNCHANGED <<work, exit, slot, dying, shown, queued, voice>>

\* The cancelled question: the `finally` of _ask_for_approval_response.
Unwind ==
    /\ stage = "unwinding" /\ keyboard \in {"reading", "typed"}
    /\ dying' = TRUE
    /\ keyboard' = "none" /\ typed' = "" /\ click' = ""
    /\ UNCHANGED <<stage, work, exit, slot, previews, given, voice>>

Unwound ==
    /\ stage = "unwinding" /\ keyboard \in {"none", "done"} /\ ~dying
    /\ Interrupted
    /\ keyboard' = "none" /\ typed' = "" /\ click' = ""
    /\ UNCHANGED <<task, prompts, exit, slot, dying, previews, given, voice>>

\* A clarification is asked by the prompt's task itself.
AskQuestion ==
    /\ stage = "running"
    /\ stage' = "question"
    /\ slot' = TRUE /\ keyboard' = "reading"
    /\ given' = Nothing
    /\ UNCHANGED <<work, exit, dying, typed, click, previews, voice>>

Clarified ==
    /\ stage = "question" /\ keyboard = "typed"
    /\ IF typed \in Valid
       THEN stage' = "running" /\ keyboard' = "none" /\ slot' = FALSE
       ELSE keyboard' = "reading" /\ slot' = TRUE /\ UNCHANGED stage
    /\ typed' = ""
    /\ UNCHANGED <<work, exit, dying, click, previews, given, voice>>

\* An approved change is made: absorb_approval_entries_for_request.
Complete ==
    /\ stage = "running" /\ given.answer = "yes"
    /\ open' = {i \in open : shown[i] # given.key}
    /\ given' = Nothing
    /\ UNCHANGED <<stage, work, exit, asking, shown, queued, voice>>

\* The turn ends: apply_events saves.
Finish ==
    /\ stage = "running"
    /\ stage' = "idle"
    /\ session' = [session EXCEPT !.messages = history]
    /\ disk' = session'
    /\ UNCHANGED <<task, prompts, history, exit, asking, previews, given,
                   voice>>

\* The turn raises: the message is popped, nothing is saved.
Fail ==
    /\ stage \in {"begun", "running"}
    /\ stage' = "idle"
    /\ history' = SubSeq(history, 1, Len(history) - 1)
    /\ UNCHANGED <<task, prompts, session, disk, exit, asking, previews,
                   given, voice>>

Keyboard == KeyboardStart \/ KeyboardDone \/ KeyboardCancelled

Asking ==
    \/ AskApproval \/ KeyboardFirst \/ PreviewFirst \/ PreviewCounts
    \/ Unwind \/ Unwound \/ Clarified

Turn ==
    \/ Begin \/ AgentStart \/ AskQuestion \/ Complete \/ Finish \/ Fail
    \/ \E k \in Keys : Show(k)

User ==
    \/ \E resume \in BOOLEAN : Submit(resume)
    \/ \E a \in Answers : Type(a)
    \/ \E i \in open, a \in Valid : Click(i, a)
    \/ Abort \/ Quit

Next == User \/ Turn \/ Asking \/ Keyboard \/ CloseLoop \/ End

Spec == Init /\ [][Next]_vars

\* The event loop runs every ready task, and the user answers what is asked.
FairSpec ==
    /\ Spec
    /\ WF_vars(Keyboard) /\ WF_vars(Asking)
    /\ SF_vars(\E a \in Valid : Type(a))

-----------------------------------------------------------------------------
(* Properties.                                                             *)

TypeOK ==
    /\ stage \in Stages
    /\ {task, prompts} \subseteq 0..MaxPrompts
    /\ history \in Seq(1..MaxPrompts)
    /\ {session, disk} \subseteq
         [messages : Seq(1..MaxPrompts), paused : 0..MaxPrompts]
    /\ {exited, closed, slot, dying} \subseteq BOOLEAN
    /\ keyboard \in {"none", "created", "reading", "typed", "done"}
    /\ typed \in Answers \cup {""} /\ click \in Valid \cup {""}
    /\ shown \in Seq(Keys) /\ open \subseteq DOMAIN shown
    /\ queued \in [Keys -> Valid \cup {""}]
    /\ voice \subseteq (0..MaxPrompts) \X Keys \X Answers

\* A response handed to the agent was given by the user to that very request
\* while the same prompt was worked on: a button pressed on the preview of an
\* interrupted task never answers for a later one (_ask_for_approval_response,
\* _resolve_file_preview_approval and begin_turn_transcript).
AnsweredNow ==
    given # Nothing => <<given.prompt, given.key, given.answer>> \in voice

\* A question on the screen is always answered in the end: the slot is not
\* cleared by the remains of an earlier question, and the turn does not wait
\* for a text that cannot be typed any more (ask, _ask_for_approval_response).
QuestionEnds ==
    stage \in {"asking", "closing", "unwinding"}
        ~> (stage \in {"running", "idle", "ended"} \/ exited)

\* Whatever was running when the application was left, the file finally holds
\* the conversation and the paused task as the program last knew them
\* (action_quit, finalize_session, the CancelledError of _handle_prompt).
LeftAsKnown == stage = "ended" => disk = session /\ session.messages = history
=============================================================================
