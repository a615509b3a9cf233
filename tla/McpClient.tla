----------------------------- MODULE McpClient -----------------------------
(***************************************************************************)
(* The client of one MCP server (tools/mcp.py): JSON-RPC over the pipes of *)
(* a child process.  Calls of read-only tools run side by side in the same *)
(* window of the agent's parallel scheduler and read one StreamReader;     *)
(* refreshes run between turns.  The stream is a sequence of tokens: with  *)
(* Content-Length framing a message is a head and a body, with line        *)
(* framing it is a line; a gap is the end of a head whose first line was   *)
(* read as part of the message before it.  A message is known by its id, 0 *)
(* for a notification.                                                     *)
(*                                                                         *)
(* The reader of asyncio lets one task wait for data; a second one that    *)
(* has to wait raises.  A body is taken by the task that read its head.    *)
(*                                                                         *)
(* Two things have no timeout: the drain after a request was written, when *)
(* the server does not read, and a call whose server keeps writing other   *)
(* messages, since each of them starts the timeout of the call again.      *)
(***************************************************************************)
EXTENDS Naturals, Sequences, SequencesExt

CONSTANTS
  Calls,     \* tool calls, each made once
  Refresh,   \* the task that refreshes the server
  None,      \* no task
  MaxRefreshes, MaxCrashes,  \* bounds
  MaxUnread  \* the tokens unread by the client below which the server writes a notification

Tasks == Calls \cup {Refresh}
ASSUME McpAssumption == Refresh \notin Calls /\ None \notin Tasks

VARIABLES
  speaks,    \* framings the server understands
  client,    \* MCPServerRuntime.client and its process
  stream,    \* what the client has not read yet of the server's output
  sending,   \* ids of the message whose body the server has still to write
  inbox,     \* requests the server has read and not answered
  waiter,    \* the task that waits for data of the stream, or None
  task,      \* the JSON-RPC call of each task
  phase,     \* what the refresh is doing
  adapters,  \* the client that the registered tools hold
  failed,    \* last_error is set
  answer,    \* the outcome of each call
  processes, \* auxiliary: child processes that run
  refreshes, crashes

wire == <<stream, sending, inbox, waiter>>
vars == <<speaks, client, wire, task, phase, adapters, failed, answer, processes,
          refreshes, crashes>>

Token(kind, id) == [kind |-> kind, id |-> id]

(***************************************************************************)
(* A task is idle, sends its request, reads, or waits for data.  half: it  *)
(* has read a head and not the body.  orphan: the call it reads for was    *)
(* cancelled.                                                              *)
(***************************************************************************)
IdleTask == [pc |-> "idle", request |-> 0, half |-> FALSE, orphan |-> FALSE]
Busy(p) == task[p].pc # "idle"

\* A call that somebody waits for.
Unanswered(c) == Busy(c) /\ ~task[c].orphan

NoClient == [number |-> 0, open |-> FALSE, alive |-> FALSE, framing |-> "headers", next |-> 1]

Init ==
  /\ speaks \in {{"headers"}, {"lines"}}
  /\ client = NoClient /\ stream = <<>> /\ sending = {} /\ inbox = {} /\ waiter = None
  /\ task = [p \in Tasks |-> IdleTask]
  /\ phase = "none" /\ adapters = 0 /\ failed = TRUE
  /\ answer = [c \in Calls |-> "none"]
  /\ processes = 0 /\ refreshes = 0 /\ crashes = 0

(***************************************************************************)
(* The server writes messages, whole or a head first, in any order; data   *)
(* wakes the task that waits for it.                                       *)
(***************************************************************************)
Wake == IF waiter = None THEN task ELSE [task EXCEPT ![waiter].pc = "read"]
Arrive(tokens) == stream' = stream \o tokens /\ task' = Wake /\ waiter' = None

Tokens(id) == IF client.framing = "headers" THEN <<Token("head", id), Token("body", id)>>
              ELSE <<Token("line", id)>>

ServerKeeps == UNCHANGED <<speaks, phase, adapters, failed, answer, refreshes>>

Write(id) ==
  /\ client.alive /\ sending = {}
  /\ \/ Arrive(Tokens(id)) /\ UNCHANGED sending
     \/ /\ client.framing = "headers"
        /\ Arrive(<<Token("head", id)>>) /\ sending' = {id}
  /\ UNCHANGED <<client, processes, crashes>> /\ ServerKeeps

Answer(id)  == id \in inbox /\ inbox' = inbox \ {id} /\ Write(id)
Notify      == Len(stream) < MaxUnread /\ Write(0) /\ UNCHANGED inbox
FinishBody  ==
  /\ client.alive /\ \E id \in sending : Arrive(<<Token("body", id)>>)
  /\ sending' = {}
  /\ UNCHANGED <<client, inbox, processes, crashes>> /\ ServerKeeps

Crash ==
  /\ client.alive /\ crashes < MaxCrashes /\ crashes' = crashes + 1
  /\ client' = [client EXCEPT !.alive = FALSE] /\ processes' = processes - 1
  /\ Arrive(<<>>) /\ UNCHANGED <<sending, inbox>> /\ ServerKeeps

(***************************************************************************)
(* Requests.                                                               *)
(***************************************************************************)
\* _rpc: a request of task p.  Its drain returns at once, or waits for a server
\* that does not read; what was written is on its way all the same.
Send(p, cl) ==
  /\ client' = [cl EXCEPT !.next = @ + 1]
  /\ inbox' = inbox \cup (IF cl.alive /\ cl.framing \in speaks THEN {cl.next} ELSE {})
  /\ \E pc \in {"read", "send"} :
       task' = [task EXCEPT ![p] = [IdleTask EXCEPT !.pc = pc, !.request = cl.next]]
  /\ UNCHANGED <<stream, sending, waiter>>

\* A new process, without any of what the last one left, asked to initialize.
Spawn(cl) ==
  /\ client' = [cl EXCEPT !.open = TRUE, !.alive = TRUE, !.next = 2]
  /\ processes' = processes - (IF client.alive THEN 1 ELSE 0) + 1
  /\ stream' = <<>> /\ sending' = {} /\ waiter' = None
  /\ inbox' = IF cl.framing \in speaks THEN {1} ELSE {}
  /\ task' = [p \in Tasks |-> IF p = Refresh THEN [IdleTask EXCEPT !.pc = "read", !.request = 1]
                              ELSE IdleTask]
\* Mutant of Respawn: the first process is left running.
RespawnWithoutClose(cl) ==
  /\ client' = [cl EXCEPT !.open = TRUE, !.alive = TRUE, !.next = 2]
  /\ processes' = processes + 1
  /\ stream' = <<>> /\ sending' = {} /\ waiter' = None
  /\ inbox' = IF cl.framing \in speaks THEN {1} ELSE {}
  /\ task' = [p \in Tasks |-> IF p = Refresh THEN [IdleTask EXCEPT !.pc = "read", !.request = 1]
                              ELSE IdleTask]
\* connect: once more with line framing, after closing.
Respawn(cl) == Spawn(cl)

NewClient == [NoClient EXCEPT !.number = client.number + 1]

\* MCPToolAdapter.execute, on the client the adapter was made with.
Call(c) ==
  /\ answer[c] = "none" /\ ~Busy(c) /\ phase = "none" /\ adapters # 0
  /\ IF adapters = client.number /\ client.open
     THEN Send(c, client) /\ UNCHANGED answer
     ELSE answer' = [answer EXCEPT ![c] = "failed"] /\ UNCHANGED <<client, wire, task>>
  /\ UNCHANGED <<speaks, phase, adapters, failed, processes, refreshes, crashes>>

(***************************************************************************)
(* How a request of p ends: a call has its outcome, the refresh goes on.   *)
(***************************************************************************)
Release(p) == waiter' = IF waiter = p THEN None ELSE waiter
Finish(p)  == task' = [task EXCEPT ![p] = IdleTask]

\* Mutant of Register: the tools registered before are left as they are.
RegisterNew == adapters' = (IF adapters = 0 THEN client.number ELSE adapters) /\ failed' = FALSE
\* _register_runtime_tools, after unregistering the tools of the server.
Register == adapters' = client.number /\ failed' = FALSE

GiveUp ==
  /\ client' = [client EXCEPT !.open = FALSE, !.alive = FALSE]
  /\ processes' = processes - (IF client.alive THEN 1 ELSE 0)
  /\ stream' = <<>> /\ sending' = {} /\ inbox' = {} /\ waiter' = None
  /\ task' = [p \in Tasks |-> IdleTask]
  /\ failed' = TRUE /\ phase' = "none" /\ UNCHANGED adapters

\* The answer of p's request was read; the rest of the stream is left.
Succeed(p, rest) ==
  /\ UNCHANGED <<speaks, processes, refreshes, crashes, sending>>
  /\ stream' = rest /\ Release(p)
  /\ IF p \in Calls
     THEN Finish(p) /\ answer' = [answer EXCEPT ![p] = "ok"]
          /\ UNCHANGED <<client, inbox, phase, adapters, failed>>
     ELSE /\ UNCHANGED answer
          /\ IF phase = "initialize"
             THEN /\ phase' = "listNew"
                  /\ client' = [client EXCEPT !.next = @ + 1]
                  /\ inbox' = inbox \cup (IF client.alive THEN {client.next} ELSE {})
                  /\ task' = [task EXCEPT ![p] = [IdleTask EXCEPT !.pc = "read", !.request = client.next]]
                  /\ UNCHANGED <<adapters, failed>>
             ELSE phase' = "none" /\ Finish(p) /\ Register /\ UNCHANGED <<client, inbox>>

\* The request of p failed; framed tells of an initialize that may be tried again.
Fail(p, framed, rest) ==
  /\ UNCHANGED <<speaks, refreshes, crashes>>
  /\ IF p \in Calls
     THEN /\ stream' = rest /\ Release(p) /\ Finish(p)
          /\ answer' = [answer EXCEPT ![p] = IF task[p].orphan THEN @ ELSE "failed"]
          /\ UNCHANGED <<client, sending, inbox, phase, adapters, failed, processes>>
     ELSE /\ UNCHANGED answer
          /\ CASE phase = "list" ->
                    Spawn(NewClient) /\ phase' = "initialize" /\ UNCHANGED <<adapters, failed>>
               [] phase = "initialize" /\ framed /\ client.framing = "headers" ->
                    Respawn([client EXCEPT !.framing = "lines"]) /\ UNCHANGED <<phase, adapters, failed>>
               [] OTHER -> GiveUp

(***************************************************************************)
(* Reading: _read_jsonrpc_message and the loop of _read_response around    *)
(* it, which drops a message with another id and reads on.                 *)
(***************************************************************************)
Mine(p, id) == id = task[p].request

Message(p, id, rest) ==
  IF task[p].orphan THEN Fail(p, FALSE, rest)   \* the orphan ends, nobody has its message
  ELSE IF Mine(p, id) THEN Succeed(p, rest)
  ELSE /\ stream' = rest /\ task' = [task EXCEPT ![p].half = FALSE]
       /\ UNCHANGED <<speaks, client, sending, inbox, waiter, phase, adapters, failed, answer,
                      processes, refreshes, crashes>>

\* A task that has read a head reads its body before another task reads.
Halved  == {p \in Tasks : Busy(p) /\ task[p].half}
Turn(p) == task[p].half \/ Halved = {} \/ stream = <<>>

\* A body that nobody took the head for has no end of line before the next head.
Available(p) ==
  /\ stream # <<>>
  /\ (~task[p].half /\ stream[1].kind = "body") => Len(stream) > 1 \/ ~client.alive

ReadHead(p) ==
  /\ stream' = Tail(stream) /\ task' = [task EXCEPT ![p].half = TRUE]
  /\ UNCHANGED <<speaks, client, sending, inbox, waiter, phase, adapters, failed, answer,
                 processes, refreshes, crashes>>

Read(p) ==
  /\ task[p].pc = "read" /\ Turn(p) /\ Available(p)
  /\ LET token == stream[1]  rest == Tail(stream) IN
     CASE task[p].half \/ token.kind = "line" \/ (token.kind = "body" /\ rest = <<>>) -> Message(p, token.id, rest)
       [] ~task[p].half /\ token.kind = "head" -> ReadHead(p)
       [] ~task[p].half /\ token.kind = "body" /\ rest # <<>> ->   \* two messages in one line
            Fail(p, FALSE, <<Token("gap", rest[1].id)>> \o Tail(rest))
       [] OTHER -> Fail(p, FALSE, rest)   \* a gap: no Content-Length

\* _write_message: the drain returns when the server has read, and raises or
\* returns when its process has ended.
Drained(p) ==
  /\ task[p].pc = "send" /\ task' = [task EXCEPT ![p].pc = "read"]
  /\ UNCHANGED <<speaks, client, stream, sending, inbox, waiter, phase, adapters, failed, answer,
                 processes, refreshes, crashes>>
BrokenPipe(p) == task[p].pc = "send" /\ ~client.alive /\ Fail(p, FALSE, stream)

\* Nothing to read: the end of the file, another task waits already, or wait.
Block(p) ==
  /\ task[p].pc = "read" /\ Turn(p) /\ ~Available(p)
  /\ IF ~client.alive THEN Fail(p, ~task[p].half, <<>>)
     ELSE IF waiter # None THEN Fail(p, FALSE, stream)
     ELSE /\ waiter' = p /\ task' = [task EXCEPT ![p].pc = "wait"]
          /\ UNCHANGED <<speaks, client, stream, sending, inbox, phase, adapters, failed, answer,
                         processes, refreshes, crashes>>

\* The reading task is cancelled; a head it has read is lost.
\* Mutant of TimedOut: a message that has begun is waited for.
TimedOutAtStart(p) == task[p].pc = "wait" /\ ~task[p].orphan /\ ~task[p].half
TimedOut(p) == task[p].pc = "wait" /\ ~task[p].orphan
Timeout(p) == TimedOut(p) /\ Fail(p, TRUE, stream)

\* The server complains on stderr about the framing of initialize.
Rejected ==
  /\ phase = "initialize" /\ client.framing = "headers" /\ "headers" \notin speaks
  /\ Fail(Refresh, TRUE, stream)

\* The turn is cancelled.  With head framing the call waits with asyncio.wait,
\* which leaves the reading task running; a call that drains has none.
Abort ==
  /\ \E c \in Calls : Unanswered(c)
  /\ LET running == {c \in Calls : Unanswered(c)}
         cut     == IF client.framing = "headers" THEN {c \in running : task[c].pc = "send"}
                    ELSE running IN
     /\ task' = [p \in Tasks |-> IF p \in cut THEN IdleTask
                                 ELSE [task[p] EXCEPT !.orphan = @ \/ p \in running]]
     /\ waiter' = IF waiter \in cut THEN None ELSE waiter
     /\ answer' = [c \in Calls |-> IF c \in running THEN "aborted" ELSE answer[c]]
  /\ UNCHANGED <<speaks, client, stream, sending, inbox, phase, adapters, failed, processes,
                 refreshes, crashes>>

\* refresh, at the start, by /mcp refresh, or of a new runtime by /mcp reload.
BeginRefresh ==
  /\ phase = "none" /\ refreshes < MaxRefreshes /\ refreshes' = refreshes + 1
  /\ \A c \in Calls : Busy(c) => task[c].orphan
  /\ IF client.open
     THEN phase' = "list" /\ Send(Refresh, client) /\ UNCHANGED processes
     ELSE phase' = "initialize" /\ Spawn(NewClient)
  /\ UNCHANGED <<speaks, adapters, failed, answer, crashes>>

Server == FinishBody \/ Notify \/ Crash \/ \E id \in inbox : Answer(id)
Step(p) == Read(p) \/ Block(p) \/ Timeout(p) \/ BrokenPipe(p)
Next == Server \/ BeginRefresh \/ Rejected \/ Abort
          \/ (\E c \in Calls : Call(c)) \/ \E p \in Tasks : Drained(p) \/ Step(p)

\* The event loop runs a task that can go on, and a timeout passes.  Nothing is
\* assumed of the server, which need not even read what it is sent (Drained), and
\* nothing makes a user abort or refresh.
Spec == Init /\ [][Next]_vars /\ \A p \in Tasks : WF_vars(Step(p))
-----------------------------------------------------------------------------
(***************************************************************************)
(* Properties.                                                             *)
(***************************************************************************)
TypeOK ==
  /\ client \in [number : Nat, open : BOOLEAN, alive : BOOLEAN, framing : {"headers", "lines"}, next : Nat]
  /\ task \in [Tasks -> [pc : {"idle", "send", "read", "wait"}, request : Nat, half : BOOLEAN, orphan : BOOLEAN]]
  /\ waiter \in Tasks \cup {None} /\ adapters \in Nat /\ processes \in Nat /\ failed \in BOOLEAN
  /\ phase \in {"none", "list", "initialize", "listNew"}

\* refresh and refresh_mcp_server_tools: after a refresh that reports no error the
\* registered tools hold the client that is connected, however often the server
\* was replaced by a new process.
AdapterCurrent == (phase = "none" /\ ~failed) => client.open /\ adapters = client.number

\* connect, _list_tools and close: retries of initialize, reconnections and
\* refreshes that fail never leave a second process of the server behind, nor
\* one without a client that could close it.
NoStrayProcess == processes <= (IF client.open THEN 1 ELSE 0)

\* The server writes no notification any more.  One that never stops keeps a
\* call for ever: _read_response waits anew after each message that is not its own.
ServerQuiet == <>[][~Notify]_vars

\* The request of the call was written: its drain has returned.
RequestWritten(c) == Unanswered(c) /\ task[c].pc # "send"

\* _read_response waits for each message with a timeout: a call whose request was
\* written ends, whether the server answers, stops in the middle of a message,
\* crashes or says nothing, and whoever else reads, once the server has stopped
\* writing messages that nobody asked for.
CallsEnd == ServerQuiet => \A c \in Calls : RequestWritten(c) ~> ~Unanswered(c)
=============================================================================
