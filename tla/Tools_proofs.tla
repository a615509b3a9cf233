---------------------------- MODULE Tools_proofs ---------------------------
(***************************************************************************)
(* What holds of two of the agent's tools for every value of their         *)
(* constants: the client of an MCP server and the tools that change files. *)
(*                                                                         *)
(* The MCP client: the processes it leaves behind and the client its       *)
(* registered tools hold.  The child process is counted exactly, and one   *)
(* that runs belongs to a client that is open.  For the adapters the       *)
(* invariant adds that a refresh under way works on an open client, and    *)
(* that between refreshes nobody reads for one: otherwise a late answer    *)
(* could register the tools of a client that was closed.                   *)
(*                                                                         *)
(* The workspace: what the model knows of the files and what the user was  *)
(* shown of a change.  Nothing is assumed of how a snippet or a hunk finds *)
(* its place (Transaction, ApplyHunks): the diff and the write are made by *)
(* the same function, and a patch of several files is followed file by     *)
(* file, through those it fails in.                                        *)
(***************************************************************************)
EXTENDS McpClient, Workspace, FiniteSetTheorems, WellFoundedInduction, TLAPS

-----------------------------------------------------------------------------
TaskRecord == [pc : {"idle", "send", "read", "wait"}, request : Nat, half : BOOLEAN,
               orphan : BOOLEAN]

\* One running process for a client that is alive, none otherwise.
Counted ==
  /\ processes \in Int
  /\ processes = (IF client.alive THEN 1 ELSE 0)
  /\ client.alive => client.open

\* A refresh works on an open client, and a task waits only while it reads.
Refreshing ==
  /\ phase \in {"none", "list", "initialize", "listNew"}
  /\ phase # "none" => client.open
  /\ phase = "none" => task[Refresh].pc = "idle"
  /\ waiter # None => waiter \in Tasks /\ task[waiter].pc = "wait"

ClientRecord == [number : Nat, open : BOOLEAN, alive : BOOLEAN,
                 framing : {"headers", "lines"}, next : Nat]

Inv ==
  /\ client \in ClientRecord
  /\ task \in [Tasks -> TaskRecord]
  /\ failed \in BOOLEAN
  /\ Counted /\ Refreshing /\ AdapterCurrent

\* What the record of a task may be changed to.
LEMMA TaskFields ==
    ASSUME NEW r \in TaskRecord
    PROVE  /\ [r EXCEPT !.pc = "read"] \in TaskRecord
           /\ [r EXCEPT !.pc = "wait"] \in TaskRecord
           /\ [r EXCEPT !.pc = "wait"].pc = "wait"
           /\ \A h \in BOOLEAN : /\ [r EXCEPT !.half = h] \in TaskRecord
                                 /\ [r EXCEPT !.half = h].pc = r.pc
           /\ \A o \in BOOLEAN : /\ [r EXCEPT !.orphan = o] \in TaskRecord
                                 /\ [r EXCEPT !.orphan = o].pc = r.pc
  BY DEF TaskRecord

LEMMA InitInv == Init => Inv
<1> SUFFICES ASSUME Init PROVE Inv
  OBVIOUS
<1> USE DEF Init, NoClient, IdleTask
<1>1. client \in ClientRecord /\ task \in [Tasks -> TaskRecord] /\ failed \in BOOLEAN
  BY DEF ClientRecord, TaskRecord
<1>2. Counted
  BY DEF Counted
<1>3. Refreshing
  BY DEF Refreshing, Tasks
<1>4. AdapterCurrent
  BY DEF AdapterCurrent
<1>5. QED
  BY <1>1, <1>2, <1>3, <1>4 DEF Inv

\* Data that arrives only makes the waiting task read.
LEMMA ArriveKeeps ==
    ASSUME Inv, NEW tokens, Arrive(tokens), UNCHANGED <<client, phase>>
    PROVE  /\ task' \in [Tasks -> TaskRecord]
           /\ phase = "none" => task'[Refresh].pc = "idle"
           /\ waiter' = None
<1> USE McpAssumption DEF Inv, Arrive, Wake, Refreshing
<1>1. Refresh \in Tasks
  BY DEF Tasks
<1>2. CASE waiter = None
  BY <1>2
<1>3. CASE waiter # None
  <2>1. task' = [task EXCEPT ![waiter].pc = "read"]
    BY <1>3
  <2>2. task' \in [Tasks -> TaskRecord]
    <3>1. [task[waiter] EXCEPT !.pc = "read"] \in TaskRecord
      BY <1>3, TaskFields
    <3>2. task' = [task EXCEPT ![waiter] = [task[waiter] EXCEPT !.pc = "read"]]
      BY <2>1
    <3>3. QED
      BY <3>1, <3>2
  <2>3. phase = "none" => waiter # Refresh
    BY <1>3
  <2>4. QED
    BY <1>1, <2>1, <2>2, <2>3
<1>4. QED
  BY <1>2, <1>3

\* What the server does changes no client but to end its process.
LEMMA ServerInv == ASSUME Inv, Server PROVE Inv'
<1> USE McpAssumption
<1> DEFINE Quiet == UNCHANGED <<phase, adapters, failed>>
<1>1. ASSUME NEW tokens, Arrive(tokens), UNCHANGED <<client, processes>>, Quiet
      PROVE Inv'
  <2>1. /\ task' \in [Tasks -> TaskRecord]
        /\ phase = "none" => task'[Refresh].pc = "idle"
        /\ waiter' = None
    BY <1>1, ArriveKeeps
  <2>2. QED
    BY <1>1, <2>1 DEF Inv, Counted, Refreshing, AdapterCurrent
<1>2. ASSUME NEW id, Write(id) PROVE Inv'
  <2>1. UNCHANGED <<client, processes>> /\ Quiet
    BY <1>2 DEF Write, ServerKeeps
  <2>2. \E tokens : Arrive(tokens)
    BY <1>2 DEF Write
  <2>3. QED
    BY <1>1, <2>1, <2>2
<1>3. CASE \E id \in inbox : Answer(id)
  BY <1>2, <1>3 DEF Answer
<1>4. CASE Notify
  BY <1>2, <1>4 DEF Notify
<1>5. CASE FinishBody
  BY <1>1, <1>5 DEF FinishBody, ServerKeeps
<1>6. CASE Crash
  <2>1. /\ client.alive /\ Quiet /\ Arrive(<<>>)
        /\ client' = [client EXCEPT !.alive = FALSE]
        /\ processes' = processes - 1
    BY <1>6 DEF Crash, ServerKeeps
  <2>2. /\ client' \in ClientRecord
        /\ ~client'.alive /\ client'.open = client.open
        /\ client'.number = client.number
    BY <2>1 DEF Inv, ClientRecord
  <2>3. /\ task' \in [Tasks -> TaskRecord]
        /\ phase = "none" => task'[Refresh].pc = "idle"
        /\ waiter' = None
    BY <2>1 DEF Inv, Arrive, Wake, Refreshing, Tasks, TaskRecord
  <2>4. Counted'
    BY <2>1, <2>2 DEF Inv, Counted
  <2>5. QED
    BY <2>1, <2>2, <2>3, <2>4 DEF Inv, Refreshing, AdapterCurrent
<1>7. QED
  BY <1>3, <1>4, <1>5, <1>6 DEF Server

\* A new process takes the place of the client's last one.
LEMMA SpawnInv ==
    ASSUME Inv, NEW cl \in ClientRecord, Spawn(cl),
           phase' = "initialize", UNCHANGED <<adapters, failed>>
    PROVE  Inv'
<1> USE McpAssumption DEF Inv, Spawn
<1>1. client' \in ClientRecord /\ client'.open /\ client'.alive
  BY DEF ClientRecord
<1>2. task' \in [Tasks -> TaskRecord]
  BY DEF IdleTask, TaskRecord
<1>3. Counted'
  BY <1>1 DEF Counted, ClientRecord
<1>4. Refreshing'
  BY <1>1 DEF Refreshing
<1>5. AdapterCurrent'
  BY DEF AdapterCurrent
<1>6. QED
  BY <1>1, <1>2, <1>3, <1>4, <1>5

LEMMA GiveUpInv == ASSUME Inv, GiveUp PROVE Inv'
<1> USE McpAssumption DEF Inv, GiveUp
<1>1. client' \in ClientRecord /\ ~client'.open /\ ~client'.alive
  BY DEF ClientRecord
<1>2. task' \in [Tasks -> TaskRecord] /\ task'[Refresh].pc = "idle"
  BY DEF IdleTask, TaskRecord, Tasks
<1>3. Counted'
  BY <1>1 DEF Counted, ClientRecord
<1>4. QED
  BY <1>1, <1>2, <1>3 DEF Refreshing, AdapterCurrent

\* A request that does not end the process of the client, of a task that is not
\* the refresh between two refreshes.
LEMMA SendInv ==
    ASSUME Inv, NEW p \in Tasks, task[p].pc = "idle", Send(p, client),
           UNCHANGED <<adapters, failed, processes>>,
           \/ phase' = phase /\ p # Refresh
           \/ phase' = "list" /\ client.open
    PROVE  Inv'
<1> USE McpAssumption DEF Inv, Send
<1>1. /\ client' \in ClientRecord /\ client'.open = client.open
      /\ client'.alive = client.alive /\ client'.number = client.number
  BY DEF ClientRecord
<1>2. task' \in [Tasks -> TaskRecord] /\ \A q \in Tasks \ {p} : task'[q] = task[q]
  <2>1. PICK pc \in {"read", "send"} :
          task' = [task EXCEPT ![p] = [IdleTask EXCEPT !.pc = pc, !.request = client.next]]
    OBVIOUS
  <2>2. [IdleTask EXCEPT !.pc = pc, !.request = client.next] \in TaskRecord
    BY DEF IdleTask, TaskRecord, ClientRecord
  <2>3. QED
    BY <2>1, <2>2
<1>3. Counted'
  BY <1>1 DEF Counted
<1>4. QED
  BY <1>1, <1>2, <1>3 DEF Refreshing, AdapterCurrent, Tasks

\* Reading on: nothing of the client changes, and the record of p does not begin
\* to read.
LEMMA ReadOn ==
    ASSUME Inv, NEW p \in Tasks, NEW r \in TaskRecord, task' = [task EXCEPT ![p] = r],
           r.pc = task[p].pc, UNCHANGED <<client, phase, adapters, failed, processes, waiter>>
    PROVE  Inv'
<1> USE McpAssumption DEF Inv
<1>1. task' \in [Tasks -> TaskRecord] /\ \A q \in Tasks : task'[q].pc = task[q].pc
  OBVIOUS
<1>2. Refresh \in Tasks
  BY DEF Tasks
<1>3. Refreshing'
  BY <1>1, <1>2 DEF Refreshing
<1>4. QED
  BY <1>1, <1>3 DEF Counted, AdapterCurrent

\* The request of p ends and p is idle again.
LEMMA Ended ==
    ASSUME Inv, NEW p \in Tasks, Finish(p), Release(p),
           UNCHANGED <<client, processes, phase, adapters, failed>>
    PROVE  Inv'
<1> USE McpAssumption DEF Inv, Finish, Release
<1>1. IdleTask \in TaskRecord /\ IdleTask.pc = "idle"
  BY DEF IdleTask, TaskRecord
<1>2. /\ task' \in [Tasks -> TaskRecord]
      /\ \A q \in Tasks : task'[q] = IF q = p THEN IdleTask ELSE task[q]
  BY <1>1
<1>3. Refreshing'
  BY <1>1, <1>2 DEF Refreshing, Tasks
<1>4. QED
  BY <1>2, <1>3 DEF Counted, AdapterCurrent

\* A refresh that reads and has no phase is not there.
LEMMA RefreshReads == ASSUME Inv, Busy(Refresh) PROVE phase # "none" /\ client.open
  BY DEF Inv, Refreshing, Busy

LEMMA SucceedInv ==
    ASSUME Inv, NEW p \in Tasks, Busy(p), NEW rest, Succeed(p, rest)
    PROVE  Inv'
<1> USE McpAssumption
<1>1. CASE p \in Calls
  BY <1>1, Ended DEF Succeed
<1>2. CASE p = Refresh /\ phase = "initialize"
  <2>1. /\ phase' = "listNew" /\ client' = [client EXCEPT !.next = @ + 1]
        /\ task' = [task EXCEPT ![Refresh] = [IdleTask EXCEPT !.pc = "read", !.request = client.next]]
        /\ UNCHANGED <<adapters, failed, processes>> /\ Release(Refresh)
    BY <1>2 DEF Succeed, Tasks
  <2>2. /\ client' \in ClientRecord /\ client'.open = client.open
        /\ client'.alive = client.alive /\ client.next \in Nat
    BY <2>1 DEF Inv, ClientRecord
  <2>3. [IdleTask EXCEPT !.pc = "read", !.request = client.next] \in TaskRecord
    BY <2>2 DEF IdleTask, TaskRecord
  <2>4. task' \in [Tasks -> TaskRecord] /\ \A q \in Tasks \ {Refresh} : task'[q] = task[q]
    BY <2>1, <2>3 DEF Inv
  <2>5. client.open
    BY <1>2, RefreshReads
  <2>6. Counted' /\ AdapterCurrent'
    BY <2>1, <2>2 DEF Inv, Counted, AdapterCurrent
  <2>7. Refreshing'
    BY <2>1, <2>2, <2>4, <2>5 DEF Inv, Refreshing, Release
  <2>8. QED
    BY <2>1, <2>2, <2>4, <2>6, <2>7 DEF Inv
<1>3. CASE p = Refresh /\ phase # "initialize"
  <2>1. /\ phase' = "none" /\ Finish(Refresh) /\ adapters' = client.number /\ failed' = FALSE
        /\ UNCHANGED <<client, processes>> /\ Release(Refresh)
    BY <1>3 DEF Succeed, Register, Tasks
  <2>2. client.open
    BY <1>3, RefreshReads
  <2>3. IdleTask \in TaskRecord /\ IdleTask.pc = "idle"
    BY DEF IdleTask, TaskRecord
  <2>4. /\ task' \in [Tasks -> TaskRecord]
        /\ \A q \in Tasks : task'[q] = IF q = Refresh THEN IdleTask ELSE task[q]
    BY <2>1, <2>3 DEF Inv, Finish
  <2>5. Refreshing'
    BY <2>1, <2>2, <2>3, <2>4 DEF Inv, Refreshing, Release, Tasks
  <2>6. QED
    BY <2>1, <2>2, <2>4, <2>5 DEF Inv, Counted, AdapterCurrent
<1>4. QED
  BY <1>1, <1>2, <1>3 DEF Tasks

LEMMA ClientFields ==
    ASSUME NEW r \in ClientRecord
    PROVE  /\ [r EXCEPT !.framing = "lines"] \in ClientRecord
           /\ [NoClient EXCEPT !.number = r.number + 1] \in ClientRecord
<1>1. [r EXCEPT !.framing = "lines"] \in ClientRecord
  BY DEF ClientRecord
<1>2. r.number + 1 \in Nat
  BY DEF ClientRecord
<1>3. ASSUME NEW n \in Nat PROVE [NoClient EXCEPT !.number = n] \in ClientRecord
  BY DEF NoClient, ClientRecord
<1>4. QED
  BY <1>1, <1>2, <1>3

LEMMA NewClientRecord ==
    ASSUME Inv
    PROVE  /\ NewClient \in ClientRecord
           /\ [client EXCEPT !.framing = "lines"] \in ClientRecord
  BY ClientFields DEF Inv, NewClient

LEMMA FailInv ==
    ASSUME Inv, NEW p \in Tasks, NEW framed, NEW rest, Fail(p, framed, rest)
    PROVE  Inv'
<1> USE McpAssumption
<1>1. CASE p \in Calls
  BY <1>1, Ended DEF Fail
<1>2. CASE p \notin Calls
  <2>1. \/ Spawn(NewClient) /\ phase' = "initialize" /\ UNCHANGED <<adapters, failed>>
        \/ /\ phase = "initialize" /\ UNCHANGED <<phase, adapters, failed>>
           /\ Respawn([client EXCEPT !.framing = "lines"])
        \/ GiveUp
    BY <1>2 DEF Fail
  <2>2. QED
    BY <2>1, SpawnInv, NewClientRecord, GiveUpInv DEF Respawn
<1>3. QED
  BY <1>1, <1>2

LEMMA MessageInv ==
    ASSUME Inv, NEW p \in Tasks, Busy(p), NEW id, NEW rest, Message(p, id, rest)
    PROVE  Inv'
<1>1. CASE Fail(p, FALSE, rest)
  BY <1>1, FailInv
<1>2. CASE Succeed(p, rest)
  BY <1>2, SucceedInv
<1>3. CASE /\ task' = [task EXCEPT ![p].half = FALSE]
           /\ UNCHANGED <<client, phase, adapters, failed, processes, waiter>>
  <2>1. task[p] \in TaskRecord
    BY DEF Inv
  <2>2. task' = [task EXCEPT ![p] = [task[p] EXCEPT !.half = FALSE]]
    BY <1>3
  <2>3. QED
    BY <1>3, <2>1, <2>2, TaskFields, ReadOn
<1>4. QED
  BY <1>1, <1>2, <1>3 DEF Message

\* The drain returned: the task that was sending reads.
LEMMA DrainedInv == ASSUME Inv, NEW p \in Tasks, Drained(p) PROVE Inv'
<1> USE McpAssumption
<1>1. /\ task[p].pc = "send" /\ task' = [task EXCEPT ![p].pc = "read"]
      /\ UNCHANGED <<client, phase, adapters, failed, processes, waiter>>
  BY DEF Drained
<1>2. task[p] \in TaskRecord /\ [task[p] EXCEPT !.pc = "read"] \in TaskRecord
  BY TaskFields DEF Inv
<1>3. task' = [task EXCEPT ![p] = [task[p] EXCEPT !.pc = "read"]]
  BY <1>1
<1>4. /\ task' \in [Tasks -> TaskRecord]
      /\ \A q \in Tasks \ {p} : task'[q] = task[q]
  BY <1>2, <1>3 DEF Inv
<1>5. Refreshing'
  BY <1>1, <1>4 DEF Inv, Refreshing, Tasks
<1>6. QED
  BY <1>1, <1>4, <1>5 DEF Inv, Counted, AdapterCurrent

LEMMA StepInv == ASSUME Inv, NEW p \in Tasks, Step(p) PROVE Inv'
<1>1. CASE Read(p)
  <2>1. Busy(p)
    BY <1>1 DEF Read, Busy
  <2>2. \/ \E id, rest : Message(p, id, rest)
        \/ ReadHead(p)
        \/ \E rest : Fail(p, FALSE, rest)
    BY <1>1 DEF Read
  <2>3. CASE ReadHead(p)
    <3>1. task[p] \in TaskRecord
      BY DEF Inv
    <3>2. task' = [task EXCEPT ![p] = [task[p] EXCEPT !.half = TRUE]]
      BY <2>3 DEF ReadHead
    <3>3. QED
      BY <2>3, <3>1, <3>2, TaskFields, ReadOn DEF ReadHead
  <2>4. QED
    BY <2>1, <2>2, <2>3, MessageInv, FailInv
<1>2. CASE Block(p)
  <2>1. \/ \E framed, rest : Fail(p, framed, rest)
        \/ /\ waiter' = p /\ task' = [task EXCEPT ![p].pc = "wait"]
           /\ UNCHANGED <<client, phase, adapters, failed, processes>>
    BY <1>2 DEF Block
  <2>2. ASSUME waiter' = p, task' = [task EXCEPT ![p].pc = "wait"],
               UNCHANGED <<client, phase, adapters, failed, processes>>
        PROVE  Inv'
    <3>1. /\ [task[p] EXCEPT !.pc = "wait"] \in TaskRecord
          /\ [task[p] EXCEPT !.pc = "wait"].pc = "wait"
      BY TaskFields DEF Inv
    <3>2. task' = [task EXCEPT ![p] = [task[p] EXCEPT !.pc = "wait"]]
      BY <2>2
    <3>3. /\ task' \in [Tasks -> TaskRecord] /\ task'[p].pc = "wait"
          /\ \A q \in Tasks \ {p} : task'[q] = task[q]
      BY <3>1, <3>2 DEF Inv
    <3>4. task[p].pc = "read"
      BY <1>2 DEF Block
    <3>5. Refreshing'
      BY <2>2, <3>3, <3>4 DEF Inv, Refreshing, Tasks
    <3>6. QED
      BY <2>2, <3>3, <3>5 DEF Inv, Counted, AdapterCurrent
  <2>3. QED
    BY <2>1, <2>2, FailInv
<1>3. CASE Timeout(p)
  BY <1>3, FailInv DEF Timeout
<1>4. CASE BrokenPipe(p)
  BY <1>4, FailInv DEF BrokenPipe
<1>5. QED
  BY <1>1, <1>2, <1>3, <1>4 DEF Step

LEMMA AbortInv == ASSUME Inv, Abort PROVE Inv'
<1> DEFINE running == {c \in Calls : Unanswered(c)}
           cut == IF client.framing = "headers" THEN {c \in running : task[c].pc = "send"}
                  ELSE running
           left(q) == [task[q] EXCEPT !.orphan = @ \/ q \in running]
<1> USE McpAssumption
<1>1. /\ task' = [q \in Tasks |-> IF q \in cut THEN IdleTask ELSE left(q)]
      /\ waiter' = IF waiter \in cut THEN None ELSE waiter
      /\ UNCHANGED <<client, phase, adapters, failed, processes>>
  BY DEF Abort
<1>2. IdleTask \in TaskRecord
  BY DEF IdleTask, TaskRecord
<1>3. ASSUME NEW q \in Tasks PROVE left(q) \in TaskRecord /\ left(q).pc = task[q].pc
  <2>1. task[q] \in TaskRecord
    BY DEF Inv
  <2>2. (task[q].orphan \/ q \in running) \in BOOLEAN
    BY <2>1 DEF TaskRecord
  <2>3. QED
    BY <2>1, <2>2, TaskFields, Zenon
<1>4. cut \subseteq Calls
  OBVIOUS
<1> HIDE DEF running, cut, left
<1>5. /\ task' \in [Tasks -> TaskRecord]
      /\ \A q \in Tasks \ cut : task'[q].pc = task[q].pc
  BY <1>1, <1>2, <1>3
<1>6. Refreshing'
  BY <1>1, <1>4, <1>5 DEF Inv, Refreshing, Tasks
<1>7. QED
  BY <1>1, <1>5, <1>6 DEF Inv, Counted, AdapterCurrent

LEMMA NextInv == Inv /\ [Next]_vars => Inv'
<1> SUFFICES ASSUME Inv, [Next]_vars PROVE Inv'
  OBVIOUS
<1> USE McpAssumption
<1>1. CASE Server
  BY <1>1, ServerInv
<1>2. CASE BeginRefresh
  <2>1. CASE client.open
    <3>1. task[Refresh].pc = "idle"
      BY <1>2 DEF Inv, Refreshing, BeginRefresh
    <3>2. QED
      BY <1>2, <2>1, <3>1, SendInv DEF BeginRefresh, Tasks
  <2>2. CASE ~client.open
    BY <1>2, <2>2, SpawnInv, NewClientRecord DEF BeginRefresh
  <2>3. QED
    BY <2>1, <2>2
<1>3. CASE Rejected
  BY <1>3, FailInv DEF Rejected, Tasks
<1>4. CASE Abort
  BY <1>4, AbortInv
<1>5. ASSUME NEW c \in Calls, Call(c) PROVE Inv'
  <2>1. task[c].pc = "idle" /\ c \in Tasks /\ c # Refresh
    BY <1>5 DEF Call, Busy, Tasks
  <2>2. CASE Send(c, client)
    BY <1>5, <2>1, <2>2, SendInv DEF Call
  <2>3. CASE UNCHANGED <<client, wire, task>>
    BY <1>5, <2>3 DEF Call, wire, Inv, Counted, Refreshing, AdapterCurrent
  <2>4. QED
    BY <1>5, <2>2, <2>3 DEF Call
<1>6. CASE \E p \in Tasks : Drained(p) \/ Step(p)
  BY <1>6, DrainedInv, StepInv
<1>7. CASE UNCHANGED vars
  BY <1>7 DEF vars, wire, Inv, Counted, Refreshing, AdapterCurrent
<1>8. QED
  BY <1>1, <1>2, <1>3, <1>4, <1>5, <1>6, <1>7 DEF Next

THEOREM InvHolds == Spec => []Inv
<1>1. QED
  BY InitInv, NextInv, PTL DEF Spec

\* No reconnection, framing retry or failed refresh leaves a process behind
\* (MCPClient.connect, MCPServerRuntime._list_tools, close).
THEOREM OneProcess == Spec => []NoStrayProcess
<1>1. Inv => NoStrayProcess
  BY DEF Inv, Counted, ClientRecord, NoStrayProcess
<1>2. QED
  BY <1>1, InvHolds, PTL

\* After a refresh without an error the registered tools hold the client that
\* is connected (MCPServerRuntime.refresh, _register_runtime_tools).
THEOREM AdaptersHoldTheClient == Spec => []AdapterCurrent
<1>1. Inv => AdapterCurrent
  BY DEF Inv
<1>2. QED
  BY <1>1, InvHolds, PTL

-----------------------------------------------------------------------------
(* Every nonempty set of naturals has a least element.                     *)
LEMMA Least ==
    ASSUME NEW S \in SUBSET Nat, S # {}
    PROVE  \E m \in S : \A k \in S : m <= k
  <1> DEFINE T == {1..n : n \in S}
  <1>1. T \subseteq FiniteSubsetsOf(Nat) /\ T # {}
    <2>1. ASSUME NEW n \in S PROVE 1..n \in FiniteSubsetsOf(Nat)
      <3>1. IsFiniteSet(1..n) /\ 1..n \in SUBSET Nat
        BY FS_Interval
      <3> QED
        BY <3>1 DEF FiniteSubsetsOf
    <2> QED
      BY <2>1
  <1>2. \E v \in T : \A w \in T : ~(<<w, v>> \in StrictSubsetOrdering(Nat))
    BY <1>1, WFMin, FS_StrictSubsetOrderingWellFounded
  <1>3. PICK m \in S : \A k \in S : ~(<<1..k, 1..m>> \in StrictSubsetOrdering(Nat))
    BY <1>2
  <1>4. ASSUME NEW k \in S, ~(m <= k) PROVE FALSE
    <2>1. 1..k \subseteq 1..m /\ m \in 1..m /\ m \notin 1..k
      BY <1>4
    <2>2. 1..k # 1..m /\ 1..k \in SUBSET Nat /\ 1..m \in SUBSET Nat
      BY <2>1
    <2>3. <<1..k, 1..m>> \in StrictSubsetOrdering(Nat)
      BY <2>1, <2>2 DEF StrictSubsetOrdering
    <2> QED
      BY <1>3, <2>3
  <1> QED
    BY <1>4

(* What holds of 0 and passes from each number to the next holds up to n.  *)
LEMMA Climb ==
    ASSUME NEW n \in Nat, NEW G, 0 \in G, \A m \in 1..n : m - 1 \in G => m \in G
    PROVE  0..n \subseteq G
  <1> SUFFICES ASSUME (0..n) \ G # {} PROVE FALSE
    OBVIOUS
  <1>1. PICK m \in (0..n) \ G : \A k \in (0..n) \ G : m <= k
    <2>1. (0..n) \ G \in SUBSET Nat
      OBVIOUS
    <2> QED
      BY <2>1, Least
  <1>2. m # 0 /\ m - 1 \in 0..n /\ m \in 1..n
    OBVIOUS
  <1> QED
    BY <1>1, <1>2

\* The tools that change files.
Changing == {"edit", "write_file", "insert_edit", "apply_patch"}

\* A call works on a file of the workspace or carries a sequence of patches.
Proposed(req) ==
    /\ req.tool \in Changing
    /\ req.tool # "apply_patch" => req.path \in Files
    /\ Len(req.patch) \in Nat /\ DOMAIN req.patch = 1..Len(req.patch)

\* What an edit makes of a file with this content, unless it fails.
Edited(content, req) ==
    IF content = Absent /\ req.old # req.new THEN req.new
    ELSE Transaction(content, req).lines

\* The preview is of the change the call makes of the file shown in it.
PreviewOfCall ==
    preview.shown =>
        /\ call.tool = "edit" => preview.new = Edited(preview.old, call)
        /\ call.tool = "write_file" => preview.new = call.new

WorkInv ==
    /\ files = [p \in Files |-> files[p]]
    /\ seen = [p \in Files |-> seen[p]]
    /\ SeenIsCurrent
    /\ stage = "asked" => Proposed(call) /\ PreviewOfCall

(* Each request the model makes is for a file of the workspace.            *)
LEMMA RequestsProposed ==
    /\ \A p \in Files : \A req \in WriteRequests(p) \cup EditRequests(p)
                                    \cup InsertRequests(p) : Proposed(req)
    /\ \A p \in Files : Proposed([NoCall EXCEPT !.tool = "edit", !.path = p,
                                                  !.new = <<NewLine>>])
    /\ \A req \in PatchRequests : Proposed(req)
  <1> DEFINE Simple(req) == /\ req.tool \in {"edit", "write_file", "insert_edit"}
                            /\ req.path \in Files
                            /\ req.patch = <<>>
  <1>0. ASSUME NEW req, Simple(req) PROVE Proposed(req)
    <2>1. Len(<<>>) = 0 /\ DOMAIN <<>> = 1..0
      OBVIOUS
    <2> QED
      BY <1>0, <2>1 DEF Proposed, Changing
  <1>1. ASSUME NEW p \in Files PROVE
            /\ \A req \in WriteRequests(p) : Proposed(req)
            /\ \A req \in EditRequests(p) : Proposed(req)
            /\ \A req \in InsertRequests(p) : Proposed(req)
            /\ Proposed([NoCall EXCEPT !.tool = "edit", !.path = p,
                                          !.new = <<NewLine>>])
    <2>1. \A req \in WriteRequests(p) : Simple(req)
      BY DEF WriteRequests, NoCall
    <2>2. \A req \in EditRequests(p) : Simple(req)
      <3> DEFINE Olds == Snippets(p) \cup {Dedented(s) : s \in Snippets(p)}
                            \cup {<<>>}
                 News == {<<>>, <<NewLine>>}
                 Request(old, new, all) ==
                     [NoCall EXCEPT !.tool = "edit", !.path = p, !.old = old,
                                      !.new = new, !.all = all]
      <3>1. EditRequests(p) = {Request(old, new, all) :
                                    old \in Olds, new \in News, all \in BOOLEAN}
        BY DEF EditRequests
      <3>2. \A old, new, all : Simple(Request(old, new, all))
        BY DEF NoCall
      <3> HIDE DEF Olds, News, Simple, Request
      <3> QED
        BY <3>1, <3>2
    <2>3. \A req \in InsertRequests(p) : Simple(req)
      <3> DEFINE Anchors == {<<>>} \cup {<<seen[p][i]>> : i \in DOMAIN seen[p]}
                 Segments == {<<top, bottom>> : top, bottom \in Anchors}
                    \cup {<<top, <<NewLine>>, bottom>> : top, bottom \in Anchors}
                    \cup {<<code>> : code \in Snippets(p)}
      <3>1. InsertRequests(p) =
               {[NoCall EXCEPT !.tool = "insert_edit", !.path = p,
                                 !.segments = s] : s \in Segments}
        BY DEF InsertRequests
      <3> HIDE DEF Segments
      <3> QED
        BY <3>1 DEF NoCall
    <2>4. Simple([NoCall EXCEPT !.tool = "edit", !.path = p, !.new = <<NewLine>>])
      BY DEF NoCall
    <2> HIDE DEF Simple
    <2> QED
      BY <1>0, <2>1, <2>2, <2>3, <2>4
  <1>2. ASSUME NEW req \in PatchRequests PROVE Proposed(req)
    <2>1. \E s : /\ req = [NoCall EXCEPT !.tool = "apply_patch", !.patch = s]
                 /\ \E x, y : s = <<x>> \/ s = <<x, y>>
      <3>1. PICK s \in PatchSequences :
                req = [NoCall EXCEPT !.tool = "apply_patch", !.patch = s]
        BY DEF PatchRequests
      <3> DEFINE usable == {p \in Files : seen[p] # Unknown}
                 patches == UNION {FilePatches(p) : p \in usable}
                 double == {<<f, SomePatch(q)>> : f \in patches, q \in usable}
      <3>2. \/ s \in {<<f>> : f \in patches}
            \/ s \in {d \in double : d[1].new # d[2].new}
        BY DEF PatchSequences
      <3> HIDE DEF patches, usable
      <3>3. \E x, y : s = <<x>> \/ s = <<x, y>>
        BY <3>2
      <3> QED
        BY <3>1, <3>3
    <2>2. PICK s : /\ req = [NoCall EXCEPT !.tool = "apply_patch", !.patch = s]
                   /\ \E x, y : s = <<x>> \/ s = <<x, y>>
      BY <2>1
    <2>3. req.tool = "apply_patch" /\ req.patch = s
      BY <2>2 DEF NoCall
    <2>4. Len(s) \in Nat /\ DOMAIN s = 1..Len(s)
      BY <2>2
    <2> QED
      BY <2>3, <2>4 DEF Proposed, Changing
  <1> QED
    BY <1>1, <1>2

(* The preview of a request is made from the file as it is.                *)
LEMMA PreviewShows ==
    ASSUME NEW req, Ask(req), Proposed(req)
    PROVE  (stage = "asked" => Proposed(call) /\ PreviewOfCall)'
  <1>1. call' = req /\ preview' = Preview(req) /\ files' = files
    BY DEF Ask
  <1>2. ASSUME Preview(req).shown, req.tool = "edit"
        PROVE  Preview(req).new = Edited(Preview(req).old, req)
    <2>1. CASE req.old # <<>> /\ req.old = req.new
      BY <1>2, <2>1 DEF Preview, NoPreview
    <2>2. CASE req.old # req.new /\ files[req.path] = Absent
      BY <1>2, <2>2 DEF Preview, Diff, Edited
    <2>3. CASE /\ ~(req.old # <<>> /\ req.old = req.new)
               /\ ~(req.old # req.new /\ files[req.path] = Absent)
      <3>1. Preview(req) = IF Transaction(files[req.path], req).strategy = "none"
                             THEN NoPreview
                             ELSE Diff(files[req.path],
                                         Transaction(files[req.path], req).lines)
        BY <1>2, <2>3 DEF Preview
      <3> QED
        BY <1>2, <2>3, <3>1 DEF NoPreview, Diff, Edited
    <2> QED
      BY <2>1, <2>2, <2>3
  <1>3. ASSUME req.tool = "write_file" PROVE Preview(req).new = req.new
    BY <1>3 DEF Preview, Diff
  <1> QED
    BY <1>1, <1>2, <1>3 DEF PreviewOfCall

(* A patch leaves the files outside its patch alone, and all files   *)
(* if no file of it could be patched.                                 *)
LEMMA PatchSpares ==
    ASSUME NEW req, Proposed(req), req.tool = "apply_patch",
           files = [p \in Files |-> files[p]]
    PROVE  LET result == ExecutePatch(req)
           IN  /\ result.files = [p \in Files |-> result.files[p]]
               /\ \A p \in Files \ AffectedPaths(req) :
                     result.files[p] = files[p]
               /\ result.patched = 0 => result.files = files
  <1> DEFINE N == Len(req.patch)
             base == Result(FALSE, 0, files)
             Next1(acc, n) == PatchFile(acc, req.patch[n])
             Builds(f, k) == f = [n \in 0..k |-> IF n = 0 THEN base
                                                ELSE Next1(f[n - 1], n)]
             affected == AffectedPaths(req)
             OfPatch(acc) ==
                 /\ acc.patched \in Nat
                 /\ acc.files = [p \in Files |-> acc.files[p]]
                 /\ \A p \in Files \ affected : acc.files[p] = files[p]
                 /\ acc.patched = 0 => acc.files = files
  <1>1. N \in Nat /\ DOMAIN req.patch = 1..N
    BY DEF Proposed
  <1>2. OfPatch(base)
    BY DEF Result
  <1>3. ASSUME NEW acc, OfPatch(acc), NEW n \in 1..N PROVE OfPatch(Next1(acc, n))
    <2> DEFINE fp == req.patch[n]
               p == Target(IF fp.new = DevNull THEN fp.old ELSE fp.new, 1)
               fs == acc.files
               Done(lines) == Result(acc.error, acc.patched + 1,
                                       [fs EXCEPT ![p] = lines])
               Refused == Result(TRUE, acc.patched, fs)
    <2>1. p \in affected
      BY <1>1 DEF AffectedPaths, ToSet
    <2>2. ASSUME NEW lines PROVE OfPatch(Done(lines))
      <3>1. /\ Done(lines).patched = acc.patched + 1
            /\ Done(lines).files = [fs EXCEPT ![p] = lines]
        BY DEF Result
      <3>2. /\ fs = [q \in Files |-> fs[q]]
            /\ \A q \in Files \ affected : fs[q] = files[q]
            /\ acc.patched \in Nat
        BY <1>3
      <3> DEFINE new == Done(lines)
      <3> HIDE DEF fs, p, affected, new
      <3>3. /\ new.files = [q \in Files |-> new.files[q]]
            /\ \A q \in Files \ affected : new.files[q] = files[q]
        BY <2>1, <3>1, <3>2 DEF new
      <3>4. new.patched \in Nat /\ new.patched # 0
        BY <3>1, <3>2 DEF new
      <3>5. OfPatch(new)
        BY <3>3, <3>4
      <3> HIDE DEF OfPatch
      <3> QED
        BY <3>5 DEF new
    <2>3. OfPatch(Refused)
      <3>1. Refused.patched = acc.patched /\ Refused.files = fs
        BY DEF Result
      <3> DEFINE new == Refused
      <3> HIDE DEF affected, new
      <3>2. OfPatch(new)
        BY <1>3, <3>1 DEF new
      <3> HIDE DEF OfPatch
      <3> QED
        BY <3>2 DEF new
    <2>4. \/ \E lines : Next1(acc, n) = Done(lines)
          \/ Next1(acc, n) = Refused
      <3> DEFINE patched == ApplyHunks(acc.files[p], fp.hunks)
                 added == AddedLines(fp.hunks)
      <3>1. Next1(acc, n) =
              CASE fp.old = DevNull ->
                      IF acc.files[p] = Absent THEN Done(added) ELSE Refused
                [] fp.old # DevNull /\ acc.files[p] = Absent -> Refused
                [] fp.new = DevNull /\ acc.files[p] # Absent -> Done(Absent)
                [] OTHER -> IF patched.ok THEN Done(patched.lines) ELSE Refused
        BY DEF PatchFile
      <3> HIDE DEF Next1, Done, Refused, patched, p, fp, added, fs
      <3>2. CASE fp.old = DevNull
        BY <3>1, <3>2
      <3>3. CASE fp.old # DevNull /\ acc.files[p] = Absent
        BY <3>1, <3>3
      <3>4. CASE fp.old # DevNull /\ fp.new = DevNull /\ acc.files[p] # Absent
        BY <3>1, <3>4
      <3>5. CASE fp.old # DevNull /\ fp.new # DevNull /\ acc.files[p] # Absent
        BY <3>1, <3>5
      <3> QED
        BY <3>2, <3>3, <3>4, <3>5
    <2> HIDE DEF Next1, Done, Refused, OfPatch
    <2> QED
      BY <2>2, <2>3, <2>4
  <1> DEFINE patched == CHOOSE f : Builds(f, N)
  <1>4. Builds(patched, N)
    <2> DEFINE G == {k \in Nat : \E f : Builds(f, k)}
    <2>1. 0 \in G
      <3>1. Builds([n \in 0..0 |-> base], 0)
        OBVIOUS
      <3> QED
        BY <3>1
    <2>2. ASSUME NEW m \in 1..N, m - 1 \in G PROVE m \in G
      <3>1. PICK f : Builds(f, m - 1)
        BY <2>2
      <3> DEFINE g == [n \in 0..m |-> IF n = m THEN Next1(f[m - 1], m) ELSE f[n]]
      <3>2. Builds(g, m)
        <4> HIDE DEF base, Next1, N
        <4>1. \A n \in 0..(m - 1) : f[n] = IF n = 0 THEN base ELSE Next1(f[n - 1], n)
          BY <3>1
        <4>2. \A n \in 0..m : g[n] = IF n = 0 THEN base ELSE Next1(g[n - 1], n)
          BY <4>1, <1>1 DEF N
        <4>3. g = [n \in 0..m |-> g[n]]
          OBVIOUS
        <4> HIDE DEF g
        <4> QED
          BY <4>2, <4>3
      <3> HIDE DEF Builds, g
      <3>3. m \in Nat /\ \E h : Builds(h, m)
        BY <1>1, <3>2
      <3> QED
        BY <3>3
    <2>3. N \in G
      <3> HIDE DEF G, Builds
      <3>1. 0..N \subseteq G
        BY <1>1, <2>1, <2>2, Climb
      <3> QED
        BY <1>1, <3>1
    <2> HIDE DEF Builds
    <2> QED
      BY <2>3
  <1>5. ExecutePatch(req) = patched[N]
    BY DEF ExecutePatch
  <1>6. OfPatch(patched[N])
    <2> DEFINE G == {k \in Nat : k <= N => OfPatch(patched[k])}
    <2> HIDE DEF patched, base, Next1, OfPatch, N
    <2>0. \A n \in 0..N : patched[n] = IF n = 0 THEN base ELSE Next1(patched[n - 1], n)
      BY <1>4
    <2>1. 0 \in G
      BY <1>1, <1>2, <2>0
    <2>2. ASSUME NEW m \in 1..N, m - 1 \in G PROVE m \in G
      BY <1>1, <1>3, <2>0, <2>2
    <2>3. 0..N \subseteq G
      <3> HIDE DEF G
      <3> QED
        BY <1>1, <2>1, <2>2, Climb
    <2> QED
      BY <1>1, <2>3
  <1> QED
    BY <1>5, <1>6


(* What a call leaves of the files: those the result shows anew may have   *)
(* changed, the others have not.                                           *)
LEMMA ExecuteSpares ==
    ASSUME NEW req, Proposed(req), files = [p \in Files |-> files[p]]
    PROVE  LET result == Execute(req)
           IN  /\ result.files = [p \in Files |-> result.files[p]]
               /\ \A p \in Files \ Refreshed(req, result) :
                     result.files[p] = files[p]
  <1> DEFINE result == Execute(req)
             Spares(r) ==
                 /\ r.files = [p \in Files |-> r.files[p]]
                 /\ \A p \in Files \ AffectedPaths(req) : r.files[p] = files[p]
                 /\ r.error /\ r.patched = 0 => r.files = files
  <1>1. Spares(Failed)
    BY DEF Failed, Result
  <1>2. ASSUME NEW lines, req.tool # "apply_patch"
        PROVE  Spares(Wrote(req.path, lines))
    <2>1. AffectedPaths(req) = {req.path} /\ req.path \in Files
      BY <1>2 DEF AffectedPaths, Proposed
    <2> QED
      BY <2>1 DEF Wrote, Result
  <1>3. Spares(result)
    <2> HIDE DEF Spares
    <2>1. CASE req.tool = "edit"
      <3>1. result = ExecuteEdit(req)
        BY <2>1 DEF Execute
      <3>2. \/ result = Failed
            \/ \E lines : result = Wrote(req.path, lines)
        <4>1. CASE req.old # <<>> /\ req.old = req.new
          BY <3>1, <4>1 DEF ExecuteEdit
        <4>2. CASE req.old # req.new /\ files[req.path] = Absent
          BY <3>1, <4>2 DEF ExecuteEdit
        <4>3. CASE /\ ~(req.old # <<>> /\ req.old = req.new)
                   /\ ~(req.old # req.new /\ files[req.path] = Absent)
          <5> DEFINE edit == Transaction(files[req.path], req)
          <5>1. result = IF edit.strategy = "none" THEN Failed
                         ELSE Wrote(req.path, edit.lines)
            BY <3>1, <4>3 DEF ExecuteEdit
          <5> HIDE DEF edit
          <5> QED
            BY <5>1
        <4> QED
          BY <4>1, <4>2, <4>3
      <3> QED
        BY <1>1, <1>2, <2>1, <3>2
    <2>2. CASE req.tool = "write_file"
      BY <1>2, <2>2 DEF Execute
    <2>3. CASE req.tool = "insert_edit"
      <3>1. result = ExecuteInsert(req)
        BY <2>3 DEF Execute
      <3>2. \/ result = Failed
            \/ \E lines : result = Wrote(req.path, lines)
        <4> DEFINE edit == Inserted(files[req.path], req.segments)
                   flat == FlattenSeq(req.segments)
        <4>1. result = IF files[req.path] = Absent THEN Wrote(req.path, flat)
                       ELSE IF edit.ok THEN Wrote(req.path, edit.lines)
                            ELSE Failed
          BY <3>1 DEF ExecuteInsert
        <4> HIDE DEF edit, flat
        <4> QED
          BY <4>1
      <3> QED
        BY <1>1, <1>2, <2>3, <3>2
    <2>4. CASE req.tool = "apply_patch"
      <3>1. result = ExecutePatch(req)
        BY <2>4 DEF Execute
      <3> QED
        BY <2>4, <3>1, PatchSpares DEF Spares
    <2> QED
      BY <2>1, <2>2, <2>3, <2>4 DEF Proposed, Changing
  <1> HIDE DEF result
  <1> QED
    BY <1>3 DEF Refreshed, result

-----------------------------------------------------------------------------
LEMMA WorkInit == WorkspaceInit => WorkInv
  <1> SUFFICES ASSUME WorkspaceInit PROVE WorkInv
    OBVIOUS
  <1>1. files = [p \in Files |-> files[p]]
    BY DEF WorkspaceInit
  <1>2. seen = [p \in Files |-> Unknown]
    BY DEF WorkspaceInit
  <1>3. seen = [p \in Files |-> seen[p]] /\ SeenIsCurrent
    BY <1>2 DEF SeenIsCurrent
  <1> QED
    BY <1>1, <1>3 DEF WorkspaceInit, WorkInv

LEMMA WorkStep == WorkInv /\ [WorkspaceNext]_workspaceVars => WorkInv'
  <1> SUFFICES ASSUME WorkInv, [WorkspaceNext]_workspaceVars PROVE WorkInv'
    OBVIOUS
  <1> USE DEF WorkInv
  <1> DEFINE Other == UNCHANGED <<files, seen, changed>>
             Resting == stage' = "asked" => UNCHANGED <<stage, call, preview>>
  <1>0. ASSUME Other, Resting PROVE WorkInv'
    BY <1>0 DEF SeenIsCurrent, PreviewOfCall, Proposed
  <1>1. ASSUME NEW p \in Files, ReadFile(p) PROVE WorkInv'
    <2>1. /\ files' = files /\ seen' = [seen EXCEPT ![p] = files[p]]
          /\ changed' = changed \ {p}
      BY <1>1 DEF ReadFile
    <2>2. SeenIsCurrent'
      BY <2>1 DEF SeenIsCurrent
    <2>3. seen' = [q \in Files |-> seen'[q]]
      BY <2>1
    <2> QED
      BY <1>1, <2>1, <2>2, <2>3 DEF ReadFile
  <1>2. ASSUME NEW p \in Files, UserEdits(p) PROVE WorkInv'
    <2>1. /\ \E lines : files' = [files EXCEPT ![p] = lines]
          /\ seen' = seen /\ changed' = changed \cup {p}
      BY <1>2 DEF UserEdits
    <2>2. files' = [q \in Files |-> files'[q]] /\ SeenIsCurrent'
      BY <2>1 DEF SeenIsCurrent
    <2>3. UNCHANGED <<stage, call, preview>>
      BY <1>2 DEF UserEdits
    <2> QED
      BY <2>1, <2>2, <2>3 DEF PreviewOfCall, Proposed
  <1>3. ASSUME Propose PROVE WorkInv'
    <2>1. \E req : Proposed(req) /\ Ask(req)
      BY <1>3, RequestsProposed DEF Propose
    <2>2. PICK req : Proposed(req) /\ Ask(req)
      BY <2>1
    <2>3. (stage = "asked" => Proposed(call) /\ PreviewOfCall)'
      BY <2>2, PreviewShows
    <2>4. Other
      BY <2>2 DEF Ask
    <2> QED
      BY <2>3, <2>4 DEF SeenIsCurrent
  <1>4. ASSUME Apply PROVE WorkInv'
    <2> DEFINE result == Execute(call)
               shown == Refreshed(call, result)
    <2>1. /\ files' = result.files
          /\ seen' = [p \in Files |-> IF p \in shown THEN result.files[p] ELSE seen[p]]
          /\ changed' = changed \ shown
          /\ stage = "asked" /\ stage' = "idle"
      BY <1>4 DEF Apply
    <2>2. /\ result.files = [p \in Files |-> result.files[p]]
          /\ \A p \in Files \ shown : result.files[p] = files[p]
      BY <2>1, ExecuteSpares
    <2> HIDE DEF result, shown
    <2>3. files' = [p \in Files |-> files'[p]] /\ seen' = [p \in Files |-> seen'[p]]
      BY <2>1, <2>2
    <2>4. SeenIsCurrent'
      BY <2>1, <2>2 DEF SeenIsCurrent
    <2> QED
      BY <2>1, <2>3, <2>4
  <1>5. ASSUME Refuse PROVE WorkInv'
    BY <1>0, <1>5 DEF Refuse
  <1>6. ASSUME NEW bash, StartCommand(bash) PROVE WorkInv'
    BY <1>0, <1>6 DEF StartCommand
  <1>7. ASSUME Forks \/ LeaderExits \/ ChildExits PROVE WorkInv'
    BY <1>0, <1>7 DEF Forks, LeaderExits, ChildExits
  <1>8. ASSUME CommandReturns \/ AbortCommand PROVE WorkInv'
    BY <1>0, <1>8 DEF CommandReturns, AbortCommand, CommandOver
  <1>9. ASSUME TimesOut PROVE WorkInv'
    BY <1>0, <1>9 DEF TimesOut, CommandOver
  <1>10. ASSUME UNCHANGED workspaceVars PROVE WorkInv'
    BY <1>0, <1>10 DEF workspaceVars
  <1> HIDE DEF WorkInv
  <1> QED
    BY <1>1, <1>2, <1>3, <1>4, <1>5, <1>6, <1>7, <1>8, <1>9, <1>10 DEF WorkspaceNext

LEMMA WorkHolds == WorkspaceSpec => []WorkInv
  <1> QED
    BY WorkInit, WorkStep, PTL DEF WorkspaceSpec

(* The model's picture of a file that only its own tools have changed is   *)
(* what the file holds, after a partly failed patch too (Refreshed).       *)
THEOREM PictureCurrent == WorkspaceSpec => []SeenIsCurrent
  <1>1. WorkInv => SeenIsCurrent
    BY DEF WorkInv
  <1> QED
    BY <1>1, WorkHolds, PTL

(* A call that changes the file its diff was made from writes what the     *)
(* diff showed: Preview and Execute, the two sides of it, agree.           *)
LEMMA ApplyAsShown ==
    ASSUME WorkInv, [WorkspaceNext]_workspaceVars, Applied, call.tool \in {"edit", "write_file"},
           preview.shown, files[call.path] = preview.old
    PROVE  files'[call.path] = preview.new
  <1>1. stage = "asked" /\ stage' = "idle" /\ files' # files
    BY DEF Applied
  <1>2. Apply
    <2>1. ~(\E p \in Files : ReadFile(p) \/ UserEdits(p))
      BY <1>1 DEF ReadFile, UserEdits
    <2>2. ~Propose /\ ~Refuse
      BY <1>1 DEF Propose, Refuse
    <2>3. ~(\E bash \in BOOLEAN : StartCommand(bash))
      BY <1>1 DEF StartCommand
    <2>4. ~Forks /\ ~LeaderExits /\ ~ChildExits
      BY <1>1 DEF Forks, LeaderExits, ChildExits
    <2>5. ~CommandReturns /\ ~TimesOut /\ ~AbortCommand
      BY <1>1 DEF CommandReturns, TimesOut, AbortCommand
    <2>6. ~UNCHANGED workspaceVars
      BY <1>1 DEF workspaceVars
    <2> QED
      BY <2>1, <2>2, <2>3, <2>4, <2>5, <2>6 DEF WorkspaceNext
  <1>3. files' = Execute(call).files
    BY <1>2 DEF Apply
  <1>4. call.path \in Files /\ files = [p \in Files |-> files[p]] /\ PreviewOfCall
    BY <1>1 DEF WorkInv, Proposed
  <1>5. ASSUME NEW lines PROVE Wrote(call.path, lines).files[call.path] = lines
    BY <1>4 DEF Wrote, Result
  <1>6. CASE call.tool = "write_file"
    <2>1. Execute(call) = Wrote(call.path, call.new)
      BY <1>6 DEF Execute
    <2> QED
      BY <1>3, <1>4, <1>5, <1>6, <2>1 DEF PreviewOfCall
  <1>7. CASE call.tool = "edit"
    <2>1. Execute(call) = ExecuteEdit(call)
      BY <1>7 DEF Execute
    <2>2. Execute(call) # Failed
      BY <1>1, <1>3 DEF Failed, Result
    <2>3. Execute(call) = Wrote(call.path, Edited(files[call.path], call))
      <3>1. CASE call.old # <<>> /\ call.old = call.new
        BY <2>1, <2>2, <3>1 DEF ExecuteEdit
      <3>2. CASE call.old # call.new /\ files[call.path] = Absent
        <4>1. Edited(files[call.path], call) = call.new
          BY <3>2 DEF Edited
        <4> QED
          BY <2>1, <2>2, <3>2, <4>1 DEF ExecuteEdit
      <3>3. CASE /\ ~(call.old # <<>> /\ call.old = call.new)
                 /\ ~(call.old # call.new /\ files[call.path] = Absent)
        <4> DEFINE edit == Transaction(files[call.path], call)
        <4>1. ExecuteEdit(call) = IF edit.strategy = "none" THEN Failed
                                    ELSE Wrote(call.path, edit.lines)
          BY <3>3 DEF ExecuteEdit
        <4>2. Edited(files[call.path], call) = edit.lines
          BY <3>3 DEF Edited
        <4> HIDE DEF edit
        <4> QED
          BY <2>1, <2>2, <4>1, <4>2
      <3> QED
        BY <3>1, <3>2, <3>3
    <2> QED
      BY <1>3, <1>4, <1>5, <1>7, <2>3 DEF PreviewOfCall
  <1> QED
    BY <1>6, <1>7

(* An approved edit or overwrite of a file nobody touched since its diff   *)
(* was made writes exactly what the diff showed.                           *)
THEOREM WritesWhatWasShown == WorkspaceSpec => AppliedAsShown
  <1>1. WorkInv /\ [WorkspaceNext]_workspaceVars =>
           [/\ Applied
            /\ call.tool \in {"edit", "write_file"}
            /\ preview.shown
            /\ files[call.path] = preview.old
            => files'[call.path] = preview.new]_workspaceVars
    BY ApplyAsShown
  <1> QED
    BY <1>1, WorkHolds, PTL DEF WorkspaceSpec, AppliedAsShown
=============================================================================
