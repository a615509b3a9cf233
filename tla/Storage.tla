------------------------------ MODULE Storage ------------------------------
(***************************************************************************)
(* The files Nexus keeps under .nexus/ and what a crash does to them: the  *)
(* session snapshots and the pointer to the latest one                     *)
(* (runtime/sessions.py), the memory entries (memory/store.py) and the     *)
(* four files written when a session ends (runtime/post_session.py),       *)
(* together with the commands of the interactive loop that reach them.  A  *)
(* file operation of the operating system is one step, and the process may *)
(* be killed between any two.  write_text is two operations: opening       *)
(* truncates the file, writing fills it; replace and unlink are atomic.    *)
(***************************************************************************)
EXTENDS Naturals, Sequences, FiniteSets

CONSTANTS
  Sessions,       \* session ids
  Keys,           \* memory keys
  Retained,       \* max_sessions_retained
  SaveEveryTurn,  \* values of save_on_every_turn that a configuration has
  NoFile, Torn,   \* a missing file, a file that does not parse
  MaxTurns, MaxSaves, MaxPosts  \* bounds: turns of a session, saves, ends of sessions

ASSUME StorageAssumption ==
  /\ Retained \in Nat \ {0}         \* config/loader.py refuses 0
  /\ SaveEveryTurn \subseteq BOOLEAN
  /\ NoFile # Torn
  /\ {NoFile, Torn} \cap Sessions = {}
  /\ {NoFile, Torn} \cap [turns : Nat, stamp : Nat] = {}
  /\ {NoFile, Torn} \cap [entries : SUBSET Keys] = {}

VARIABLES
  files, tmps, pointer,                     \* sessions/: snapshots, .tmp, latest_session.txt
  memory, legacy,                           \* memory/: user_memory.json, agent_memory.json
  facts, knowledge, workspaces, profile,    \* how many sessions each file has seen
  proc,                                     \* the process
  clock,                                    \* what datetime.now counts: number of saves begun
  acked, remembered, torn                   \* auxiliary: saves that returned; memory writes done; cut

sessionVars == <<files, tmps, pointer>>
memoryVars  == <<memory, legacy, remembered, torn>>
postVars    == <<facts, knowledge, workspaces, profile>>
vars == <<sessionVars, memoryVars, postVars, proc, clock, acked>>

Snap == [turns : Nat, stamp : Nat]
Blank == [turns |-> 0, stamp |-> 0]

\* What a memory file that parses holds
Memory == [entries : SUBSET Keys]
Holding(E) == [entries |-> E]

(***************************************************************************)
(* The process.  pc names the file operation that is next; sess and snap   *)
(* are ReplState.session; next says what follows the operation in          *)
(* progress; todo the memory contents that are still to be written; want   *)
(* what the memory should hold when the operation is done.                 *)
(***************************************************************************)
Off == [pc |-> "off", sess |-> NoFile, snap |-> Blank, next |-> "off", every |-> FALSE,
        todo |-> <<>>, want |-> {}, victims |-> {}, count |-> 0]

At(pc)    == proc.pc = pc
Become(r) == proc' = r
Goto(pc)  == proc' = [proc EXCEPT !.pc = pc]

\* Back at the prompt with session s
Prompt(s, snap) == Become([Off EXCEPT !.pc = "prompt", !.sess = s, !.snap = snap,
                                      !.every = proc.every])

\* The entries of the file that earlier versions wrote
Fallback == IF legacy = NoFile THEN {} ELSE legacy.entries

Init ==
  /\ files = [s \in Sessions |-> NoFile] /\ tmps = [s \in Sessions |-> NoFile]
  /\ pointer = NoFile
  /\ memory = NoFile /\ legacy \in {NoFile} \cup Memory
  /\ facts = 0 /\ knowledge = 0 /\ workspaces = 0 /\ profile = 0
  /\ proc = Off
  /\ clock = 0
  /\ acked = [s \in Sessions |-> Blank]
  /\ remembered = Fallback
  /\ torn = FALSE

(***************************************************************************)
(* Starting, and switching sessions                                        *)
(***************************************************************************)

\* new_snapshot: an id nobody has used
Fresh(s) == files[s] = NoFile /\ tmps[s] = NoFile /\ acked[s] = Blank
            /\ proc.sess # s

\* The process now works on session s; a session whose file was pruned begins anew.
Opens(s, snap) ==
  /\ \E every \in IF At("off") THEN SaveEveryTurn ELSE {proc.every} :
       Become([Off EXCEPT !.pc = "prompt", !.sess = s, !.snap = snap, !.every = every])
  /\ acked' = [acked EXCEPT ![s] = IF files[s] = NoFile THEN Blank ELSE @]

\* resolve_runtime_session with an id: load it, or start it when there is no such file
OpenNamed(s) ==
  /\ files[s] # Torn            \* json.loads raises and the program does not start
  /\ Opens(s, IF files[s] = NoFile THEN Blank ELSE files[s])

\* SessionStore.load_latest: a pointer that names nothing, or a file that does
\* not parse, counts as no session
Latest == IF pointer \in Sessions /\ files[pointer] \in Snap THEN pointer ELSE NoFile

Start ==
  /\ At("off")
  /\ \/ \E s \in Sessions : OpenNamed(s)
     \/ Latest # NoFile /\ Opens(Latest, files[Latest])
     \/ \E s \in Sessions : Fresh(s) /\ Opens(s, Blank)
  /\ UNCHANGED <<sessionVars, memoryVars, postVars, clock>>

\* /session resume: the session in hand is not saved first.  A missing or torn
\* file raises, which ends the line-oriented loop without its final save; the
\* Textual application goes on.
ResumeSession(s) ==
  /\ At("prompt")
  /\ \/ files[s] \in Snap /\ Opens(s, files[s])
     \/ /\ files[s] \notin Snap
        /\ Become(Off)
        /\ UNCHANGED acked
  /\ UNCHANGED <<sessionVars, memoryVars, postVars, clock>>

(***************************************************************************)
(* SessionStore.save                                                       *)
(***************************************************************************)

\* updated_at is set on the snapshot before anything is written.
BeginSave(snap, next) ==
  /\ clock < MaxSaves
  /\ clock' = clock + 1
  /\ Become([proc EXCEPT !.snap = [snap EXCEPT !.stamp = clock + 1],
                         !.pc = "tmp", !.next = next])

\* /session save, and an aborted turn: the history is saved as it is
SaveCommand ==
  /\ At("prompt")
  /\ BeginSave(proc.snap, "prompt")
  /\ UNCHANGED <<sessionVars, memoryVars, postVars, acked>>

\* /session new saves the session in hand and begins another
NewSession ==
  /\ At("prompt")
  /\ BeginSave(proc.snap, "new")
  /\ UNCHANGED <<sessionVars, memoryVars, postVars, acked>>

\* /quit and end of input: the final save of run_repl, then the post-session files
Quit ==
  /\ At("prompt")
  /\ BeginSave(proc.snap, "post")
  /\ UNCHANGED <<sessionVars, memoryVars, postVars, acked>>

\* Mutant of OpenTmp: the session's own file is opened for writing.
OpenTmpInPlace ==
  /\ At("tmp")
  /\ files' = [files EXCEPT ![proc.sess] = Torn]
  /\ Goto("tmpwrite")
  /\ UNCHANGED <<tmps, pointer, memoryVars, postVars, clock, acked>>

OpenTmp ==
  /\ At("tmp")
  /\ tmps' = [tmps EXCEPT ![proc.sess] = Torn]
  /\ Goto("tmpwrite")
  /\ UNCHANGED <<files, pointer, memoryVars, postVars, clock, acked>>

WriteTmp ==
  /\ At("tmpwrite")
  /\ tmps' = [tmps EXCEPT ![proc.sess] = proc.snap]
  /\ Goto("replace")
  /\ UNCHANGED <<files, pointer, memoryVars, postVars, clock, acked>>

ReplaceSession ==
  /\ At("replace")
  /\ files' = [files EXCEPT ![proc.sess] = tmps[proc.sess]]
  /\ tmps' = [tmps EXCEPT ![proc.sess] = NoFile]
  /\ Goto("point")
  /\ UNCHANGED <<pointer, memoryVars, postVars, clock, acked>>

OpenPointer ==
  /\ At("point")
  /\ pointer' = Torn
  /\ Goto("pointwrite")
  /\ UNCHANGED <<files, tmps, memoryVars, postVars, clock, acked>>

WritePointer ==
  /\ At("pointwrite")
  /\ pointer' = proc.sess
  /\ Goto("list")
  /\ UNCHANGED <<files, tmps, memoryVars, postVars, clock, acked>>

Saved == {s \in Sessions : files[s] \in Snap}
Newer(s) == {t \in Saved : files[t].stamp > files[s].stamp}
\* Mutant of Expired: one snapshot too few is kept.
ExpiredOffByOne == {s \in Saved : Cardinality(Newer(s)) >= Retained - 1}
Expired == {s \in Saved : Cardinality(Newer(s)) >= Retained}

\* _prune_if_needed reads every snapshot to sort them; one that does not parse raises.
ListSessions ==
  /\ At("list")
  /\ IF \E s \in Sessions : files[s] = Torn
     THEN Become(Off)
     ELSE Become([proc EXCEPT !.pc = "prune", !.victims = Expired])
  /\ UNCHANGED <<sessionVars, memoryVars, postVars, clock, acked>>

PruneOne ==
  /\ At("prune")
  /\ \E s \in proc.victims :
       /\ files' = [files EXCEPT ![s] = NoFile]
       /\ Become([proc EXCEPT !.victims = @ \ {s}])
  /\ UNCHANGED <<tmps, pointer, memoryVars, postVars, clock, acked>>

\* run_post_session_updates begins, when the session has any message
PostSession ==
  IF proc.snap.turns = 0 \/ facts >= MaxPosts THEN Become(Off)
  ELSE Become([proc EXCEPT !.pc = "facts", !.count = facts + 1])

\* What follows a save that returned
AfterSave ==
  CASE proc.next = "prompt" -> Prompt(proc.sess, proc.snap)
    [] proc.next = "new" -> \E s \in Sessions : Fresh(s) /\ Prompt(s, Blank)
    [] proc.next = "post" -> PostSession

EndSave ==
  /\ At("prune") /\ proc.victims = {}
  /\ acked' = [acked EXCEPT ![proc.sess] = proc.snap]
  /\ AfterSave
  /\ UNCHANGED <<sessionVars, memoryVars, postVars, clock>>

(***************************************************************************)
(* MemoryStore                                                             *)
(***************************************************************************)

\* Mutant of Entries: the import writes the old entries but does not return them.
EntriesWithoutLegacy == IF memory \in Memory THEN memory.entries ELSE {}
\* _load_data: the entries, and whether it writes those of the legacy file to the
\* new one.  A file that does not parse is moved aside first.
Entries == IF memory \in Memory THEN memory.entries ELSE Fallback
Imported == memory \notin Memory /\ legacy # NoFile

\* An operation on the entries: it loads, and if writes is TRUE stores the
\* result; want is what the operation promises.
UseMemory(result, writes, next, want) ==
  /\ memory' = IF memory = Torn THEN NoFile ELSE memory
  /\ Become([proc EXCEPT !.pc = "memory", !.next = next, !.want = want,
                  !.todo = (IF Imported THEN <<Entries>> ELSE <<>>)
                           \o (IF writes THEN <<result>> ELSE <<>>)])
  /\ UNCHANGED <<legacy, remembered, torn>>

\* /memory save, search, show, list and the memory tool's set, get, delete, clear
MemoryCommand ==
  /\ At("prompt")
  /\ \/ UseMemory({}, FALSE, "prompt", remembered)
     \/ \E k \in Keys : UseMemory(Entries \cup {k}, TRUE, "prompt", remembered \cup {k})
     \/ \E k \in Keys : UseMemory(Entries \ {k}, k \in Entries, "prompt", remembered \ {k})
     \/ UseMemory({}, TRUE, "prompt", {})
  /\ UNCHANGED <<sessionVars, postVars, clock, acked>>

\* A turn: building the prompt loads the memory; apply_events saves at its end.
Turn ==
  /\ At("prompt") /\ proc.snap.turns < MaxTurns
  /\ UseMemory({}, FALSE, "turn", remembered)
  /\ UNCHANGED <<sessionVars, postVars, clock, acked>>

OpenMemory ==
  /\ At("memory") /\ proc.todo # <<>>
  /\ memory' = Torn
  /\ Goto("memwrite")
  /\ UNCHANGED <<sessionVars, legacy, remembered, torn, postVars, clock, acked>>

WriteMemory ==
  LET new == Head(proc.todo) IN
  /\ At("memwrite")
  /\ memory' = Holding(new)
  /\ remembered' = IF Len(proc.todo) = 1 THEN proc.want ELSE remembered
  /\ Become([proc EXCEPT !.pc = "memory", !.todo = Tail(@)])
  /\ UNCHANGED <<sessionVars, legacy, torn, postVars, clock, acked>>

EndMemory ==
  LET taken == [proc.snap EXCEPT !.turns = @ + 1] IN
  /\ At("memory") /\ proc.todo = <<>>
  /\ \/ /\ proc.next = "prompt"
        /\ Prompt(proc.sess, proc.snap)
        /\ UNCHANGED clock
     \/ proc.next = "turn" /\ proc.every /\ BeginSave(taken, "prompt")
     \/ /\ proc.next = "turn" /\ ~proc.every
        /\ Prompt(proc.sess, taken)
        /\ UNCHANGED clock
  /\ UNCHANGED <<sessionVars, memoryVars, postVars, acked>>

(***************************************************************************)
(* run_post_session_updates: each file is written beside and moved, in     *)
(* this order, from what was read of the first                             *)
(***************************************************************************)
WriteFacts ==
  /\ At("facts") /\ facts' = proc.count /\ Goto("knowledge")
  /\ UNCHANGED <<sessionVars, memoryVars, knowledge, workspaces, profile, clock, acked>>

WriteKnowledge ==
  /\ At("knowledge") /\ knowledge' = proc.count /\ Goto("workspaces")
  /\ UNCHANGED <<sessionVars, memoryVars, facts, workspaces, profile, clock, acked>>

\* Mutant of WriteWorkspaces: the registry counts the sessions itself.
WriteWorkspacesCounting ==
  /\ At("workspaces") /\ workspaces' = workspaces + 1 /\ Goto("profile")
  /\ UNCHANGED <<sessionVars, memoryVars, facts, knowledge, profile, clock, acked>>

WriteWorkspaces ==
  /\ At("workspaces") /\ workspaces' = proc.count /\ Goto("profile")
  /\ UNCHANGED <<sessionVars, memoryVars, facts, knowledge, profile, clock, acked>>

WriteProfile ==
  /\ At("profile") /\ profile' = proc.count /\ Become(Off)
  /\ UNCHANGED <<sessionVars, memoryVars, facts, knowledge, workspaces, clock, acked>>

(***************************************************************************)
(* The process is killed: what it had in memory is gone, the files stay.   *)
(***************************************************************************)
Crash ==
  /\ ~At("off")
  /\ Become(Off)
  /\ torn' = (torn \/ At("memwrite"))
  /\ UNCHANGED <<sessionVars, memory, legacy, remembered, postVars, clock, acked>>

SaveStep ==
  \/ OpenTmp \/ WriteTmp \/ ReplaceSession \/ OpenPointer
  \/ WritePointer \/ ListSessions \/ PruneOne \/ EndSave
MemoryStep == OpenMemory \/ WriteMemory \/ EndMemory
PostStep ==
  WriteFacts \/ WriteKnowledge \/ WriteWorkspaces \/ WriteProfile
Command ==
  \/ Start \/ SaveCommand \/ NewSession \/ Quit
  \/ \E s \in Sessions : ResumeSession(s)
  \/ MemoryCommand \/ Turn

Next == Command \/ SaveStep \/ MemoryStep \/ PostStep \/ Crash

Spec == Init /\ [][Next]_vars

(***************************************************************************)
(* Properties                                                              *)
(***************************************************************************)

\* The types of the variables.
TypeOK ==
  /\ files \in [Sessions -> Snap \cup {NoFile, Torn}]
  /\ tmps \in [Sessions -> Snap \cup {NoFile, Torn}]
  /\ pointer \in Sessions \cup {NoFile, Torn}
  /\ memory \in Memory \cup {NoFile, Torn}
  /\ legacy \in Memory \cup {NoFile}
  /\ remembered \in SUBSET Keys /\ torn \in BOOLEAN
  /\ {facts, knowledge, workspaces, profile, clock} \subseteq Nat
  /\ acked \in [Sessions -> Snap]
  /\ proc.snap \in Snap /\ proc.sess \in Sessions \cup {NoFile}

\* A save that returned is not undone by a later crash: the file of a session
\* is never cut, and holds at least the turns that were saved, unless it was
\* pruned for as many newer sessions as max_sessions_retained.
SavedKept == \A s \in Sessions :
  /\ files[s] # Torn
  /\ acked[s] # Blank =>
       \/ files[s] \in Snap /\ files[s].turns >= acked[s].turns
       \/ /\ files[s] = NoFile
          /\ Cardinality({t \in Sessions : files[t] \in Snap /\ files[t].stamp > acked[s].stamp})
               >= Retained

\* Whatever crashed in between, --resume-last opens a session that exists and is
\* at least as recent as every save that returned, unless the pointer's own
\* write was cut (load_latest then starts a new session).
LatestIsNewest == pointer \in Sessions =>
  /\ files[pointer] \in Snap
  /\ \A s \in Sessions : acked[s].stamp <= files[pointer].stamp

\* What the memory operations were asked for is what the next load finds,
\* through the import of a legacy file, deletions and restarts, unless a write
\* was cut (MemoryStore._save_data writes in place).
MemoryKept ==
  torn \/ At("memwrite") \/ remembered = IF memory = NoFile THEN Fallback ELSE memory.entries

\* A session that ends completely leaves all four files telling of the same
\* sessions, whatever an earlier crash left between them.
EndCatchesUp == [][profile' # profile =>
                     facts' = profile' /\ knowledge' = profile' /\ workspaces' = profile']_vars
=============================================================================
