--------------------------- MODULE Storage_proofs ---------------------------
(***************************************************************************)
(* Four properties of the files under .nexus/ for any sessions, keys and  *)
(* number of crashes: a session that ends completely leaves the four files *)
(* of post_session.py telling of the same sessions, the memory file holds  *)
(* what was asked for unless a write was cut, and the pointer to the       *)
(* latest session is never behind a save that returned.                    *)
(*                                                                         *)
(* A process is killed between any two file operations, so the invariants  *)
(* say what the file operations of the operation in progress have done so  *)
(* far, and none says anything that a killed process would have to keep.   *)
(***************************************************************************)
EXTENDS Storage, FiniteSetTheorems, SequenceTheorems, WellFoundedInduction, TLAPS

Fields == {"pc", "sess", "snap", "next", "every", "todo", "want", "victims", "count"}
Formed(r) == r = [f \in Fields |-> r[f]]

Saving == {"tmp", "tmpwrite", "replace", "point", "pointwrite", "list", "prune"}
Posting == {"facts", "knowledge", "workspaces", "profile"}
Steps == {"off", "prompt", "memory", "memwrite"} \cup Saving \cup Posting

\* What the next load of the memory finds.
Loaded == IF memory = NoFile THEN Fallback ELSE memory.entries

ProcInv ==
    /\ Formed(proc)
    /\ proc.pc \in Steps
    /\ proc.pc \in Saving => proc.next \in {"prompt", "new", "post"}

PostInv ==
    /\ proc.pc \in {"knowledge", "workspaces", "profile"} => facts = proc.count
    /\ proc.pc \in {"workspaces", "profile"} => knowledge = proc.count
    /\ proc.pc = "profile" => workspaces = proc.count

MemoryTypes ==
    /\ legacy \in Memory \cup {NoFile}
    /\ memory \in Memory \cup {NoFile, Torn}
    /\ remembered \subseteq Keys

\* What remains to be written ends with what was asked for; only an import of
\* the legacy file comes before it, and writes what is remembered already.
MemoryInv ==
    \/ torn
    \/ /\ MemoryTypes
       /\ proc.pc # "memwrite" => memory # Torn /\ remembered = Loaded
       /\ proc.pc \in {"memory", "memwrite"} =>
            /\ proc.want \subseteq Keys
            /\ \/ proc.todo = <<proc.want>>
               \/ proc.todo = <<remembered, proc.want>>
               \/ proc.todo = <<>> /\ proc.pc = "memory"

Inv == ProcInv /\ PostInv /\ MemoryInv

-----------------------------------------------------------------------------
LEMMA OffFormed == Formed(Off) /\ Off.pc = "off"
  BY DEF Formed, Fields, Off

LEMMA MemoryHolds ==
    ASSUME NEW E \in SUBSET Keys
    PROVE  /\ Holding(E) \in Memory /\ Holding(E).entries = E
           /\ Holding(E) # NoFile /\ Holding(E) # Torn
<1>1. Holding(E) \in Memory /\ Holding(E).entries = E
  BY DEF Holding, Memory
<1>2. QED
  BY <1>1, StorageAssumption DEF Memory

LEMMA InitInv == Init => Inv
<1> SUFFICES ASSUME Init PROVE Inv
  OBVIOUS
<1>1. proc = Off /\ memory = NoFile /\ legacy \in {NoFile} \cup Memory /\ remembered = Fallback
  BY DEF Init
<1>2. remembered \subseteq Keys
  BY <1>1 DEF Fallback, Memory
<1>3. MemoryTypes /\ Loaded = remembered /\ memory # Torn
  BY <1>1, <1>2, StorageAssumption DEF MemoryTypes, Loaded
<1>4. QED
  BY <1>1, <1>3, OffFormed DEF Inv, ProcInv, PostInv, MemoryInv, Steps, Saving

\* A step that leaves the memory alone and does not go on with it.
LEMMA MemoryAside ==
    ASSUME MemoryInv, UNCHANGED memoryVars, proc.pc # "memwrite",
           proc'.pc \notin {"memory", "memwrite"}
    PROVE  MemoryInv'
  BY DEF MemoryInv, MemoryTypes, Loaded, Fallback, memoryVars

\* A step that does not go on with the files of the end of a session.
LEMMA PostAside ==
    ASSUME proc'.pc \notin {"knowledge", "workspaces", "profile"}
    PROVE  PostInv'
  BY DEF PostInv

-----------------------------------------------------------------------------
LEMMA ResetProc ==
    ASSUME ProcInv, NEW p \in {"off", "prompt"}, NEW s, NEW n, NEW e,
           proc' = [Off EXCEPT !.pc = p, !.sess = s, !.snap = n, !.every = e]
    PROVE  ProcInv' /\ proc'.pc = p
<1>1. Formed(proc') /\ proc'.pc = p
  BY DEF Formed, Fields, Off
<1>2. QED
  BY <1>1 DEF ProcInv, Steps, Saving

LEMMA GotoProc ==
    ASSUME ProcInv, NEW p \in Steps, Goto(p), p \in Saving => proc.pc \in Saving
    PROVE  /\ ProcInv' /\ proc'.pc = p /\ proc'.count = proc.count
           /\ proc'.todo = proc.todo /\ proc'.want = proc.want
<1>1. /\ Formed(proc') /\ proc'.pc = p /\ proc'.next = proc.next /\ proc'.count = proc.count
      /\ proc'.todo = proc.todo /\ proc'.want = proc.want
  BY DEF Goto, ProcInv, Formed, Fields
<1>2. QED
  BY <1>1 DEF ProcInv

LEMMA OffProc == ASSUME Become(Off) PROVE ProcInv' /\ proc'.pc = "off"
  BY OffFormed DEF Become, ProcInv, Steps, Saving

LEMMA BeginSaveProc ==
    ASSUME ProcInv, NEW snap, NEW next \in {"prompt", "new", "post"}, BeginSave(snap, next)
    PROVE  ProcInv' /\ proc'.pc = "tmp"
<1>1. Formed(proc') /\ proc'.pc = "tmp" /\ proc'.next = next
  BY DEF BeginSave, Become, ProcInv, Formed, Fields
<1>2. QED
  BY <1>1 DEF ProcInv, Steps, Saving

LEMMA PromptProc ==
    ASSUME ProcInv, NEW s, NEW snap, Prompt(s, snap)
    PROVE  ProcInv' /\ proc'.pc = "prompt"
  BY ResetProc DEF Prompt, Become

LEMMA OpensProc ==
    ASSUME ProcInv, NEW s, NEW snap, Opens(s, snap)
    PROVE  ProcInv' /\ proc'.pc = "prompt"
  BY ResetProc DEF Opens, Become

\* A step that neither works on the memory nor on the files of the end.
LEMMA Elsewhere ==
    ASSUME Inv, ProcInv', UNCHANGED memoryVars, proc.pc # "memwrite",
           proc'.pc \in {"off", "prompt", "facts"} \cup Saving
    PROVE  Inv'
<1>1. proc'.pc \notin {"memory", "memwrite", "knowledge", "workspaces", "profile"}
  BY DEF Saving
<1>2. QED
  BY <1>1, MemoryAside, PostAside DEF Inv

-----------------------------------------------------------------------------
LEMMA CommandInv ==
    ASSUME Inv, \/ Start \/ SaveCommand \/ NewSession \/ Quit
                \/ \E s \in Sessions : ResumeSession(s)
    PROVE  Inv'
<1> USE DEF At
<1>1. CASE Start
  <2>1. \E s, snap : Opens(s, snap)
    BY <1>1 DEF Start, OpenNamed
  <2>2. UNCHANGED memoryVars /\ proc.pc = "off"
    BY <1>1 DEF Start
  <2>3. QED
    BY <2>1, <2>2, OpensProc, Elsewhere DEF Inv
<1>2. CASE SaveCommand \/ NewSession \/ Quit
  <2>1. /\ \E next \in {"prompt", "new", "post"} : BeginSave(proc.snap, next)
        /\ UNCHANGED memoryVars /\ proc.pc = "prompt"
    BY <1>2 DEF SaveCommand, NewSession, Quit
  <2>2. ProcInv' /\ proc'.pc = "tmp"
    BY <2>1, BeginSaveProc DEF Inv
  <2>3. QED
    BY <2>1, <2>2, Elsewhere DEF Saving
<1>3. ASSUME NEW s \in Sessions, ResumeSession(s) PROVE Inv'
  <2>1. UNCHANGED memoryVars /\ proc.pc = "prompt"
    BY <1>3 DEF ResumeSession
  <2>2. ProcInv' /\ proc'.pc \in {"prompt", "off"}
    BY <1>3, OpensProc, OffProc DEF ResumeSession, Inv
  <2>3. QED
    BY <2>1, <2>2, Elsewhere
<1>4. QED
  BY <1>1, <1>2, <1>3

\* What a save does when it is done.
LEMMA AfterSaveProc ==
    ASSUME ProcInv, proc.pc = "prune", AfterSave
    PROVE  ProcInv' /\ proc'.pc \in {"off", "prompt", "facts"}
<1>1. proc.next \in {"prompt", "new", "post"}
  BY DEF ProcInv, Saving
<1>2. CASE proc.next = "prompt"
  BY <1>2, PromptProc DEF AfterSave
<1>3. CASE proc.next = "new"
  <2>1. \E s \in Sessions : Prompt(s, Blank)
    BY <1>3 DEF AfterSave
  <2>2. QED
    BY <2>1, PromptProc
<1>4. CASE proc.next = "post"
  <2>1. PostSession
    BY <1>4 DEF AfterSave
  <2>2. CASE proc.snap.turns = 0 \/ facts >= MaxPosts
    BY <2>1, <2>2, OffProc DEF PostSession
  <2>3. CASE ~(proc.snap.turns = 0 \/ facts >= MaxPosts)
    <3>1. proc' = [proc EXCEPT !.pc = "facts", !.count = facts + 1]
      BY <2>1, <2>3 DEF PostSession, Become
    <3>2. Formed(proc') /\ proc'.pc = "facts"
      BY <3>1 DEF ProcInv, Formed, Fields
    <3>3. QED
      BY <3>2 DEF ProcInv, Steps, Posting, Saving
  <2>4. QED
    BY <2>2, <2>3
<1>5. QED
  BY <1>1, <1>2, <1>3, <1>4

LEMMA SaveStepInv == ASSUME Inv, SaveStep PROVE Inv'
<1> USE DEF At, Inv
<1>1. CASE OpenTmp \/ WriteTmp \/ ReplaceSession \/ OpenPointer \/ WritePointer
  <2>1. /\ proc.pc \in Saving /\ UNCHANGED memoryVars
        /\ \E p \in Saving : Goto(p)
    BY <1>1 DEF OpenTmp, WriteTmp, ReplaceSession, OpenPointer, WritePointer, Saving
  <2>2. \E p \in Saving : Goto(p) /\ p \in Steps
    BY <2>1 DEF Steps
  <2>3. ProcInv' /\ proc'.pc \in Saving
    BY <2>1, <2>2, GotoProc
  <2>4. proc.pc # "memwrite"
    BY <2>1 DEF Saving
  <2>5. QED
    BY <2>1, <2>3, <2>4, Elsewhere
<1>2. CASE ListSessions
  <2>1. ProcInv' /\ proc'.pc \in {"off", "prune"}
    <3>1. CASE proc' = Off
      BY <3>1, OffProc DEF Become
    <3>2. CASE proc' = [proc EXCEPT !.pc = "prune", !.victims = Expired]
      <4>1. Formed(proc') /\ proc'.pc = "prune" /\ proc'.next = proc.next
        BY <3>2 DEF ProcInv, Formed, Fields
      <4>2. proc.pc = "list"
        BY <1>2 DEF ListSessions
      <4>3. QED
        BY <4>1, <4>2 DEF ProcInv, Steps, Saving
    <3>3. QED
      BY <1>2, <3>1, <3>2 DEF ListSessions, Become
  <2>2. UNCHANGED memoryVars /\ proc.pc = "list"
    BY <1>2 DEF ListSessions
  <2>3. QED
    BY <2>1, <2>2, Elsewhere DEF Saving
<1>3. CASE PruneOne
  <2>1. \E s : proc' = [proc EXCEPT !.victims = @ \ {s}]
    BY <1>3 DEF PruneOne, Become
  <2>2. Formed(proc') /\ proc'.pc = proc.pc /\ proc'.next = proc.next
    BY <2>1 DEF ProcInv, Formed, Fields
  <2>3. UNCHANGED memoryVars /\ proc.pc = "prune"
    BY <1>3 DEF PruneOne
  <2>4. QED
    BY <2>2, <2>3, Elsewhere DEF ProcInv, Saving
<1>4. CASE EndSave
  <2>1. UNCHANGED memoryVars /\ proc.pc = "prune" /\ AfterSave
    BY <1>4 DEF EndSave
  <2>2. QED
    BY <2>1, AfterSaveProc, Elsewhere
<1>5. QED
  BY <1>1, <1>2, <1>3, <1>4 DEF SaveStep

LEMMA CrashInv == ASSUME Inv, Crash PROVE Inv'
<1>1. ProcInv' /\ proc'.pc = "off" /\ UNCHANGED <<memory, legacy, remembered>>
  BY OffProc DEF Crash
<1>2. torn' = (torn \/ proc.pc = "memwrite")
  BY DEF Crash, At
<1>3. MemoryInv'
  BY <1>1, <1>2 DEF Inv, MemoryInv, MemoryTypes, Loaded, Fallback
<1>4. QED
  BY <1>1, <1>3, PostAside DEF Inv

LEMMA PostStepInv == ASSUME Inv, PostStep PROVE Inv'
<1> USE DEF At, Inv
<1>1. CASE WriteFacts \/ WriteKnowledge \/ WriteWorkspaces
  <2>1. \E p \in {"knowledge", "workspaces", "profile"} : Goto(p) /\ p \in Steps /\ p \notin Saving
    BY <1>1 DEF WriteFacts, WriteKnowledge, WriteWorkspaces, Steps, Posting, Saving
  <2>2. ProcInv' /\ proc'.pc \in {"knowledge", "workspaces", "profile"} /\ proc'.count = proc.count
    BY <2>1, GotoProc
  <2>3. UNCHANGED memoryVars /\ proc.pc \in {"facts", "knowledge", "workspaces"}
    BY <1>1 DEF WriteFacts, WriteKnowledge, WriteWorkspaces
  <2>4. MemoryInv'
    BY <2>2, <2>3, MemoryAside
  <2>5. PostInv'
    <3>1. CASE WriteFacts
      <4>1. Goto("knowledge") /\ facts' = proc.count
        BY <3>1 DEF WriteFacts
      <4>2. proc'.pc = "knowledge"
        BY <4>1, GotoProc DEF Steps, Posting, Saving
      <4>3. QED
        BY <2>2, <4>1, <4>2 DEF PostInv
    <3>2. CASE WriteKnowledge
      <4>1. /\ Goto("workspaces") /\ knowledge' = proc.count /\ facts' = facts
            /\ proc.pc = "knowledge"
        BY <3>2 DEF WriteKnowledge
      <4>2. proc'.pc = "workspaces"
        BY <4>1, GotoProc DEF Steps, Posting, Saving
      <4>3. QED
        BY <2>2, <4>1, <4>2 DEF PostInv
    <3>3. CASE WriteWorkspaces
      <4>1. /\ workspaces' = proc.count /\ facts' = facts /\ knowledge' = knowledge
            /\ proc.pc = "workspaces"
        BY <3>3 DEF WriteWorkspaces
      <4>2. QED
        BY <2>2, <4>1 DEF PostInv
    <3>4. QED
      BY <1>1, <3>1, <3>2, <3>3
  <2>6. QED
    BY <2>2, <2>4, <2>5
<1>2. CASE WriteProfile
  <2>1. Become(Off) /\ UNCHANGED memoryVars /\ proc.pc = "profile"
    BY <1>2 DEF WriteProfile
  <2>2. QED
    BY <2>1, OffProc, Elsewhere
<1>3. QED
  BY <1>1, <1>2 DEF PostStep

-----------------------------------------------------------------------------
\* What an operation loads is what is remembered, and so is what it imports.
LEMMA LoadedEntries ==
    ASSUME MemoryInv, ~torn, proc.pc = "prompt"
    PROVE  Entries = remembered /\ (Imported => memory = NoFile)
<1>1. MemoryTypes /\ memory # Torn /\ remembered = Loaded
  BY DEF MemoryInv
<1>2. NoFile \notin Memory
  BY StorageAssumption DEF Memory
<1>3. QED
  BY <1>1, <1>2 DEF MemoryTypes, Entries, Imported, Loaded

\* Joining what is imported and what is written.
LEMMA Joined ==
    ASSUME NEW x, NEW y
    PROVE  /\ <<x>> \o <<y>> = <<x, y>> /\ <<x>> \o <<>> = <<x>>
           /\ <<>> \o <<y>> = <<y>> /\ <<>> \o <<>> = <<>>
<1> DEFINE S == {x, y}
<1>1. <<x>> \in Seq(S) /\ <<y>> \in Seq(S) /\ <<>> \in Seq(S) /\ <<x, y>> \in Seq(S)
  OBVIOUS
<1>2. Len(<<x>>) = 1 /\ Len(<<y>>) = 1 /\ Len(<<x, y>>) = 2
  OBVIOUS
<1>3. /\ <<x>>[1] = x /\ <<y>>[1] = y /\ <<x, y>>[1] = x /\ <<x, y>>[2] = y
  OBVIOUS
<1> HIDE DEF S
<1>4. /\ <<x>> \o <<>> = <<x>> /\ <<>> \o <<y>> = <<y>> /\ <<>> \o <<>> = <<>>
  BY <1>1, ConcatEmptySeq
<1>5. <<x>> \o <<y>> = <<x, y>>
  <2> DEFINE s == <<x>>
             t == <<y>>
             u == <<x, y>>
  <2>1. /\ s \in Seq(S) /\ t \in Seq(S) /\ u \in Seq(S) /\ Len(s) = 1 /\ Len(t) = 1
        /\ Len(u) = 2 /\ s[1] = x /\ t[1] = y /\ u[1] = x /\ u[2] = y
    BY <1>1, <1>2, <1>3
  <2> HIDE DEF s, t, u
  <2>2. s \o t \in Seq(S) /\ Len(s \o t) = 2 /\ (s \o t)[1] = x /\ (s \o t)[2] = y
    BY <2>1, ConcatProperties
  <2>3. s \o t = u
    BY <2>1, <2>2, SeqEqual
  <2>4. QED
    BY <2>3 DEF s, t, u
<1>6. QED
  BY <1>4, <1>5

\* An operation that promises its result, or that what there is will remain.
LEMMA UseMemoryInv ==
    ASSUME Inv, proc.pc = "prompt", NEW result, NEW writes \in BOOLEAN, NEW next, NEW want,
           UseMemory(result, writes, next, want),
           ~torn => want \subseteq Keys,
           ~torn => want = IF writes THEN result ELSE remembered
    PROVE  Inv'
<1> DEFINE todo == (IF Imported THEN <<Entries>> ELSE <<>>)
                     \o (IF writes THEN <<result>> ELSE <<>>)
<1>1. /\ memory' = IF memory = Torn THEN NoFile ELSE memory
      /\ proc' = [proc EXCEPT !.pc = "memory", !.next = next, !.want = want, !.todo = todo]
      /\ UNCHANGED <<legacy, remembered, torn>>
  BY DEF UseMemory, Become
<1>2. todo = IF Imported THEN (IF writes THEN <<Entries, result>> ELSE <<Entries>>)
             ELSE (IF writes THEN <<result>> ELSE <<>>)
  <2>1. CASE Imported /\ writes
    BY <2>1, Joined
  <2>2. CASE Imported /\ ~writes
    BY <2>2, Joined
  <2>3. CASE ~Imported
    BY <2>3, Joined
  <2>4. QED
    BY <2>1, <2>2, <2>3
<1> HIDE DEF todo
<1>3. Formed(proc') /\ proc'.pc = "memory" /\ proc'.want = want /\ proc'.todo = todo
  BY <1>1 DEF Inv, ProcInv, Formed, Fields
<1>4. ProcInv'
  BY <1>3 DEF ProcInv, Steps, Saving
<1>5. MemoryInv'
  <2>1. CASE torn
    BY <1>1, <2>1 DEF MemoryInv
  <2>2. CASE ~torn
    <3>1. Entries = remembered
      BY <2>2, LoadedEntries DEF Inv
    <3>2. \/ todo = <<want>> \/ todo = <<remembered, want>> \/ todo = <<>>
      BY <1>2, <2>2, <3>1
    <3>3. MemoryTypes /\ memory # Torn /\ remembered = Loaded
      BY <2>2 DEF Inv, MemoryInv
    <3>4. MemoryTypes' /\ memory' = memory /\ Loaded' = Loaded
      BY <1>1, <3>3 DEF MemoryTypes, Loaded, Fallback
    <3>5. QED
      BY <1>1, <1>3, <2>2, <3>2, <3>3, <3>4 DEF MemoryInv
  <2>3. QED
    BY <2>1, <2>2
<1>6. QED
  BY <1>3, <1>4, <1>5, PostAside DEF Inv

LEMMA MemoryCommandInv == ASSUME Inv, MemoryCommand \/ Turn PROVE Inv'
<1>1. proc.pc = "prompt"
  BY DEF MemoryCommand, Turn, At
<1>2. ~torn => remembered \subseteq Keys /\ Entries = remembered
  BY <1>1, LoadedEntries DEF Inv, MemoryInv, MemoryTypes
<1>3. ASSUME NEW next, UseMemory({}, FALSE, next, remembered) PROVE Inv'
  BY <1>1, <1>2, <1>3, UseMemoryInv
<1>4. ASSUME NEW k \in Keys,
             UseMemory(Entries \cup {k}, TRUE, "prompt", remembered \cup {k})
      PROVE  Inv'
  <2>1. ~torn => remembered \cup {k} \subseteq Keys /\ remembered \cup {k} = Entries \cup {k}
    BY <1>2
  <2>2. QED
    BY <1>1, <1>4, <2>1, UseMemoryInv
<1>5. ASSUME NEW k \in Keys,
             UseMemory(Entries \ {k}, k \in Entries, "prompt", remembered \ {k})
      PROVE  Inv'
  <2> DEFINE writes == k \in Entries
             want == remembered \ {k}
             result == Entries \ {k}
  <2>1. writes \in BOOLEAN
    OBVIOUS
  <2>2. ~torn => want \subseteq Keys /\ want = IF writes THEN result ELSE remembered
    BY <1>2
  <2>3. UseMemory(result, writes, "prompt", want)
    BY <1>5
  <2> HIDE DEF writes, want, result
  <2>4. QED
    BY <1>1, <2>1, <2>2, <2>3, UseMemoryInv
<1>6. ASSUME UseMemory({}, TRUE, "prompt", {}) PROVE Inv'
  <2> DEFINE none == {}
  <2>1. none \subseteq Keys /\ UseMemory(none, TRUE, "prompt", none)
    BY <1>6
  <2> HIDE DEF none
  <2>2. QED
    BY <1>1, <2>1, UseMemoryInv
<1>7. QED
  BY <1>3, <1>4, <1>5, <1>6 DEF MemoryCommand, Turn

LEMMA MemoryStepInv == ASSUME Inv, MemoryStep PROVE Inv'
<1> USE DEF At, Inv
<1>1. CASE OpenMemory
  <2>1. /\ proc.pc = "memory" /\ proc.todo # <<>> /\ memory' = Torn /\ Goto("memwrite")
        /\ UNCHANGED <<legacy, remembered, torn>>
    BY <1>1 DEF OpenMemory
  <2>2. ProcInv' /\ proc'.pc = "memwrite" /\ proc'.todo = proc.todo /\ proc'.want = proc.want
    BY <2>1, GotoProc DEF Steps, Saving
  <2>3. MemoryInv'
    BY <2>1, <2>2 DEF MemoryInv, MemoryTypes
  <2>4. QED
    BY <2>2, <2>3, PostAside
<1>2. CASE WriteMemory
  <2> DEFINE new == Head(proc.todo)
  <2>1. /\ proc.pc = "memwrite" /\ memory' = Holding(new)
        /\ remembered' = IF Len(proc.todo) = 1 THEN proc.want ELSE remembered
        /\ proc' = [proc EXCEPT !.pc = "memory", !.todo = Tail(@)]
        /\ UNCHANGED <<legacy, torn>>
    BY <1>2 DEF WriteMemory, Become
  <2>2. /\ Formed(proc') /\ proc'.pc = "memory" /\ proc'.want = proc.want
        /\ proc'.todo = Tail(proc.todo)
    BY <2>1 DEF ProcInv, Formed, Fields
  <2>3. ProcInv'
    BY <2>2 DEF ProcInv, Steps, Saving
  <2>4. MemoryInv'
    <3>1. CASE torn
      BY <2>1, <3>1 DEF MemoryInv
    <3>2. CASE ~torn
      <4>1. /\ MemoryTypes /\ proc.want \subseteq Keys
            /\ proc.todo = <<proc.want>> \/ proc.todo = <<remembered, proc.want>>
        BY <2>1, <3>2 DEF MemoryInv
      <4>2. \/ new = proc.want /\ remembered' = proc.want /\ proc'.todo = <<>>
            \/ new = remembered /\ remembered' = remembered /\ proc'.todo = <<proc.want>>
        <5>1. CASE proc.todo = <<proc.want>>
          <6>1. new = proc.want /\ proc'.todo = <<>> /\ Len(proc.todo) = 1
            BY <2>2, <5>1
          <6>2. QED
            BY <2>1, <6>1
        <5>2. CASE proc.todo = <<remembered, proc.want>>
          <6>1. new = remembered /\ proc'.todo = <<proc.want>> /\ Len(proc.todo) = 2
            BY <2>2, <5>2
          <6>2. QED
            BY <2>1, <6>1
        <5>3. QED
          BY <4>1, <5>1, <5>2
      <4>3. new \in SUBSET Keys /\ remembered' = new
        BY <4>1, <4>2 DEF MemoryTypes
      <4>4. MemoryTypes' /\ memory' # Torn /\ remembered' = Loaded'
        <5>1. memory' \in Memory /\ memory'.entries = new /\ memory' # NoFile /\ memory' # Torn
          BY <2>1, <4>3, MemoryHolds
        <5>2. QED
          BY <2>1, <4>1, <4>3, <5>1 DEF MemoryTypes, Loaded
      <4>5. QED
        BY <2>2, <4>1, <4>2, <4>4 DEF MemoryInv
    <3>3. QED
      BY <3>1, <3>2
  <2>5. QED
    BY <2>2, <2>3, <2>4, PostAside
<1>3. CASE EndMemory
  <2>1. UNCHANGED memoryVars /\ proc.pc = "memory"
    BY <1>3 DEF EndMemory
  <2>2. (\E snap : BeginSave(snap, "prompt")) \/ \E snap : Prompt(proc.sess, snap)
    BY <1>3 DEF EndMemory
  <2>3. ProcInv' /\ proc'.pc \in {"tmp", "prompt"}
    BY <2>2, BeginSaveProc, PromptProc
  <2>4. QED
    BY <2>1, <2>3, Elsewhere DEF Saving
<1>4. QED
  BY <1>1, <1>2, <1>3 DEF MemoryStep

LEMMA NextInv == Inv /\ [Next]_vars => Inv'
<1> SUFFICES ASSUME Inv, [Next]_vars PROVE Inv'
  OBVIOUS
<1>1. CASE MemoryCommand \/ Turn
  BY <1>1, MemoryCommandInv
<1>2. CASE Command /\ ~MemoryCommand /\ ~Turn
  BY <1>2, CommandInv DEF Command
<1>3. CASE SaveStep \/ MemoryStep \/ PostStep \/ Crash
  BY <1>3, SaveStepInv, MemoryStepInv, PostStepInv, CrashInv
<1>4. CASE UNCHANGED vars
  <2>1. UNCHANGED <<proc, memory, legacy, remembered, torn, facts, knowledge, workspaces>>
    BY <1>4 DEF vars, memoryVars, postVars
  <2>2. ProcInv' /\ PostInv'
    BY <2>1 DEF Inv, ProcInv, PostInv
  <2>3. MemoryInv'
    BY <2>1 DEF Inv, MemoryInv, MemoryTypes, Loaded, Fallback
  <2>4. QED
    BY <2>2, <2>3 DEF Inv
<1>5. QED
  BY <1>1, <1>2, <1>3, <1>4 DEF Next, Command

-----------------------------------------------------------------------------
\* The memory file holds what was asked for, through deletions, the import of
\* a legacy file and restarts, unless a write in place was cut
\* (memory/store.py, MemoryStore).
THEOREM MemoryIsKept == Spec => []MemoryKept
<1>1. Inv => MemoryKept
  BY DEF Inv, MemoryInv, MemoryKept, Loaded, At
<1>2. QED
  BY <1>1, InitInv, NextInv, PTL DEF Spec

\* A session that ends completely leaves the four files telling of the same
\* sessions, whatever earlier crashes left behind (runtime/post_session.py,
\* run_post_session_updates).
THEOREM EndsCatchUp == Spec => EndCatchesUp
<1> DEFINE Told == profile' # profile =>
                     facts' = profile' /\ knowledge' = profile' /\ workspaces' = profile'
<1>1. Inv /\ [Next]_vars => [Told]_vars
  <2> SUFFICES ASSUME Inv, [Next]_vars PROVE Told
    OBVIOUS
  <2>1. CASE WriteProfile
    BY <2>1 DEF WriteProfile, Inv, PostInv, At
  <2>2. CASE ~WriteProfile
    <3>1. profile' = profile
      <4>1. CASE Command
        BY <4>1 DEF Command, Start, SaveCommand, NewSession, Quit, ResumeSession,
           MemoryCommand, Turn, postVars
      <4>2. CASE SaveStep
        BY <4>2 DEF SaveStep, OpenTmp, WriteTmp, ReplaceSession, OpenPointer, WritePointer,
           ListSessions, PruneOne, EndSave, postVars
      <4>3. CASE MemoryStep \/ Crash \/ UNCHANGED vars
        BY <4>3 DEF MemoryStep, OpenMemory, WriteMemory, EndMemory, Crash, vars, postVars
      <4>4. CASE PostStep
        BY <2>2, <4>4 DEF PostStep, WriteFacts, WriteKnowledge, WriteWorkspaces
      <4>5. QED
        BY <4>1, <4>2, <4>3, <4>4 DEF Next
    <3>2. QED
      BY <3>1
  <2>3. QED
    BY <2>1, <2>2
<1>2. QED
  BY <1>1, InitInv, NextInv, PTL DEF Spec, EndCatchesUp

-----------------------------------------------------------------------------
(* The pointer.  A save puts the session's file in place before the pointer *)
(* is written, so the file the pointer names is never older than a save     *)
(* that returned; pruning spares it because nothing is newer.               *)

SessionTypes ==
    /\ files \in [Sessions -> Snap \cup {NoFile}]
    /\ tmps \in [Sessions -> Snap \cup {NoFile, Torn}]
    /\ acked \in [Sessions -> Snap]
    /\ clock \in Nat

Stamped ==
    \A s \in Sessions :
        acked[s].stamp <= clock /\ (files[s] \in Snap => files[s].stamp <= clock)

SaveInv ==
    /\ proc.pc # "off" => proc.sess \in Sessions /\ proc.snap \in Snap
    /\ proc.pc \in Saving => proc.snap.stamp = clock
    /\ proc.pc = "replace" => tmps[proc.sess] = proc.snap
    /\ proc.pc \in {"point", "pointwrite", "list", "prune"} => files[proc.sess] = proc.snap
    /\ proc.pc \in {"list", "prune"} => pointer = proc.sess
    /\ proc.pc = "prune" => proc.sess \notin proc.victims

NewestInv == ProcInv /\ SessionTypes /\ Stamped /\ SaveInv /\ LatestIsNewest

LEMMA NoSnap == NoFile \notin Snap /\ Torn \notin Snap /\ Torn \notin Sessions /\ NoFile \notin Sessions
  BY StorageAssumption DEF Snap

LEMMA NewestInit == Init => NewestInv
<1> SUFFICES ASSUME Init PROVE NewestInv
  OBVIOUS
<1>1. /\ files = [s \in Sessions |-> NoFile] /\ tmps = [s \in Sessions |-> NoFile]
      /\ acked = [s \in Sessions |-> Blank] /\ clock = 0 /\ pointer = NoFile /\ proc = Off
  BY DEF Init
<1>2. Blank \in Snap /\ Blank.stamp = 0
  BY DEF Blank, Snap
<1>3. SessionTypes /\ Stamped
  BY <1>1, <1>2, NoSnap DEF SessionTypes, Stamped
<1>4. ProcInv /\ SaveInv /\ LatestIsNewest
  BY <1>1, OffFormed, NoSnap DEF ProcInv, SaveInv, LatestIsNewest, Steps, Saving
<1>5. QED
  BY <1>3, <1>4 DEF NewestInv

\* A step that saves nothing: the sessions stay, the process may be gone.
LEMMA NotSaving ==
    ASSUME NewestInv, ProcInv', UNCHANGED <<sessionVars, acked, clock>>,
           proc'.pc \notin Saving,
           proc'.pc # "off" => proc'.sess \in Sessions /\ proc'.snap \in Snap
    PROVE  NewestInv'
<1>1. SessionTypes' /\ Stamped' /\ LatestIsNewest'
  BY DEF NewestInv, SessionTypes, Stamped, LatestIsNewest, sessionVars
<1>2. SaveInv'
  BY DEF SaveInv, Saving
<1>3. QED
  BY <1>1, <1>2 DEF NewestInv

LEMMA OpensNewest ==
    ASSUME NewestInv, NEW s \in Sessions, NEW snap \in Snap, Opens(s, snap),
           UNCHANGED <<sessionVars, clock>>
    PROVE  NewestInv'
<1>1. ProcInv' /\ proc'.pc = "prompt"
  BY OpensProc DEF NewestInv
<1>2. proc'.sess = s /\ proc'.snap = snap
  BY DEF Opens, Become, Off
<1>3. acked' = [acked EXCEPT ![s] = IF files[s] = NoFile THEN Blank ELSE @]
  BY DEF Opens
<1>4. Blank \in Snap /\ Blank.stamp = 0
  BY DEF Blank, Snap
<1>5. acked' \in [Sessions -> Snap] /\ \A t \in Sessions : acked'[t].stamp <= acked[t].stamp
  BY <1>3, <1>4 DEF NewestInv, SessionTypes, Snap
<1>6. SessionTypes' /\ Stamped' /\ LatestIsNewest'
  <2>1. SessionTypes' /\ UNCHANGED <<files, tmps, pointer, clock>>
    BY <1>5 DEF NewestInv, SessionTypes, sessionVars
  <2>2. \A t \in Sessions : acked[t].stamp \in Nat /\ acked'[t].stamp \in Nat
    BY <1>5 DEF NewestInv, SessionTypes, Snap
  <2>3. Stamped'
    BY <1>5, <2>1, <2>2 DEF NewestInv, SessionTypes, Stamped
  <2>4. LatestIsNewest'
    <3> SUFFICES ASSUME pointer \in Sessions PROVE LatestIsNewest'
      BY <2>1 DEF LatestIsNewest
    <3>1. files[pointer].stamp \in Nat
      BY DEF NewestInv, LatestIsNewest, Snap
    <3>2. QED
      BY <1>5, <2>1, <2>2, <3>1 DEF NewestInv, LatestIsNewest
  <2>5. QED
    BY <2>1, <2>3, <2>4
<1>7. SaveInv'
  BY <1>1, <1>2 DEF SaveInv, Saving
<1>8. QED
  BY <1>1, <1>6, <1>7 DEF NewestInv

LEMMA BeginSaveNewest ==
    ASSUME NewestInv, proc.pc # "off", NEW snap \in Snap, NEW next \in {"prompt", "new", "post"},
           BeginSave(snap, next), UNCHANGED <<sessionVars, acked>>
    PROVE  NewestInv'
<1>1. ProcInv' /\ proc'.pc = "tmp"
  BY BeginSaveProc DEF NewestInv
<1>2. clock' = clock + 1 /\ clock \in Nat
  BY DEF BeginSave, NewestInv, SessionTypes
<1>3. proc'.sess = proc.sess /\ proc'.snap = [snap EXCEPT !.stamp = clock + 1]
  BY DEF BeginSave, Become, NewestInv, ProcInv, Formed, Fields
<1>4. proc'.snap \in Snap /\ proc'.snap.stamp = clock'
  BY <1>2, <1>3 DEF Snap
<1>5. SaveInv'
  BY <1>1, <1>3, <1>4 DEF NewestInv, SaveInv, Saving
<1>6. SessionTypes' /\ LatestIsNewest'
  BY <1>2 DEF NewestInv, SessionTypes, LatestIsNewest, sessionVars
<1>7. Stamped'
  <2> SUFFICES ASSUME NEW t \in Sessions
               PROVE  acked'[t].stamp <= clock' /\ (files'[t] \in Snap => files'[t].stamp <= clock')
    BY DEF Stamped
  <2>1. acked' = acked /\ files' = files /\ acked[t].stamp \in Nat
    BY DEF NewestInv, SessionTypes, Snap, sessionVars
  <2>2. files[t] \in Snap => files[t].stamp \in Nat
    BY DEF Snap
  <2>3. QED
    BY <1>2, <2>1, <2>2 DEF NewestInv, Stamped
<1>8. QED
  BY <1>1, <1>5, <1>6, <1>7 DEF NewestInv

\* The next file operation of a save.
LEMMA GotoSaved ==
    ASSUME NewestInv, proc.pc \in Saving, NEW p \in Saving, Goto(p)
    PROVE  /\ ProcInv' /\ proc'.pc = p /\ proc'.sess = proc.sess /\ proc'.snap = proc.snap
           /\ proc.sess \in Sessions /\ proc.snap \in Snap /\ proc.snap.stamp = clock
<1>1. p \in Steps
  BY DEF Steps
<1>2. ProcInv' /\ proc'.pc = p
  BY <1>1, GotoProc DEF NewestInv
<1>3. proc'.sess = proc.sess /\ proc'.snap = proc.snap
  BY DEF Goto, NewestInv, ProcInv, Formed, Fields
<1>4. proc.pc # "off"
  BY DEF Saving
<1>5. QED
  BY <1>2, <1>3, <1>4 DEF NewestInv, SaveInv

LEMMA WritingTmp == ASSUME NewestInv, OpenTmp \/ WriteTmp PROVE NewestInv'
<1> USE DEF At
<1>1. PICK p \in {"tmpwrite", "replace"} : Goto(p) /\ (p = "replace" => WriteTmp)
  BY DEF OpenTmp, WriteTmp
<1>2. /\ proc.pc \in Saving /\ UNCHANGED <<files, pointer, acked, clock>>
      /\ tmps' = [tmps EXCEPT ![proc.sess] = Torn] \/ tmps' = [tmps EXCEPT ![proc.sess] = proc.snap]
      /\ WriteTmp => tmps' = [tmps EXCEPT ![proc.sess] = proc.snap]
  BY DEF OpenTmp, WriteTmp, Saving
<1>3. /\ ProcInv' /\ proc'.pc = p /\ proc'.sess = proc.sess /\ proc'.snap = proc.snap
      /\ proc.sess \in Sessions /\ proc.snap \in Snap /\ proc.snap.stamp = clock
  BY <1>1, <1>2, GotoSaved DEF Saving
<1>4. SessionTypes' /\ Stamped' /\ LatestIsNewest'
  BY <1>2, <1>3 DEF NewestInv, SessionTypes, Stamped, LatestIsNewest
<1>5. p = "replace" => tmps'[proc.sess] = proc.snap
  BY <1>1, <1>2, <1>3 DEF NewestInv, SessionTypes
<1>6. SaveInv'
  BY <1>2, <1>3, <1>5 DEF SaveInv
<1>7. QED
  BY <1>3, <1>4, <1>6 DEF NewestInv

LEMMA ReplacingSession == ASSUME NewestInv, ReplaceSession PROVE NewestInv'
<1>1. /\ proc.pc = "replace" /\ Goto("point") /\ UNCHANGED <<pointer, acked, clock>>
      /\ files' = [files EXCEPT ![proc.sess] = tmps[proc.sess]]
      /\ tmps' = [tmps EXCEPT ![proc.sess] = NoFile]
  BY DEF ReplaceSession, At
<1>2. /\ ProcInv' /\ proc'.pc = "point" /\ proc'.sess = proc.sess /\ proc'.snap = proc.snap
      /\ proc.sess \in Sessions /\ proc.snap \in Snap /\ proc.snap.stamp = clock
  BY <1>1, GotoSaved DEF Saving
<1>3. tmps[proc.sess] = proc.snap
  BY <1>1 DEF NewestInv, SaveInv
<1>4. /\ files' \in [Sessions -> Snap \cup {NoFile}] /\ files'[proc.sess] = proc.snap
      /\ \A t \in Sessions : t # proc.sess => files'[t] = files[t]
  BY <1>1, <1>2, <1>3 DEF NewestInv, SessionTypes
<1>5. SessionTypes'
  BY <1>1, <1>4 DEF NewestInv, SessionTypes
<1>6. Stamped'
  BY <1>1, <1>2, <1>4 DEF NewestInv, Stamped, SessionTypes
<1>7. LatestIsNewest'
  <2> SUFFICES ASSUME pointer \in Sessions
               PROVE  files'[pointer] \in Snap /\ \A t \in Sessions :
                        acked[t].stamp <= files'[pointer].stamp
    BY <1>1 DEF LatestIsNewest
  <2>1. CASE pointer = proc.sess
    BY <1>2, <1>4, <2>1 DEF NewestInv, Stamped
  <2>2. CASE pointer # proc.sess
    BY <1>4, <2>2 DEF NewestInv, LatestIsNewest
  <2>3. QED
    BY <2>1, <2>2
<1>8. SaveInv'
  BY <1>1, <1>2, <1>4 DEF SaveInv
<1>9. QED
  BY <1>2, <1>5, <1>6, <1>7, <1>8 DEF NewestInv

LEMMA WritingPointer == ASSUME NewestInv, OpenPointer \/ WritePointer PROVE NewestInv'
<1>1. PICK p \in {"pointwrite", "list"} :
         /\ Goto(p) /\ proc.pc \in {"point", "pointwrite"} /\ UNCHANGED <<files, tmps, acked, clock>>
         /\ IF p = "list" THEN pointer' = proc.sess ELSE pointer' = Torn
  BY DEF OpenPointer, WritePointer, At
<1>2. /\ ProcInv' /\ proc'.pc = p /\ proc'.sess = proc.sess /\ proc'.snap = proc.snap
      /\ proc.sess \in Sessions /\ proc.snap \in Snap /\ proc.snap.stamp = clock
  BY <1>1, GotoSaved DEF Saving
<1>3. files[proc.sess] = proc.snap
  BY <1>1 DEF NewestInv, SaveInv
<1>4. SessionTypes' /\ Stamped'
  BY <1>1 DEF NewestInv, SessionTypes, Stamped
<1>5. LatestIsNewest'
  BY <1>1, <1>2, <1>3, NoSnap DEF NewestInv, LatestIsNewest, Stamped
<1>6. SaveInv'
  BY <1>1, <1>2, <1>3 DEF SaveInv
<1>7. QED
  BY <1>2, <1>4, <1>5, <1>6 DEF NewestInv

\* Nothing is newer than what is being saved, so it is not among the expired.
LEMMA NewestSpared ==
    ASSUME NewestInv, proc.pc = "list"
    PROVE  proc.sess \notin Expired
<1>1. /\ files[proc.sess] = proc.snap /\ proc.snap.stamp = clock /\ proc.snap \in Snap
      /\ proc.sess \in Sessions
  BY DEF NewestInv, SaveInv, Saving
<1>2. \A t \in Saved : ~(files[t].stamp > files[proc.sess].stamp)
  <2> SUFFICES ASSUME NEW t \in Saved PROVE ~(files[t].stamp > clock)
    BY <1>1
  <2>1. t \in Sessions /\ files[t] \in Snap /\ files[t].stamp <= clock
    BY DEF Saved, NewestInv, Stamped
  <2>2. files[t].stamp \in Nat /\ clock \in Nat
    BY <2>1 DEF Snap, NewestInv, SessionTypes
  <2>3. QED
    BY <2>1, <2>2
<1>3. Newer(proc.sess) = {}
  BY <1>2 DEF Newer
<1>4. Cardinality(Newer(proc.sess)) = 0
  BY <1>3, FS_EmptySet
<1>5. QED
  BY <1>4, StorageAssumption DEF Expired

LEMMA Listing == ASSUME NewestInv, ListSessions PROVE NewestInv'
<1>1. proc.pc = "list" /\ UNCHANGED <<sessionVars, acked, clock>>
  BY DEF ListSessions, At
<1>2. CASE proc' = Off
  BY <1>1, <1>2, OffProc, NotSaving DEF Become, Saving
<1>3. CASE proc' = [proc EXCEPT !.pc = "prune", !.victims = Expired]
  <2>1. /\ Formed(proc') /\ proc'.pc = "prune" /\ proc'.next = proc.next /\ proc'.sess = proc.sess
        /\ proc'.snap = proc.snap /\ proc'.victims = Expired
    BY <1>3 DEF NewestInv, ProcInv, Formed, Fields
  <2>2. ProcInv'
    BY <1>1, <2>1 DEF NewestInv, ProcInv, Steps, Saving
  <2>3. SessionTypes' /\ Stamped' /\ LatestIsNewest'
    BY <1>1 DEF NewestInv, SessionTypes, Stamped, LatestIsNewest, sessionVars
  <2>4. SaveInv'
    BY <1>1, <2>1, NewestSpared DEF NewestInv, SaveInv, Saving, sessionVars
  <2>5. QED
    BY <2>2, <2>3, <2>4 DEF NewestInv
<1>4. QED
  BY <1>2, <1>3 DEF ListSessions, Become

LEMMA Pruning == ASSUME NewestInv, PruneOne PROVE NewestInv'
<1>1. PICK s \in proc.victims :
         /\ files' = [files EXCEPT ![s] = NoFile]
         /\ proc' = [proc EXCEPT !.victims = @ \ {s}]
  BY DEF PruneOne, Become
<1>2. proc.pc = "prune" /\ UNCHANGED <<tmps, pointer, acked, clock>>
  BY DEF PruneOne, At
<1>3. /\ proc.sess \in Sessions /\ proc.snap \in Snap /\ proc.snap.stamp = clock
      /\ pointer = proc.sess /\ files[proc.sess] = proc.snap /\ proc.sess # s
      /\ proc.sess \notin proc.victims
  BY <1>2 DEF NewestInv, SaveInv, Saving
<1>4. /\ files' \in [Sessions -> Snap \cup {NoFile}]
      /\ \A t \in Sessions : files'[t] = files[t] \/ files'[t] = NoFile
      /\ files'[proc.sess] = proc.snap
  BY <1>1, <1>3 DEF NewestInv, SessionTypes
<1>5. /\ Formed(proc') /\ proc'.pc = "prune" /\ proc'.next = proc.next /\ proc'.sess = proc.sess
      /\ proc'.snap = proc.snap /\ proc'.victims = proc.victims \ {s}
  BY <1>1, <1>2 DEF NewestInv, ProcInv, Formed, Fields
<1>6. ProcInv'
  BY <1>2, <1>5 DEF NewestInv, ProcInv
<1>7. SessionTypes' /\ Stamped' /\ LatestIsNewest'
  BY <1>2, <1>3, <1>4, NoSnap DEF NewestInv, SessionTypes, Stamped, LatestIsNewest
<1>8. SaveInv'
  BY <1>2, <1>3, <1>4, <1>5 DEF SaveInv
<1>9. QED
  BY <1>6, <1>7, <1>8 DEF NewestInv

LEMMA EndingSave == ASSUME NewestInv, EndSave PROVE NewestInv'
<1>1. /\ proc.pc = "prune" /\ acked' = [acked EXCEPT ![proc.sess] = proc.snap] /\ AfterSave
      /\ UNCHANGED <<files, tmps, pointer, clock>>
  BY DEF EndSave, At, sessionVars
<1>2. /\ proc.sess \in Sessions /\ proc.snap \in Snap /\ proc.snap.stamp = clock
      /\ pointer = proc.sess /\ files[proc.sess] = proc.snap
      /\ proc.next \in {"prompt", "new", "post"}
  BY <1>1 DEF NewestInv, SaveInv, ProcInv, Saving
<1>3. ProcInv' /\ proc'.pc \in {"off", "prompt", "facts"}
  BY <1>1, AfterSaveProc DEF NewestInv
<1>4. proc'.pc # "off" => proc'.sess \in Sessions /\ proc'.snap \in Snap
  <2>1. CASE \E s \in Sessions, snap \in Snap : Prompt(s, snap)
    BY <2>1 DEF Prompt, Become, Off
  <2>2. CASE PostSession
    BY <1>2, <2>2, OffFormed DEF PostSession, Become, NewestInv, ProcInv, Formed, Fields
  <2>3. Blank \in Snap
    BY DEF Blank, Snap
  <2>4. QED
    BY <1>1, <1>2, <2>1, <2>2, <2>3 DEF AfterSave
<1>5. /\ acked' \in [Sessions -> Snap]
      /\ \A t \in Sessions : acked'[t] = acked[t] \/ acked'[t] = proc.snap
  BY <1>1, <1>2 DEF NewestInv, SessionTypes
<1>6. SessionTypes' /\ Stamped' /\ LatestIsNewest'
  BY <1>1, <1>2, <1>5 DEF NewestInv, SessionTypes, Stamped, LatestIsNewest
<1>7. SaveInv'
  BY <1>3, <1>4 DEF SaveInv, Saving
<1>8. QED
  BY <1>3, <1>6, <1>7 DEF NewestInv

LEMMA NewestNext == Inv /\ NewestInv /\ [Next]_vars => NewestInv'
<1> SUFFICES ASSUME Inv, NewestInv, [Next]_vars PROVE NewestInv'
  OBVIOUS
<1> USE DEF At
<1>0. ProcInv'
  BY NextInv DEF Inv
<1>1. CASE Start
  <2>1. PICK s \in Sessions, snap \in Snap : Opens(s, snap)
    <3>1. Blank \in Snap
      BY DEF Blank, Snap
    <3>2. \A s \in Sessions : files[s] \in Snap \/ files[s] = NoFile
      BY DEF NewestInv, SessionTypes
    <3>3. CASE \E s \in Sessions : OpenNamed(s)
      BY <3>1, <3>2, <3>3 DEF OpenNamed
    <3>4. CASE Latest # NoFile /\ Opens(Latest, files[Latest])
      BY <3>4 DEF Latest
    <3>5. CASE \E s \in Sessions : Fresh(s) /\ Opens(s, Blank)
      BY <3>1, <3>5
    <3>6. QED
      BY <1>1, <3>3, <3>4, <3>5 DEF Start
  <2>2. UNCHANGED <<sessionVars, clock>>
    BY <1>1 DEF Start
  <2>3. QED
    BY <2>1, <2>2, OpensNewest
<1>2. ASSUME NEW s \in Sessions, ResumeSession(s) PROVE NewestInv'
  <2>1. UNCHANGED <<sessionVars, clock>>
    BY <1>2 DEF ResumeSession
  <2>2. CASE files[s] \in Snap /\ Opens(s, files[s])
    BY <2>1, <2>2, OpensNewest
  <2>3. CASE Become(Off) /\ UNCHANGED acked
    BY <2>1, <2>3, OffProc, NotSaving DEF Saving
  <2>4. QED
    BY <1>2, <2>2, <2>3 DEF ResumeSession
<1>3. CASE SaveCommand \/ NewSession \/ Quit
  <2>1. /\ \E next \in {"prompt", "new", "post"} : BeginSave(proc.snap, next)
        /\ UNCHANGED <<sessionVars, acked>> /\ proc.pc = "prompt"
    BY <1>3 DEF SaveCommand, NewSession, Quit
  <2>2. proc.snap \in Snap
    BY <2>1 DEF NewestInv, SaveInv
  <2>3. QED
    BY <2>1, <2>2, BeginSaveNewest
<1>4. CASE MemoryCommand \/ Turn \/ OpenMemory \/ WriteMemory
  <2>1. /\ UNCHANGED <<sessionVars, acked, clock>> /\ proc.pc # "off"
        /\ proc'.sess = proc.sess /\ proc'.snap = proc.snap
        /\ proc'.pc \in {"memory", "memwrite"}
    BY <1>4 DEF MemoryCommand, Turn, UseMemory, OpenMemory, WriteMemory, Goto, Become,
       NewestInv, ProcInv, Formed, Fields
  <2>2. QED
    BY <1>0, <2>1, NotSaving DEF NewestInv, SaveInv, Saving
<1>5. CASE EndMemory
  <2> DEFINE taken == [proc.snap EXCEPT !.turns = @ + 1]
  <2>1. proc.pc = "memory" /\ UNCHANGED <<sessionVars, acked>>
    BY <1>5 DEF EndMemory
  <2>2. proc.snap \in Snap /\ taken \in Snap /\ proc.sess \in Sessions
    BY <2>1 DEF NewestInv, SaveInv, Snap
  <2>3. (\E snap \in Snap : Prompt(proc.sess, snap) /\ clock' = clock) \/ BeginSave(taken, "prompt")
    BY <1>5, <2>2 DEF EndMemory
  <2> HIDE DEF taken
  <2>4. CASE BeginSave(taken, "prompt")
    BY <2>1, <2>2, <2>4, BeginSaveNewest
  <2>5. ASSUME NEW snap \in Snap, Prompt(proc.sess, snap), clock' = clock PROVE NewestInv'
    <3>1. proc'.pc = "prompt" /\ proc'.sess = proc.sess /\ proc'.snap = snap
      BY <2>5 DEF Prompt, Become, Off
    <3>2. QED
      BY <1>0, <2>1, <2>2, <2>5, <3>1, NotSaving DEF Saving
  <2>6. QED
    BY <2>3, <2>4, <2>5
<1>6. CASE SaveStep
  BY <1>6, WritingTmp, ReplacingSession, WritingPointer, Listing, Pruning, EndingSave DEF SaveStep
<1>7. CASE PostStep \/ Crash
  <2>1. UNCHANGED <<sessionVars, acked, clock>>
    BY <1>7 DEF PostStep, WriteFacts, WriteKnowledge, WriteWorkspaces, WriteProfile, Crash
  <2>2. CASE Become(Off)
    BY <1>0, <2>1, <2>2, OffProc, NotSaving DEF Saving
  <2>3. CASE \E p \in {"knowledge", "workspaces", "profile"} : Goto(p) /\ proc.pc # "off"
    <3>1. /\ proc'.pc \in {"knowledge", "workspaces", "profile"} /\ proc.pc # "off"
          /\ proc'.sess = proc.sess /\ proc'.snap = proc.snap
      BY <2>3 DEF Goto, NewestInv, ProcInv, Formed, Fields
    <3>2. QED
      BY <1>0, <2>1, <3>1, NotSaving DEF NewestInv, SaveInv, Saving
  <2>4. QED
    BY <1>7, <2>2, <2>3 DEF PostStep, WriteFacts, WriteKnowledge, WriteWorkspaces, WriteProfile,
       Crash
<1>8. CASE UNCHANGED vars
  BY <1>8 DEF vars, sessionVars, NewestInv, ProcInv, SessionTypes, Stamped, SaveInv, LatestIsNewest
<1>9. QED
  BY <1>1, <1>2, <1>3, <1>4, <1>5, <1>6, <1>7, <1>8 DEF Next, Command, MemoryStep

\* The pointer to the latest session, unless its own write was cut, names a
\* file that exists and is as recent as every save that returned, at every
\* point at which the process may be killed (runtime/sessions.py, save,
\* load_latest and _prune_if_needed).
THEOREM PointerIsNewest == Spec => []LatestIsNewest
<1>1. NewestInv => LatestIsNewest
  BY DEF NewestInv
<1>2. QED
  BY <1>1, InitInv, NextInv, NewestInit, NewestNext, PTL DEF Spec

-----------------------------------------------------------------------------
(* The snapshots.  A session whose file is gone, or about to be pruned, has *)
(* as many later snapshots as are retained that are not about to be pruned  *)
(* themselves: whatever point of the pruning a crash hits, they stay.       *)

\* The snapshots saved later than a stamp, and those about to be pruned.
Later(x) == {t \in Saved : files[t].stamp > x}
Leaving == IF proc.pc = "prune" THEN proc.victims ELSE {}

Replaced(s) == Cardinality(Later(acked[s].stamp) \ Leaving) >= Retained

Ahead == proc.pc # "off" => proc.snap.turns >= acked[proc.sess].turns

KeptInv ==
    /\ IsFiniteSet(Saved)
    /\ Ahead
    /\ \A s \in Sessions : acked[s] # Blank =>
          /\ files[s] \in Snap => /\ files[s].turns >= acked[s].turns
                                  /\ files[s].stamp >= acked[s].stamp
          /\ files[s] = NoFile \/ s \in Leaving => Replaced(s)

(* A larger finite set counts for no less.                                  *)
LEMMA AtLeast ==
    ASSUME NEW A, NEW B, A \subseteq B, IsFiniteSet(B), Cardinality(A) >= Retained
    PROVE  Cardinality(B) >= Retained
<1>1. Cardinality(A) <= Cardinality(B) /\ Cardinality(A) \in Nat /\ Cardinality(B) \in Nat
  BY FS_Subset, FS_CardinalityType
<1>2. QED
  BY <1>1, StorageAssumption

(* What is as late is no less in number without the expired: a snapshot     *)
(* with fewer than Retained later ones is not expired, and if too few of    *)
(* those later than x were spared, the latest of the others would be too.   *)
LEMMA SparedSuffice ==
    ASSUME SessionTypes, IsFiniteSet(Saved), NEW x \in Nat, Cardinality(Later(x)) >= Retained
    PROVE  Cardinality(Later(x) \ Expired) >= Retained
<1> DEFINE A == Later(x) \ Expired
           B == Later(x) \cap Expired
<1>0. SUFFICES ASSUME ~(Cardinality(A) >= Retained) PROVE FALSE
  OBVIOUS
<1>1. /\ IsFiniteSet(Later(x)) /\ IsFiniteSet(A) /\ Retained \in Nat
      /\ \A t \in Saved : IsFiniteSet(Newer(t)) /\ Newer(t) \in FiniteSubsetsOf(Sessions)
  BY FS_Subset, StorageAssumption DEF Later, Newer, Saved, FiniteSubsetsOf
<1>2. \A t \in Saved : files[t].stamp \in Nat
  BY DEF Saved, Snap
<1>3. B # {}
  <2>1. SUFFICES ASSUME B = {} PROVE FALSE
    OBVIOUS
  <2>2. A = Later(x)
    BY <2>1
  <2>3. QED
    BY <1>0, <2>2
<1>4. PICK t \in B : \A u \in B : ~(<<Newer(u), Newer(t)>> \in StrictSubsetOrdering(Sessions))
  <2> DEFINE T == {Newer(u) : u \in B}
  <2>1. T \subseteq FiniteSubsetsOf(Sessions) /\ T # {}
    BY <1>1, <1>3 DEF Expired
  <2>2. \E v \in T : \A w \in T : ~(<<w, v>> \in StrictSubsetOrdering(Sessions))
    BY <2>1, WFMin, FS_StrictSubsetOrderingWellFounded
  <2>3. QED
    BY <2>2
<1>5. Newer(t) \subseteq A
  <2> SUFFICES ASSUME NEW u \in Newer(t), u \notin A PROVE FALSE
    OBVIOUS
  <2>1. t \in Saved /\ u \in Saved /\ files[u].stamp > files[t].stamp /\ files[t].stamp > x
    BY DEF Newer, Later
  <2>2. u \in B
    BY <1>2, <2>1 DEF Later
  <2>3. Newer(u) \subseteq Newer(t) /\ u \in Newer(t) /\ u \notin Newer(u)
    BY <1>2, <2>1 DEF Newer
  <2>4. <<Newer(u), Newer(t)>> \in StrictSubsetOrdering(Sessions)
    BY <2>3 DEF StrictSubsetOrdering, Newer, Saved
  <2>5. QED
    BY <1>4, <2>2, <2>4
<1>6. Cardinality(Newer(t)) >= Retained
  BY DEF Expired
<1>7. QED
  BY <1>0, <1>1, <1>5, <1>6, AtLeast

LEMMA KeptInit == Init => KeptInv
<1> SUFFICES ASSUME Init PROVE KeptInv
  OBVIOUS
<1>1. /\ files = [s \in Sessions |-> NoFile] /\ acked = [s \in Sessions |-> Blank] /\ proc = Off
  BY DEF Init
<1>2. Saved = {}
  BY <1>1, NoSnap DEF Saved
<1>3. QED
  BY <1>1, <1>2, OffFormed, FS_EmptySet DEF KeptInv, Ahead

(* A step that leaves the snapshots alone, and spares what it spared.       *)
LEMMA FilesAlone ==
    ASSUME KeptInv, NewestInv, UNCHANGED <<files, acked>>, Ahead', Leaving' \subseteq Leaving
    PROVE  KeptInv'
<1>1. Saved' = Saved /\ \A s \in Sessions : Later(acked[s].stamp)' = Later(acked[s].stamp)
  BY DEF Saved, Later
<1>2. ASSUME NEW s \in Sessions, Replaced(s) PROVE Replaced(s)'
  <2>1. IsFiniteSet(Later(acked[s].stamp) \ Leaving')
    BY FS_Subset DEF KeptInv, Later
  <2>2. QED
    BY <1>1, <1>2, <2>1, AtLeast DEF Replaced
<1>3. QED
  BY <1>1, <1>2 DEF KeptInv

LEMMA NotPruning == ASSUME proc'.pc # "prune" PROVE Leaving' \subseteq Leaving
  BY DEF Leaving

(* The process begins with what the file holds, or with nothing where there *)
(* is no file: then the session begins anew.                                *)
LEMMA OpensKept ==
    ASSUME KeptInv, NewestInv, NEW s \in Sessions, NEW snap \in Snap, Opens(s, snap),
           UNCHANGED files,
           files[s] \in Snap => snap = files[s],
           files[s] = NoFile => snap = Blank
    PROVE  KeptInv'
<1>1. /\ acked' = [acked EXCEPT ![s] = IF files[s] = NoFile THEN Blank ELSE @]
      /\ proc'.sess = s /\ proc'.snap = snap /\ proc'.pc = "prompt"
  BY DEF Opens, Become, Off
<1>2. /\ acked \in [Sessions -> Snap] /\ files \in [Sessions -> Snap \cup {NoFile}]
      /\ Blank.turns = 0
  BY DEF NewestInv, SessionTypes, Blank
<1>3. \A t \in Sessions : acked'[t] = acked[t] \/ acked'[t] = Blank
  BY <1>1, <1>2
<1>4. Ahead'
  <2>1. CASE files[s] = NoFile
    BY <1>1, <1>2, <2>1 DEF Ahead
  <2>2. CASE files[s] \in Snap
    <3>1. acked'[s] = acked[s] /\ acked[s] # Blank => snap.turns >= acked[s].turns
      BY <1>1, <1>2, <2>2, NoSnap DEF KeptInv
    <3>2. snap.turns \in Nat
      BY DEF Snap
    <3>3. QED
      BY <1>1, <1>2, <3>1, <3>2 DEF Ahead
  <2>3. QED
    BY <1>2, <2>1, <2>2
<1>5. Saved' = Saved /\ Leaving' = {}
  BY <1>1 DEF Saved, Leaving
<1>6. ASSUME NEW t \in Sessions, acked'[t] # Blank, Replaced(t) PROVE Replaced(t)'
  <2>1. Later(acked[t].stamp)' = Later(acked[t].stamp) /\ acked'[t] = acked[t]
    BY <1>3, <1>5, <1>6 DEF Later
  <2>2. IsFiniteSet(Later(acked[t].stamp))
    BY FS_Subset DEF KeptInv, Later
  <2>3. QED
    BY <1>5, <1>6, <2>1, <2>2, AtLeast DEF Replaced
<1>7. QED
  BY <1>3, <1>4, <1>5, <1>6 DEF KeptInv

(* The file put in place is the latest of all.                              *)
LEMMA ReplacingKept == ASSUME KeptInv, NewestInv, ReplaceSession PROVE KeptInv'
<1> DEFINE p == proc.sess
<1>1. /\ proc.pc = "replace" /\ Goto("point") /\ UNCHANGED acked
      /\ files' = [files EXCEPT ![p] = tmps[p]]
  BY DEF ReplaceSession, At
<1>2. /\ proc'.pc = "point" /\ proc'.sess = p /\ proc'.snap = proc.snap
      /\ p \in Sessions /\ proc.snap \in Snap /\ proc.snap.stamp = clock
  BY <1>1, GotoSaved DEF Saving
<1>3. tmps[p] = proc.snap /\ files \in [Sessions -> Snap \cup {NoFile}]
      /\ acked \in [Sessions -> Snap] /\ clock \in Nat
  BY <1>1 DEF NewestInv, SaveInv, SessionTypes
<1>4. /\ files'[p] = proc.snap
      /\ \A t \in Sessions : t # p => files'[t] = files[t]
  BY <1>1, <1>2, <1>3
<1>5. Saved' = Saved \cup {p} /\ Leaving = {} /\ Leaving' = {}
  BY <1>1, <1>2, <1>4 DEF Saved, Leaving
<1>6. IsFiniteSet(Saved')
  BY <1>5, FS_AddElement DEF KeptInv
<1>7. Ahead'
  BY <1>1, <1>2 DEF KeptInv, Ahead
<1>8. \A t \in Sessions : acked[t].stamp <= clock /\ acked[t].stamp \in Nat
  BY <1>3 DEF NewestInv, Stamped, Snap
<1>9. ASSUME NEW t \in Sessions, Replaced(t) PROVE Replaced(t)'
  <2>1. Later(acked[t].stamp) \subseteq Later(acked[t].stamp)'
    <3> SUFFICES ASSUME NEW u \in Saved, files[u].stamp > acked[t].stamp
                 PROVE  u \in Saved' /\ files'[u].stamp > acked[t].stamp
      BY <1>1 DEF Later
    <3>1. CASE u = p
      <4>1. files[u].stamp <= clock /\ files[u].stamp \in Nat
        BY DEF Saved, NewestInv, Stamped, Snap
      <4>2. QED
        BY <1>2, <1>3, <1>4, <1>5, <1>8, <3>1, <4>1
    <3>2. CASE u # p
      BY <1>4, <1>5, <3>2 DEF Saved
    <3>3. QED
      BY <3>1, <3>2
  <2>2. IsFiniteSet(Later(acked[t].stamp)')
    BY <1>6, FS_Subset DEF Later
  <2>3. QED
    BY <1>5, <1>9, <2>1, <2>2, AtLeast DEF Replaced
<1>10. ASSUME NEW t \in Sessions, acked'[t] # Blank
       PROVE  /\ files'[t] \in Snap => /\ files'[t].turns >= acked'[t].turns
                                       /\ files'[t].stamp >= acked'[t].stamp
              /\ files'[t] = NoFile \/ t \in Leaving' => Replaced(t)'
  <2>1. CASE t = p
    BY <1>1, <1>2, <1>4, <1>5, <1>8, <2>1, NoSnap DEF KeptInv, Ahead
  <2>2. CASE t # p
    BY <1>1, <1>4, <1>5, <1>9, <1>10, <2>2 DEF KeptInv
  <2>3. QED
    BY <2>1, <2>2
<1>11. QED
  BY <1>6, <1>7, <1>10 DEF KeptInv

(* The victims are chosen so that enough later snapshots are spared.        *)
LEMMA ListingKept == ASSUME KeptInv, NewestInv, ListSessions PROVE KeptInv'
<1>1. proc.pc = "list" /\ UNCHANGED <<files, acked>>
  BY DEF ListSessions, At, sessionVars
<1>2. CASE proc' = Off
  BY <1>1, <1>2, OffFormed, NotPruning, FilesAlone DEF Ahead
<1>3. CASE proc' = [proc EXCEPT !.pc = "prune", !.victims = Expired]
  <2>1. /\ proc'.pc = "prune" /\ proc'.sess = proc.sess /\ proc'.snap = proc.snap
        /\ proc'.victims = Expired
    BY <1>3 DEF NewestInv, ProcInv, Formed, Fields
  <2>2. Leaving = {} /\ Leaving' = Expired /\ Saved' = Saved
    BY <1>1, <2>1 DEF Leaving, Saved
  <2>3. Ahead'
    BY <1>1, <2>1 DEF KeptInv, Ahead
  <2>4. ASSUME NEW s \in Sessions, acked[s] # Blank, files[s] = NoFile \/ s \in Expired
        PROVE  Cardinality(Later(acked[s].stamp)) >= Retained /\ acked[s].stamp \in Nat
    <3>1. acked[s].stamp \in Nat
      BY DEF NewestInv, SessionTypes, Snap
    <3>2. CASE files[s] = NoFile
      BY <2>2, <2>4, <3>1, <3>2 DEF KeptInv, Replaced
    <3>3. CASE s \in Expired
      <4>1. /\ files[s] \in Snap /\ Cardinality(Newer(s)) >= Retained
            /\ files[s].stamp >= acked[s].stamp
        BY <2>4, <3>3 DEF Expired, Saved, KeptInv
      <4>2. Newer(s) \subseteq Later(acked[s].stamp)
        <5> SUFFICES ASSUME NEW t \in Saved, files[t].stamp > files[s].stamp
                     PROVE  files[t].stamp > acked[s].stamp
          BY DEF Newer, Later
        <5>1. files[t].stamp \in Nat /\ files[s].stamp \in Nat
          BY <4>1 DEF Saved, Snap
        <5>2. QED
          BY <3>1, <4>1, <5>1
      <4>3. IsFiniteSet(Later(acked[s].stamp))
        BY FS_Subset DEF KeptInv, Later
      <4>4. QED
        BY <3>1, <4>1, <4>2, <4>3, AtLeast
    <3>4. QED
      BY <2>4, <3>2, <3>3
  <2>5. ASSUME NEW s \in Sessions, acked[s] # Blank, files[s] = NoFile \/ s \in Expired
        PROVE  Replaced(s)'
    <3>1. Cardinality(Later(acked[s].stamp) \ Expired) >= Retained
      BY <2>4, <2>5, SparedSuffice DEF NewestInv, KeptInv
    <3>2. Later(acked[s].stamp)' = Later(acked[s].stamp)
      BY <1>1, <2>2 DEF Later
    <3>3. QED
      BY <1>1, <2>2, <3>1, <3>2 DEF Replaced
  <2>6. QED
    BY <1>1, <2>2, <2>3, <2>5 DEF KeptInv
<1>4. QED
  BY <1>2, <1>3 DEF ListSessions, Become

(* Pruning one of them takes nothing from what is spared.                   *)
LEMMA PruningKept == ASSUME KeptInv, NewestInv, PruneOne PROVE KeptInv'
<1>1. PICK v \in proc.victims :
         /\ files' = [files EXCEPT ![v] = NoFile]
         /\ proc' = [proc EXCEPT !.victims = @ \ {v}]
  BY DEF PruneOne, Become
<1>2. proc.pc = "prune" /\ acked' = acked
  BY DEF PruneOne, At
<1>3. /\ proc'.pc = "prune" /\ proc'.sess = proc.sess /\ proc'.snap = proc.snap
      /\ proc'.victims = proc.victims \ {v}
  BY <1>1, <1>2 DEF NewestInv, ProcInv, Formed, Fields
<1>4. Leaving' = Leaving \ {v} /\ v \in Leaving
  BY <1>1, <1>2, <1>3 DEF Leaving
<1>5. /\ files \in [Sessions -> Snap \cup {NoFile}]
      /\ \A t \in Sessions : files'[t] = IF t = v THEN NoFile ELSE files[t]
  BY <1>1 DEF NewestInv, SessionTypes
<1>6. Saved' = Saved \ {v} /\ \A x : Later(x)' = Later(x) \ {v}
  BY <1>5, NoSnap DEF Saved, Later
<1>7. IsFiniteSet(Saved') /\ Ahead'
  BY <1>2, <1>3, <1>6, FS_RemoveElement DEF KeptInv, Ahead
<1>8. ASSUME NEW s \in Sessions, Replaced(s) PROVE Replaced(s)'
  <2>1. Later(acked[s].stamp)' = Later(acked[s].stamp) \ {v}
    BY <1>2, <1>6
  <2>2. Later(acked[s].stamp)' \ Leaving' = Later(acked[s].stamp) \ Leaving
    BY <1>4, <2>1
  <2>3. QED
    BY <1>8, <2>2 DEF Replaced
<1>9. ASSUME NEW s \in Sessions, acked[s] # Blank, files'[s] = NoFile \/ s \in Leaving'
      PROVE  Replaced(s)'
  <2>1. files[s] = NoFile \/ s \in Leaving
    BY <1>4, <1>5, <1>9
  <2>2. QED
    BY <1>8, <1>9, <2>1 DEF KeptInv
<1>10. QED
  BY <1>2, <1>5, <1>7, <1>9, NoSnap DEF KeptInv

(* A save returns with its file in place.                                   *)
LEMMA EndingKept == ASSUME KeptInv, NewestInv, NewestInv', EndSave PROVE KeptInv'
<1> DEFINE p == proc.sess
<1>1. /\ proc.pc = "prune" /\ proc.victims = {} /\ AfterSave /\ UNCHANGED files
      /\ acked' = [acked EXCEPT ![p] = proc.snap]
  BY DEF EndSave, At, sessionVars
<1>2. /\ p \in Sessions /\ proc.snap \in Snap /\ files[p] = proc.snap
      /\ proc.next \in {"prompt", "new", "post"} /\ acked \in [Sessions -> Snap]
  BY <1>1 DEF NewestInv, SaveInv, ProcInv, Saving, SessionTypes
<1>3. /\ acked'[p] = proc.snap
      /\ \A t \in Sessions : t # p => acked'[t] = acked[t]
  BY <1>1, <1>2
<1>4. Ahead' /\ proc'.pc # "prune"
  <2>0. proc.snap.turns \in Nat
    BY <1>2 DEF Snap
  <2>1. CASE proc.next = "prompt"
    <3>1. proc'.pc = "prompt" /\ proc'.sess = p /\ proc'.snap = proc.snap
      BY <1>1, <2>1 DEF AfterSave, Prompt, Become, Off
    <3>2. QED
      BY <1>3, <2>0, <3>1 DEF Ahead
  <2>2. CASE proc.next = "new"
    <3>1. PICK s \in Sessions : Fresh(s) /\ Prompt(s, Blank)
      BY <1>1, <2>2 DEF AfterSave
    <3>2. proc'.pc = "prompt" /\ proc'.sess = s /\ proc'.snap = Blank /\ acked'[s] = Blank
      BY <1>3, <3>1 DEF Fresh, Prompt, Become, Off
    <3>3. QED
      BY <3>2 DEF Ahead, Blank
  <2>3. CASE proc.next = "post"
    <3>1. PostSession
      BY <1>1, <2>3 DEF AfterSave
    <3>2. CASE proc' = Off
      BY <3>2, OffFormed DEF Ahead
    <3>3. CASE proc' = [proc EXCEPT !.pc = "facts", !.count = facts + 1]
      <4>1. proc'.pc = "facts" /\ proc'.sess = p /\ proc'.snap = proc.snap
        BY <3>3 DEF NewestInv, ProcInv, Formed, Fields
      <4>2. QED
        BY <1>3, <2>0, <4>1 DEF Ahead
    <3>4. QED
      BY <3>1, <3>2, <3>3 DEF PostSession, Become
  <2>4. QED
    BY <1>2, <2>1, <2>2, <2>3
<1>5. Saved' = Saved /\ Leaving = {} /\ Leaving' = {}
  BY <1>1, <1>4 DEF Saved, Leaving
<1>6. ASSUME NEW s \in Sessions, acked'[s] # Blank
      PROVE  /\ files'[s] \in Snap => /\ files'[s].turns >= acked'[s].turns
                                      /\ files'[s].stamp >= acked'[s].stamp
             /\ files'[s] = NoFile \/ s \in Leaving' => Replaced(s)'
  <2>1. CASE s = p
    <3>1. files'[s] = acked'[s] /\ files'[s].turns \in Nat /\ files'[s].stamp \in Nat
      BY <1>1, <1>2, <1>3, <2>1 DEF Snap
    <3>2. files'[s] # NoFile
      BY <1>1, <1>2, <2>1, NoSnap
    <3>3. QED
      BY <1>5, <3>1, <3>2
  <2>2. CASE s # p
    <3>1. acked'[s] = acked[s] /\ files'[s] = files[s]
      BY <1>1, <1>3, <2>2
    <3>2. Later(acked[s].stamp)' = Later(acked[s].stamp)
      BY <1>1, <1>5, <3>1 DEF Later
    <3>3. Replaced(s) => Replaced(s)'
      BY <1>5, <3>1, <3>2 DEF Replaced
    <3>4. QED
      BY <1>5, <1>6, <3>1, <3>3 DEF KeptInv
  <2>3. QED
    BY <2>1, <2>2
<1>7. QED
  BY <1>4, <1>5, <1>6 DEF KeptInv

(* Every other step leaves the snapshots alone, and the process with a      *)
(* history no shorter than what was saved.                                  *)
LEMMA KeptNext == Inv /\ NewestInv /\ NewestInv' /\ KeptInv /\ [Next]_vars => KeptInv'
<1> SUFFICES ASSUME Inv, NewestInv, NewestInv', KeptInv, [Next]_vars PROVE KeptInv'
  OBVIOUS
<1> USE DEF At
<1>0. \A s \in Sessions : files[s] \in Snap \/ files[s] = NoFile
  BY DEF NewestInv, SessionTypes
<1>1. CASE Start
  <2>1. Blank \in Snap
    BY DEF Blank, Snap
  <2>2. PICK s \in Sessions, snap \in Snap :
          /\ Opens(s, snap)
          /\ files[s] \in Snap => snap = files[s]
          /\ files[s] = NoFile => snap = Blank
    <3>1. CASE \E s \in Sessions : OpenNamed(s)
      BY <1>0, <2>1, <3>1, NoSnap DEF OpenNamed
    <3>2. CASE Latest # NoFile /\ Opens(Latest, files[Latest])
      BY <3>2, NoSnap DEF Latest
    <3>3. CASE \E s \in Sessions : Fresh(s) /\ Opens(s, Blank)
      BY <2>1, <3>3, NoSnap DEF Fresh
    <3>4. QED
      BY <1>1, <3>1, <3>2, <3>3 DEF Start
  <2>3. UNCHANGED files
    BY <1>1 DEF Start, sessionVars
  <2>4. QED
    BY <2>2, <2>3, OpensKept
<1>2. ASSUME NEW s \in Sessions, ResumeSession(s) PROVE KeptInv'
  <2>1. UNCHANGED files
    BY <1>2 DEF ResumeSession, sessionVars
  <2>2. CASE files[s] \in Snap /\ Opens(s, files[s])
    BY <2>1, <2>2, NoSnap, OpensKept
  <2>3. CASE Become(Off) /\ UNCHANGED acked
    BY <2>1, <2>3, OffProc, NotPruning, FilesAlone DEF Ahead
  <2>4. QED
    BY <1>2, <2>2, <2>3 DEF ResumeSession
<1>3. CASE SaveCommand \/ NewSession \/ Quit
  <2>1. /\ \E next : BeginSave(proc.snap, next)
        /\ UNCHANGED <<files, acked>> /\ proc.pc = "prompt"
    BY <1>3 DEF SaveCommand, NewSession, Quit, sessionVars
  <2>2. /\ proc'.pc = "tmp" /\ proc'.sess = proc.sess
        /\ proc'.snap = [proc.snap EXCEPT !.stamp = clock + 1]
    BY <2>1 DEF BeginSave, Become, NewestInv, ProcInv, Formed, Fields
  <2>3. proc'.snap.turns = proc.snap.turns
    BY <2>1, <2>2 DEF NewestInv, SaveInv, Snap
  <2>4. Ahead'
    BY <2>1, <2>2, <2>3 DEF KeptInv, Ahead
  <2>5. QED
    BY <2>1, <2>2, <2>4, NotPruning, FilesAlone
<1>4. CASE \/ MemoryCommand \/ Turn \/ OpenMemory \/ WriteMemory
           \/ OpenTmp \/ WriteTmp \/ OpenPointer \/ WritePointer
           \/ WriteFacts \/ WriteKnowledge \/ WriteWorkspaces
  <2>1. /\ UNCHANGED <<files, acked>> /\ proc.pc # "off" /\ proc'.pc # "prune"
        /\ proc'.sess = proc.sess /\ proc'.snap = proc.snap
    BY <1>4 DEF MemoryCommand, Turn, UseMemory, OpenMemory, WriteMemory, OpenTmp, WriteTmp,
       OpenPointer, WritePointer, WriteFacts, WriteKnowledge, WriteWorkspaces, Goto, Become,
       NewestInv, ProcInv, Formed, Fields, sessionVars
  <2>2. Ahead'
    BY <2>1 DEF KeptInv, Ahead
  <2>3. QED
    BY <2>1, <2>2, NotPruning, FilesAlone
<1>5. CASE EndMemory
  <2> DEFINE taken == [proc.snap EXCEPT !.turns = @ + 1]
  <2>1. proc.pc = "memory" /\ UNCHANGED <<files, acked>>
    BY <1>5 DEF EndMemory, sessionVars
  <2>2. /\ proc.snap \in Snap /\ proc.sess \in Sessions /\ acked[proc.sess].turns \in Nat
        /\ proc.snap.turns >= acked[proc.sess].turns
    BY <2>1 DEF NewestInv, SaveInv, KeptInv, Ahead, SessionTypes, Snap
  <2>3. taken \in Snap /\ taken.turns >= acked[proc.sess].turns
    BY <2>2 DEF Snap
  <2>4. /\ proc'.pc # "prune" /\ proc'.sess = proc.sess
        /\ proc'.snap.turns = proc.snap.turns \/ proc'.snap.turns = taken.turns
    <3>1. CASE Prompt(proc.sess, proc.snap) \/ Prompt(proc.sess, taken)
      BY <3>1 DEF Prompt, Become, Off
    <3>2. CASE BeginSave(taken, "prompt")
      <4> HIDE DEF taken
      <4>1. /\ proc'.pc = "tmp" /\ proc'.sess = proc.sess
            /\ proc'.snap = [taken EXCEPT !.stamp = clock + 1]
        BY <3>2 DEF BeginSave, Become, NewestInv, ProcInv, Formed, Fields
      <4>2. QED
        BY <2>3, <4>1 DEF Snap
    <3>3. QED
      BY <1>5, <3>1, <3>2 DEF EndMemory
  <2>5. Ahead'
    BY <2>1, <2>2, <2>3, <2>4 DEF Ahead
  <2>6. QED
    BY <2>1, <2>4, <2>5, NotPruning, FilesAlone
<1>6. CASE ReplaceSession \/ ListSessions \/ PruneOne \/ EndSave
  BY <1>6, ReplacingKept, ListingKept, PruningKept, EndingKept
<1>7. CASE WriteProfile \/ Crash
  <2>1. UNCHANGED <<files, acked>> /\ Become(Off)
    BY <1>7 DEF WriteProfile, Crash, sessionVars
  <2>2. QED
    BY <2>1, OffProc, NotPruning, FilesAlone DEF Ahead
<1>8. CASE UNCHANGED vars
  <2>1. UNCHANGED <<files, acked, proc>>
    BY <1>8 DEF vars, sessionVars
  <2>2. QED
    BY <2>1, FilesAlone DEF KeptInv, Ahead, Leaving
<1>9. QED
  BY <1>1, <1>2, <1>3, <1>4, <1>5, <1>6, <1>7, <1>8
  DEF Next, Command, SaveStep, MemoryStep, PostStep

\* A save that returned stays: wherever the process is killed, in a save, in
\* the pruning after it or anywhere else, the session's file is whole and holds
\* what was saved, or as many later snapshots took its place as are retained
\* (runtime/sessions.py, save and _prune_if_needed).
THEOREM SavesStay == Spec => []SavedKept
<1>1. NewestInv /\ KeptInv => SavedKept
  <2> SUFFICES ASSUME NewestInv, KeptInv, NEW s \in Sessions
               PROVE  /\ files[s] # Torn
                      /\ acked[s] # Blank =>
                           \/ files[s] \in Snap /\ files[s].turns >= acked[s].turns
                           \/ /\ files[s] = NoFile
                              /\ Cardinality({t \in Sessions :
                                    files[t] \in Snap /\ files[t].stamp > acked[s].stamp})
                                   >= Retained
    BY DEF SavedKept
  <2>1. files[s] \in Snap \/ files[s] = NoFile
    BY DEF NewestInv, SessionTypes
  <2>2. {t \in Sessions : files[t] \in Snap /\ files[t].stamp > acked[s].stamp}
          = Later(acked[s].stamp)
    BY DEF Later, Saved
  <2>3. IsFiniteSet(Later(acked[s].stamp))
    BY FS_Subset DEF KeptInv, Later
  <2>4. Replaced(s) => Cardinality(Later(acked[s].stamp)) >= Retained
    BY <2>3, AtLeast DEF Replaced
  <2>5. QED
    BY <2>1, <2>2, <2>4, StorageAssumption, NoSnap DEF KeptInv
<1>2. QED
  BY <1>1, InitInv, NextInv, NewestInit, NewestNext, KeptInit, KeptNext, PTL DEF Spec
=============================================================================
