----------------------------- MODULE Workspace -----------------------------
(***************************************************************************)
(* The files of the workspace under the model's tools and the user's hands *)
(* (tools/builtin/read_file.py, edit_file.py, write_file.py, smart_edit.py,*)
(* patch.py and the refresh after a mutation in runtime/agent.py), and the *)
(* commands the model runs (shell.py, verification.py).  The model reads a *)
(* file, proposes a change of what it has seen, the user looks at the      *)
(* preview for as long as he likes, and the tool works on the file as it   *)
(* is by then.  The names leave those of McpClient free: both are extended *)
(* by the module of their proofs.                                          *)
(***************************************************************************)
EXTENDS FileEdits

CONSTANTS
    Files,         \* paths inside the workspace, as sequences of components
    Contents,      \* what a file may hold in the beginning
    NewLine,       \* a line the model adds
    UserLine,      \* a line the user adds
    MaxCalls,      \* bound: tool calls
    MaxUserEdits   \* bound: changes by the user

\* What a missing file and one that has not been shown are taken to hold.
Absent == <<Line("(absent)", 0)>>
Unknown == <<Line("(unknown)", 0)>>

ASSUME WorkspaceAssumption ==
    /\ Files \subseteq Seq(STRING)
    /\ MaxCalls \in Nat
    /\ MaxUserEdits \in Nat

VARIABLES
    files,    \* what each file holds
    seen,     \* what the conversation last showed of it
    changed,  \* auxiliary: files the user changed since they were shown
    call,     \* the tool call in progress
    preview,  \* the diff its confirmation request shows
    stage,    \* how far it is
    proc,     \* the processes of a command
    count     \* calls made and changes of the user

workspaceVars == <<files, seen, changed, call, preview, stage, proc, count>>

\* A tool call; patch is a sequence of file patches.
NoCall == [tool |-> "none", path |-> DevNull, old |-> <<>>, new |-> <<>>,
           all |-> FALSE, segments |-> <<>>, patch |-> <<>>]
NoPreview == [shown |-> FALSE, old |-> <<>>, new |-> <<>>]
NoProcess == [bash |-> FALSE, leader |-> FALSE, child |-> FALSE]

WorkspaceInit ==
    /\ files \in [Files -> Contents \cup {Absent}]
    /\ seen = [p \in Files |-> Unknown]
    /\ changed = {}
    /\ call = NoCall
    /\ preview = NoPreview
    /\ stage = "idle"
    /\ proc = NoProcess
    /\ count = [calls |-> 0, edits |-> 0]

-----------------------------------------------------------------------------
\* read_file of a whole file; a missing one is reported as such
ReadFile(p) ==
    /\ stage = "idle"
    /\ seen[p] = Unknown \/ p \in changed
    /\ seen' = [seen EXCEPT ![p] = files[p]]
    /\ changed' = changed \ {p}
    /\ UNCHANGED <<files, call, preview, stage, proc, count>>

\* The user, or a program, adds a line to a file or takes one away.
UserEdits(p) ==
    /\ count.edits < MaxUserEdits
    /\ files[p] # Absent
    /\ \E i \in 1..(Len(files[p]) + 1) :
          \/ files' = [files EXCEPT ![p] = InsertAt(@, i, UserLine)]
          \/ /\ i <= Len(files[p])
             /\ files' = [files EXCEPT ![p] = RemoveAt(@, i)]
    /\ changed' = changed \cup {p}
    /\ count' = [count EXCEPT !.edits = @ + 1]
    /\ UNCHANGED <<seen, call, preview, stage, proc>>

-----------------------------------------------------------------------------
\* What the model may ask for, given what it has seen.
Known(p) == seen[p] \notin {Unknown, Absent}
Snippets(p) == {Part(seen[p], w) : w \in Windows(seen[p], 1, 2)}

EditRequests(p) ==
    {[NoCall EXCEPT !.tool = "edit", !.path = p, !.old = old, !.new = new,
                    !.all = all] :
        old \in Snippets(p) \cup {Dedented(s) : s \in Snippets(p)} \cup {<<>>},
        new \in {<<>>, <<NewLine>>}, all \in BOOLEAN}

WriteRequests(p) ==
    {[NoCall EXCEPT !.tool = "write_file", !.path = p, !.new = <<NewLine>>]}

InsertRequests(p) ==
    LET Anchors == {<<>>} \cup {<<seen[p][i]>> : i \in DOMAIN seen[p]}
    IN  {[NoCall EXCEPT !.tool = "insert_edit", !.path = p, !.segments = s] :
            s \in {<<top, bottom>> : top, bottom \in Anchors}
             \cup {<<top, <<NewLine>>, bottom>> : top, bottom \in Anchors}
             \cup {<<code>> : code \in Snippets(p)}}

\* A hunk that inserts before line i of base, or deletes it, with a line of
\* context on either side.
Hunk(base, change) ==
    LET i == change.at
        before == IF i > 1 THEN <<[op |-> " ", line |-> base[i - 1]]>> ELSE <<>>
        next == IF change.op = "+" THEN i ELSE i + 1
        after == IF next <= Len(base) THEN <<[op |-> " ", line |-> base[next]]>>
                 ELSE <<>>
        line == IF change.op = "+" THEN NewLine ELSE base[i]
    IN  [start |-> IF base = <<>> THEN 0 ELSE Larger(i - 1, 1),
         lines |-> before \o <<[op |-> change.op, line |-> line]>> \o after]

Changes(base) ==
    {c \in [at : 1..(Len(base) + 1), op : {"+", "-"}] :
        c.op = "-" => c.at <= Len(base)}

\* The changes of a diff: one, or two whose hunks do not touch.
Diffs(base) ==
    {<<c>> : c \in Changes(base)}
    \cup {<<c, d>> : c, d \in {e \in Changes(base) : e.op = "+"}}

Separate(diff) == \A i \in 2..Len(diff) : diff[i - 1].at + 2 <= diff[i].at

\* git diff writes a/ and b/ before the paths.
GitPath(prefix, p) == <<prefix>> \o p

FilePatches(p) ==
    IF seen[p] = Absent
    THEN {[old |-> DevNull, new |-> GitPath("b", p),
           hunks |-> <<Hunk(<<>>, [at |-> 1, op |-> "+"])>>]}
    ELSE {[old |-> GitPath("a", p), new |-> GitPath("b", p),
           hunks |-> [i \in DOMAIN d |-> Hunk(seen[p], d[i])]] :
             d \in {e \in Diffs(seen[p]) : Separate(e)}}
         \cup {[old |-> GitPath("a", p), new |-> DevNull, hunks |-> <<>>]}

\* One patch of the file, as the second of a request.
SomePatch(p) == CHOOSE f \in FilePatches(p) : TRUE

\* The patches of a request: of one file, or of two.
PatchSequences ==
    LET usable == {p \in Files : seen[p] # Unknown}
        patches == UNION {FilePatches(p) : p \in usable}
        double == {<<f, SomePatch(q)>> : f \in patches, q \in usable}
    IN  {<<f>> : f \in patches} \cup {d \in double : d[1].new # d[2].new}

PatchRequests ==
    {[NoCall EXCEPT !.tool = "apply_patch", !.patch = s] : s \in PatchSequences}

-----------------------------------------------------------------------------
\* The result of a tool: whether it is an error, how many files it changed
\* of those of a patch, and what the files hold afterwards.
Result(error, patched, after) ==
    [error |-> error, patched |-> patched, files |-> after]

Failed == Result(TRUE, 0, files)
Wrote(p, lines) == Result(FALSE, 0, [files EXCEPT ![p] = lines])

\* EditTool.execute
ExecuteEdit(req) ==
    CASE req.old # <<>> /\ req.old = req.new -> Failed
      [] req.old # req.new /\ files[req.path] = Absent ->
            IF req.old = <<>> THEN Wrote(req.path, req.new) ELSE Failed
      [] OTHER ->
            LET edit == Transaction(files[req.path], req)
            IN  IF edit.strategy = "none" THEN Failed
                ELSE Wrote(req.path, edit.lines)

\* InsertEditIntoFileTool.execute
ExecuteInsert(req) ==
    IF files[req.path] = Absent
    THEN Wrote(req.path, FlattenSeq(req.segments))
    ELSE LET edit == Inserted(files[req.path], req.segments)
         IN  IF edit.ok THEN Wrote(req.path, edit.lines) ELSE Failed

\* One file of a patch; a deletion does not look at what it deletes.
PatchFile(acc, fp) ==
    LET p == Target(IF fp.new = DevNull THEN fp.old ELSE fp.new, 1)
        patched == ApplyHunks(acc.files[p], fp.hunks)
        Done(lines) == Result(acc.error, acc.patched + 1,
                              [acc.files EXCEPT ![p] = lines])
        Refused == Result(TRUE, acc.patched, acc.files)
    IN  CASE fp.old = DevNull ->
                IF acc.files[p] = Absent THEN Done(AddedLines(fp.hunks))
                ELSE Refused
          [] fp.old # DevNull /\ acc.files[p] = Absent -> Refused
          [] fp.new = DevNull /\ acc.files[p] # Absent -> Done(Absent)
          [] OTHER -> IF patched.ok THEN Done(patched.lines) ELSE Refused

\* ApplyPatchTool.execute: a file that fails does not stop the others.
ExecutePatch(req) ==
    LET patched[n \in 0..Len(req.patch)] ==
            IF n = 0 THEN Result(FALSE, 0, files)
            ELSE PatchFile(patched[n - 1], req.patch[n])
    IN  patched[Len(req.patch)]

Execute(req) ==
    CASE req.tool = "edit" -> ExecuteEdit(req)
      [] req.tool = "write_file" -> Wrote(req.path, req.new)
      [] req.tool = "insert_edit" -> ExecuteInsert(req)
      [] req.tool = "apply_patch" -> ExecutePatch(req)

\* _affected_file_paths, with _paths_from_patch_argument
AffectedPaths(req) ==
    IF req.tool = "apply_patch"
    THEN {Target(IF fp.new = DevNull THEN fp.old ELSE fp.new, 1) :
             fp \in ToSet(req.patch)}
    ELSE {req.path}

\* Mutant of Refreshed: a partly failed patch shows nothing.
RefreshedOnSuccess(req, result) ==
    IF result.error THEN {} ELSE AffectedPaths(req)

\* _with_post_mutation_refresh: the files a result shows anew, those of a
\* partly failed patch included
Refreshed(req, result) ==
    IF result.error /\ result.patched = 0 THEN {} ELSE AffectedPaths(req)

-----------------------------------------------------------------------------
Diff(old, new) == [shown |-> TRUE, old |-> old, new |-> new]

\* Mutant of Preview: shows the replacement of the first region only.
PreviewFirst(req) ==
    LET content == files[req.path]
        match == ResolveMatches(content, req)
        w == CHOOSE v \in match.windows : \A x \in match.windows : v[1] <= x[1]
    IN  CASE req.tool = "edit" /\ content # Absent ->
                IF match = NoMatch THEN NoPreview
                ELSE Diff(content, SubSeq(content, 1, w[1] - 1) \o req.new
                          \o SubSeq(content, w[2] + 1, Len(content)))
          [] OTHER -> NoPreview

\* get_confirmation of the tools; insert_edit shows its code as the new file,
\* apply_patch shows nothing.
Preview(req) ==
    CASE req.tool = "edit" ->
            LET content == files[req.path]
                edit == Transaction(content, req)
            IN  CASE req.old # <<>> /\ req.old = req.new -> NoPreview
                  [] req.old # req.new /\ content = Absent ->
                        Diff(Absent, req.new)
                  [] OTHER -> IF edit.strategy = "none" THEN NoPreview
                              ELSE Diff(content, edit.lines)
      [] req.tool = "write_file" -> Diff(files[req.path], req.new)
      [] req.tool = "insert_edit" ->
            Diff(files[req.path], FlattenSeq(req.segments))
      [] req.tool = "apply_patch" -> NoPreview

\* The model asks for a change and the user is shown what it would do.
Ask(req) ==
    /\ call' = req
    /\ preview' = Preview(req)
    /\ stage' = "asked"
    /\ count' = [count EXCEPT !.calls = @ + 1]
    /\ UNCHANGED <<files, seen, changed, proc>>

Propose ==
    /\ stage = "idle"
    /\ count.calls < MaxCalls
    /\ \/ \E p \in Files : \E req \in WriteRequests(p) : Ask(req)
       \/ \E p \in Files : /\ Known(p)
                           /\ \E req \in EditRequests(p) \cup InsertRequests(p) :
                                 Ask(req)
       \/ \E p \in Files : /\ seen[p] = Absent
                           /\ Ask([NoCall EXCEPT !.tool = "edit", !.path = p,
                                                 !.new = <<NewLine>>])
       \/ \E req \in PatchRequests : Ask(req)

\* The user agrees, or has agreed before.
Apply ==
    /\ stage = "asked"
    /\ LET result == Execute(call)
           shown == Refreshed(call, result)
       IN  /\ files' = result.files
           /\ seen' = [p \in Files |-> IF p \in shown THEN result.files[p]
                                       ELSE seen[p]]
           /\ changed' = changed \ shown
    /\ call' = NoCall
    /\ preview' = NoPreview
    /\ stage' = "idle"
    /\ UNCHANGED <<proc, count>>

Refuse ==
    /\ stage = "asked"
    /\ call' = NoCall
    /\ preview' = NoPreview
    /\ stage' = "idle"
    /\ UNCHANGED <<files, seen, changed, proc, count>>

-----------------------------------------------------------------------------
\* The shell tool puts a command into a process group of its own, run_tests
\* and its kind do not.
StartCommand(bash) ==
    /\ stage = "idle"
    /\ count.calls < MaxCalls
    /\ proc' = [bash |-> bash, leader |-> TRUE, child |-> FALSE]
    /\ stage' = "running"
    /\ count' = [count EXCEPT !.calls = @ + 1]
    /\ UNCHANGED <<files, seen, changed, call, preview>>

\* The command starts a process that inherits its output, and may end before
\* it does.
Forks ==
    /\ stage = "running" /\ proc.leader /\ ~proc.child
    /\ proc' = [proc EXCEPT !.child = TRUE]
    /\ UNCHANGED <<files, seen, changed, call, preview, stage, count>>

LeaderExits ==
    /\ stage = "running" /\ proc.leader
    /\ proc' = [proc EXCEPT !.leader = FALSE]
    /\ UNCHANGED <<files, seen, changed, call, preview, stage, count>>

ChildExits ==
    /\ proc.child
    /\ proc' = [proc EXCEPT !.child = FALSE]
    /\ UNCHANGED <<files, seen, changed, call, preview, stage, count>>

CommandOver ==
    /\ stage' = "idle"
    /\ proc' = NoProcess
    /\ UNCHANGED <<files, seen, changed, call, preview, count>>

\* The process has exited and its output is at its end.
CommandReturns ==
    /\ stage \in {"running", "reaping"}
    /\ ~proc.leader /\ ~proc.child
    /\ CommandOver

\* Mutant of TimesOut: nobody is killed before the process is waited for.
TimesOutUnkilled ==
    /\ stage = "running"
    /\ stage' = "reaping"
    /\ UNCHANGED <<files, seen, changed, call, preview, proc, count>>

\* wait_for gives up.  The shell tool kills the process group, which is only
\* found while the command itself has not exited, and returns.  _run_command
\* kills the command alone and waits for it, which takes until its output is
\* closed by whoever inherited it.
TimesOut ==
    /\ stage = "running"
    /\ IF proc.bash
       THEN CommandOver
       ELSE /\ proc' = [proc EXCEPT !.leader = FALSE]
            /\ stage' = "reaping"
            /\ UNCHANGED <<files, seen, changed, call, preview, count>>

\* /abort cancels the tool; the processes are left to themselves.
AbortCommand == stage \in {"running", "reaping"} /\ CommandOver

-----------------------------------------------------------------------------
WorkspaceNext ==
    \/ \E p \in Files : ReadFile(p) \/ UserEdits(p)
    \/ Propose
    \/ Apply
    \/ Refuse
    \/ \E bash \in BOOLEAN : StartCommand(bash)
    \/ Forks \/ LeaderExits \/ ChildExits
    \/ CommandReturns
    \/ TimesOut
    \/ AbortCommand

WorkspaceSpec == WorkspaceInit /\ [][WorkspaceNext]_workspaceVars

\* Timers go off and the event loop notices that a process is gone; neither
\* processes nor users have to come to an end.
FairSpec ==
    /\ WorkspaceSpec
    /\ WF_workspaceVars(TimesOut) /\ WF_workspaceVars(CommandReturns)

-----------------------------------------------------------------------------
Applied == stage = "asked" /\ stage' = "idle" /\ files' # files

Occurrences(text, lines) == Cardinality({i \in DOMAIN lines : lines[i].text = text})

\* The lines a call quotes as those to be removed.
Quoted ==
    {l.text : l \in ToSet(call.old)}
    \cup {d.line.text : d \in {e \in UNION {ToSet(fp.hunks[1].lines) \cup
                                            ToSet(Last(fp.hunks).lines) :
                                  fp \in {f \in ToSet(call.patch) : f.hunks # <<>>}} :
                                e.op = "-"}}

\* Calls that promise to touch nothing else: patches that delete no file, and
\* edits that neither accept lines in between nor replace two regions at once.
Precise ==
    \/ /\ call.tool = "apply_patch"
       /\ \A fp \in ToSet(call.patch) : fp.new # DevNull
    \/ /\ call.tool = "edit"
       /\ LET edit == Transaction(files[call.path], call)
          IN  /\ edit.strategy \notin {"context_anchors", "similarity"}
              /\ edit.precise

(* Whatever the user typed since the model read the file, and wherever the *)
(* hunks and snippets land by then, a patch or an edit removes no line     *)
(* that its caller did not quote: what does not fit is refused, file by    *)
(* file.                                                                   *)
OnlyQuotedRemoved ==
    [][Applied /\ Precise =>
        \A p \in Files : files[p] # Absent =>
            \A l \in ToSet(files[p]) : l.text \notin Quoted =>
                Occurrences(l.text, files'[p]) >= Occurrences(l.text, files[p])
      ]_workspaceVars

(* An approved edit or overwrite writes exactly the file the user was      *)
(* shown, if the file is still the one the diff was made from.             *)
AppliedAsShown ==
    [][/\ Applied
       /\ call.tool \in {"edit", "write_file"}
       /\ preview.shown
       /\ files[call.path] = preview.old
       => files'[call.path] = preview.new]_workspaceVars

(* The model's picture of a file is out of date only through somebody      *)
(* else: each file its own tools changed is shown again, by a patch that   *)
(* fails in some of its files too.                                         *)
SeenIsCurrent ==
    \A p \in Files :
        seen[p] # Unknown /\ p \notin changed => seen[p] = files[p]

(* A command ends, by its timeout at the latest; only a run_tests or its   *)
(* kind may wait longer, for a process its command left behind.            *)
CommandEnds ==
    stage = "running" ~> stage = "idle" \/ (stage = "reaping" /\ proc.child)
=============================================================================
