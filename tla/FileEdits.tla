----------------------------- MODULE FileEdits -----------------------------
(***************************************************************************)
(* What the editing tools make of a file (tools/builtin/edit_file.py,      *)
(* patch.py, smart_edit.py), line by line: a line is its stripped text and *)
(* its indentation, a file a sequence of lines.  Old strings, replacements *)
(* and segments are whole lines.  SequenceMatcher is taken over lines of   *)
(* equal length that have nothing in common unless they are equal.         *)
(***************************************************************************)
EXTENDS Naturals, Sequences, SequencesExt, FiniteSets

Line(text, indent) == [text |-> text, indent |-> indent]

Texts(lines) == [i \in DOMAIN lines |-> lines[i].text]
NonBlank(lines) == SelectSeq(lines, LAMBDA l : l.text # "")

\* A region of a file: its first and its last line.
Part(content, w) == SubSeq(content, w[1], w[2])

Larger(m, n) == IF m > n THEN m ELSE n

\* _iter_windows: the regions of at least lo and at most hi lines
Windows(content, lo, hi) ==
    {w \in (DOMAIN content) \X (DOMAIN content) :
        (w[2] + 1) - w[1] \in Larger(1, lo)..Larger(1, hi)}

\* difflib's ratio of two blocks reaches percent
Resembles(x, y, percent) ==
    LET common == Cardinality({i \in DOMAIN x : x[i] \in ToSet(y)})
    IN  200 * common >= percent * (Len(x) + Len(y))

-----------------------------------------------------------------------------
\* _common_indent, _strip_common_indent, _indent_block
CommonIndent(lines) ==
    LET indents == {l.indent : l \in ToSet(NonBlank(lines))}
    IN  IF indents = {} THEN 0
        ELSE CHOOSE n \in indents : \A m \in indents : n <= m

Shifted(lines, left, right) ==
    [i \in DOMAIN lines |-> IF lines[i].text = "" THEN lines[i]
                            ELSE [lines[i] EXCEPT !.indent = (@ - left) + right]]

Dedented(lines) ==
    LET common == CommonIndent(lines)
    IN  Shifted(lines, common, 0)

Indented(lines, indent) == Shifted(lines, 0, indent)

-----------------------------------------------------------------------------
\* _exact_matches: from left to right, each after the end of the last one
ExactMatches(content, old) ==
    LET n == Len(old)
        Here(i) == /\ i + n <= Len(content) + 1
                   /\ SubSeq(content, i, i + n - 1) = old
        Step(starts, i) ==
            IF Here(i) /\ (starts # <<>> => Last(starts) + n <= i)
            THEN Append(starts, i) ELSE starts
        starts == FoldLeft(Step, <<>>, [i \in DOMAIN content |-> i])
    IN  {<<i, i + n - 1>> : i \in ToSet(starts)}

TrimmedLineMatches(content, old) ==
    {w \in Windows(content, Len(old), Len(old)) :
        Texts(Part(content, w)) = Texts(old)}

WhitespaceNormalizedMatches(content, old) ==
    {w \in Windows(content, Len(old) - 1, Len(old) + 1) :
        Texts(NonBlank(Part(content, w))) = Texts(NonBlank(old))}

IndentationFlexibleMatches(content, old) ==
    {w \in Windows(content, Len(old), Len(old)) :
        NonBlank(Dedented(Part(content, w))) = NonBlank(Dedented(old))}

ContextAnchorMatches(content, old) ==
    LET anchors == Texts(NonBlank(old))
    IN  {w \in Windows(content, Len(old) - 1, Len(old) + 2) :
            /\ Len(anchors) >= 2
            /\ content[w[1]].text = Head(anchors)
            /\ content[w[2]].text = Last(anchors)
            /\ Resembles(Texts(Part(content, w)), Texts(old), 72)}

SimilarityMatches(content, old) ==
    {w \in Windows(content, Len(old) - 1, Len(old) + 2) :
        Resembles(Texts(Part(content, w)), Texts(old), 84)}

\* MATCHERS, without the one for escaped newlines
Strategies == <<"exact", "trimmed_lines", "whitespace_normalized",
                "indentation_flexible", "context_anchors", "similarity">>

MatchesBy(strategy, content, old) ==
    CASE strategy = "exact" -> ExactMatches(content, old)
      [] strategy = "trimmed_lines" -> TrimmedLineMatches(content, old)
      [] strategy = "whitespace_normalized" ->
            WhitespaceNormalizedMatches(content, old)
      [] strategy = "indentation_flexible" ->
            IndentationFlexibleMatches(content, old)
      [] strategy = "context_anchors" -> ContextAnchorMatches(content, old)
      [] strategy = "similarity" -> SimilarityMatches(content, old)

\* Strategies whose confidence reaches 0.95.
Confident == {"exact", "trimmed_lines"}

NoMatch == [strategy |-> "none", windows |-> {}]

\* A match has to be the only one, or all of a confident strategy's are meant.
Accepted(strategy, windows, all) ==
    IF Cardinality(windows) = 1 \/ (all /\ strategy \in Confident)
    THEN [strategy |-> strategy, windows |-> windows]
    ELSE NoMatch

\* _resolve_matches: the first strategy that finds anything decides
ResolveMatches(content, req) ==
    LET k == SelectInSeq(Strategies,
                         LAMBDA s : MatchesBy(s, content, req.old) # {})
    IN  IF k = 0 THEN NoMatch
        ELSE Accepted(Strategies[k], MatchesBy(Strategies[k], content, req.old),
                      req.all)

\* _prepare_replacement: a drifted match gives the replacement its indentation
Replacement(content, req, strategy, w) ==
    LET indent == CommonIndent(Part(content, w))
    IN  IF strategy = "exact" \/ indent \in {0, CommonIndent(req.old)}
        THEN req.new
        ELSE Indented(Dedented(req.new), indent)

\* Two of the regions to replace overlap: an old string that repeats itself,
\* matched apart from its indentation.
Overlapping(windows) ==
    \E v, w \in windows : v[1] < w[1] /\ w[1] <= v[2]

\* The regions of a match, replaced from the last to the first
Replaced(content, req, match) ==
    LET Step(text, w) ==
            SubSeq(text, 1, w[1] - 1)
            \o Replacement(content, req, match.strategy, w)
            \o SubSeq(text, w[2] + 1, Len(text))
    IN  [strategy |-> IF req.old = <<>> THEN "none" ELSE match.strategy,
         precise |-> ~Overlapping(match.windows),
         lines |-> FoldLeft(Step, content,
                            SetToSortSeq(match.windows,
                                         LAMBDA v, w : v[1] > w[1]))]

\* _build_transaction
Transaction(content, req) ==
    Replaced(content, req, ResolveMatches(content, req))

-----------------------------------------------------------------------------
\* Mutant of ApplyHunk: removed lines are not compared with the file.
ApplyHunkUnverified(lines, hunk) ==
    LET pos == Larger(hunk.start, 1) - 1
        Step(acc, d) ==
            CASE ~acc.ok -> acc
              [] d.op = "+" -> [acc EXCEPT !.out = Append(@, d.line)]
              [] d.op # "+" /\ acc.at > Len(lines) -> [acc EXCEPT !.ok = FALSE]
              [] d.op = "-" /\ acc.at <= Len(lines) -> [acc EXCEPT !.at = @ + 1]
              [] OTHER ->
                    [ok |-> lines[acc.at] = d.line, at |-> acc.at + 1,
                     out |-> Append(acc.out, lines[acc.at])]
        end == FoldLeft(Step, [ok |-> TRUE, at |-> pos + 1,
                               out |-> SubSeq(lines, 1, pos)], hunk.lines)
    IN  [ok |-> end.ok, lines |-> end.out \o SubSeq(lines, end.at, Len(lines))]

\* _apply_hunk: context and removed lines have to be the file's
ApplyHunk(lines, hunk) ==
    LET pos == Larger(hunk.start, 1) - 1
        Step(acc, d) ==
            CASE ~acc.ok -> acc
              [] d.op = "+" -> [acc EXCEPT !.out = Append(@, d.line)]
              [] d.op # "+" /\ (acc.at > Len(lines) \/ lines[acc.at] # d.line) ->
                    [acc EXCEPT !.ok = FALSE]
              [] OTHER ->
                    [ok |-> TRUE, at |-> acc.at + 1,
                     out |-> IF d.op = " " THEN Append(acc.out, d.line)
                                           ELSE acc.out]
        end == FoldLeft(Step, [ok |-> TRUE, at |-> pos + 1,
                               out |-> SubSeq(lines, 1, pos)], hunk.lines)
    IN  [ok |-> end.ok, lines |-> end.out \o SubSeq(lines, end.at, Len(lines))]

\* The hunks one after the other, each at its line number in the old file
\* although the hunks before it may have moved that line.
ApplyHunks(content, hunks) ==
    FoldLeft(LAMBDA acc, h : IF acc.ok THEN ApplyHunk(acc.lines, h) ELSE acc,
             [ok |-> TRUE, lines |-> content], hunks)

\* The lines of a new file
AddedLines(hunks) ==
    LET all == FlattenSeq([i \in DOMAIN hunks |-> hunks[i].lines])
        added == SelectSeq(all, LAMBDA d : d.op = "+")
    IN  [i \in DOMAIN added |-> added[i].line]

\* A path is the sequence of its components, DevNull the one of no file.
DevNull == <<>>

\* _strip_prefix, applied to every header
StripPrefix(raw) ==
    IF Len(raw) > 1 /\ Head(raw) \in {"a", "b"} THEN Tail(raw) ELSE raw

\* ApplyPatchTool.execute and _paths_from_patch_argument: then strip more
\* components, one by default, when the path has more than that.
Target(raw, strip) ==
    LET path == StripPrefix(raw)
    IN  IF strip > 0 /\ Len(path) > strip
        THEN SubSeq(path, strip + 1, Len(path)) ELSE path

-----------------------------------------------------------------------------
\* _find_block_in_lines: the first line, not before from, of the block that
\* is search or resembles it best; 0 when nothing comes close
FindBlock(lines, search, from) ==
    LET n == Len(search)
        last == Larger((Len(lines) - n) + 1, from)
        At(i) == SubSeq(lines, i, IF i + n > Len(lines) + 1 THEN Len(lines)
                                  ELSE i + n - 1)
        Common(i) == Cardinality({k \in DOMAIN At(i) : At(i)[k] \in ToSet(search)})
        exact == {i \in from..last : At(i) = search}
        close == {i \in from..last : Resembles(At(i), search, 65)}
        best == {i \in close : \A j \in close : Common(i) * (Len(At(j)) + n)
                                             >= Common(j) * (Len(At(i)) + n)}
    IN  CASE search = <<>> -> from
          [] search # <<>> /\ exact # {} ->
                CHOOSE i \in exact : \A j \in exact : i <= j
          [] search # <<>> /\ exact = {} /\ close # {} ->
                CHOOSE i \in best : \A j \in best : i <= j
          [] OTHER -> 0

NotInserted == [ok |-> FALSE, lines |-> <<>>]
Written(lines) == [ok |-> TRUE, lines |-> lines]

\* A code block without markers replaces the block it resembles most, or is
\* appended.
InsertWithoutMarkers(content, code) ==
    LET at == FindBlock(content, code, 1)
    IN  IF at = 0 THEN content \o code
        ELSE SubSeq(content, 1, at - 1) \o code
             \o SubSeq(content, at + Len(code), Len(content))

\* InsertEditIntoFileTool.execute on an existing file; segments are the parts
\* of the code between its "...existing code..." markers.
Inserted(content, segments) ==
    LET top == Head(segments)
        bottom == Last(segments)
        middle == FlattenSeq(SubSeq(segments, 2, Len(segments) - 1))
        topAt == FindBlock(content, top, 1)
        from == topAt + Len(top)
        bottomAt == FindBlock(content, bottom, from)
    IN  CASE Len(segments) = 1 -> Written(InsertWithoutMarkers(content, top))
          [] Len(segments) > 1 /\ (topAt = 0 \/ bottomAt = 0) -> NotInserted
          [] OTHER ->
                Written(SubSeq(content, 1, topAt - 1) \o top \o middle \o bottom
                        \o SubSeq(content, bottomAt + Len(bottom), Len(content)))
=============================================================================
