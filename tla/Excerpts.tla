------------------------------ MODULE Excerpts ------------------------------
(***************************************************************************)
(* How a long answer is cut: the lines of a file (read_file) and the files *)
(* of a diff (get_diff) in src/internal/mcp/tools_repo.go, the pages of    *)
(* the issue list in src/internal/api/issues.go, which the forge cuts once *)
(* more.  Lines and issues are their positions.  Of a line of a diff only   *)
(* its marker and its file are known, and a text made of a diff maps the   *)
(* places of its lines to what they say; it is empty if no file matched.   *)
(* A limit in bytes is the number of whole lines that it has room for.     *)
(***************************************************************************)
EXTENDS Integers, Sequences, FiniteSets, SequencesExt

CONSTANTS
    MaxLength,    \* bound on the lines of a file and the issues of a project
    ForgeLimit,   \* the largest page the forge gives (50)
    MaxLimit,     \* the largest page the API gives (200)
    DefaultLimit, \* the page it gives unasked (50)
    Files,        \* files of a diff
    MaxBody,      \* bound on the changed lines of a file in a diff
    Rooms         \* whole lines that the limit of an answer may have room for

VARIABLES
    question,     \* what is asked for
    answer,       \* what has been answered so far
    asked         \* how many requests it took

vars == <<question, answer, asked>>

ExcerptAssumption ==
    /\ MaxLength \in Nat /\ MaxBody \in Nat /\ Rooms \subseteq Nat
    /\ ForgeLimit \in Nat \ {0} /\ MaxLimit \in Nat \ {0} /\ DefaultLimit \in Nat \ {0}

Absent == -1
Numbers == Absent..(MaxLength + 1)

LineQuestions ==
    [kind : {"lines"}, length : 1..MaxLength, start : Numbers, end : Numbers]

\* A client that walks through the issues of one project, or of all; page and
\* per_page come to the same offset and limit.
PageQuestions ==
    [kind : {"pages"}, projects : {<<n>> : n \in 0..MaxLength}
                                    \cup ((0..MaxLength) \X (0..MaxLength)),
     registry : BOOLEAN, limit : Numbers]

\* A removed line that reads "-- ...", or an added one that reads "++ ...", is
\* printed with the marker of a file.
Bodies == UNION {[1..n -> {"+", "-", "---", "+++"}] : n \in 0..MaxBody}
Patches == [file : Files, body : Bodies]
Patch(p) ==
    [i \in 1..(Len(p.body) + 3) |->
       [file |-> p.file, mark |-> CASE i = 1 -> "diff --git"
                                    [] i = 2 -> "---"
                                    [] i = 3 -> "+++"
                                    [] OTHER -> p.body[i - 3]]]

DiffQuestions ==
    [kind : {"diff"}, first : Patches, second : Patches,
     paths : (SUBSET Files) \ {{}}, stat : BOOLEAN, room : Rooms]
Diff == Patch(question.first) \o Patch(question.second)

Init ==
    /\ question \in LineQuestions \cup PageQuestions \cup DiffQuestions
    /\ question.kind = "pages" => question.registry \/ Len(question.projects) = 1
    /\ answer = <<>>
    /\ asked = 0

-----------------------------------------------------------------------------
Smaller(a, b) == IF a < b THEN a ELSE b

\* The range of lines is moved into the file, and never empty.
HandleReadFile ==
    LET n     == question.length
        end   == IF question.end <= 0 THEN n ELSE Smaller(question.end, n)
        first == IF question.start <= 0 THEN 1 ELSE Smaller(question.start, n)
        start == Smaller(first, end)
    IN IF question.start > 0 \/ question.end > 0
         THEN [i \in 1..(end - start + 1) |-> start + i - 1]
         ELSE [i \in 1..n |-> i]

-----------------------------------------------------------------------------
\* What the client asks for the n-th time: the parameters, resolved.
Limit ==
    IF question.limit > 0 THEN Smaller(question.limit, MaxLimit) ELSE DefaultLimit
Offset(n) == (n - 1) * Limit

\* A page of the forge: no larger than it likes, counted from one.
ListIssues(project, page, perPage) ==
    LET size == Smaller(perPage, ForgeLimit)
        from == (page - 1) * size
        to   == Smaller(from + size, question.projects[project])
    IN [i \in 1..(IF from < to THEN to - from ELSE 0) |-> <<project, from + i>>]

\* The issues of all projects one after the other, the first page of each.
ListIssuesFromAllProjects ==
    FlattenSeq([p \in DOMAIN question.projects |-> ListIssues(p, 1, MaxLimit)])

\* Fault: pages counted from nought.
PageFromZero(offset) == offset \div Limit

\* The page of the forge that holds the offset.
Page(offset) == offset \div Limit + 1

HandleListIssues(offset) ==
    LET all == ListIssuesFromAllProjects
    IN IF question.registry
         THEN SubSeq(all, Smaller(offset, Len(all)) + 1, Smaller(offset + Limit, Len(all)))
         ELSE ListIssues(1, Page(offset), Limit)

-----------------------------------------------------------------------------
\* splitDiffSections, of some lines of the diff: a section begins at every
\* "diff --git"; a "---" begins one only while no file is known.
Starts(lines) ==
    {i \in lines :
       \/ Diff[i].mark = "diff --git"
       \/ /\ Diff[i].mark = "---"
          /\ \A j \in lines : j < i => Diff[j].mark \notin {"diff --git", "---"}}
Section(lines, start) ==
    {i \in lines : start <= i /\ \A s \in Starts(lines) : s <= i => s <= start}

FilterDiffByPaths(lines, paths) ==
    UNION {Section(lines, s) : s \in {i \in Starts(lines) : Diff[i].file \in paths}}

\* countChanges: a line that looks like the marker of a file is not counted.
CountChanges(section) ==
    LET Marked(m) == Cardinality({i \in section : Diff[i].mark = m})
    IN [added |-> Marked("+"), removed |-> Marked("-")]

\* A line for every section, and the totals, of which the number of files is kept.
ExtractDiffStats(lines) ==
    [s \in Starts(lines) \cup {Len(Diff) + 1} |->
       IF s \in Starts(lines) THEN CountChanges(Section(lines, s))
       ELSE [files |-> Cardinality(Starts(lines))]]

\* The text if it fits, else the whole lines that do and a note that it was cut.
\* Where not even one fits, a piece of the first remains, which shows nothing.
TruncateDiff(text, room) ==
    LET shown == {i \in DOMAIN text : Cardinality({j \in DOMAIN text : j <= i}) <= room}
    IN [lines |-> [i \in shown |-> text[i]], cut |-> shown # DOMAIN text]

\* Fault: the diff is cut before its changes are counted.
HandleGetDiffCutFirst ==
    LET diff == [i \in FilterDiffByPaths(DOMAIN Diff, question.paths) |-> Diff[i]]
        some == TruncateDiff(diff, question.room)
    IN IF question.stat THEN TruncateDiff(ExtractDiffStats(DOMAIN some.lines), question.room)
       ELSE some

HandleGetDiff ==
    LET lines == FilterDiffByPaths(DOMAIN Diff, question.paths)
        text  == IF question.stat THEN ExtractDiffStats(lines)
                 ELSE [i \in lines |-> Diff[i]]
    IN TruncateDiff(text, question.room)

-----------------------------------------------------------------------------
Once(kind, result) ==
    /\ question.kind = kind
    /\ asked = 0
    /\ asked' = 1
    /\ answer' = result
    /\ UNCHANGED question

\* The client asks for the next page as long as the last one held something.
WalkedThrough == asked > 0 /\ HandleListIssues(Offset(asked)) = <<>>

NextPage ==
    /\ question.kind = "pages"
    /\ ~WalkedThrough
    /\ answer' = answer \o HandleListIssues(Offset(asked + 1))
    /\ asked' = asked + 1
    /\ UNCHANGED question

Next ==
    \/ Once("lines", HandleReadFile)
    \/ Once("diff", HandleGetDiff)
    \/ NextPage

Spec == Init /\ [][Next]_vars

-----------------------------------------------------------------------------
TypeOK ==
    /\ question \in LineQuestions \cup PageQuestions \cup DiffQuestions
    /\ asked \in 0..(2 * MaxLength + 1)

\* The lines that were asked for and exist; one line if there are none.
LinesRight ==
    LET wanted == {l \in 1..question.length :
                     /\ question.start > 0 => l >= question.start
                     /\ question.end > 0 => l <= question.end}
    IN /\ \A i \in 2..Len(answer) : answer[i - 1] < answer[i]
       /\ IF wanted = {} THEN Len(answer) = 1 ELSE Range(answer) = wanted

\* Whoever walks to the first empty page has seen every issue once, in order;
\* of several projects every issue of the first page the forge gives.
PagesRight ==
    LET shown(p) == IF question.registry
                      THEN Smaller(question.projects[p], Smaller(MaxLimit, ForgeLimit))
                      ELSE question.projects[p]
        all == FlattenSeq([p \in DOMAIN question.projects |->
                             [i \in 1..shown(p) |-> <<p, i>>]])
    IN /\ IsPrefix(answer, all)
       /\ WalkedThrough => answer = all

\* The lines of the files that were asked for, or a line for each patch to them
\* with the count of its changes, from which only lines that look like the marker
\* of a file are missing; of these, as many from the first as there is room for,
\* and a note if some are left out.
DiffRight ==
    LET second      == Len(question.first.body) + 4
        Wanted(p)   == p.file \in question.paths
        Count(p, m) == Cardinality({i \in DOMAIN p.body : p.body[i] = m})
        Told(p)     == [added |-> Count(p, "+"), removed |-> Count(p, "-")]
        heads       == {i \in {1} : Wanted(question.first)}
                         \cup {i \in {second} : Wanted(question.second)}
        whole       == IF question.stat THEN heads \cup {Len(Diff) + 1}
                       ELSE {i \in DOMAIN Diff : Diff[i].file \in question.paths}
        shown       == DOMAIN answer.lines
        Right(i)    == CASE ~question.stat -> Diff[i]
                         [] question.stat /\ i = 1 -> Told(question.first)
                         [] question.stat /\ i = second -> Told(question.second)
                         [] question.stat /\ i = Len(Diff) + 1 -> [files |-> Cardinality(heads)]
    IN /\ shown \subseteq whole
       /\ \A i \in shown, j \in whole : j < i => j \in shown
       /\ \A i \in shown : answer.lines[i] = Right(i)
       /\ IF answer.cut THEN shown # whole /\ Cardinality(shown) = question.room
          ELSE shown = whole

\* What is cut out is what was asked for: the lines of a file at the edges of
\* the file (tools_repo.go:142-162), the issues page by page through the limits
\* of the API and of the forge (issues.go:92-185), and of the files of a diff, even
\* where a changed line looks like the head of one, as much from the beginning as
\* the limit of the answer holds, with the counts of whole patches
\* (tools_repo.go:172-295, 332-392).
AnswersExact ==
    asked > 0 =>
      CASE question.kind = "lines" -> LinesRight
        [] question.kind = "pages" -> PagesRight
        [] question.kind = "diff"  -> DiffRight
=============================================================================
