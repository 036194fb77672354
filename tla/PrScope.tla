------------------------------ MODULE PrScope ------------------------------
(***************************************************************************)
(* The pure part of .github/scripts/pr_ai_review.py: which changed files   *)
(* of a pull request are sent to the model, how they are packed into       *)
(* chunks, how the answers are normalised and merged, and to which line of *)
(* a patch a finding is anchored.  A file name is a number, so that the    *)
(* order of names is that of the numbers; a text is its length; a patch is *)
(* the sequence of its lines.                                              *)
(***************************************************************************)
EXTENDS Integers, Sequences, FiniteSets, FiniteSetsExt, SequencesExt

CONSTANTS MaxFiles,     \* AI_REVIEW_MAX_FILES
          MaxPatch,     \* AI_REVIEW_MAX_PATCH_CHARS
          MaxContext,   \* AI_REVIEW_MAX_FILE_CONTEXT_CHARS
          MaxChunk,     \* AI_REVIEW_MAX_CHUNK_CHARS
          MaxChunks,    \* AI_REVIEW_MAX_CHUNKS
          ShortPatch,   \* the 1800 characters under which a patch is short
          SmallChange,  \* the 40 changed lines up to which a change is small
          Near          \* the 10 lines a finding may be moved

\* The limits come from env_int, which never returns less than one.
ASSUME Limits == /\ {MaxFiles, MaxPatch, MaxContext, MaxChunk, MaxChunks} \subseteq Nat \ {0}
                 /\ {ShortPatch, SmallChange, Near} \subseteq Nat

\* The two line breaks between the sections of a chunk.
Separator == 2

\* Both branches of the clipping return exactly the limit.
clip_text(length, limit) == Min({length, limit})

\* What the name of a file says of it, in the order the tests are made.
SkipMarks == {"lock_name", "build_path", "registrant", "generated", "low_signal_suffix"}
TextMarks == {"text_name", "text_suffix"}

classify_file_for_review(marks) ==
    /\ marks \cap SkipMarks = {}
    /\ marks \cap TextMarks # {}

\* What GitHub says of a changed file, and the size of its present content.
FileInfo == [status : STRING, changes : Nat, patch : Seq([kind : STRING, new : Nat]), content : Nat,
             marks : SUBSET (SkipMarks \cup TextMarks)]

should_include_file_context(info) ==
    /\ info.status # "removed"
    /\ \/ info.status \in {"added", "renamed"}
       \/ info.patch = <<>>
       \/ Len(info.patch) < ShortPatch
       \/ info.changes <= SmallChange

Section == [file : Nat, length : Nat]
\* The section of a file, as its length; one character stands for the head
\* lines, one for the fence of each block.
build_file_review_section(info) ==
    [included |-> classify_file_for_review(info.marks),
     length |-> 1 + (IF info.patch # <<>> THEN 1 + clip_text(Len(info.patch), MaxPatch) ELSE 1)
                  + (IF should_include_file_context(info)
                     THEN 1 + clip_text(info.content, MaxContext) ELSE 0)]

\* Mutant: the early return forgets the file that did not fit.
PackNextForgets(acc, section) ==
    LET overflow == /\ acc.current # <<>>
                    /\ acc.length + section.length + Separator > MaxChunk
    IN  CASE acc.full ->
               [acc EXCEPT !.omitted = @ \cup {section.file}]
          [] ~acc.full /\ overflow /\ Len(acc.chunks) + 1 >= MaxChunks ->
               [acc EXCEPT !.full = TRUE, !.chunks = Append(@, acc.current), !.current = <<>>]
          [] ~acc.full /\ overflow /\ Len(acc.chunks) + 1 < MaxChunks ->
               [acc EXCEPT !.chunks = Append(@, acc.current),
                           !.current = <<section>>, !.length = section.length]
          [] OTHER ->
               [acc EXCEPT !.current = Append(@, section),
                           !.length = @ + section.length + Separator]

\* Mutant: the test for room leaves the line breaks out.
PackNextNoBreaks(acc, section) ==
    LET overflow == acc.current # <<>> /\ acc.length + section.length > MaxChunk
    IN  CASE acc.full ->
               [acc EXCEPT !.omitted = @ \cup {section.file}]
          [] ~acc.full /\ overflow /\ Len(acc.chunks) + 1 >= MaxChunks ->
               [acc EXCEPT !.full = TRUE, !.omitted = @ \cup {section.file},
                           !.chunks = Append(@, acc.current), !.current = <<>>]
          [] ~acc.full /\ overflow /\ Len(acc.chunks) + 1 < MaxChunks ->
               [acc EXCEPT !.chunks = Append(@, acc.current),
                           !.current = <<section>>, !.length = section.length]
          [] OTHER ->
               [acc EXCEPT !.current = Append(@, section),
                           !.length = @ + section.length + Separator]

\* One turn of the packing loop.  "full" is the early return at the limit.
PackNext(acc, section) ==
    LET overflow == /\ acc.current # <<>>
                    /\ acc.length + section.length + Separator > MaxChunk
    IN  CASE acc.full ->
               [acc EXCEPT !.omitted = @ \cup {section.file}]
          [] ~acc.full /\ overflow /\ Len(acc.chunks) + 1 >= MaxChunks ->
               [acc EXCEPT !.full = TRUE, !.omitted = @ \cup {section.file},
                           !.chunks = Append(@, acc.current), !.current = <<>>]
          [] ~acc.full /\ overflow /\ Len(acc.chunks) + 1 < MaxChunks ->
               [acc EXCEPT !.chunks = Append(@, acc.current),
                           !.current = <<section>>, !.length = section.length]
          [] OTHER ->
               [acc EXCEPT !.current = Append(@, section),
                           !.length = @ + section.length + Separator]

Unpacked == [chunks |-> <<>>, current |-> <<>>, length |-> 0, full |-> FALSE, omitted |-> {}]
Packed(sections) == FoldLeft(PackNext, Unpacked, sections)
FilesOf(sections) == {s.file : s \in ToSet(sections)}

\* An empty scope still makes one empty chunk.
pack_review_sections(sections) ==
    LET packed == Packed(sections)
        spill == packed.current # <<>> /\ Len(packed.chunks) >= MaxChunks
    IN  [chunks |-> IF sections = <<>> THEN << <<>> >>
                    ELSE IF packed.current = <<>> \/ spill THEN packed.chunks
                    ELSE Append(packed.chunks, packed.current),
         omitted |-> packed.omitted
                     \cup (IF spill THEN FilesOf(packed.current) ELSE {})]

\* The characters of a chunk, with the line breaks between its sections.
TextLength(chunk) == FoldLeft(LAMBDA n, s : n + s.length, 0, chunk)
ChunkLength(chunk) == TextLength(chunk) + Separator * (Len(chunk) - 1)

\* pack_review_sections loses no section and doubles none, keeps the order, omits
\* only what comes after the rest, makes no more than MaxChunks chunks and none that
\* is empty, and joins several sections only when their text and the line breaks
\* between them are within the limit: the chunks are cut out of the sections one
\* after the other, and what lies behind the last cut is omitted.
PackingIsSound(sections) ==
    LET packed == pack_review_sections(sections)
        m == Len(packed.chunks)
    IN  /\ m \in 1..MaxChunks
        /\ \E cut \in [0..m -> 0..Len(sections)] :
              /\ cut[0] = 0
              /\ \A i \in 1..m : packed.chunks[i] = SubSeq(sections, cut[i - 1] + 1, cut[i])
              /\ \A i \in 1..m : cut[i - 1] < cut[i] \/ (sections = <<>> /\ m = 1)
              /\ packed.omitted = {sections[i].file : i \in (cut[m] + 1)..Len(sections)}
        /\ \A c \in ToSet(packed.chunks) : Len(c) > 1 => ChunkLength(c) <= MaxChunk

\* The sequence s in the order of Before, equal elements in their old order.
StableSort(s, Before(_, _)) ==
    LET precedes(i, j) == Before(s[i], s[j]) \/ (~Before(s[j], s[i]) /\ i < j)
        place(i) == 1 + Cardinality({j \in DOMAIN s : precedes(j, i)})
    IN  [p \in DOMAIN s |-> s[CHOOSE i \in DOMAIN s : place(i) = p]]

\* Largest changes first, then by name.
SortFiles(pr) ==
    StableSort(SetToSeq(DOMAIN pr), LAMBDA f, g : \/ pr[f].changes > pr[g].changes
                                                  \/ pr[f].changes = pr[g].changes /\ f < g)

\* Past MaxFiles sections the rest is omitted.
WithSection(pr, sections, f) ==
    LET section == build_file_review_section(pr[f])
    IN  IF Len(sections) < MaxFiles /\ section.included
        THEN Append(sections, [file |-> f, length |-> section.length]) ELSE sections
ReviewSections(pr) == FoldLeft(LAMBDA acc, f : WithSection(pr, acc, f), <<>>, SortFiles(pr))

build_review_scope(pr) ==
    LET sections == ReviewSections(pr)
        packed == pack_review_sections(sections)
    IN  [changed |-> DOMAIN pr,
         included |-> UNION {FilesOf(packed.chunks[i]) : i \in DOMAIN packed.chunks},
         omitted |-> (DOMAIN pr \ FilesOf(sections)) \cup packed.omitted,
         chunks |-> packed.chunks]

-----------------------------------------------------------------------------
\* The model's answers.

severity_rank(severity) ==
    CASE severity = "high" -> 3 [] severity = "medium" -> 2 [] severity = "low" -> 1 [] OTHER -> 0

\* The three severities, and any other word.
Severities == {"high", "medium", "low", "unknown"}
Finding == [file : Nat, severity : Severities, line : Int, title : STRING]

\* The identity of a finding leaves its line and its text out.
build_finding_key(finding) == <<finding.file, finding.severity, finding.title>>

SortFindings(findings) ==
    StableSort(findings, LAMBDA a, b :
        \/ severity_rank(a.severity) > severity_rank(b.severity)
        \/ /\ severity_rank(a.severity) = severity_rank(b.severity)
           /\ a.file < b.file \/ (a.file = b.file /\ a.line < b.line))

\* Out-of-range severities and lines are replaced; the model's own verdict
\* counts only between pass and warn.
normalize_review(review) ==
    LET clean(f) == [file |-> f.file, title |-> f.title,
                     severity |-> IF severity_rank(f.severity) = 0 THEN "medium" ELSE f.severity,
                     line |-> IF f.line < 0 THEN 0 ELSE f.line]
        findings == [i \in DOMAIN review.findings |-> clean(review.findings[i])]
        given == IF review.verdict \in {"pass", "warn", "fail"} THEN review.verdict ELSE "warn"
    IN  [findings |-> SortFindings(findings),
         verdict |-> CASE \E i \in DOMAIN findings : findings[i].severity = "high" -> "fail"
                       [] findings # <<>> /\ given = "pass" -> "warn"
                       [] findings = <<>> /\ given = "fail" -> "warn"
                       [] OTHER -> given]

\* Findings on files outside the scope are dropped, and repeats of a key.
Kept(scope, acc, f) ==
    IF f.file \in scope.included /\ \A g \in ToSet(acc) : build_finding_key(g) # build_finding_key(f)
    THEN Append(acc, f) ELSE acc

KeptOf(scope, kept, findings) == FoldLeft(LAMBDA acc, f : Kept(scope, acc, f), kept, findings)
Deduped(scope, reviews) ==
    FoldLeft(LAMBDA kept, review : KeptOf(scope, kept, review.findings), <<>>, reviews)

merge_reviews(scope, reviews) ==
    LET findings == SortFindings(Deduped(scope, reviews))
    IN  [findings |-> findings,
         verdict |-> IF \E f \in ToSet(findings) : f.severity = "high" THEN "fail"
                     ELSE IF findings # <<>> THEN "warn" ELSE "pass"]

-----------------------------------------------------------------------------
\* Where a comment may stand.

\* A hunk header sets the number of the next new line; added and context
\* lines can carry a comment, removed lines and other text cannot.
extract_reviewable_right_side_lines(patch) ==
    LET step(acc, raw) ==
            CASE raw.kind = "hunk" -> [acc EXCEPT !.new = raw.new]
              [] raw.kind \in {"added", "context"} ->
                   [new |-> acc.new + 1, lines |-> acc.lines \cup {acc.new}]
              [] OTHER -> acc
    IN  FoldLeft(step, [new |-> 0, lines |-> {}], patch).lines

NoLine == 0
Distance(a, b) == IF a < b THEN b - a ELSE a - b

build_review_comment_location(patch, preferred) ==
    LET lines == extract_reviewable_right_side_lines(patch)
        nearest == CHOOSE l \in lines :
            \A m \in lines : \/ Distance(l, preferred) < Distance(m, preferred)
                             \/ Distance(l, preferred) = Distance(m, preferred) /\ l <= m
    IN  CASE lines = {} -> NoLine
          [] lines # {} /\ preferred \in lines -> preferred
          [] lines # {} /\ preferred \notin lines /\ preferred > 0
               /\ Distance(nearest, preferred) <= Near -> nearest
          [] lines # {} /\ preferred \notin lines /\ preferred <= 0 -> Min(lines)
          [] OTHER -> NoLine
=============================================================================
