---------------------------- MODULE TriageMaterial ----------------------------
(***************************************************************************)
(* Stage 2 of TentativeDefectTriage, up to the first call of the language  *)
(* model (analyze.prepare): the refined lines are matched to places in the *)
(* code, the places to sections of the analysis documents and to functions *)
(* of the source, and what was left out is listed.                         *)
(*                                                                         *)
(* A path is the sequence of its names.  A material m of a chip has        *)
(*   readable, index  the log index: does it have its header, and its rows *)
(*   source           path -> a file of the source tree: its length, the    *)
(*                    heads of its functions, and its calls, `at` the line   *)
(*                    that the index has for the message that shows them     *)
(*   docs             the documents of the chip, in the order of names     *)
(*   module           kind -> documents of log_analysis/, in that order    *)
(*   glossary         is there one                                         *)
(***************************************************************************)
EXTENDS TriageRefine, TLC

CONSTANTS
    Keys,          \* match keys of the index
    KeyLength,     \* key -> its characters
    FoundIn,       \* key -> the messages it is a substring of
    Extracted,     \* <<message, format>> -> the values that the regex of the format
                   \* finds in the places of its %s, in their order, in a line of its own
    Legible,       \* format -> how many of those it still finds if a count follows:
                   \* all, if the format ends in text; all but the last, if in a %s;
                   \* none, if in another conversion, which now has to match the end
    MaxObserved,   \* MAX_OBSERVED_CANDIDATES
    Paths,         \* the paths of the source tree in alphabetical order
    FileNames,     \* the names of its files in alphabetical order
    MaxNamed,      \* how many files without a section a prompt names, the 8 of [:8]
    Window,        \* lines of tolerance between a citation and an observation
    HopBudget, SourceBudget  \* characters

ASSUME TriageMaterialAssumption ==
    /\ KeyLength \in [Keys -> Nat]
    /\ FoundIn \in [Keys -> SUBSET Messages]
    /\ {MaxObserved, MaxNamed, Window, HopBudget, SourceBudget} \subseteq Nat

MinKeyLength == 8
SpanOfCall   == 5     \* _WINDOW of disambiguate.py

BaseName(path) == Last(path)

-----------------------------------------------------------------------------
(* The log index.                                                          *)

LoadIndex(m) ==
    SelectSeq(m.index, LAMBDA e : e.level # "T2D" /\ KeyLength[e.key] >= MinKeyLength)

Place(entry) == <<entry.path, entry.line>>

(* The longest key of a line, the first in the index of those as long.     *)
BestKey(index, msg) ==
    LET hits == {i \in DOMAIN index : msg \in FoundIn[index[i].key]}
        top  == Max({KeyLength[index[i].key] : i \in hits})
    IN  index[Min({i \in hits : KeyLength[index[i].key] = top})].key

-----------------------------------------------------------------------------
(* The function around a line: the nearest head above it whose braces pair *)
(* up, and only if the line is between them.                               *)
HeadsAbove(file, line) == {h \in file.heads : h.at <= line /\ h.closed}

NearestHead(file, line) ==
    CHOOSE h \in HeadsAbove(file, line) : \A g \in HeadsAbove(file, line) : g.at <= h.at

Encloses(h, line) == h.open <= line /\ line <= h.close

IsEnclosed(file, line) ==
    /\ line <= file.length
    /\ HeadsAbove(file, line) # {}
    /\ Encloses(NearestHead(file, line), line)

-----------------------------------------------------------------------------
(* Many places for one line: those stay whose source has the value that    *)
(* the line shows.                                                         *)

\* Mutant of StopAfter: the window runs over the next candidate.
StopAtEnd(entries, place, file) == file.length

(* The next candidate of the same file, or the end of the file.            *)
StopAfter(entries, place, file) ==
    LET later == {e.line : e \in {f \in entries : f.path = place[1] /\ f.line > place[2]}}
    IN  IF later = {} THEN file.length ELSE Min(later) - 1

CandidateMatches(m, entries, place, value) ==
    /\ place[1] \in DOMAIN m.source
    /\ place[2] <= m.source[place[1]].length
    /\ LET file == m.source[place[1]]
           last == Min({place[2] + SpanOfCall - 1, StopAfter(entries, place, file), file.length})
       IN  \/ /\ value.kind = "call"
              /\ \E c \in file.calls :
                    c.text = value.text /\ c.first >= place[2] /\ c.last <= Max({last, place[2]})
           \/ /\ value.kind = "name"
              /\ IsEnclosed(file, place[2])
              /\ NearestHead(file, place[2]).name = value.text

(* What is read from a line as it is shown: a line that stands for several *)
(* has its count behind it, where a format that does not end in text reads *)
(* it as a part of the last value or finds nothing at all.                 *)
Values(line, format) ==
    LET found == Extracted[<<line.msg, format>>]
    IN  {found[k] : k \in {j \in DOMAIN found : line.count = 1 \/ j <= Legible[format]}}

(* narrow: the empty set says that nothing could be told apart.            *)
Narrow(m, line, entries) ==
    LET values == {v \in UNION {Values(line, e.format) : e \in entries} :
                      v.kind \in {"call", "name"}}
    IN  IF DOMAIN m.source = {} THEN {}
        ELSE {p \in {Place(e) : e \in entries} :
                 \E v \in values : CandidateMatches(m, entries, p, v)}

Resolve(m, index, line) ==
    LET msg == line.msg IN
    IF \A i \in DOMAIN index : msg \notin FoundIn[index[i].key]
    THEN [msg |-> msg, count |-> line.count, places |-> {}, subsystems |-> {},
          narrowed |-> FALSE, inObserved |-> TRUE]
    ELSE LET best    == BestKey(index, msg)
             entries == {e \in ToSet(index) : e.key = best}
             all     == {Place(e) : e \in entries}
             got     == IF Cardinality(all) > 1 THEN Narrow(m, line, entries) ELSE {}
             places  == IF got = {} THEN all ELSE got
         IN  [msg        |-> msg,
              count      |-> line.count,
              places     |-> places,
              subsystems |-> {e.subsystem : e \in {f \in entries : Place(f) \in places}},
              narrowed   |-> got # {},
              inObserved |-> Cardinality(places) <= MaxObserved]

ResolveObservations(m, lines) ==
    [i \in DOMAIN lines |-> Resolve(m, LoadIndex(m), lines[i])]

InObserved(res) == {r \in ToSet(res) : r.inObserved}
Observed(res)   == UNION {r.places : r \in InObserved(res)}
Subsystems(res) == UNION {r.subsystems : r \in InObserved(res)}

-----------------------------------------------------------------------------
(* The documents.                                                          *)

AlwaysWhole == {"10_summary_and_findings.md", "11_log_triage.md"}

(* A short citation, "(:12)", belongs to the last file named before it.    *)
ParseCitations(events) ==
    FoldLeft(LAMBDA acc, e :
        IF e.path = <<>> /\ acc.path = <<>> THEN acc
        ELSE LET path == IF e.path = <<>> THEN acc.path ELSE e.path
             IN  [path  |-> path,
                  cites |-> Append(acc.cites, [path |-> path, start |-> Min({e.from, e.to}),
                                               end |-> Max({e.from, e.to})])],
        [path |-> <<>>, cites |-> <<>>], events).cites

(* A section runs from a heading to the next; what is before the first     *)
(* heading is a section too, and an empty one is none.                     *)
ParseSections(doc) ==
    LET lines  == doc.text
        starts == SelectSeq([i \in DOMAIN lines |-> i], LAMBDA i : i = 1 \/ lines[i].heading)
        Of(k)  == SubSeq(lines, starts[k], (Append(starts, Len(lines) + 1))[k + 1] - 1)
    IN  [k \in DOMAIN starts |->
            [doc       |-> doc.name,
             citations |-> ParseCitations(FlattenSeq([j \in DOMAIN Of(k) |-> Of(k)[j].cites])),
             mentions  |-> UNION {l.mentions : l \in ToSet(Of(k))},
             chars     |-> MapThenSumSet(LAMBDA j : Of(k)[j].chars, DOMAIN Of(k))]]

Cut(m) == SelectSeq(m.docs, LAMBDA d : ~d.generated /\ d.name \notin AlwaysWhole)

Sections(m) == FlattenSeq([i \in DOMAIN Cut(m) |-> ParseSections(Cut(m)[i])])
Whole(m)    == {d.name : d \in {e \in ToSet(m.docs) : ~e.generated}} \intersect AlwaysWhole

SameFile(p, q) ==
    IF Len(p) > 1 /\ Len(q) > 1 THEN IsSuffix(p, q) \/ IsSuffix(q, p)
    ELSE BaseName(p) = BaseName(q)

Near(c, line) == c.start - Window <= line /\ line <= c.end + Window

(* The sections by how near their citations come to the places observed:   *)
(* those of the same file only where the file has no nearer one.  Files of *)
(* one base name count as one.                                              *)
Citing(sections, places, nearness) ==
    {<<x[1], BaseName(x[2][1])>> : x \in {y \in (DOMAIN sections) \X places :
        \E c \in ToSet(sections[y[1]].citations) :
            SameFile(c.path, y[2][1]) /\ Near(c, y[2][2]) \in nearness}}

\* Mutant of SelectSections: there is no fallback to the sections of the same file.
SelectNearOnly(sections, places) ==
    LET near  == Citing(sections, places, {TRUE})
        files == {n[2] : n \in Citing(sections, places, BOOLEAN)}
    IN  [chosen    |-> {n[1] : n \in near},
         unmatched |-> {BaseName(o[1]) : o \in places} \ files]

SelectSections(sections, places) ==
    LET near     == Citing(sections, places, {TRUE})
        files    == {n[2] : n \in near}
        distant  == Citing(sections, places, {FALSE})
        fallback == {f \in distant : f[2] \notin files}
    IN  [chosen    |-> {n[1] : n \in near \union fallback},
         unmatched |-> {BaseName(o[1]) : o \in places} \ (files \union {f[2] : f \in fallback})]

(* One hop: the sections that cite what the chosen ones cite, by how often *)
(* they do, the shorter first, as far as the budget goes.                  *)
HopSections(sections, chosen, places) ==
    LET Cites(i) == {<<i, c>> : c \in DOMAIN sections[i].citations}
        Cite(x)  == sections[x[1]].citations[x[2]]
        aims     == {x \in UNION {Cites(i) : i \in chosen} :
                        <<Cite(x).path, Cite(x).start>> \notin places}
        Score(i) == Cardinality({x \in Cites(i) \X aims :
                        /\ SameFile(Cite(x[1]).path, Cite(x[2]).path)
                        /\ Near(Cite(x[1]), Cite(x[2]).start)})
        Before(i, j) == \/ Score(i) > Score(j)
                        \/ /\ Score(i) = Score(j)
                           /\ \/ sections[i].chars < sections[j].chars
                              \/ sections[i].chars = sections[j].chars /\ i < j
        ranked   == SortSeq(SelectSeq([i \in DOMAIN sections |-> i],
                                      LAMBDA i : i \notin chosen /\ Score(i) > 0), Before)
    IN  IF HopBudget = 0 THEN [added |-> {}, skipped |-> 0]
        ELSE LET taken == FoldLeft(LAMBDA acc, i :
                     IF acc.used + sections[i].chars > HopBudget THEN acc
                     ELSE [used |-> acc.used + sections[i].chars, added |-> acc.added \union {i}],
                     [used |-> 0, added |-> {}], ranked)
             IN  [added |-> taken.added, skipped |-> Len(ranked) - Cardinality(taken.added)]

-----------------------------------------------------------------------------
(* The functions around the places observed, in the order of the places,   *)
(* each once; one over the budget is left out.                             *)
RankOf(path)  == SelectInSeq(Paths, LAMBDA p : p = path)
Earlier(p, q) == \/ RankOf(p[1]) < RankOf(q[1])
                 \/ RankOf(p[1]) = RankOf(q[1]) /\ p[2] < q[2]

SliceFunctions(m, places) ==
    LET Step(acc, p) ==
            IF \/ p[1] \notin DOMAIN m.source
               \/ ~IsEnclosed(m.source[p[1]], p[2])
            THEN [acc EXCEPT !.failed = @ \union {p}]
            ELSE LET h    == NearestHead(m.source[p[1]], p[2])
                     body == <<p[1], h.at>>
                 IN  IF body \in acc.seen THEN acc
                     ELSE IF acc.used + h.chars > SourceBudget
                     THEN [acc EXCEPT !.seen = @ \union {body}, !.over = @ + 1]
                     ELSE [acc EXCEPT !.seen = @ \union {body}, !.used = @ + h.chars,
                                      !.bodies = @ \union {body}]
        rows == SelectSeq(m.index, LAMBDA e : Place(e) \in places)
        none == [bodies |-> {}, failed |-> {}, seen |-> {}, over |-> 0, used |-> 0]
    IN  IF DOMAIN m.source = {} THEN [none EXCEPT !.failed = {<<>>}]
        ELSE FoldLeft(Step, none,
                      SortSeq([i \in DOMAIN rows |-> Place(rows[i])], Earlier))

-----------------------------------------------------------------------------
(* The questions, the document each rests on, and where that is looked for.*)
Questions == <<
    [id |-> "Q1", group |-> "A", chip |-> "12_event_sequences.md", module |-> ""],
    [id |-> "Q2", group |-> "A", chip |-> "", module |-> ""],
    [id |-> "Q3", group |-> "A", chip |-> "", module |-> "state_model"],
    [id |-> "Q4", group |-> "A", chip |-> "", module |-> ""],
    [id |-> "Q5", group |-> "B", chip |-> "10_summary_and_findings.md", module |-> ""],
    [id |-> "Q6", group |-> "B", chip |-> "", module |-> "cross_module_edges"],
    [id |-> "Q7", group |-> "C", chip |-> "07_debug_interfaces.md", module |-> ""]>>

(* resolve_doc: a name of the chip, or a kind of log_analysis/, which may  *)
(* find several, in the order of their names.                              *)
ResolveChip(m, name)   == {d \in ToSet(m.docs) : d.name = name}
ResolveModule(m, kind) == IF kind \in DOMAIN m.module THEN m.module[kind] ELSE <<>>

BasisOf(m, q) ==
    IF q.chip # "" THEN ResolveChip(m, q.chip) ELSE ToSet(ResolveModule(m, q.module))

FirstOf(m, q) ==
    IF q.chip # "" THEN CHOOSE d \in ResolveChip(m, q.chip) : TRUE
    ELSE Head(ResolveModule(m, q.module))

Rests(q) == q.chip # "" \/ q.module # ""

AvailableQuestions(m) == {q \in ToSet(Questions) : Rests(q) => BasisOf(m, q) # {}}
SkippedQuestions(m)   == ToSet(Questions) \ AvailableQuestions(m)

(* The layer of concepts: the glossary, the documents on the grammar of    *)
(* the log and on correlation, all that are found, and the architecture.   *)
ConceptKinds == {"log_grammar", "context_and_correlation"}
Architecture == "01_architecture_composition.md"

ConceptualDocs(m) ==
    (IF m.glossary THEN {"glossary"} ELSE {})
    \union {d.name : d \in UNION {ToSet(ResolveModule(m, k)) : k \in ConceptKinds}}
    \union {d.name : d \in ResolveChip(m, Architecture)}

ConceptMissing(m) ==
    (IF m.glossary THEN {} ELSE {"glossary"})
    \union {k \in ConceptKinds : Len(ResolveModule(m, k)) # 1}
    \union (IF ResolveChip(m, Architecture) = {} THEN {Architecture} ELSE {})

(* The sections of a basis document that name a subsystem observed; the    *)
(* whole of it if none does or that would save less than a fifth.          *)
BasisBody(doc, subsystems) ==
    LET sections == ParseSections(doc)
        hit      == {i \in DOMAIN sections : sections[i].mentions \intersect subsystems # {}}
        Size(s)  == MapThenSumSet(LAMBDA i : sections[i].chars, s)
    IN  IF hit = {} \/ 10 * Size(hit) >= 8 * Size(DOMAIN sections) THEN DOMAIN sections ELSE hit

\* Mutant of Supplements: a document that has sections is taken for one that gave some.
SupplementsOfUncut(m, chosenDocs, subsystems) ==
    LET contributed == {d.name : d \in ToSet(m.docs)} \union ConceptualDocs(m)
        found == {FirstOf(m, q) : q \in {r \in AvailableQuestions(m) : Rests(r)}}
    IN  {[doc |-> d.name, sections |-> BasisBody(d, subsystems)] :
            d \in {e \in found : e.name \notin contributed}}

(* A question whose basis no section came from gets the first document     *)
(* that is found; documents are told apart by their names.                 *)
Supplements(m, chosenDocs, subsystems) ==
    LET contributed == chosenDocs \union Whole(m) \union ConceptualDocs(m)
        found == {FirstOf(m, q) : q \in {r \in AvailableQuestions(m) : Rests(r)}}
    IN  {[doc |-> d.name, sections |-> BasisBody(d, subsystems)] :
            d \in {e \in found : e.name \notin contributed}}

-----------------------------------------------------------------------------
(* The files that no section cites are counted; named are all of them, or  *)
(* the first of their names if they are many.                              *)
NameRank(f) == SelectInSeq(FileNames, LAMBDA n : n = f)

Named(files) ==
    IF Cardinality(files) <= MaxNamed THEN files
    ELSE {f \in files : Cardinality({g \in files : NameRank(g) < NameRank(f)}) < MaxNamed}

(* prepare: what the prompts are made of.                                  *)
Prepare(m, logs, config) ==
    LET refined  == Refine(logs, config)
        res      == ResolveObservations(m, refined.lines)
        places   == Observed(res)
        sections == Sections(m)
        choice   == SelectSections(sections, places)
        hop      == HopSections(sections, choice.chosen, places)
        slices   == SliceFunctions(m, places)
        docs     == {sections[i].doc : i \in choice.chosen}
    IN  [lines       |-> res,
         excerpt     |-> choice.chosen,
         hops        |-> hop.added,
         whole       |-> Whole(m),
         background  |-> ConceptualDocs(m),
         slices      |-> slices.bodies,
         supplements |-> Supplements(m, docs, Subsystems(res)),
         questions   |-> AvailableQuestions(m),
         skipped     |-> SkippedQuestions(m),
         uncited     |-> [count |-> Cardinality(choice.unmatched),
                          named |-> Named(choice.unmatched)],
         omissions   |->
            refined.warnings \union ConceptMissing(m)
            \union (IF \E r \in ToSet(res) : ~r.inObserved THEN {"places"} ELSE {})
            \union (IF hop.skipped > 0 THEN {"hops"} ELSE {})
            \union (IF slices.failed # {} THEN {"functions"} ELSE {})
            \union (IF choice.chosen # DOMAIN sections THEN {"sections"} ELSE {})]

===============================================================================
