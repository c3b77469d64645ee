----------------------------- MODULE LogRefiner -----------------------------
(***************************************************************************)
(* Refinement of a log: core/log_refiner.py, the master rules of           *)
(* core/master_rule.py and the Stage 1 of core/pipeline.py that calls      *)
(* them.  A message is a model value; a keyword or a regular expression is *)
(* the set of the messages it is found in.  A line of a file has the       *)
(* message, the kernel time it shows, and the format it is written in.     *)
(***************************************************************************)
EXTENDS Integers, Sequences, SequencesExt, FiniteSets, FiniteSetsExt, TLC

CONSTANTS
    Messages,        \* messages without their time stamps
    Formats,         \* formats of a line: one per parser, and what none reads
    Fingerprint,     \* message -> what is left without numbers and addresses
    Repeats          \* message -> N of "last message repeated N times", or 0

NoTime == -1

ASSUME RefinerAssumption ==
    /\ IsFiniteSet(Messages)
    /\ DOMAIN Fingerprint = Messages
    /\ Repeats \in [Messages -> Nat]

RawLine == [msg : Messages, time : Nat \union {NoTime}, format : Formats]

LogLine == [msg : Messages, time : Nat \union {NoTime}, shown : Nat \union {NoTime},
            count : Nat]

\* A keyword, a condition or an anchor: the messages it is found in.
Regexes == SUBSET Messages

RefineConfig ==
    [keywords : SUBSET Regexes, conditions : SUBSET Regexes, parsers : SUBSET Formats,
     burstWindow : Nat, burstThreshold : Int,
     anchors : SUBSET Regexes, before : Nat, after : Nat,
     start : Nat \union {NoTime}, end : Nat \union {NoTime}]

\* Without a parser the time stays in the text of the message.
Text(line) == <<line.msg, line.shown>>
FingerprintOf(line) == <<Fingerprint[line.msg], line.shown>>

Matches(regexes, line) == \E r \in regexes : line.msg \in r

\* The elements of a finite set in a strict order: the n-th has n - 1 before it.
InOrder(S, R) ==
    LET before == [x \in S |-> Cardinality({y \in S : <<y, x>> \in R})]
    IN  [n \in 1..Cardinality(S) |-> CHOOSE x \in S : before[x] = n - 1]

\* The elements of a sequence at some indices, as they stand.
Chosen(s, I) ==
    LET order == InOrder(I, {r \in I \X I : r[1] < r[2]})
    IN  [n \in 1..Cardinality(I) |-> s[order[n]]]

\* The sum of the first n values of f.
SumTo(n, f) ==
    LET sum[k \in 0..n] == IF k = 0 THEN 0 ELSE sum[k - 1] + f[k]
    IN  sum[n]

\* The events that the lines at some indices stand for.
CountOf(lines, I) ==
    SumTo(Len(lines), [i \in DOMAIN lines |-> IF i \in I THEN lines[i].count ELSE 0])

----------------------------------------------------------------------------
(* Step 0, prefilter_by_keywords: only the lines with a keyword, and only  *)
(* the files that have one.                                                *)
Prefilter(files, keywords) ==
    LET With(f) == {i \in DOMAIN f : Matches(keywords, f[i])}
        kept    == [i \in DOMAIN files |-> Chosen(files[i], With(files[i]))]
    IN  IF keywords = {} THEN files
        ELSE Chosen(kept, {i \in DOMAIN files : With(files[i]) # {}})

(* Step 1-4: the files in which every condition is met.                    *)
SelectFiles(files, conditions) ==
    Chosen(files, {i \in DOMAIN files :
        \A c \in conditions : \E n \in DOMAIN files[i] : files[i][n].msg \in c})

(* Step 1-1: with no parser every line is kept and none has a time.        *)
Parse(file, parsers) ==
    LET known == Chosen(file, {i \in DOMAIN file : parsers = {} \/ file[i].format \in parsers})
    IN  [i \in DOMAIN known |->
            [msg   |-> known[i].msg,
             time  |-> IF parsers = {} THEN NoTime ELSE known[i].time,
             shown |-> IF parsers = {} THEN known[i].time ELSE NoTime,
             count |-> 1]]

AddToLast(lines, n) == [lines EXCEPT ![Len(lines)].count = @ + n]

(* Step 1-2, first part: a marker adds to the line before it and goes.     *)
Absorb(acc, l) ==
    IF Repeats[l.msg] > 0 /\ acc # <<>>
    THEN AddToLast(acc, Repeats[l.msg])
    ELSE Append(acc, l)

AbsorbMarkers(lines) ==
    LET kept[n \in 0..Len(lines)] ==
            IF n = 0 THEN <<>> ELSE Absorb(kept[n - 1], lines[n])
    IN  kept[Len(lines)]

\* Mutant of Combine: the line that goes had no marker.
CombineByOne(acc, l) ==
    IF acc # <<>> /\ Text(acc[Len(acc)]) = Text(l)
    THEN AddToLast(acc, 1)
    ELSE Append(acc, l)

(* Step 1-2, second part: equal messages in a row become one.              *)
Combine(acc, l) ==
    IF acc # <<>> /\ Text(acc[Len(acc)]) = Text(l)
    THEN AddToLast(acc, l.count)
    ELSE Append(acc, l)

CollapseConsecutive(lines) ==
    LET kept[n \in 0..Len(lines)] ==
            IF n = 0 THEN <<>> ELSE Combine(kept[n - 1], lines[n])
    IN  kept[Len(lines)]

(* The indices of the burst that starts at i: the scan goes over lines     *)
(* without a time and stops at the first that is too late.                 *)
Burst(lines, i, window) ==
    LET Late(k)  == lines[k].time # NoTime /\ lines[k].time - lines[i].time > window
        Like(k)  == /\ lines[k].time # NoTime
                    /\ FingerprintOf(lines[k]) = FingerprintOf(lines[i])
    IN  {i} \union {j \in (i + 1)..Len(lines) :
                        Like(j) /\ \A k \in (i + 1)..j : ~Late(k)}

(* Step 1-2, third part: skip[i] are the indices that the bursts found at  *)
(* the first i lines have taken.                                           *)
Bursting(lines, i, window, threshold) ==
    lines[i].time # NoTime /\ Cardinality(Burst(lines, i, window)) >= threshold

Skip(lines, window, threshold) ==
    LET skip[i \in 0..Len(lines)] ==
            IF i = 0 THEN {}
            ELSE IF i \notin skip[i - 1] /\ Bursting(lines, i, window, threshold)
            THEN skip[i - 1] \union (Burst(lines, i, window) \ {i})
            ELSE skip[i - 1]
    IN  skip[Len(lines)]

CollapseBursts(lines, window, threshold) ==
    LET collapsed ==
            [i \in DOMAIN lines |->
                IF Bursting(lines, i, window, threshold)
                THEN [lines[i] EXCEPT !.count = CountOf(lines, Burst(lines, i, window))]
                ELSE lines[i]]
    IN  IF threshold <= 0 THEN lines
        ELSE Chosen(collapsed, DOMAIN lines \ Skip(lines, window, threshold))

Collapse(lines, config) ==
    CollapseBursts(CollapseConsecutive(AbsorbMarkers(lines)),
                   config.burstWindow, config.burstThreshold)

(* Step 1-3: the interval given, or around the anchors, or none.           *)
Interval(lines, config) ==
    LET found == {lines[i].time : i \in {k \in DOMAIN lines :
                    lines[k].time # NoTime /\ Matches(config.anchors, lines[k])}}
    IN  IF config.start # NoTime \/ config.end # NoTime
        THEN [some |-> TRUE, start |-> config.start, end |-> config.end]
        ELSE IF found = {}
        THEN [some |-> FALSE, start |-> NoTime, end |-> NoTime]
        ELSE [some  |-> TRUE,
              start |-> Max({0, Min(found) - config.before}),
              end   |-> Max(found) + config.after]

Within(time, interval) ==
    /\ interval.start = NoTime \/ interval.start <= time
    /\ interval.end   = NoTime \/ time <= interval.end

(* A line without a time shares the fate of the line with one before it.   *)
ApplyWindow(lines, config) ==
    LET interval == Interval(lines, config)
        inside[i \in 0..Len(lines)] ==
            IF i = 0 THEN FALSE
            ELSE IF lines[i].time = NoTime THEN inside[i - 1]
            ELSE Within(lines[i].time, interval)
    IN  IF interval.some THEN Chosen(lines, {i \in DOMAIN lines : inside[i]}) ELSE lines

Refine(file, config) == ApplyWindow(Collapse(Parse(file, config.parsers), config), config)

----------------------------------------------------------------------------
(* Sorted by time, lines without one last, equal ones in their order.      *)
Earlier(l, m) == l.time # NoTime /\ (m.time = NoTime \/ l.time < m.time)

SortByTime(lines) ==
    LET I == DOMAIN lines
        order == InOrder(I, {r \in I \X I :
            \/ Earlier(lines[r[1]], lines[r[2]])
            \/ lines[r[1]].time = lines[r[2]].time /\ r[1] < r[2]})
    IN  [n \in 1..Cardinality(I) |-> lines[order[n]]]

(* _run_stage1 of the pipeline, over the files of the request.             *)
Gather(files, config) ==
    LET all[n \in 0..Len(files)] ==
            IF n = 0 THEN <<>> ELSE all[n - 1] \o Refine(files[n], config)
    IN  all[Len(files)]

Stage1(files, config) ==
    SortByTime(Gather(SelectFiles(Prefilter(files, config.keywords), config.conditions),
                      config))

----------------------------------------------------------------------------
(* DEDUP_CONSECUTIVE of the master rules, applied one rule after another.  *)
Dedup(regex, acc, l) ==
    IF acc # <<>> /\ l.msg \in regex /\ acc[Len(acc)].msg \in regex
    THEN AddToLast(acc, l.count)
    ELSE Append(acc, l)

DedupConsecutive(lines, regex) ==
    LET kept[n \in 0..Len(lines)] ==
            IF n = 0 THEN <<>> ELSE Dedup(regex, kept[n - 1], lines[n])
    IN  kept[Len(lines)]

ApplyRules(lines, rules) ==
    LET left[n \in 0..Len(rules)] ==
            IF n = 0 THEN lines ELSE DedupConsecutive(left[n - 1], rules[n])
    IN  left[Len(rules)]

(* Stage 3: the lines with one of the keywords; no keyword keeps them all. *)
FilterByKeywords(lines, keywords) ==
    IF keywords = {} THEN lines
    ELSE Chosen(lines, {i \in DOMAIN lines : Matches(keywords, lines[i])})
=============================================================================
