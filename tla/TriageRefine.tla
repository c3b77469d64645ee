----------------------------- MODULE TriageRefine -----------------------------
(***************************************************************************)
(* Stage 1 of TentativeDefectTriage, refine/refine.py: the logs are refined *)
(* from the point of view of one expert.  A message is a model value, a    *)
(* keyword the set of the messages it is found in.                         *)
(***************************************************************************)
EXTENDS Integers, Sequences, SequencesExt, FiniteSets, FiniteSetsExt

CONSTANTS
    Messages,   \* messages without their time stamps
    Masked,     \* message -> what is left when addresses are masked
    Repeats,    \* message -> N of "last message repeated N times", or 0
    Width       \* message -> characters of its line, the line end included

NoTime == -1

ASSUME TriageRefineAssumption ==
    /\ IsFiniteSet(Messages)
    /\ DOMAIN Masked = Messages
    /\ Repeats \in [Messages -> Nat]
    /\ Width \in [Messages -> Nat]

RawLine == [msg : Messages, time : Nat \union {NoTime}]

\* The sum of the first n values of f.
SumTo(n, f) ==
    LET sum[k \in 0..n] == IF k = 0 THEN 0 ELSE sum[k - 1] + f[k]
    IN  sum[n]

\* The events that the lines at some indices stand for.
CountOf(lines, I) ==
    SumTo(Len(lines), [k \in DOMAIN lines |-> IF k \in I THEN lines[k].count ELSE 0])

(* The files in the order of their names; a line without a time is kept.   *)
Raw(logs) ==
    LET text[n \in 0..Len(logs)] == IF n = 0 THEN <<>> ELSE text[n - 1] \o logs[n]
    IN  text[Len(logs)]

ParseLines(logs) ==
    LET raw == Raw(logs)
    IN  [i \in DOMAIN raw |-> [msg |-> raw[i].msg, time |-> raw[i].time, count |-> 1]]

AddTo(lines, n) == [lines EXCEPT ![Len(lines)].count = @ + n]

(* A repeat marker adds to the line before it, if there is one, and goes.  *)
Absorb(out, l) ==
    IF Repeats[l.msg] > 0 /\ out # <<>> THEN AddTo(out, Repeats[l.msg])
    ELSE Append(out, l)

AbsorbRepeatMarkers(lines) ==
    LET out[n \in 0..Len(lines)] == IF n = 0 THEN <<>> ELSE Absorb(out[n - 1], lines[n])
    IN  out[Len(lines)]

(* Equal messages in a row become one.                                     *)
Combine(out, l) ==
    IF out # <<>> /\ out[Len(out)].msg = l.msg THEN AddTo(out, l.count)
    ELSE Append(out, l)

CollapseConsecutive(lines) ==
    LET out[n \in 0..Len(lines)] == IF n = 0 THEN <<>> ELSE Combine(out[n - 1], lines[n])
    IN  out[Len(lines)]

(* The lines of the burst that would start at i: the scan passes over      *)
(* lines without a time and stops at the first that is too late.           *)
BurstFrom(lines, i, window) ==
    LET Timed(j) == lines[j].time # NoTime
        Late(j)  == Timed(j) /\ lines[j].time - lines[i].time > window
    IN  {j \in i..Len(lines) :
            /\ Timed(j)
            /\ Masked[lines[j].msg] = Masked[lines[i].msg]
            /\ \A k \in (i + 1)..j : ~Late(k)}

\* Mutant of BurstStep: the lines of a burst count one each.
BurstStepByLine(lines, window, threshold, acc, i) ==
    LET burst == BurstFrom(lines, i, window)
    IN  IF i \in acc.skip THEN acc
        ELSE IF lines[i].time = NoTime \/ Cardinality(burst) < threshold
        THEN [out |-> Append(acc.out, lines[i]), skip |-> acc.skip]
        ELSE [out  |-> Append(acc.out, [lines[i] EXCEPT !.count = Cardinality(burst)]),
              skip |-> acc.skip \union burst]

(* A burst of at least `threshold` lines becomes its first line.           *)
BurstStep(lines, window, threshold, acc, i) ==
    LET burst == BurstFrom(lines, i, window)
    IN  IF i \in acc.skip THEN acc
        ELSE IF lines[i].time = NoTime \/ Cardinality(burst) < threshold
        THEN [out |-> Append(acc.out, lines[i]), skip |-> acc.skip]
        ELSE [out  |-> Append(acc.out, [lines[i] EXCEPT !.count = CountOf(lines, burst)]),
              skip |-> acc.skip \union burst]

CollapseBursts(lines, window, threshold) ==
    LET done[n \in 0..Len(lines)] ==
            IF n = 0 THEN [out |-> <<>>, skip |-> {}]
            ELSE BurstStep(lines, window, threshold, done[n - 1], n)
    IN  IF threshold <= 0 THEN lines ELSE done[Len(lines)].out

Wanted(keywords, msg) == keywords = {} \/ \E k \in keywords : msg \in k

FilterByKeywords(lines, keywords) ==
    LET kept[n \in 0..Len(lines)] ==
            IF n = 0 THEN <<>>
            ELSE IF Wanted(keywords, lines[n].msg) THEN Append(kept[n - 1], lines[n])
            ELSE kept[n - 1]
    IN  kept[Len(lines)]

\* Characters of a rendered line: "  xN" follows the message of a collapsed one.
CharsOf(line) == Width[line.msg] + (IF line.count > 1 THEN 4 ELSE 0)

Chars(lines) == FoldLeft(LAMBDA n, l : n + CharsOf(l), 0, lines)

(* chars_per_token is 1.5.                                                 *)
Fits(lines, budget) == 2 * Chars(lines) <= 3 * budget

(* k lines: half from the head, half, and the odd one, from the tail.      *)
HeadAndTail(lines, k) ==
    SubSeq(lines, 1, k \div 2) \o SubSeq(lines, Len(lines) - (k - k \div 2) + 1, Len(lines))

(* The middle goes until the rest fits; what stays grows with k, so that   *)
(* the bisection of the code ends at the largest k that fits.              *)
EnforceBudget(lines, budget) ==
    IF budget <= 0 \/ Fits(lines, budget) THEN lines
    ELSE HeadAndTail(lines, Max({k \in 0..Len(lines) : Fits(HeadAndTail(lines, k), budget)}))

Collapse(logs, config) ==
    CollapseBursts(CollapseConsecutive(AbsorbRepeatMarkers(ParseLines(logs))),
                   config.burstWindow, config.burstThreshold)

(* refine: what is left, and what the prompt is told is missing.           *)
Refine(logs, config) ==
    LET filtered == FilterByKeywords(Collapse(logs, config), config.keywords)
        lines    == EnforceBudget(filtered, config.budget)
    IN  [lines    |-> lines,
         warnings |-> (IF config.keywords # {} /\ filtered = <<>> THEN {"no line has a keyword"}
                       ELSE {})
                      \union
                      (IF lines # filtered THEN {"middle dropped"} ELSE {})]

===============================================================================
