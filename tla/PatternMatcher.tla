--------------------------- MODULE PatternMatcher ---------------------------
(***************************************************************************)
(* Matching of the patterns of the knowledge base in refined lines:        *)
(* core/pattern_matcher.py.  A pattern is a record with the fields of its  *)
(* type, each filled: one with a regex, a window or a threshold of NULL    *)
(* ends the analysis with an exception.                                    *)
(***************************************************************************)
EXTENDS LogRefiner

\* A pattern with the fields of its type, the durations not negative; no
\* code keeps the threshold of a WINDOW from being zero or less.
WellFormed(p) ==
    CASE p.type = "PRESENCE"  -> p.regex \in Regexes /\ p.dedup \in Nat \union {NoTime}
      [] p.type = "SEQUENCE"  -> /\ p.steps \in Seq(Regexes)
                                 /\ p.stepDedup \in BOOLEAN /\ p.nonOverlapping \in BOOLEAN
      [] p.type = "WINDOW"    -> /\ p.regex \in Regexes /\ p.unique \in BOOLEAN
                                 /\ p.window \in Nat /\ p.threshold \in Int
      [] p.type = "ABSENCE"   -> /\ p.trigger \in Regexes /\ p.absent \in Regexes
                                 /\ p.window \in Nat
      [] p.type = "COMPOSITE" -> p.components \in Seq(STRING)
      [] OTHER -> FALSE

\* "ll.timestamp or 0.0"
Stamp(line) == IF line.time = NoTime THEN 0 ELSE line.time

Hits(regex, lines) == Chosen(lines, {i \in DOMAIN lines : lines[i].msg \in regex})

\* Mutant of PresenceStep: every hit moves the window on.
PresenceStepSliding(p, acc, l) ==
    LET fp       == FingerprintOf(l)
        Repeated == \E s \in acc.seen : s.fp = fp /\ Stamp(l) - s.at <= p.dedup
    IN  IF l.msg \notin p.regex THEN acc
        ELSE [seen     |-> {s \in acc.seen : s.fp # fp} \union {[fp |-> fp, at |-> Stamp(l)]},
              evidence |-> IF p.dedup # NoTime /\ Repeated THEN acc.evidence
                           ELSE Append(acc.evidence, l)]

(* PRESENCE: a fingerprint that comes back within the window counts once.  *)
PresenceStep(p, acc, l) ==
    LET fp       == FingerprintOf(l)
        Repeated == \E s \in acc.seen : s.fp = fp /\ Stamp(l) - s.at <= p.dedup
    IN  IF l.msg \notin p.regex \/ (p.dedup # NoTime /\ Repeated) THEN acc
        ELSE [seen     |-> {s \in acc.seen : s.fp # fp} \union {[fp |-> fp, at |-> Stamp(l)]},
              evidence |-> Append(acc.evidence, l)]

PresenceEvidence(p, lines) ==
    LET scan[n \in 0..Len(lines)] ==
            IF n = 0 THEN [seen |-> {}, evidence |-> <<>>]
            ELSE PresenceStep(p, scan[n - 1], lines[n])
    IN  scan[Len(lines)].evidence

(* SEQUENCE: one scan looks for the steps in turn and starts again after   *)
(* the last; used holds the fingerprints taken by each step since then.    *)
SequenceStart(p, evidence, barrier) ==
    [step |-> 1, current |-> <<>>, used |-> [i \in 1..Len(p.steps) |-> {}],
     evidence |-> evidence, barrier |-> barrier]

Taken(p, acc, l) ==
    /\ acc.barrier = NoTime \/ Stamp(l) > acc.barrier
    /\ l.msg \in p.steps[acc.step]
    /\ p.stepDedup => FingerprintOf(l) \notin acc.used[acc.step]

\* Mutant of SequenceStep: the barrier is set when a step is taken.
SequenceStepEager(p, acc, l) ==
    IF ~Taken(p, acc, l) THEN acc
    ELSE IF acc.step = Len(p.steps)
    THEN SequenceStart(p, acc.evidence \o Append(acc.current, l), NoTime)
    ELSE [acc EXCEPT !.step = @ + 1, !.current = Append(@, l), !.barrier = Stamp(l)]

SequenceStep(p, acc, l) ==
    IF ~Taken(p, acc, l) THEN acc
    ELSE IF acc.step = Len(p.steps)
    THEN SequenceStart(p, acc.evidence \o Append(acc.current, l),
                       IF p.nonOverlapping THEN Stamp(l) ELSE acc.barrier)
    ELSE [acc EXCEPT !.step = @ + 1,
                     !.current = Append(@, l),
                     !.used[acc.step] = @ \union {FingerprintOf(l)}]

SequenceEvidence(p, lines) ==
    LET scan[n \in 0..Len(lines)] ==
            IF n = 0 THEN SequenceStart(p, <<>>, NoTime)
            ELSE SequenceStep(p, scan[n - 1], lines[n])
    IN  IF p.steps = <<>> THEN <<>> ELSE scan[Len(lines)].evidence

(* WINDOW: the longest run of hits within the window, if it is long enough.*)
FirstOfEach(lines) ==
    Chosen(lines, {i \in DOMAIN lines :
        \A k \in 1..(i - 1) : FingerprintOf(lines[k]) # FingerprintOf(lines[i])})

\* The place of the left pointer when the right one is at r.
LeftOf(timed, window) ==
    LET left[r \in 0..Len(timed)] ==
            IF r = 0 THEN 1
            ELSE Min({k \in left[r - 1]..r : timed[r].time - timed[k].time <= window})
    IN  left

\* "lines[:n]", which counts from the end when n is negative.
Slice(lines, n) == SubSeq(lines, 1, IF n < 0 THEN Len(lines) + n ELSE n)

WindowEvidence(p, lines) ==
    LET hits  == Hits(p.regex, lines)
        found == IF p.unique THEN FirstOfEach(hits) ELSE hits
        timed == Chosen(found, {i \in DOMAIN found : found[i].time # NoTime})
        left  == LeftOf(timed, p.window)
        Size(r) == r - left[r] + 1
        long == {r \in DOMAIN timed : Size(r) >= p.threshold}
        best == Min({r \in long : \A q \in long : Size(q) <= Size(r)})
    IN  IF timed = <<>>
        THEN IF Len(found) >= p.threshold THEN Slice(found, p.threshold) ELSE <<>>
        ELSE IF long = {} THEN <<>> ELSE SubSeq(timed, left[best], best)

(* ABSENCE: the last trigger is watched until the window is over or the    *)
(* absent pattern is seen; only a later line tells that time has passed.   *)
Over(p, trigger, l) ==
    /\ l.time # NoTime /\ trigger.time # NoTime
    /\ l.time - trigger.time > p.window

\* Mutant of AbsenceStep: a trigger is reported when a newer one replaces it.
AbsenceStepReplacing(p, acc, l) ==
    LET watching == acc.watched # <<>>
        expired  == watching /\ Over(p, acc.watched[1], l)
        answered == watching /\ ~expired /\ l.msg \in p.absent
    IN  [watched  |-> IF l.msg \in p.trigger /\ ~answered THEN <<l>>
                      ELSE IF expired \/ answered THEN <<>>
                      ELSE acc.watched,
         evidence |-> IF expired \/ l.msg \in p.trigger
                      THEN acc.evidence \o acc.watched ELSE acc.evidence]

AbsenceStep(p, acc, l) ==
    LET watching == acc.watched # <<>>
        expired  == watching /\ Over(p, acc.watched[1], l)
        answered == watching /\ ~expired /\ l.msg \in p.absent
    IN  [watched  |-> IF l.msg \in p.trigger /\ ~answered THEN <<l>>
                      ELSE IF expired \/ answered THEN <<>>
                      ELSE acc.watched,
         evidence |-> IF expired THEN acc.evidence \o acc.watched ELSE acc.evidence]

AbsenceEvidence(p, lines) ==
    LET scan[n \in 0..Len(lines)] ==
            IF n = 0 THEN [watched |-> <<>>, evidence |-> <<>>]
            ELSE AbsenceStep(p, scan[n - 1], lines[n])
        end == scan[Len(lines)]
    IN  IF /\ end.watched # <<>>
           /\ \/ lines[Len(lines)].time = NoTime
              \/ end.watched[1].time = NoTime
              \/ Over(p, end.watched[1], lines[Len(lines)])
        THEN end.evidence \o end.watched
        ELSE end.evidence

Evidence(p, lines) ==
    CASE p.type = "PRESENCE" -> PresenceEvidence(p, lines)
      [] p.type = "SEQUENCE" -> SequenceEvidence(p, lines)
      [] p.type = "WINDOW"   -> WindowEvidence(p, lines)
      [] p.type = "ABSENCE"  -> AbsenceEvidence(p, lines)

----------------------------------------------------------------------------
(* COMPOSITE, over the names that have a result: a component without one   *)
(* counts as not matched, for NOT too.                                     *)
CompositeMatches(p, results) ==
    LET Known(c)   == c \in DOMAIN results
        Met(c)     == Known(c) /\ results[c].matched
        components == ToSet(p.components)
    IN  CASE p.operator = "AND" -> components # {} /\ \A c \in components : Met(c)
          [] p.operator = "OR"  -> \E c \in components : Met(c)
          [] p.operator = "NOT" ->
                /\ p.components # <<>>
                /\ Known(p.components[1])
                /\ ~results[p.components[1]].matched
          [] OTHER -> FALSE

CompositeEvidence(p, results) ==
    FlattenSeq([i \in DOMAIN p.components |->
        IF p.components[i] \in DOMAIN results
        THEN results[p.components[i]].evidence ELSE <<>>])

\* The results with one more, which replaces one of its name.
WithResult(results, p, matched, evidence) ==
    [n \in DOMAIN results \union {p.name} |->
        IF n = p.name
        THEN [matched |-> matched, evidence |-> evidence, weight |-> p.weight]
        ELSE results[n]]

\* A pattern has matched when it has evidence, and a WINDOW that asks for
\* no hit always has.
Matched(p, evidence) ==
    evidence # <<>> \/ (p.type = "WINDOW" /\ p.threshold <= 0)

MatchOne(results, e) ==
    LET evidence == Evidence(e.pattern, e.lines)
    IN  WithResult(results, e.pattern, Matched(e.pattern, evidence), evidence)

MatchComposite(results, e) ==
    LET matched == CompositeMatches(e.pattern, results)
    IN  WithResult(results, e.pattern, matched,
                   IF matched THEN CompositeEvidence(e.pattern, results) ELSE <<>>)

IsComposite(e) == e.pattern.type = "COMPOSITE"

\* Mutant of MatchEntries: one pass, in the order of the entries.
MatchEntriesInOrder(entries) ==
    LET results[n \in 0..Len(entries)] ==
            IF n = 0 THEN <<>>
            ELSE IF IsComposite(entries[n])
            THEN MatchComposite(results[n - 1], entries[n])
            ELSE MatchOne(results[n - 1], entries[n])
    IN  results[Len(entries)]

(* match_entries: composite patterns last, each seeing the results so far. *)
MatchSimple(entries) ==
    LET results[n \in 0..Len(entries)] ==
            IF n = 0 THEN <<>> ELSE MatchOne(results[n - 1], entries[n])
    IN  results[Len(entries)]

MatchComposites(entries, simple) ==
    LET results[n \in 0..Len(entries)] ==
            IF n = 0 THEN simple ELSE MatchComposite(results[n - 1], entries[n])
    IN  results[Len(entries)]

MatchEntries(entries) ==
    LET composite == {i \in DOMAIN entries : IsComposite(entries[i])}
    IN  MatchComposites(Chosen(entries, composite),
                        MatchSimple(Chosen(entries, DOMAIN entries \ composite)))

(* The share of the weights that matched, in ten thousandths, rounded.     *)
Score(results) ==
    LET Weight(names) == MapThenSumSet(LAMBDA n : results[n].weight, names)
        all     == Weight(DOMAIN results)
        matched == Weight({n \in DOMAIN results : results[n].matched})
    IN  IF all > 0 THEN (20000 * matched + all) \div (2 * all) ELSE 0
=============================================================================
