----------------------------- MODULE LogAnalysis -----------------------------
(***************************************************************************)
(* What one analysis does with its logs, from the files of the request to  *)
(* the result of the pattern matcher: Stage 1, the master rules, Stage 3   *)
(* and Stage 4 of core/pipeline.py, one action each.                       *)
(***************************************************************************)
EXTENDS PatternMatcher

CONSTANTS
    Requests,     \* files, each a sequence of RawLines, with their RefineConfig
    RuleSets,     \* sequences of master rules, each the regex it collapses
    Cases,        \* what Stage 2 may hit: keywords and a sequence of patterns
    AllPatterns   \* every pattern of the database, in the order of their ids

\* Patterns as the knowledge base holds them: no two of one name.
Listed(patterns) ==
    /\ patterns \in Seq(ToSet(patterns))
    /\ \A i \in DOMAIN patterns : WellFormed(patterns[i])
    /\ \A i, j \in DOMAIN patterns : patterns[i].name = patterns[j].name => i = j

ASSUME RequestsAssumption ==
    Requests \subseteq [files : Seq(Seq(RawLine)), config : RefineConfig]

ASSUME RulesAssumption == RuleSets \subseteq Seq(Regexes)

ASSUME PatternsAssumption ==
    Listed(AllPatterns) /\ \A c \in Cases : Listed(c.patterns)

VARIABLES
    request,   \* the files of the request
    config,    \* its RefineConfig
    stage,     \* the last stage that has ended
    lines,     \* l_common, then l_normalized
    entries,   \* the RefinedEntries: patterns, each with its lines
    results    \* what the matcher found, by the name of the pattern

vars == <<request, config, stage, lines, entries, results>>

Init ==
    /\ \E r \in Requests : request = r.files /\ config = r.config
    /\ stage = "asked"
    /\ lines = <<>>
    /\ entries = <<>>
    /\ results = <<>>

RunStage1 ==
    /\ stage = "asked"
    /\ stage' = "refined"
    /\ lines' = Stage1(request, config)
    /\ UNCHANGED <<request, config, entries, results>>

RunMasterRule(rules) ==
    /\ stage = "refined"
    /\ stage' = "normalized"
    /\ lines' = ApplyRules(lines, rules)
    /\ UNCHANGED <<request, config, entries, results>>

Entry(pattern, keywords) ==
    [pattern |-> pattern, lines |-> FilterByKeywords(lines, keywords)]

(* HIT: the patterns of the case share the lines with its keywords.        *)
RefineForCase(c) ==
    /\ stage = "normalized"
    /\ stage' = "filtered"
    /\ entries' = [i \in DOMAIN c.patterns |-> Entry(c.patterns[i], c.keywords)]
    /\ UNCHANGED <<request, config, lines, results>>

(* MISS: every pattern has the lines with its own; none, and it is left out. *)
RefineForPatterns ==
    /\ stage = "normalized"
    /\ stage' = "filtered"
    /\ LET all == [i \in DOMAIN AllPatterns |-> Entry(AllPatterns[i], AllPatterns[i].keywords)]
       IN  entries' = Chosen(all, {i \in DOMAIN all : all[i].lines # <<>>})
    /\ UNCHANGED <<request, config, lines, results>>

Match ==
    /\ stage = "filtered"
    /\ stage' = "matched"
    /\ results' = MatchEntries(entries)
    /\ UNCHANGED <<request, config, lines, entries>>

Next ==
    \/ RunStage1
    \/ \E rules \in RuleSets : RunMasterRule(rules)
    \/ \E c \in Cases : RefineForCase(c)
    \/ RefineForPatterns
    \/ Match

Spec == Init /\ [][Next]_vars

----------------------------------------------------------------------------
(* Meanings of the types, in words of their own.                           *)

\* n lines of the pattern no further apart than its window.
InWindow(p, ls) ==
    \E first \in DOMAIN ls :
        /\ ls[first].time # NoTime
        /\ Cardinality({i \in DOMAIN ls :
                /\ ls[i].msg \in p.regex
                /\ ls[i].time # NoTime
                /\ ls[i].time \in ls[first].time..(ls[first].time + p.window)}) >= p.threshold

Untimed(p, ls) == \A i \in DOMAIN ls : ls[i].msg \in p.regex => ls[i].time = NoTime

\* Lines i1 < i2 < ... of the steps in turn.
StepsInOrder(p, ls) ==
    \E at \in [DOMAIN p.steps -> DOMAIN ls] :
        /\ \A k \in DOMAIN p.steps : ls[at[k]].msg \in p.steps[k]
        /\ \A k, m \in DOMAIN p.steps : k < m => at[k] < at[m]

\* The trigger of line i was not answered within the window.
Unanswered(p, ls, i) ==
    /\ ls[i].msg \in p.trigger
    /\ ~\E j \in (i + 1)..Len(ls) :
            ls[j].msg \in p.absent /\ ls[j].time \in 0..(ls[i].time + p.window)

Means(p, ls) ==
    CASE p.type = "PRESENCE" -> \E i \in DOMAIN ls : ls[i].msg \in p.regex
      [] p.type = "SEQUENCE" -> p.steps # <<>> /\ StepsInOrder(p, ls)
      [] p.type = "WINDOW"   ->
            IF Untimed(p, ls) THEN Len(Hits(p.regex, ls)) >= p.threshold
            ELSE InWindow(p, ls)

Simple(p) == p.type \notin {"COMPOSITE", "ABSENCE"} /\ (p.type = "WINDOW" => ~p.unique)

EntryOf(name) == CHOOSE e \in ToSet(entries) : e.pattern.name = name

----------------------------------------------------------------------------
(* Properties.                                                             *)

\* The events a file tells of: a marker stands for its repetitions when a
\* line is before it.
Events(file) ==
    LET parsed == Parse(file, config.parsers)
    IN  SumTo(Len(parsed), [i \in DOMAIN parsed |->
            IF i > 1 /\ Repeats[parsed[i].msg] > 0 THEN Repeats[parsed[i].msg] ELSE 1])

\* Collapsing loses no event: with no interval to cut out, the counts of
\* what Stage 1 and the master rules leave add up to the events of the
\* files, whatever markers, repetitions and bursts they hold.
CountsKept ==
    (stage # "asked" /\ config.keywords = {} /\ config.conditions = {}
        /\ config.anchors = {} /\ config.start = NoTime /\ config.end = NoTime)
    => CountOf(lines, DOMAIN lines)
        = SumTo(Len(request), [i \in DOMAIN request |-> Events(request[i])])

\* A simple pattern matches exactly when its lines are what its type means:
\* neither the de-duplication of events or steps nor the barrier between
\* sequences makes a match appear or go.
MatchedIsMeant ==
    \A e \in ToSet(entries) :
        (stage = "matched" /\ Simple(e.pattern))
        => (results[e.pattern.name].matched <=> Means(e.pattern, e.lines))

\* ABSENCE reports only triggers that were not answered in time.
AbsenceIsSound ==
    \A e \in ToSet(entries) :
        (stage = "matched" /\ e.pattern.type = "ABSENCE")
        => \A l \in ToSet(results[e.pattern.name].evidence) :
                l.time # NoTime =>
                \E i \in DOMAIN e.lines : e.lines[i] = l /\ Unanswered(e.pattern, e.lines, i)

\* Every hit of PRESENCE is reported, by itself or by a line of the same
\* fingerprint at most the window before it.
NoEventHidden ==
    \A e \in ToSet(entries) :
        (stage = "matched" /\ e.pattern.type = "PRESENCE")
        => \A l \in ToSet(Hits(e.pattern.regex, e.lines)) :
             \E k \in ToSet(results[e.pattern.name].evidence) :
                /\ FingerprintOf(k) = FingerprintOf(l)
                /\ \/ k = l
                   \/ e.pattern.dedup # NoTime /\ Stamp(l) - Stamp(k) <= e.pattern.dedup

\* A composite pattern says of its simple components what it should, when
\* all of them had lines to be looked for in; an AND of nothing is not met.
CompositeIsMeant ==
    \A e \in ToSet(entries) :
        LET p == e.pattern
            In(c) == \E f \in ToSet(entries) : f.pattern.name = c /\ Simple(f.pattern)
            Holds(c) == Means(EntryOf(c).pattern, EntryOf(c).lines)
        IN  (stage = "matched" /\ p.type = "COMPOSITE" /\ p.components # <<>>
                /\ \A c \in ToSet(p.components) : In(c))
            => (results[p.name].matched <=>
                CASE p.operator = "AND" -> \A c \in ToSet(p.components) : Holds(c)
                  [] p.operator = "OR"  -> \E c \in ToSet(p.components) : Holds(c)
                  [] p.operator = "NOT" -> ~Holds(p.components[1])
                  [] OTHER -> FALSE)

\* config/patterns/default_patterns.yaml says of a WINDOW pattern: so many
\* errors or more within so many seconds.  Then a log with that many is
\* matched, however fast they came.
ManyInTheLog(p) ==
    \E f \in DOMAIN request : InWindow(p, request[f])

FastErrorsAreSeen ==
    \A e \in ToSet(entries) :
        (stage = "matched" /\ e.pattern.type = "WINDOW" /\ ~e.pattern.unique
            /\ ManyInTheLog(e.pattern))
        => results[e.pattern.name].matched
=============================================================================
