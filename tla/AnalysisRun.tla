----------------------------- MODULE AnalysisRun -----------------------------
(***************************************************************************)
(* One run of the analysis pipeline (Pipeline.run of core/pipeline.py)     *)
(* while others edit the knowledge base and the settings.  A step is the   *)
(* code between two calls that take long: the search, the reranker, the    *)
(* lookup of the owners of a pattern, the report.  What a simple pattern   *)
(* finds in a log is an input: found[v][c] are those found in view v of    *)
(* the logs, "all" or what the keywords of a profile leave of them, in the *)
(* lines that the keywords of case c leave, or of the pattern itself       *)
(* (NoCase); PatternMatcher and LogRefiner say how that is computed.       *)
(***************************************************************************)
EXTENDS CaseSearch, StageOrder

CONSTANTS
    Weight,       \* of each pattern
    Definite,     \* definite_threshold, in units of the score
    Floor,        \* moe_relevance_floor, as the distance that is still near
    WindowSize,   \* moe_window_size, experts of the router
    ExpertLogs,   \* moe_per_expert_stage1
    ChipFilter,   \* chip_match_mode is "filter"
    Composites,   \* the composite patterns in the order of their ids
    Talked,       \* patterns whose keywords are in the logs anyway
    EmptyViews,   \* profiles whose keywords leave no line
    KBs, Nears, Founds, Requests, Answers,   \* inputs
    MaxChanges    \* bound: changes by others during the run

VARIABLES
    kb, mode, changes,            \* the database, moe_traversal_mode
    asked, found, near,           \* the request and what it will find
    pc, announced,                \* where the run stands; the last stage announced
    perExpert, runMode, view,     \* read at the start, in Stage 2; of l_normalized
    candidates, active, turn,     \* of the vector search; the experts and whose turn it is
    cases, pool,                  \* matched cases; candidates of the ensemble
    main, minority, unclassified, names,   \* the result so far
    global, owners, orphans, retry,        \* of a match with all patterns
    verdict, references, saved

input   == <<asked, found, near>>
control == <<perExpert, runMode, view>>
search  == <<candidates, active, turn, cases, pool>>
outcome == <<main, minority, unclassified, names>>
rescore == <<global, owners, orphans, retry>>
ending  == <<verdict, references, saved>>
base    == <<kb, mode, changes>>
vars    == <<base, input, pc, announced, control, search, outcome, rescore, ending>>

Modes == {"single", "ensemble", "first_hit"}
NoProfile == "none"
Everyone  == "all"     \* the global expert, and the logs without a profile
NoScore == -1

Views == Profiles \union {Everyone}

\* The share of the weight that was found, rounded to four places.
Unit == 10000
Share(part, whole) == (2 * Unit * part + whole) \div (2 * whole)

Simple == Patterns \ {Composites[n].name : n \in DOMAIN Composites}

ASSUME RunAssumption ==
    /\ Weight \in [Patterns -> Nat \ {0}]
    /\ Definite \in 1..Unit
    /\ Composites \in Seq([name : Patterns, operator : STRING, of : Seq(Patterns)])
    /\ Talked \subseteq Patterns
    /\ EmptyViews \subseteq Profiles /\ NoProfile \notin Profiles /\ Everyone \notin Profiles
    /\ Floor \in Nat /\ WindowSize \in Nat /\ MaxChanges \in Nat
ASSUME InputAssumption ==
    /\ \A k \in KBs : \E S \in SUBSET CaseIds :
          k \in [S -> [patterns : SUBSET Patterns, refs : SUBSET Profiles]]
    /\ Nears \subseteq Nearness
    /\ Founds \subseteq [Views -> [CaseIds \union {NoCase} -> SUBSET Simple]]
    /\ Requests \subseteq [pinned : CaseIds \union {NoCase}, profile : Profiles \union {NoProfile}]
    /\ \A a \in Answers : a.scores \in Seq([index : Int, score : 0..100])

Selected == IF asked.profile = NoProfile THEN {} ELSE {asked.profile}

----------------------------------------------------------------------------
(* Results of the pattern matcher.                                         *)

\* The sum of their weights.
WeightOf(ps) == Cardinality(UNION {{p} \X (1..Weight[p]) : p \in ps})

Result(matched, all) ==
    [matched |-> matched, all |-> all,
     score |-> IF all = {} THEN 0 ELSE Share(WeightOf(matched), WeightOf(all))]

NoResult == Result({}, {})

\* A composite over the patterns that are known so far, and those that matched.
Composed(composite, known, matched) ==
    \/ /\ composite.operator = "AND" /\ composite.of # <<>>
       /\ ToSet(composite.of) \subseteq matched
    \/ composite.operator = "OR" /\ ToSet(composite.of) \cap matched # {}
    \/ /\ composite.operator = "NOT" /\ composite.of # <<>>
       /\ composite.of[1] \in known \ matched

\* Those of some patterns that match when so many simple ones are found: the
\* composites come last and see only what is among these patterns.
Matched(entries, hits) ==
    LET Earlier(n) == {Composites[m].name : m \in 1..(n - 1)}
        matched[n \in 0..Len(Composites)] ==
            IF n = 0 THEN Simple \cap hits \cap entries
            ELSE matched[n - 1] \union
                 {p \in entries \cap {Composites[n].name} :
                    Composed(Composites[n], entries \cap (Simple \union Earlier(n)), matched[n - 1])}
    IN  entries \cap matched[Len(Composites)]

(* Stage 3 and 4 with the patterns of a case, on the lines of its keywords. *)
CaseResult(c, v) == Result(Matched(c.patterns, found[v][c.id]), c.patterns)

(* The same with every pattern that has lines of its own keywords.         *)
GlobalResult(v) ==
    LET entries == found[v][NoCase] \union Talked
    IN  Result(Matched(entries, found[v][NoCase]), entries)

NoExpert == [name |-> Everyone, score |-> NoScore]

Found(c, v, expert) ==
    [id |-> c.id, relevance |-> c.relevance, patterns |-> c.patterns, refs |-> c.refs,
     result |-> CaseResult(c, v), view |-> v,
     experts |-> {expert.name} \ {Everyone}, router |-> expert.score]

Nothing(result, v) ==
    [id |-> NoCase, relevance |-> 0, patterns |-> {}, refs |-> {},
     result |-> result, view |-> v, experts |-> {}, router |-> NoScore]

Report(c) == [id |-> c.id, result |-> c.result]

Others(ranked) ==
    {Report(ranked[i]) : i \in {k \in 2..Len(ranked) : ranked[k].result.score > 0}}

----------------------------------------------------------------------------
Init ==
    /\ kb \in KBs /\ mode \in Modes /\ changes = 0
    /\ asked \in Requests /\ found \in Founds /\ near \in Nears
    /\ pc = "asked" /\ announced = 0
    /\ perExpert = FALSE /\ runMode = "single" /\ view = Everyone
    /\ candidates = <<>> /\ active = <<>> /\ turn = 0 /\ cases = <<>> /\ pool = <<>>
    /\ main = Nothing(NoResult, Everyone) /\ minority = {} /\ unclassified = {} /\ names = {}
    /\ global = NoResult /\ owners = {} /\ orphans = {} /\ retry = FALSE
    /\ verdict = "none" /\ references = {} /\ saved = FALSE

(* Others.                                                                 *)
Change ==
    /\ changes < MaxChanges /\ changes' = changes + 1
    /\ pc \notin {"ended", "failed", "cancelled"}

DeleteCase(c) ==
    /\ Change
    /\ kb' = [d \in DOMAIN kb \ {c} |-> kb[d]]
    /\ UNCHANGED <<mode, input, pc, announced, control, search, outcome, rescore, ending>>

Unlink(c, p) ==
    /\ Change
    /\ p \in kb[c].patterns
    /\ kb' = [kb EXCEPT ![c].patterns = @ \ {p}]
    /\ UNCHANGED <<mode, input, pc, announced, control, search, outcome, rescore, ending>>

SetMode(m) ==
    /\ Change
    /\ m # mode
    /\ mode' = m
    /\ UNCHANGED <<kb, input, pc, announced, control, search, outcome, rescore, ending>>

----------------------------------------------------------------------------
(* Stage 1 and the master rules.                                           *)

SinglePath(m) == asked.pinned # NoCase \/ m = "single"

Single == SinglePath(runMode)

RunStage1 ==
    /\ pc = "asked" /\ pc' = "refined" /\ announced' = 1
    /\ perExpert' = (~SinglePath(mode) /\ ExpertLogs)
    /\ view' = IF perExpert' \/ asked.profile = NoProfile THEN Everyone ELSE asked.profile
    /\ UNCHANGED <<base, input, runMode, search, outcome, rescore, ending>>

RunMasterRule ==
    /\ pc = "refined" /\ pc' = "normalized" /\ announced' = 2
    /\ UNCHANGED <<base, input, control, search, outcome, rescore, ending>>

(* The router: profiles of the cases that are near, with the similarity of *)
(* the nearest, and profiles of the cases whose patterns have lines.       *)
Situation == {c \in ToSet(VectorSearch(kb, near, CaseIds)) : c.distance <= Floor}
Cause == {c \in DOMAIN kb : kb[c].patterns \cap GlobalResult(view).all # {}}

Similarity(p) ==
    LET like == {c.distance : c \in {s \in Situation : p \in kb[s.id].refs}}
    IN  IF like = {} THEN NoScore ELSE 100 - Min(like)

RoutedProfiles ==
    LET all == {c.id : c \in Situation} \union Cause
    IN  UNION {kb[c].refs : c \in all} \ Selected

\* A profile of both axes goes first, then the more similar; ties in any order.
NotAfter(p, q) ==
    LET Both(r) == Similarity(r) # NoScore /\ \E c \in Cause : r \in kb[c].refs
    IN  \/ Both(p) /\ ~Both(q)
        \/ Both(p) = Both(q) /\ Similarity(p) >= Similarity(q)

Rankings ==
    {s \in SetToSeqs(RoutedProfiles) :
        \A i, j \in DOMAIN s : i < j => NotAfter(s[i], s[j])}

Experts(ranking) ==
    LET Named(p, score) == [name |-> p, score |-> score]
        unowned == \E c \in {s.id : s \in Situation} \union Cause : kb[c].refs = {}
        window  == FirstOf(ranking, WindowSize)
    IN  (IF asked.profile = NoProfile THEN <<>> ELSE <<Named(asked.profile, NoScore)>>)
            \o [i \in DOMAIN window |-> Named(window[i], Similarity(window[i]))]
            \o IF unowned THEN <<NoExpert>> ELSE <<>>

ChoosePath ==
    /\ pc = "normalized"
    /\ runMode' = mode
    /\ pc' = IF SinglePath(mode) THEN "stage2" ELSE "experts"
    /\ turn' = 1
    /\ IF pc' = "experts"
       THEN \E ranking \in Rankings : active' = Experts(ranking)
       ELSE UNCHANGED active
    /\ UNCHANGED <<base, input, announced, perExpert, view, candidates, cases, pool,
                   outcome, rescore, ending>>

(* Stage 2 of the single path: a pinned case that exists is not searched.  *)
LoadPinned ==
    /\ pc = "stage2" /\ asked.pinned \in DOMAIN kb
    /\ pc' = "selecting" /\ announced' = 3
    /\ cases' = <<LoadCase(kb, asked.pinned, 100)>>
    /\ names' = Selected \union kb[asked.pinned].refs
    /\ UNCHANGED <<base, input, control, candidates, active, turn, pool,
                   main, minority, unclassified, rescore, ending>>

StartSearch ==
    /\ pc = "stage2" /\ asked.pinned \notin DOMAIN kb
    /\ pc' = "scoring" /\ announced' = 3
    /\ candidates' = Candidates(kb, near, Selected, ChipFilter)
    /\ UNCHANGED <<base, input, control, active, turn, cases, pool, outcome, rescore, ending>>

Expert == IF active = <<>> THEN NoExpert ELSE active[turn]

\* Mutant of ExpertStage: refining the logs for an expert announces itself.
ExpertStageRefining == IF perExpert THEN 2 ELSE 3

ExpertStage == 3

StartExpert ==
    /\ pc = "experts"
    /\ pc' = "scoring" /\ announced' = ExpertStage
    /\ candidates' = Candidates(kb, near, {Expert.name} \ {Everyone}, ChipFilter)
    /\ UNCHANGED <<base, input, control, active, turn, cases, pool, outcome, rescore, ending>>

\* The view in which a candidate of an expert is matched; without a line of
\* its own it is that of the others.
ExpertView(name) ==
    IF perExpert /\ name # Everyone /\ name \notin EmptyViews THEN name ELSE view

Scored(matched) ==
    IF Single
    THEN /\ cases' = matched
         /\ names' = Selected \union (IF matched = <<>> THEN {} ELSE matched[1].refs)
         /\ pc' = "selecting"
         /\ UNCHANGED <<pool, turn>>
    ELSE /\ pool' = pool \o [i \in DOMAIN matched |->
                [case |-> matched[i], expert |-> Expert]]
         /\ IF turn >= Len(active) \/ (runMode = "first_hit" /\ matched # <<>>)
            THEN pc' = "selecting" /\ UNCHANGED turn
            ELSE pc' = "experts" /\ turn' = turn + 1
         /\ UNCHANGED <<cases, names>>

ScoreCandidates(answer) ==
    /\ pc = "scoring"
    /\ answer.by \in DOMAIN Thresholds
    /\ Scored(IF candidates = <<>> THEN <<>>
              ELSE Rerank(kb, candidates, answer.scores, Thresholds[answer.by]))
    /\ UNCHANGED <<base, input, announced, control, candidates, active,
                   main, minority, unclassified, rescore, ending>>

\* The reranker and its fallback fail: the run raises.
RerankerFails ==
    /\ pc = "scoring" /\ candidates # <<>>
    /\ pc' = "failed"
    /\ UNCHANGED <<base, input, announced, control, search, outcome, rescore, ending>>

----------------------------------------------------------------------------
(* Stage 3 and 4.                                                          *)

\* Mutant of RankCases: the order of the reranker is kept.
RankCasesByRelevance(cs) ==
    Sorted([i \in DOMAIN cs |-> Found(cs[i], view, NoExpert)],
           LAMBDA a, b : a.relevance > b.relevance)

RankCases(cs) ==
    Sorted([i \in DOMAIN cs |-> Found(cs[i], view, NoExpert)],
           LAMBDA a, b : a.result.score > b.result.score)

Choose(ranked, experts) ==
    /\ main' = ranked[1]
    /\ minority' = Others(ranked)
    /\ names' = experts
    /\ pc' = "matched"
    /\ UNCHANGED <<unclassified, rescore>>

(* No case: every pattern is tried, and what it found looked up by owner.  *)
TryAllPatterns(experts) ==
    /\ global' = GlobalResult(view)
    /\ main' = Nothing(global', view)
    /\ names' = experts
    /\ pc' = IF global'.matched = {} THEN "matched" ELSE "owning"
    /\ UNCHANGED <<minority, unclassified, owners, orphans, retry>>

SelectCase ==
    /\ pc = "selecting" /\ Single
    /\ announced' = 4
    /\ IF cases = <<>> THEN TryAllPatterns(names)
                        ELSE \E ranked \in {RankCases(cases)} : Choose(ranked, names)
    /\ UNCHANGED <<base, input, control, search, ending>>

\* Mutant of Deduplicated: a case stays as often as it was found.
AllFinds(finds) == finds

(* One candidate per case, the better of those found, with the names of    *)
(* all the experts that found it.                                          *)
Deduplicated(finds) ==
    LET Same(i)  == {j \in DOMAIN finds : finds[j].id = finds[i].id}
        firsts   == {i \in DOMAIN finds : \A j \in Same(i) : i <= j}
        Above(a, b) == \/ a.result.score > b.result.score
                       \/ a.result.score = b.result.score /\ a.relevance > b.relevance
        Best(i)  == finds[Ranked(Same(i), finds, Above)[1]]
        OfAll(i) == [Best(i) EXCEPT !.experts = UNION {finds[j].experts : j \in Same(i)}]
    IN  Kept([i \in DOMAIN finds |-> OfAll(i)], firsts)

RankPool ==
    LET Find(c) == Found(c.case, ExpertView(c.expert.name), c.expert)
    IN  Sorted(Deduplicated([i \in DOMAIN pool |-> Find(pool[i])]), LAMBDA a, b :
            \/ a.result.score > b.result.score
            \/ /\ a.result.score = b.result.score
               /\ \/ a.relevance > b.relevance
                  \/ a.relevance = b.relevance /\ a.router > b.router)

SelectFromPool ==
    /\ pc = "selecting" /\ ~Single
    /\ announced' = 4
    /\ IF pool = <<>> THEN TryAllPatterns({})
                       ELSE \E ranked \in {RankPool} : Choose(ranked, ranked[1].experts)
    /\ UNCHANGED <<base, input, control, search, ending>>

----------------------------------------------------------------------------
(* The fallback: a case whose patterns are too weak is tried again with    *)
(* every pattern.                                                          *)

FallsBack == main.id # NoCase /\ main.result.score < Definite

RunFallback ==
    /\ pc = "matched"
    /\ IF FallsBack
       THEN /\ announced' = 5
            /\ global' = GlobalResult(main.view)
            /\ retry' = TRUE
            /\ pc' = IF global'.matched = {} THEN "judging" ELSE "owning"
       ELSE /\ pc' = "judging"
            /\ UNCHANGED <<announced, global, retry>>
    /\ UNCHANGED <<base, input, control, search, outcome, owners, orphans, ending>>

(* Which cases the patterns that were found belong to.                     *)
FindOwners ==
    /\ pc = "owning" /\ pc' = "rescoring"
    /\ owners' = {c \in DOMAIN kb : kb[c].patterns \cap global.matched # {}}
    /\ orphans' = {p \in global.matched : \A c \in DOMAIN kb : p \notin kb[c].patterns}
    /\ UNCHANGED <<base, input, announced, control, search, outcome, global, retry,
                   ending>>

\* What _rescore_global_matches may return: the owners are a Python set, so
\* that of equal ones any may come first.
Rescored(v) ==
    LET Again(c) == Found(LoadCase(kb, c, 100), v, NoExpert)
        again  == {r \in {Again(c) : c \in owners \cap DOMAIN kb} : r.result.matched # {}}
        alone  == {[Nothing(Result({p}, {p}), v) EXCEPT !.patterns = {p}] : p \in orphans}
        Outcome(result, cs, ps) ==
            [result |-> result, minority |-> {Report(c) : c \in cs}, unclassified |-> ps]
        Beats(a, b) == \/ a.result.score > b.result.score
                       \/ a.result.score = b.result.score /\ (a.id # NoCase \/ b.id = NoCase)
        all == again \union alone
    IN  IF all = {} THEN {Outcome(global, {}, {})}
        ELSE IF again = {} /\ Cardinality(alone) > 1
        THEN {Outcome(Result(orphans, orphans), {}, orphans)}
        ELSE {Outcome(w.result, again \ {w}, orphans \ (IF w.id = NoCase THEN w.patterns ELSE {})) :
                w \in {x \in all : \A y \in all : Beats(x, y)}}

Better(o) == retry => o.result.score > main.result.score

\* Mutant of Adopted: the case is kept.
AdoptedForCase(o) == [main EXCEPT !.result = o.result]

(* What is adopted is of no case: its evidence may be of another.          *)
Adopted(o) == Nothing(o.result, main.view)

\* Mutant of Unowned: what no case owns is left out.
UnownedNone(o) == {}

Unowned(o) == o.unclassified

RescoreMatches(o) ==
    /\ pc = "rescoring" /\ o \in Rescored(main.view)
    /\ pc' = "judging"
    /\ IF Better(o)
       THEN /\ main' = Adopted(o)
            /\ minority' = minority \union o.minority
            /\ unclassified' = unclassified \union Unowned(o)
       ELSE UNCHANGED <<main, minority, unclassified>>
    /\ UNCHANGED <<base, input, announced, control, search, names, global, owners, orphans,
                   retry, ending>>

----------------------------------------------------------------------------
(* The verdict, and what depends on it.                                    *)

Verdict(result) ==
    IF result.matched = {} THEN "no similar problem"
    ELSE IF result.score >= Definite THEN "similar problem" ELSE "uncertain"

\* Mutant of Blank: the case is shown whatever was found.
BlankNever(v) == FALSE

\* Without any evidence no case and no profile is shown.
Blank(v) == v = "no similar problem"

Judge ==
    /\ pc = "judging"
    /\ verdict' = Verdict(main.result)
    /\ pc' = IF verdict' = "similar problem" THEN "reporting" ELSE "ended"
    /\ IF Blank(verdict')
       THEN main' = Nothing(main.result, main.view) /\ names' = {}
       ELSE UNCHANGED <<main, names>>
    /\ UNCHANGED <<base, input, announced, control, search, minority, unclassified, rescore,
                   references, saved>>

(* Stage 5; the LLM may fail, and the user may cancel.                     *)
WriteReport ==
    /\ pc = "reporting" /\ announced' = 6
    /\ \/ pc' = IF StageCount = 7 THEN "reflecting" ELSE "finishing"
       \/ pc' \in {"failed", "cancelled"}
    /\ UNCHANGED <<base, input, control, search, outcome, rescore, ending>>

(* Stage 6; its failure leaves the report of Stage 5, a cancel does not.   *)
Reflect ==
    /\ pc = "reflecting" /\ announced' = 7
    /\ pc' \in {"finishing", "cancelled"}
    /\ UNCHANGED <<base, input, control, search, outcome, rescore, ending>>

(* Cases to look at when none was found, and the history, which may fail.  *)
Finish ==
    /\ pc = "finishing" /\ pc' = "ended"
    /\ references' = IF main.id # NoCase THEN {}
                     ELSE {c \in DOMAIN kb : kb[c].patterns \cap main.result.matched # {}}
    /\ saved' \in BOOLEAN
    /\ UNCHANGED <<base, input, announced, control, search, outcome, rescore, verdict>>

(* The callback of the job server raises at a stage that announces itself. *)
Cancel ==
    /\ pc \in {"asked", "refined", "stage2", "experts", "selecting", "reporting", "reflecting"}
            \union (IF FallsBack THEN {"matched"} ELSE {})
    /\ pc' = "cancelled"
    /\ UNCHANGED <<base, input, announced, control, search, outcome, rescore, ending>>

Run ==
    \/ RunStage1 \/ RunMasterRule \/ ChoosePath
    \/ LoadPinned \/ StartSearch \/ StartExpert
    \/ \E answer \in Answers : ScoreCandidates(answer)
    \/ RerankerFails
    \/ SelectCase \/ SelectFromPool
    \/ RunFallback \/ FindOwners
    \/ \E o \in Rescored(main.view) : RescoreMatches(o)
    \/ Judge \/ WriteReport \/ Reflect \/ Finish \/ Cancel

ByOthers ==
    \/ \E c \in DOMAIN kb : DeleteCase(c)
    \/ \E c \in DOMAIN kb : \E p \in Patterns : Unlink(c, p)
    \/ \E m \in Modes : SetMode(m)

Next == Run \/ ByOthers

Spec == Init /\ [][Next]_vars

----------------------------------------------------------------------------
(* Properties.                                                             *)

Results == [matched : SUBSET Patterns, all : SUBSET Patterns, score : 0..Unit]
Finds   == [id : CaseIds \union {NoCase}, relevance : 0..100, patterns : SUBSET Patterns,
            refs : SUBSET Profiles, result : Results, view : Views,
            experts : SUBSET Profiles, router : Int]
Reports == [id : CaseIds \union {NoCase}, result : Results]
Named   == [name : Views, score : Int]
Verdicts == {"none", "no similar problem", "similar problem", "uncertain"}

\* The types of the variables, by the groups they are listed in.
InputTypes ==
    /\ kb \in KnowledgeBase /\ mode \in Modes /\ changes \in 0..MaxChanges
    /\ asked \in Requests /\ found \in Founds /\ near \in Nears

SearchTypes ==
    /\ announced \in Steps /\ perExpert \in BOOLEAN /\ runMode \in Modes /\ view \in Views
    /\ candidates \in Seq(Hit) /\ active \in Seq(Named) /\ turn \in Nat
    /\ cases \in Seq(MatchedCase) /\ pool \in Seq([case : MatchedCase, expert : Named])
    /\ pc \in {"experts", "scoring"} /\ active # <<>> => turn \in 1..Len(active)

OutcomeTypes ==
    /\ main \in Finds /\ minority \subseteq Reports
    /\ unclassified \subseteq Patterns /\ names \subseteq Profiles
    /\ global \in Results /\ owners \subseteq CaseIds /\ orphans \subseteq Patterns
    /\ retry \in BOOLEAN /\ verdict \in Verdicts /\ references \subseteq CaseIds
    /\ saved \in BOOLEAN

TypeOK == InputTypes /\ SearchTypes /\ OutcomeTypes

Concluded == pc = "ended"

\* A result that names a case rests on evidence of the patterns of that
\* case, as they were loaded, and of no other.
CaseHasOwnEvidence ==
    (Concluded /\ main.id # NoCase) =>
        /\ main.result.all = main.patterns
        /\ main.result.matched \subseteq main.patterns
        /\ main.result.matched # {}

\* Without evidence nothing is claimed: no case, no profile, no other case
\* and no pattern.
NothingWithoutEvidence ==
    (Concluded /\ main.result.matched = {}) =>
        /\ verdict = "no similar problem" /\ main.id = NoCase
        /\ minority = {} /\ unclassified = {} /\ names = {} /\ ~saved

\* No other case that is shown has a better score than the result.
MainIsBest ==
    Concluded => \A m \in minority : m.result.score <= main.result.score

\* The matcher rounds a score to four places: a pattern never counts so little
\* that a result with it alone is rounded to 0.
NeverRoundedAway == \A p \in Patterns : 2 * Unit * Weight[p] >= WeightOf(Patterns)

\* A pattern that has owners, none of which finds it by itself: their keywords
\* hide its lines, or it is a composite and they have not its components.
OwnersMiss(p) ==
    /\ \E c \in DOMAIN kb : p \in kb[c].patterns
    /\ \A c \in DOMAIN kb : p \notin CaseResult(LoadCase(kb, c, 100), main.view).matched

\* Nothing that was found among all patterns is lost, while nobody changes the
\* knowledge base: it is part of the result, of another case or unclassified.
\* What the code does lose is what none of its owners finds (_rescore_global_matches).
NothingFoundIsLost ==
    (Concluded /\ changes = 0 /\ global.matched # {} /\ main.id = NoCase) =>
        \A p \in global.matched :
            \/ p \in main.result.matched \union unclassified
            \/ \E m \in minority : p \in m.result.matched
            \/ OwnersMiss(p)

\* In an ensemble no case is shown twice.
EnsembleShowsOnce ==
    (Concluded /\ ~Single /\ main.id # NoCase) =>
        \A m, n \in minority : m.id # main.id /\ (m.id = n.id => m = n)

\* core/pipeline.py says of the two lists of other cases, of Stage 2 and of
\* the fallback, that only one of them is ever filled.
OneListOfOthers == [][minority # {} => minority' \in {minority, {}}]_vars

\* The stages are announced in the order the job server relies on.
Stages == INSTANCE StageProgress WITH StageCount <- StageCount, announced <- announced
ImplementsStages == Stages!Spec
=============================================================================
