----------------------------- MODULE CaseSearch -----------------------------
(***************************************************************************)
(* The search of Stage 2 for the cases of the knowledge base that resemble *)
(* a problem: core/kb_search.py.  A knowledge base maps the ids of its     *)
(* cases to their patterns and profiles.  The distances of the two         *)
(* collections of the vector index, and the scores of the reranker, are    *)
(* inputs; these scores and the distances are in hundredths.               *)
(***************************************************************************)
EXTENDS Integers, Sequences, SequencesExt, FiniteSets, FiniteSetsExt

CONSTANTS
    CaseIds,          \* ids, positive integers
    Patterns,         \* names of the patterns
    Profiles,         \* names of the analysis profiles
    OfChip,           \* cases whose chip tags match the chip of the defect
    TopK,             \* candidates of a vector search
    MaxCandidates,    \* cases Stage 2 returns at most
    Thresholds        \* kb_threshold and rerank_threshold, by kind of reranker

ASSUME SearchAssumption ==
    /\ CaseIds \subseteq Nat \ {0} /\ IsFiniteSet(CaseIds)
    /\ IsFiniteSet(Patterns) /\ IsFiniteSet(Profiles)
    /\ TopK \in Nat \ {0} /\ MaxCandidates \in Nat \ {0}
    /\ OfChip \subseteq CaseIds

NoCase  == 0
NotNear == 1000   \* the distance of what is not in a collection

KnowledgeBase ==
    UNION {[S -> [patterns : SUBSET Patterns, refs : SUBSET Profiles]] : S \in SUBSET CaseIds}

\* The distance of every case in the two collections.
Nearness == [description : [CaseIds -> Nat], analysis : [CaseIds -> Nat]]

Hit == [id : CaseIds, distance : Nat]

MatchedCase ==
    [id : CaseIds, relevance : 0..100, patterns : SUBSET Patterns, refs : SUBSET Profiles]

\* The elements of a finite set in a strict order: the n-th has n - 1 before it.
InOrder(S, R) ==
    LET before == [x \in S |-> Cardinality({y \in S : <<y, x>> \in R})]
    IN  [n \in 1..Cardinality(S) |-> CHOOSE x \in S : before[x] = n - 1]

\* Some indices of a sequence, by a strict order on the elements; equal ones as they stand.
Ranked(I, s, Before(_, _)) ==
    InOrder(I, {r \in I \X I : \/ Before(s[r[1]], s[r[2]])
                               \/ ~Before(s[r[2]], s[r[1]]) /\ r[1] < r[2]})

\* A stable sort, and the elements at some indices, as they stand.
Sorted(s, Before(_, _)) ==
    LET order == Ranked(DOMAIN s, s, Before)
    IN  [n \in 1..Len(s) |-> s[order[n]]]

Kept(s, I) ==
    LET order == Ranked(I, s, LAMBDA a, b : FALSE)
    IN  [n \in 1..Cardinality(I) |-> s[order[n]]]

FirstOf(s, n) == SubSeq(s, 1, Min({n, Len(s)}))

\* The cases of a set by distance, those at one distance by id.
ByDistance(S, distance) ==
    InOrder(S, {r \in S \X S : \/ distance[r[1]] < distance[r[2]]
                               \/ distance[r[1]] = distance[r[2]] /\ r[1] < r[2]})

(* Cases of one of the profiles, and those of none; no profile, no limit.  *)
AllowedCases(kb, selected) ==
    IF selected = {} THEN CaseIds
    ELSE {c \in DOMAIN kb : kb[c].refs = {} \/ kb[c].refs \cap selected # {}}

(* The nearest of each collection, together; what the database has lost    *)
(* since is dropped only then.                                             *)
VectorSearch(kb, near, allowed) ==
    LET Nearest(distance) ==
            ToSet(FirstOf(ByDistance({c \in allowed : distance[c] < NotNear}, distance), TopK))
        hits == IF \A c \in CaseIds : near.description[c] = NotNear THEN {}
                ELSE Nearest(near.description) \union Nearest(near.analysis)
        best == [c \in hits |->
                    Min((IF c \in Nearest(near.description) THEN {near.description[c]} ELSE {})
                        \union
                        (IF c \in Nearest(near.analysis) THEN {near.analysis[c]} ELSE {}))]
    IN  FirstOf([n \in 1..Cardinality(hits \cap DOMAIN kb) |->
                    LET c == ByDistance(hits \cap DOMAIN kb, best)[n]
                    IN  [id |-> c, distance |-> best[c]]], TopK)

\* What is linked to a case is read after the reranker has answered: the
\* case may be gone, and then nothing is.
LoadCase(kb, c, relevance) ==
    [id        |-> c,
     relevance |-> relevance,
     patterns  |-> IF c \in DOMAIN kb THEN kb[c].patterns ELSE {},
     refs      |-> IF c \in DOMAIN kb THEN kb[c].refs ELSE {}]

(* _rerank, once a reranker has answered: its scores are pairs of an index *)
(* among the candidates and a score, as many and in what order it likes.   *)
Rerank(kb, candidates, scores, threshold) ==
    LET Passes(s) == s.index \in DOMAIN candidates /\ s.score >= threshold
        OnChip(s) == candidates[s.index].id \in OfChip
        Better(s, t) == \/ OnChip(s) /\ ~OnChip(t)
                        \/ OnChip(s) = OnChip(t) /\ s.score > t.score
        kept   == Kept(scores, {n \in DOMAIN scores : Passes(scores[n])})
        passed == FirstOf(Sorted(kept, Better), MaxCandidates)
    IN  [n \in DOMAIN passed |-> LoadCase(kb, candidates[passed[n].index].id, passed[n].score)]

\* Candidates of a search; chip_match_mode "filter" drops those of other chips.
Candidates(kb, near, selected, chipFilter) ==
    LET hits == VectorSearch(kb, near, AllowedCases(kb, selected))
    IN  Kept(hits, {n \in DOMAIN hits : chipFilter => hits[n].id \in OfChip})
=============================================================================
