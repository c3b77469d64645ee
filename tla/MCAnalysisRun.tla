--------------------------- MODULE MCAnalysisRun ---------------------------
(***************************************************************************)
(* Small instance of AnalysisRun: three cases, three simple patterns, two  *)
(* composites and two profiles.  Case 3 has a pattern that its own         *)
(* keywords hide, and a composite without its components; in a case c may  *)
(* be found that its own keywords hide; c and d may belong to no case.     *)
(***************************************************************************)
EXTENDS AnalysisRun, TLC

MCCaseIds  == {1, 2, 3}
MCPatterns == {"a", "b", "c", "d", "e"}
MCProfiles == {"net", "disk"}
MCThresholds == "llm" :> 50 @@ "endpoint" :> 30
MCWeight == "a" :> 2 @@ "b" :> 1 @@ "c" :> 1 @@ "d" :> 1 @@ "e" :> 1
MCComposites ==
    <<[name |-> "d", operator |-> "OR", of |-> <<"b", "c">>],
      [name |-> "e", operator |-> "NOT", of |-> <<"d">>]>>

Case(patterns, refs) == [patterns |-> patterns, refs |-> refs]

MCKBs ==
    {1 :> Case({"a", "b"}, {"net"}) @@ 2 :> Case({"b"}, {"net", "disk"}) @@ 3 :> Case({"b", "d"}, {}),
     1 :> Case({"a", "b"}, {"disk"}) @@ 2 :> Case({"b", "c", "e"}, {})}

Near(d1, d2, d3, a1, a2, a3) ==
    [description |-> 1 :> d1 @@ 2 :> d2 @@ 3 :> d3, analysis |-> 1 :> a1 @@ 2 :> a2 @@ 3 :> a3]

MCNears == {Near(20, 30, 40, NotNear, 10, NotNear), Near(70, 80, NotNear, NotNear, NotNear, NotNear)}

\* What is found in the logs, and what case 3 and case 2 find of it.
In(hits) == 0 :> hits @@ 1 :> hits @@ 2 :> hits \union {"c"} @@ 3 :> hits \ {"b"}

MCFounds ==
    {[v \in Views |-> [c \in CaseIds \union {NoCase} |-> {}]],
     [v \in Views |-> In({"b"})], [v \in Views |-> In({"c"})],
     [v \in Views |-> In(IF v = "net" THEN {"a"} ELSE {"a", "b", "c"})],
     [v \in Views |-> In(IF v = "all" THEN {"b"} ELSE {"a", "c"})]}

MCRequests ==
    {[pinned |-> NoCase, profile |-> NoProfile], [pinned |-> NoCase, profile |-> "net"],
     [pinned |-> 1, profile |-> NoProfile], [pinned |-> 3, profile |-> "disk"]}

S(i, x) == [index |-> i, score |-> x]
MCAnswers ==
    {[by |-> "llm", scores |-> s] :
        s \in {<<>>, <<S(1, 90), S(2, 60)>>, <<S(1, 60), S(1, 90), S(2, 90)>>, <<S(2, 50), S(4, 90)>>}}
    \union {[by |-> "endpoint", scores |-> <<S(1, 40), S(2, 20), S(3, 30)>>]}

ASSUME NothingRoundedAway == NeverRoundedAway
=============================================================================
