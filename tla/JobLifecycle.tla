---------------------------- MODULE JobLifecycle ----------------------------
(***************************************************************************)
(* What the job API promises: the life of an analysis job as a client that *)
(* polls GET /analyze/{id} sees it.  A job is pending, then running, ends  *)
(* in exactly one way, and is forgotten only after it has ended.           *)
(***************************************************************************)
CONSTANT Jobs

VARIABLE life

Outcomes == {"done", "error", "cancelled"}
Open     == {"pending", "running"}

Init == life = [j \in Jobs |-> "new"]

Submit(j) ==
    /\ life[j] = "new"
    /\ life' = [life EXCEPT ![j] = "pending"]

Start(j) ==
    /\ life[j] = "pending"
    /\ life' = [life EXCEPT ![j] = "running"]

\* A job that never ran cannot be done.
End(j, outcome) ==
    /\ life[j] \in Open
    /\ outcome = "done" => life[j] = "running"
    /\ life' = [life EXCEPT ![j] = outcome]

\* A restart cancels every open job at once.
CancelAll ==
    life' = [j \in Jobs |-> IF life[j] \in Open THEN "cancelled" ELSE life[j]]

\* The rows of jobs that ended expire, several at a time.
Expire(S) ==
    /\ \A j \in S : life[j] \in Outcomes
    /\ life' = [j \in Jobs |-> IF j \in S THEN "expired" ELSE life[j]]

\* The steps that end a job; their fairness is what a client counts on.
Ends(j) == CancelAll \/ \E outcome \in Outcomes : End(j, outcome)

Next ==
    \/ CancelAll
    \/ \E S \in SUBSET Jobs : Expire(S)
    \/ \E j \in Jobs :
          \/ Submit(j)
          \/ Start(j)
          \/ \E outcome \in Outcomes : End(j, outcome)

Spec == Init /\ [][Next]_life

==============================================================================
