----------------------------- MODULE StageOrder -----------------------------
(***************************************************************************)
(* The stages of an analysis, in the order in which the pipeline announces *)
(* them: what the job server (JobServer) relies on for its percentages and *)
(* its cancellation, and what the pipeline (AnalysisRun) implements.       *)
(***************************************************************************)
EXTENDS Integers

CONSTANT StageCount   \* 6 stages, or 7 when the reflection stage is enabled

ASSUME StageAssumption == StageCount \in {6, 7}

Steps == 0 .. StageCount

(* The stages announced after step k, in the order of Pipeline.run: 1, 2,  *)
(* stage 2 once per expert, stage 3/4, the fallback when it triggers, the  *)
(* report, and the reflection when it is enabled.                          *)
NextSteps(k) ==
    (CASE k = 0 -> {1}  [] k = 1 -> {2}  [] k = 2 -> {3}  [] k = 3 -> {3, 4}
       [] k = 4 -> {5, 6}  [] k = 5 -> {6}  [] k = 6 -> {7}  [] OTHER -> {})
    \cap Steps
=============================================================================
