--------------------------- MODULE StageProgress ---------------------------
(***************************************************************************)
(* What one analysis promises of the stages it announces.                  *)
(***************************************************************************)
EXTENDS StageOrder

VARIABLE announced   \* the last stage announced

Init == announced = 0

Next == announced' \in NextSteps(announced)

Spec == Init /\ [][Next]_announced
=============================================================================
