---------------------------- MODULE MCAnalyzePage ----------------------------
(***************************************************************************)
(* AnalyzePage for TLC: the configurations give names to the defects and   *)
(* the jobs.                                                               *)
(***************************************************************************)
EXTENDS AnalyzePage

==============================================================================
