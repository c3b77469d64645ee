---------------------------- MODULE MCCaseIndex ----------------------------
(***************************************************************************)
(* Model-checking module of CaseIndex; the configurations MCCaseIndex*.cfg *)
(* give its constants their values.                                        *)
(***************************************************************************)
EXTENDS CaseIndex
==============================================================================
