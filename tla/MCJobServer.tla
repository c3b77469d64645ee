---------------------------- MODULE MCJobServer ----------------------------
(***************************************************************************)
(* Model-checking module of JobServer; the configurations MCJobServer*.cfg *)
(* give its constants their values.                                        *)
(***************************************************************************)
EXTENDS JobServer

============================================================================
