---------------------------- MODULE MCRunExecutor ----------------------------
(* RunExecutor on three runs and two sessions: one run can create a session  *)
(* that the others, or a person, prompt as well.                             *)
EXTENDS RunExecutor
=============================================================================
