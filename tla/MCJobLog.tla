------------------------------ MODULE MCJobLog ------------------------------
(***************************************************************************)
(* Runners that nothing tells apart, for the run of JobLog.                *)
(***************************************************************************)
EXTENDS JobLog, TLC

Alike == Permutations(Runner)
=============================================================================
