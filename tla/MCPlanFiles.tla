----------------------------- MODULE MCPlanFiles ----------------------------
(***************************************************************************)
(* Instances of the plan files for TLC.                                    *)
(***************************************************************************)
EXTENDS PlanFiles, TLC

(* Nothing orders or names submissions.  For the runs without liveness.    *)
Interchangeable == Permutations(Submissions)
=============================================================================
