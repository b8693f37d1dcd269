-------------------------- MODULE MC_TaskWorkflow --------------------------
(***************************************************************************)
(* Instances of TaskWorkflow for TLC.  The developers of a task are        *)
(* interchangeable in every invariant, so runs without liveness use their  *)
(* permutations as symmetry.                                               *)
(***************************************************************************)
EXTENDS TaskViews, TLC

DeveloperSymmetry == Permutations(Developers)

TaskSymmetry == Permutations(Tasks)

=============================================================================
