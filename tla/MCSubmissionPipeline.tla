------------------------ MODULE MCSubmissionPipeline ------------------------
(***************************************************************************)
(* Bounds for SubmissionPipeline.  Two tasks reach every race between two  *)
(* submissions and the block loop's resync; two escalating calls of two    *)
(* attempts each make four broadcasts, one more than the failover limit,   *)
(* so both tasks can be failing over at once.                              *)
(***************************************************************************)
EXTENDS SubmissionPipeline, TLC

\* tasks are interchangeable: no constant, guard or property names one
TaskSymmetry == Permutations(Tasks)
=============================================================================
