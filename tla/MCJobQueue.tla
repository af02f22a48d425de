----------------------------- MODULE MCJobQueue -----------------------------
(* Instances of JobQueue for TLC. *)
EXTENDS JobQueue, TLC

\* Workers and rows are interchangeable: nothing in JobQueue orders them.
Symmetry == Permutations(Workers) \cup Permutations(JobIds)
=============================================================================
