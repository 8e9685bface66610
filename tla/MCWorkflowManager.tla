-------------------------- MODULE MCWorkflowManager --------------------------
(***************************************************************************)
(* Small instances of WorkflowManager for TLC.                             *)
(***************************************************************************)
EXTENDS WorkflowManager, TLC

\* Threads are interchangeable.
ThreadSymmetry == Permutations(Threads)

=============================================================================
