------------------------------- MODULE MCTasks -------------------------------
(***************************************************************************)
(* AgentTasks and what is read from it, for TLC: interchangeable workers.  *)
(***************************************************************************)
EXTENDS JourneyProjection, TLC

WorkerSymmetry == Permutations(Workers)
=============================================================================
