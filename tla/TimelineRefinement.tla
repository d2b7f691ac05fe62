-------------------------- MODULE TimelineRefinement --------------------------
(***************************************************************************)
(* TimelineCalls implements PlanProgress: whose turn it is follows from    *)
(* the rows the way read_timeline_execution derives the current action.    *)
(***************************************************************************)
EXTENDS TimelineCalls

CurrentAction ==
    LET state == checkpoints[CHOOSE i \in Open : TRUE].state IN
    CASE execution.state = "none" -> "nobody"
      [] execution.state = "completed" -> "finished"
      [] execution.state = "reassessment_required" -> "stopped"
      [] execution.state = "active" /\ state = "awaiting_advisor" -> "advisor"
      [] execution.state = "active" /\ state = "blocked" -> "blocked"
      [] OTHER -> "family"

Progress == INSTANCE PlanProgress WITH
                passed <- Cardinality({i \in Ordinals : checkpoints[i].state = "verified"}),
                turn <- CurrentAction

(* However commands are delayed, repeated, lost and overtaken, the plan    *)
(* moves as PlanProgress says: one milestone at a time, never without the  *)
(* family's move before the advisor's, and not at all once it has stopped. *)
ImplementsProgress == Progress!Spec
=============================================================================
