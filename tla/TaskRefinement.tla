---------------------------- MODULE TaskRefinement ----------------------------
(***************************************************************************)
(* AgentTasks implements TaskContract: the public status is the projection *)
(* the API computes from the durable row.                                  *)
(***************************************************************************)
EXTENDS TaskProperties

(* project_task_status; result_is_current is the flag of the task's run.   *)
ProjectTaskStatus(t) ==
    IF Absent(t) THEN "absent"
    ELSE IF Active(t) THEN "preparing"
    ELSE IF task[t].state = "waiting_review"
         THEN IF task[t].result \in current THEN "needs_advisor_review" ELSE "outdated"
    ELSE IF task[t].state = "blocked" THEN "needs_evidence"
    ELSE task[t].state

Contract == INSTANCE TaskContract WITH
                status <- [t \in Tasks |-> ProjectTaskStatus(t)],
                tries <- [t \in Tasks |-> task[t].gen],
                result <- [t \in Tasks |-> task[t].result]

(* Every behaviour of the tables, the queue and the workers is, seen       *)
(* through the public statuses, one the contract allows, progress included.*)
ImplementsContract == Contract!Spec

(* Its steps alone, for the larger instance: tasks are accepted one at a   *)
(* time, attempts are bounded, a status settles once and runs are numbered *)
(* in the order of the tasks that left them, retries and revisions included.*)
ContractSteps == Contract!Init /\ [][UNCHANGED Contract!vars \/ Contract!Next]_vars
=============================================================================
