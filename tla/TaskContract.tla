----------------------------- MODULE TaskContract -----------------------------
(***************************************************************************)
(* What an advisor is promised about the planning tasks of a Case, in the  *)
(* public statuses of the API: one task at a time is prepared, in a bounded*)
(* number of attempts; it settles once, with at most one planning run; and *)
(* it does settle.  Leases, workers and the queue do not appear.           *)
(***************************************************************************)
EXTENDS Integers, FiniteSets

CONSTANTS Tasks, MaxAttempts

VARIABLES
    status,  \* public status of each task
    tries,   \* attempts begun
    result   \* number of the planning run the task left, 0 without one

vars == <<status, tries, result>>

Init ==
    /\ status = [t \in Tasks |-> "absent"]
    /\ tries = [t \in Tasks |-> 0]
    /\ result = [t \in Tasks |-> 0]

(* A task is accepted only while no other is being prepared.               *)
Accept(t) ==
    /\ status[t] = "absent"
    /\ \A u \in Tasks : status[u] # "preparing"
    /\ status' = [status EXCEPT ![t] = "preparing"]
    /\ UNCHANGED <<tries, result>>

Attempt(t) ==
    /\ status[t] = "preparing"
    /\ tries[t] < MaxAttempts
    /\ tries' = [tries EXCEPT ![t] = @ + 1]
    /\ UNCHANGED <<status, result>>

(* The task leaves the next planning run of the Case.                      *)
SettleWithRun(t) ==
    /\ status[t] = "preparing" /\ tries[t] > 0
    /\ \E s \in {"needs_advisor_review", "needs_evidence", "failed"} :
           status' = [status EXCEPT ![t] = s]
    /\ result' = [result EXCEPT ![t] = Cardinality({u \in Tasks : result[u] # 0}) + 1]
    /\ UNCHANGED tries

SettleWithout(t) ==
    /\ status[t] = "preparing"
    /\ \E s \in {"needs_evidence", "timed_out", "failed", "cancelled"} :
           /\ s # "cancelled" => tries[t] > 0
           /\ status' = [status EXCEPT ![t] = s]
    /\ UNCHANGED <<tries, result>>

(* A reviewed result is replaced by a later revision of the Case.          *)
Outdate(t) ==
    /\ status[t] = "needs_advisor_review"
    /\ status' = [status EXCEPT ![t] = "outdated"]
    /\ UNCHANGED <<tries, result>>

Settle(t) == SettleWithRun(t) \/ SettleWithout(t)

Next == \E t \in Tasks : Accept(t) \/ Attempt(t) \/ Settle(t) \/ Outdate(t)

Spec == Init /\ [][Next]_vars /\ \A t \in Tasks : WF_vars(Settle(t))
=============================================================================
