------------------------------ MODULE AgentTasks ------------------------------
(***************************************************************************)
(* The durable planning tasks of one Case: the rows and the dispatch queue *)
(* in PostgreSQL, the commands of the advisor, and the worker processes    *)
(* that lease a task, run its adapter and settle it.  A database function  *)
(* is one transaction, hence one action; a worker keeps its claim in       *)
(* memory between its transactions, and everything can happen in between.  *)
(***************************************************************************)
EXTENDS StudentCase

CONSTANTS
    Workers,      \* worker processes
    NoWorker,     \* lease_owner IS NULL
    MaxTasks,     \* bound: tasks ever created for the Case
    MaxAttempts,  \* attempts per task, 3 in the code
    LeaseTicks    \* length of a lease in ticks (60 s; a heartbeat every 15 s)

ASSUME WorkersAssumption == NoWorker \notin Workers
ASSUME TaskBoundsAssumption == /\ MaxTasks \in Nat \ {0}
                               /\ MaxAttempts \in Nat \ {0}
                               /\ LeaseTicks \in Nat \ {0}

VARIABLES
    pin,       \* the columns of agent_tasks no statement changes after creation
    task,      \* the mutable columns of agent_tasks
    dispatch,  \* agent_task_dispatch: ticks until available_at, Gone without a row
    execs,     \* agent_executions: status by task and lease generation
    events,    \* agent_task_events: event codes by task, in sequence order
    worker     \* what each worker process holds in memory

taskVars == <<pin, task, dispatch, execs, events>>
vars == <<caseVars, taskVars, worker>>

-----------------------------------------------------------------------------
Tasks == 1 .. MaxTasks
Generations == 1 .. MaxAttempts
Gone == -1
NoTask == 0

ActiveStates == {"queued", "leased", "running"}
LeasedStates == {"leased", "running"}
LiveStates == ActiveStates \cup {"waiting_review"}
SettledStates == {"waiting_review", "blocked", "timed_out", "failed", "cancelled"}
TaskStates == {"absent"} \cup ActiveStates \cup SettledStates
ExecStates == {"none", "leased", "running", "retry_scheduled", "succeeded",
               "blocked", "failed", "timed_out", "cancelled"}
OpenExecs == {"leased", "running"}
EventCodes == {"queued", "lease_acquired", "lease_reclaimed", "execution_started",
               "retry_scheduled"} \cup SettledStates

(* What an adapter answers: a payload evaluate_planning_run turns into one *)
(* of the run states, or a failure code.                                   *)
RetryableCodes == {"transient_unavailable", "transport_interrupted", "lease_expired"}
AdapterCodes == {"transient_unavailable", "deadline_exceeded",
                 "required_evidence_gap", "pin_mismatch"}
TerminalCodes == {"none", "planning_reason", "cancelled", "lease_expired",
                  "skill_pin_invalid"} \cup AdapterCodes

NoPin == [op |-> "none", rev |-> 0, pack |-> NoPack, pred |-> NoRun, from |-> NoTask]
NoRow == [state |-> "absent", gen |-> 0, owner |-> NoWorker, lease |-> Gone,
          result |-> NoRun, code |-> "none"]
Idle == [pc |-> "idle", task |-> NoTask, gen |-> 0, beating |-> FALSE, out |-> "none"]

Active(t) == task[t].state \in ActiveStates
Leased(t) == task[t].state \in LeasedStates
Live(t) == task[t].state \in LiveStates
Absent(t) == task[t].state = "absent"

Init ==
    /\ CaseInit
    /\ pin = [t \in Tasks |-> NoPin]
    /\ task = [t \in Tasks |-> NoRow]
    /\ dispatch = [t \in Tasks |-> Gone]
    /\ execs = [t \in Tasks |-> [g \in Generations |-> "none"]]
    /\ events = [t \in Tasks |-> << >>]
    /\ worker = [w \in Workers |-> Idle]

-----------------------------------------------------------------------------
(*                        The commands of the advisor                      *)

(* A slip: a live-task check that sees leased tasks only.                  *)
NoWorkingTask == \A t \in Tasks : Leased(t) => pin[t].rev # revision

(* No live task plans the current revision (agent_tasks_active_idx).       *)
NoLiveTask == \A t \in Tasks : Live(t) => pin[t].rev # revision

(* append_agent_task_event, for the codes of one transaction.              *)
Log(t, codes) == events' = [events EXCEPT ![t] = @ \o codes]

(* create_agent_task, ordinary or nested in retry_agent_task: t is the     *)
(* next free row, and the row pins operation, revision, pack and lineage.  *)
InsertTask(t, op, pack, source) ==
    /\ Absent(t) /\ \A u \in 1 .. t - 1 : ~Absent(u)
    /\ op \in Operations
    /\ AdmitsTask(op, pack)
    /\ NoLiveTask
    /\ StartPlanning
    /\ pin' = [pin EXCEPT ![t] = [op |-> op, rev |-> revision, pack |-> pack,
                                  pred |-> lineage[revision], from |-> source]]
    /\ task' = [task EXCEPT ![t].state = "queued"]
    /\ dispatch' = [dispatch EXCEPT ![t] = 0]
    /\ Log(t, <<"queued">>)
    /\ UNCHANGED <<execs, worker>>

CreateTask == \E t \in Tasks, op \in Operations, pack \in 1 .. packs :
                  InsertTask(t, op, pack, NoTask)

(* project_agent_task_retry_eligible: the recoverable terminal outcomes.   *)
RecoverableEnd(t) ==
    \/ task[t].state = "failed" /\ task[t].code \in RetryableCodes
    \/ task[t].state = "timed_out" /\ task[t].code = "deadline_exceeded"

RetryEligible(s) ==
    /\ caseState = "planning"
    /\ pin[s].rev = revision
    /\ task[s].result = NoRun
    /\ RecoverableEnd(s)
    /\ \A t \in Tasks : t > s => pin[t].rev # revision
    /\ \A t \in Tasks : pin[t].from # s
    /\ \A t \in Tasks : pin[t].rev = revision => ~Live(t) /\ task[t].result = NoRun
    /\ \/ pin[s].op = "synthetic" /\ pin[s].pack = BaselinePack
       \/ pin[s].op = "mixed" /\ promoted[revision] = pin[s].pack

(* retry_agent_task: a new task with the pins of the source.               *)
RetryTask(s) ==
    /\ RetryEligible(s)
    /\ \E t \in Tasks : InsertTask(t, pin[s].op, pin[s].pack, s)

(* A slip: the execution row of a settled task stays open.                 *)
LeaveExec(t, status) == UNCHANGED execs

(* The execution of the current generation, if still open, ends as status. *)
CloseExec(t, status) ==
    execs' = [execs EXCEPT ![t] = [g \in Generations |->
                 IF g = task[t].gen /\ @[g] \in OpenExecs THEN status ELSE @[g]]]

(* Every terminal transition: the row gives up its lease and its queue row.*)
SettleRow(t, state, code, run) ==
    /\ task' = [task EXCEPT ![t] = [@ EXCEPT !.state = state, !.owner = NoWorker,
                                    !.lease = Gone, !.code = code, !.result = run]]
    /\ dispatch' = [dispatch EXCEPT ![t] = Gone]

(* A slip: cancel accepts a task that already waits for review.            *)
CancelLive(t) ==
    /\ Live(t)
    /\ CloseExec(t, "cancelled")
    /\ SettleRow(t, "cancelled", "cancelled", task[t].result)
    /\ Log(t, <<"cancelled">>)
    /\ UNCHANGED <<caseVars, pin, worker>>

(* cancel_agent_task.                                                      *)
CancelTask(t) ==
    /\ Active(t)
    /\ CloseExec(t, "cancelled")
    /\ SettleRow(t, "cancelled", "cancelled", task[t].result)
    /\ Log(t, <<"cancelled">>)
    /\ UNCHANGED <<caseVars, pin, worker>>

-----------------------------------------------------------------------------
(*               claim_agent_task: one queue row, three outcomes           *)

Expired(t) == Leased(t) /\ task[t].lease = 0
Claimable(w, t) == worker[w].pc = "idle" /\ dispatch[t] = 0

(* max_attempts is compared with the generation already given out.         *)
AttemptsLeft(t) == task[t].gen < MaxAttempts

(* A slip: a reclaim keeps the generation of the lease it ends.            *)
GenerationOfLease(t) == IF task[t].state = "queued" THEN task[t].gen + 1 ELSE task[t].gen
NextGeneration(t) == task[t].gen + 1

(* The next generation, leased to w, with its execution row.               *)
LeaseTo(w, t) ==
    LET g == NextGeneration(t) IN
    /\ task' = [task EXCEPT ![t] = [@ EXCEPT !.state = "leased", !.gen = g,
                                    !.owner = w, !.lease = LeaseTicks, !.code = "none"]]
    /\ dispatch' = [dispatch EXCEPT ![t] = LeaseTicks]
    /\ execs' = [execs EXCEPT ![t] = [h \in Generations |->
                    IF h = g THEN "leased"
                    ELSE IF h = g - 1 /\ @[h] \in OpenExecs THEN "retry_scheduled"
                    ELSE @[h]]]
    /\ worker' = [worker EXCEPT ![w] = [Idle EXCEPT !.pc = "claimed", !.task = t,
                                                    !.gen = g]]
    /\ UNCHANGED <<caseVars, pin>>

ClaimQueued(w, t) ==
    /\ Claimable(w, t)
    /\ task[t].state = "queued"
    /\ LeaseTo(w, t)
    /\ Log(t, <<"lease_acquired">>)

(* An expired lease goes to the next worker as a new generation.           *)
ReclaimExpired(w, t) ==
    /\ Claimable(w, t)
    /\ Expired(t)
    /\ AttemptsLeft(t)
    /\ LeaseTo(w, t)
    /\ Log(t, <<"lease_reclaimed", "lease_acquired">>)

(* The lease of the last attempt expired: the task fails for good.         *)
ExhaustExpired(w, t) ==
    /\ Claimable(w, t)
    /\ Expired(t)
    /\ ~AttemptsLeft(t)
    /\ CloseExec(t, "failed")
    /\ SettleRow(t, "failed", "lease_expired", task[t].result)
    /\ Log(t, <<"failed">>)
    /\ UNCHANGED <<caseVars, pin, worker>>

-----------------------------------------------------------------------------
(*                        The steps of a worker process                    *)

(* A slip: the fence asks for a live lease, not for the owner's.           *)
FencedByTime(w, t) == Leased(t) /\ task[t].lease > 0

(* The predicate every worker write checks under the task row lock.        *)
Fenced(w, t) ==
    /\ Leased(t)
    /\ task[t].owner = w
    /\ task[t].gen = worker[w].gen
    /\ task[t].lease > 0

Held(w) == worker[w].task # NoTask /\ Fenced(w, worker[w].task)
Forget(w) == worker' = [worker EXCEPT ![w] = Idle]

(* load: the claimed generation is still leased, and its Skill pin does or *)
(* does not resolve to the packaged runtime.                               *)
LoadTask(w) ==
    /\ worker[w].pc = "claimed"
    /\ Held(w)
    /\ \E pc \in {"loaded", "bad_pin"} : worker' = [worker EXCEPT ![w].pc = pc]
    /\ UNCHANGED <<caseVars, taskVars>>

StartTask(w) ==
    LET t == worker[w].task IN
    /\ worker[w].pc = "loaded"
    /\ Held(w) /\ task[t].state = "leased"
    /\ task' = [task EXCEPT ![t].state = "running"]
    /\ execs' = [execs EXCEPT ![t][worker[w].gen] = "running"]
    /\ Log(t, <<"execution_started">>)
    /\ worker' = [worker EXCEPT ![w].pc = "running", ![w].beating = TRUE]
    /\ UNCHANGED <<caseVars, pin, dispatch>>

(* A slip: the heartbeat leaves the queue row where it was.                *)
ExtendRowOnly(t) ==
    /\ task' = [task EXCEPT ![t].lease = LeaseTicks]
    /\ UNCHANGED dispatch

ExtendLease(t) ==
    /\ task' = [task EXCEPT ![t].lease = LeaseTicks]
    /\ dispatch' = [dispatch EXCEPT ![t] = LeaseTicks]

(* heartbeat_agent_task: extend the lease, or learn that it is lost.       *)
Heartbeat(w) ==
    LET t == worker[w].task IN
    /\ worker[w].pc = "running" /\ worker[w].beating
    /\ IF Held(w)
       THEN ExtendLease(t) /\ UNCHANGED worker
       ELSE /\ worker' = [worker EXCEPT ![w].beating = FALSE]
            /\ UNCHANGED <<task, dispatch>>
    /\ UNCHANGED <<caseVars, pin, execs, events>>

(* A transient database error ends the heartbeat loop; it resurfaces, and  *)
(* discards the outcome, when the adapter has answered.                    *)
HeartbeatBreaks(w) ==
    /\ worker[w].pc = "running" /\ worker[w].beating
    /\ worker' = [worker EXCEPT ![w].beating = FALSE]
    /\ UNCHANGED <<caseVars, taskVars>>

(* The adapter reads its snapshot of the Case in a transaction of its own. *)
SnapshotLoads(t) ==
    /\ caseState = "planning"
    /\ revision = pin[t].rev
    /\ \/ pin[t].op = "synthetic" /\ pin[t].pack = BaselinePack
       \/ pin[t].op = "mixed" /\ promoted[revision] = pin[t].pack

AdapterAnswers(w) ==
    /\ worker[w].pc = "running" /\ worker[w].beating
    /\ \E out \in AdapterCodes \cup IF SnapshotLoads(worker[w].task) THEN RunStates ELSE {} :
           worker' = [worker EXCEPT ![w] = [@ EXCEPT !.pc = "answered", !.out = out,
                                                     !.beating = FALSE]]
    /\ UNCHANGED <<caseVars, taskVars>>

DiscardAnswer(w) ==
    /\ worker[w].pc = "running" /\ ~worker[w].beating
    /\ Forget(w)
    /\ UNCHANGED <<caseVars, taskVars>>

(* fail_agent_task, from an adapter failure or an invalid Skill pin.       *)
FailureCode(w) == IF worker[w].pc = "bad_pin" THEN "skill_pin_invalid" ELSE worker[w].out
Failing(w) == worker[w].pc = "bad_pin" \/ (worker[w].pc = "answered" /\ worker[w].out \in AdapterCodes)

TerminalState(code) == CASE code = "deadline_exceeded" -> "timed_out"
                         [] code = "required_evidence_gap" -> "blocked"
                         [] OTHER -> "failed"

(* A slip: a retried task loses its queue row, as a settled one does.      *)
RequeueUnlisted(w, t) ==
    /\ task' = [task EXCEPT ![t] = [@ EXCEPT !.state = "queued", !.owner = NoWorker,
                                    !.lease = Gone, !.code = "none"]]
    /\ dispatch' = [dispatch EXCEPT ![t] = Gone]
    /\ execs' = [execs EXCEPT ![t][worker[w].gen] = "retry_scheduled"]
    /\ Log(t, <<"retry_scheduled">>)

Requeue(w, t) ==
    /\ task' = [task EXCEPT ![t] = [@ EXCEPT !.state = "queued", !.owner = NoWorker,
                                    !.lease = Gone, !.code = "none"]]
    /\ dispatch' = [dispatch EXCEPT ![t] = 0]
    /\ execs' = [execs EXCEPT ![t][worker[w].gen] = "retry_scheduled"]
    /\ Log(t, <<"retry_scheduled">>)

FailTask(w) ==
    LET t == worker[w].task
        code == FailureCode(w)
    IN  /\ Failing(w)
        /\ Held(w)
        /\ IF code \in RetryableCodes /\ AttemptsLeft(t)
           THEN Requeue(w, t)
           ELSE /\ SettleRow(t, TerminalState(code), code, task[t].result)
                /\ execs' = [execs EXCEPT ![t][worker[w].gen] = TerminalState(code)]
                /\ Log(t, <<TerminalState(code)>>)
        /\ Forget(w)
        /\ UNCHANGED <<caseVars, pin>>

(* finalize_agent_task_result: the run and the settled task in one         *)
(* transaction.                                                            *)
ResultState(out) == IF out = "review_required" THEN "waiting_review" ELSE out
ResultExec(out) == IF out = "review_required" THEN "succeeded" ELSE out
ResultCode(out) == IF out = "review_required" THEN "none" ELSE "planning_reason"

FinalizeTask(w) ==
    LET t == worker[w].task
        out == worker[w].out
    IN  /\ worker[w].pc = "answered" /\ out \in RunStates
        /\ Held(w)
        /\ PersistPlanningResult(t, pin[t].rev, pin[t].pack, pin[t].pred, out)
        /\ SettleRow(t, ResultState(out), ResultCode(out), Len(runs) + 1)
        /\ execs' = [execs EXCEPT ![t][worker[w].gen] = ResultExec(out)]
        /\ Log(t, <<ResultState(out)>>)
        /\ Forget(w)
        /\ UNCHANGED pin

(* The persistence of the result is refused (NV003, or a unique index):    *)
(* the transaction rolls back and the error ends the worker process.       *)
FinalizeRefused(w) ==
    LET t == worker[w].task IN
    /\ worker[w].pc = "answered" /\ worker[w].out \in RunStates
    /\ Held(w)
    /\ ~ResultAccepted(pin[t].rev, pin[t].pred)
    /\ Forget(w)
    /\ UNCHANGED <<caseVars, taskVars>>

(* NV010 from load, start, fail or finalize: run_once returns.             *)
LeaseLost(w) ==
    /\ worker[w].pc \in {"claimed", "loaded", "bad_pin", "answered"}
    /\ ~Held(w)
    /\ Forget(w)
    /\ UNCHANGED <<caseVars, taskVars>>

(* A transient error escapes run_once, or the process dies and restarts:   *)
(* the claim is forgotten, the lease stays until it expires.               *)
Abandon(w) ==
    /\ worker[w].pc # "idle"
    /\ Forget(w)
    /\ UNCHANGED <<caseVars, taskVars>>

-----------------------------------------------------------------------------
(*                     Time, and the commands on the Case                  *)

Later(n) == IF n > 0 THEN n - 1 ELSE n

Tick ==
    /\ \E t \in Tasks : dispatch[t] > 0 \/ task[t].lease > 0
    /\ dispatch' = [t \in Tasks |-> Later(dispatch[t])]
    /\ task' = [t \in Tasks |-> [task[t] EXCEPT !.lease = Later(@)]]
    /\ UNCHANGED <<caseVars, pin, execs, events, worker>>

Review == \E r \in current, action \in ReviewActions :
              ReviewPlanningRun(r, action) /\ UNCHANGED <<taskVars, worker>>
Decide == \E b \in openBriefs : DecideFamilyBrief(b) /\ UNCHANGED <<taskVars, worker>>
Promote == PromoteExternalEvidence /\ UNCHANGED <<taskVars, worker>>

(* verify_memory_candidate refuses (NV014) while a live task exists, save  *)
(* a waiting_review task whose run the advisor sent back: the current one, *)
(* or one retired into the lineage of a later revision.                    *)
SentBack(t) ==
    LET r == task[t].result IN
    /\ task[t].state = "waiting_review"
    /\ Reviewed(r, "request_revision")
    /\ \/ pin[t].rev = revision /\ r \in current
       \/ pin[t].rev < revision /\ r \notin current /\ lineage[pin[t].rev + 1] = r

(* A slip: a task that waits for its review blocks every revision.         *)
AnyLiveBlocks == \A t \in Tasks : ~Live(t)

NothingBlocksRevision == \A t \in Tasks : Live(t) => SentBack(t)

ConfirmFact ==
    /\ NothingBlocksRevision
    /\ \E r \in current \cup {NoRun} : PublishRevision(r)
    /\ UNCHANGED <<taskVars, worker>>

-----------------------------------------------------------------------------
WorkerStep(w) ==
    \/ LoadTask(w) \/ StartTask(w) \/ AdapterAnswers(w) \/ DiscardAnswer(w)
    \/ FailTask(w) \/ FinalizeTask(w) \/ FinalizeRefused(w) \/ LeaseLost(w)

Claim(w, t) == ClaimQueued(w, t) \/ ReclaimExpired(w, t) \/ ExhaustExpired(w, t)

Next ==
    \/ CreateTask
    \/ \E t \in Tasks : RetryTask(t) \/ CancelTask(t)
    \/ \E w \in Workers, t \in Tasks : Claim(w, t)
    \/ \E w \in Workers : \/ WorkerStep(w)
                          \/ Heartbeat(w) \/ HeartbeatBreaks(w) \/ Abandon(w)
    \/ Tick
    \/ Review \/ Decide \/ Promote \/ ConfirmFact

Spec == Init /\ [][Next]_vars

(* Time passes, idle workers poll the queue, and a worker that holds a     *)
(* claim goes on: what run_forever and the restart policy provide.         *)
Fairness ==
    /\ WF_vars(Tick)
    /\ \A t \in Tasks : WF_vars(\E w \in Workers : Claim(w, t))
    /\ \A w \in Workers : WF_vars(WorkerStep(w))

FairSpec == Spec /\ Fairness
=============================================================================
