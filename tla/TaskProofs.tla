----------------------------- MODULE TaskProofs ------------------------------
(***************************************************************************)
(* The durable tasks and their Case, in six parts: the shape of rows and   *)
(* memories, who a Case belongs to, what a lease is worth, what the logs   *)
(* tell, what the rows of a Case tell together, and what the demo offers.  *)
(***************************************************************************)
EXTENDS JourneyProjection, SequenceTheorems, FiniteSetTheorems, WellFoundedInduction, TLAPS

(***************************************************************************)
(* Every row and every worker's memory keeps its shape.  The invariant is  *)
(* strengthened by what bounds the lease generation: a queued task has an  *)
(* attempt left, so the claim that leases it stays within MaxAttempts.     *)
(***************************************************************************)
(* claim_agent_task does not look at the generation of a queued task: that *)
(* it has an attempt left is owed to fail_agent_task and to the creation.  *)
AttemptsBounded ==
    \A t \in Tasks :
        /\ Absent(t) => task[t].gen = 0
        /\ task[t].state = "queued" => AttemptsLeft(t)

TypeInv == TypeOK /\ AttemptsBounded

USE DEF NoRun, NoPack, NoTask, Gone, BaselinePack
USE OperationsAssumption, MaxRevisionAssumption, TaskBoundsAssumption

(* The initial rows have their shape.                                      *)
LEMMA InitType == Init => TypeInv
  BY WorkersAssumption
  DEF Init, CaseInit, TypeInv, TypeOK, CaseTypeOK, AttemptsBounded, NoPin, NoRow, Idle,
      Absent, AttemptsLeft, Revisions, CaseStates, TaskStates, ActiveStates, SettledStates,
      ExecStates, TerminalCodes, Tasks, Generations, PinRows, TaskRows, Memories, LeaseTimes

(* The event log only ever receives codes the table admits.                *)
LEMMA OneEvent == \A c \in EventCodes : <<c>> \in Seq(EventCodes)
  OBVIOUS

(* Likewise for the two codes of a reclaim.                                *)
LEMMA TwoEvents == \A c, d \in EventCodes : <<c, d>> \in Seq(EventCodes)
  OBVIOUS

(* append_agent_task_event keeps the logs well formed ...                  *)
LEMMA LogType ==
  ASSUME TypeOK, NEW t \in Tasks, NEW codes \in Seq(EventCodes), Log(t, codes)
  PROVE  events' \in [Tasks -> Seq(EventCodes)]
<1>1. events[t] \o codes \in Seq(EventCodes)
  BY ConcatProperties DEF TypeOK
<1> QED BY <1>1 DEF TypeOK, Log

(* ... in particular with the one code most transactions write.            *)
LEMMA LogOne ==
  ASSUME TypeOK, NEW t \in Tasks, NEW c \in EventCodes, Log(t, <<c>>)
  PROVE  events' \in [Tasks -> Seq(EventCodes)]
<1>1. <<c>> \in Seq(EventCodes)
  BY OneEvent
<1> QED BY <1>1, LogType

(* The columns a settling, closing or inserting transaction writes.        *)
LEMMA SettleRowType ==
  ASSUME TypeInv, NEW t \in Tasks, NEW state \in SettledStates, NEW code \in TerminalCodes,
         NEW run \in Nat, SettleRow(t, state, code, run)
  PROVE  /\ task' \in [Tasks -> TaskRows]
         /\ dispatch' \in [Tasks -> LeaseTimes]
         /\ AttemptsBounded'
<1> DEFINE row == [task[t] EXCEPT !.state = state, !.owner = NoWorker, !.lease = Gone,
                                  !.code = code, !.result = run]
<1>1. row \in TaskRows
  <2>1. task[t] \in TaskRows
    BY DEF TypeInv, TypeOK
  <2>2. state \in TaskStates /\ Gone \in LeaseTimes
    BY DEF TaskStates, LeaseTimes
  <2> QED BY <2>1, <2>2 DEF TaskRows
<1>2. task' = [task EXCEPT ![t] = row]
  BY DEF SettleRow
<1>3. AttemptsBounded'
  BY <1>1, <1>2 DEF TypeInv, TypeOK, AttemptsBounded, Absent, AttemptsLeft, TaskRows, SettledStates
<1> QED BY <1>1, <1>2, <1>3 DEF SettleRow, TypeInv, TypeOK, LeaseTimes

(* A closed execution has a status of the table.                           *)
LEMMA CloseExecType ==
  ASSUME TypeOK, NEW t \in Tasks, NEW status \in ExecStates, CloseExec(t, status)
  PROVE  execs' \in [Tasks -> [Generations -> ExecStates]]
  BY DEF TypeOK, CloseExec

(* create_agent_task and the creation nested in retry_agent_task.          *)
LEMMA InsertType ==
  ASSUME TypeInv, NEW t \in Tasks, NEW op \in Operations, NEW pack \in Nat,
         NEW source \in 0 .. MaxTasks, InsertTask(t, op, pack, source)
  PROVE  TypeInv'
<1> DEFINE row == [task[t] EXCEPT !.state = "queued"]
           pins == [op |-> op, rev |-> revision, pack |-> pack,
                    pred |-> lineage[revision], from |-> source]
<1>1. CaseTypeOK'
  BY DEF TypeInv, TypeOK, CaseTypeOK, InsertTask, StartPlanning, CaseStates
<1>2. pins \in PinRows
  BY DEF TypeInv, TypeOK, CaseTypeOK, Revisions, PinRows
<1>3. row \in TaskRows
  BY DEF TypeInv, TypeOK, TaskRows, TaskStates, ActiveStates
<1>4. task' = [task EXCEPT ![t] = row]
  BY DEF InsertTask
<1>5. /\ pin' \in [Tasks -> PinRows]
      /\ task' \in [Tasks -> TaskRows]
      /\ dispatch' \in [Tasks -> LeaseTimes]
  BY <1>2, <1>3, <1>4 DEF TypeInv, TypeOK, InsertTask, LeaseTimes
<1>6. AttemptsBounded'
  BY <1>4 DEF TypeInv, TypeOK, InsertTask, AttemptsBounded, Absent, AttemptsLeft, TaskRows
<1>7. events' \in [Tasks -> Seq(EventCodes)]
  <2>1. "queued" \in EventCodes
    BY DEF EventCodes
  <2>2. Log(t, <<"queued">>)
    BY DEF InsertTask
  <2> QED BY <2>1, <2>2, LogOne DEF TypeInv
<1> QED BY <1>1, <1>5, <1>6, <1>7 DEF TypeInv, TypeOK, InsertTask

(* cancel_agent_task.                                                      *)
LEMMA CancelType ==
  ASSUME TypeInv, NEW t \in Tasks, CancelTask(t)
  PROVE  TypeInv'
<1>1. /\ task' \in [Tasks -> TaskRows]
      /\ dispatch' \in [Tasks -> LeaseTimes]
      /\ AttemptsBounded'
  <2>1. "cancelled" \in SettledStates /\ "cancelled" \in TerminalCodes /\ task[t].result \in Nat
    BY DEF SettledStates, TerminalCodes, TypeInv, TypeOK, TaskRows
  <2> QED BY <2>1, SettleRowType DEF CancelTask
<1>2. execs' \in [Tasks -> [Generations -> ExecStates]]
  BY CloseExecType DEF CancelTask, TypeInv, ExecStates
<1>3. events' \in [Tasks -> Seq(EventCodes)]
  <2>1. "cancelled" \in EventCodes
    BY DEF EventCodes, SettledStates
  <2> QED BY <2>1, LogOne DEF CancelTask, TypeInv
<1> QED BY <1>1, <1>2, <1>3 DEF CancelTask, TypeInv, TypeOK, CaseTypeOK, caseVars

(* Leasing a task that has an attempt left.                                *)
LEMMA LeaseToType ==
  ASSUME TypeInv, NEW w \in Workers, NEW t \in Tasks, AttemptsLeft(t), LeaseTo(w, t)
  PROVE  /\ task' \in [Tasks -> TaskRows]
         /\ dispatch' \in [Tasks -> LeaseTimes]
         /\ execs' \in [Tasks -> [Generations -> ExecStates]]
         /\ worker' \in [Workers -> Memories]
         /\ AttemptsBounded'
<1> DEFINE g == NextGeneration(t)
           row == [task[t] EXCEPT !.state = "leased", !.gen = g, !.owner = w,
                                  !.lease = LeaseTicks, !.code = "none"]
           memory == [Idle EXCEPT !.pc = "claimed", !.task = t, !.gen = g]
<1>1. g \in 1 .. MaxAttempts
  BY DEF TypeInv, TypeOK, TaskRows, NextGeneration, AttemptsLeft
<1>2. row \in TaskRows
  <2>1. task[t] \in TaskRows /\ g \in 0 .. MaxAttempts /\ LeaseTicks \in LeaseTimes
    BY <1>1 DEF TypeInv, TypeOK, LeaseTimes
  <2>2. "leased" \in TaskStates /\ "none" \in TerminalCodes
    BY DEF TaskStates, ActiveStates, TerminalCodes
  <2> HIDE DEF g
  <2> QED BY <2>1, <2>2 DEF TaskRows
<1>3. memory \in Memories
  <2>1. Idle \in Memories /\ g \in 0 .. MaxAttempts /\ t \in 0 .. MaxTasks
    BY <1>1 DEF Memories, Idle, Tasks
  <2> HIDE DEF g
  <2> QED BY <2>1 DEF Memories
<1>4. task' = [task EXCEPT ![t] = row] /\ worker' = [worker EXCEPT ![w] = memory]
  BY DEF LeaseTo
<1>5. execs' \in [Tasks -> [Generations -> ExecStates]]
  <2> DEFINE rows == [h \in Generations |->
                        IF h = g THEN "leased"
                        ELSE IF h = g - 1 /\ execs[t][h] \in OpenExecs THEN "retry_scheduled"
                        ELSE execs[t][h]]
  <2>1. rows \in [Generations -> ExecStates]
    BY DEF TypeInv, TypeOK, ExecStates
  <2>2. execs' = [execs EXCEPT ![t] = rows]
    BY DEF LeaseTo, TypeInv, TypeOK
  <2> QED BY <2>1, <2>2 DEF TypeInv, TypeOK
<1>6. dispatch' \in [Tasks -> LeaseTimes]
  BY DEF LeaseTo, TypeInv, TypeOK, LeaseTimes
<1>7. AttemptsBounded'
  BY <1>2, <1>4 DEF TypeInv, TypeOK, AttemptsBounded, Absent, AttemptsLeft, TaskRows
<1> QED BY <1>2, <1>3, <1>4, <1>5, <1>6, <1>7 DEF TypeInv, TypeOK

(* claim_agent_task: a first lease, a reclaim, and exhaustion.             *)
LEMMA ClaimType ==
  ASSUME TypeInv, NEW w \in Workers, NEW t \in Tasks, Claim(w, t)
  PROVE  TypeInv'
<1>1. CASE ClaimQueued(w, t)
  <2>1. AttemptsLeft(t) /\ LeaseTo(w, t) /\ Log(t, <<"lease_acquired">>)
    BY <1>1 DEF ClaimQueued, TypeInv, AttemptsBounded
  <2>2. events' \in [Tasks -> Seq(EventCodes)]
    <3>1. "lease_acquired" \in EventCodes
      BY DEF EventCodes
    <3> QED BY <2>1, <3>1, LogOne DEF TypeInv
  <2> QED BY <2>1, <2>2, LeaseToType DEF LeaseTo, TypeInv, TypeOK, CaseTypeOK, caseVars
<1>2. CASE ReclaimExpired(w, t)
  <2>1. AttemptsLeft(t) /\ LeaseTo(w, t) /\ Log(t, <<"lease_reclaimed", "lease_acquired">>)
    BY <1>2 DEF ReclaimExpired
  <2>2. events' \in [Tasks -> Seq(EventCodes)]
    <3>1. "lease_acquired" \in EventCodes /\ "lease_reclaimed" \in EventCodes
      BY DEF EventCodes
    <3>2. <<"lease_reclaimed", "lease_acquired">> \in Seq(EventCodes)
      BY <3>1, TwoEvents
    <3> QED BY <2>1, <3>2, LogType DEF TypeInv
  <2> QED BY <2>1, <2>2, LeaseToType DEF LeaseTo, TypeInv, TypeOK, CaseTypeOK, caseVars
<1>3. CASE ExhaustExpired(w, t)
  <2>1. /\ task' \in [Tasks -> TaskRows]
        /\ dispatch' \in [Tasks -> LeaseTimes]
        /\ AttemptsBounded'
    <3>1. "failed" \in SettledStates /\ "lease_expired" \in TerminalCodes /\ task[t].result \in Nat
      BY DEF SettledStates, TerminalCodes, TypeInv, TypeOK, TaskRows
    <3> QED BY <1>3, <3>1, SettleRowType DEF ExhaustExpired
  <2>2. execs' \in [Tasks -> [Generations -> ExecStates]]
    BY <1>3, CloseExecType DEF ExhaustExpired, TypeInv, ExecStates
  <2>3. events' \in [Tasks -> Seq(EventCodes)]
    <3>1. "failed" \in EventCodes
      BY DEF EventCodes, SettledStates
    <3> QED BY <1>3, <3>1, LogOne DEF ExhaustExpired, TypeInv
  <2> QED BY <1>3, <2>1, <2>2, <2>3 DEF ExhaustExpired, TypeInv, TypeOK, CaseTypeOK, caseVars
<1> QED BY <1>1, <1>2, <1>3 DEF Claim

(* A worker that forgot its claim has a memory of the declared shape.      *)
LEMMA IdleType == Idle \in Memories
  BY DEF Idle, Memories

(* What a worker does to its own memory only.                              *)
LEMMA MemoryType ==
  ASSUME TypeInv, NEW w \in Workers, UNCHANGED <<caseVars, taskVars>>,
         NEW m \in Memories, worker' = [worker EXCEPT ![w] = m]
  PROVE  TypeInv'
  BY DEF TypeInv, TypeOK, CaseTypeOK, AttemptsBounded, Absent, AttemptsLeft, caseVars, taskVars

(* The worker steps that write no row.                                     *)
LEMMA MemoryStepType ==
  ASSUME TypeInv, NEW w \in Workers,
         \/ LoadTask(w) \/ AdapterAnswers(w) \/ DiscardAnswer(w)
         \/ FinalizeRefused(w) \/ LeaseLost(w) \/ HeartbeatBreaks(w) \/ Abandon(w)
  PROVE  TypeInv'
<1>1. \E m \in Memories : worker' = [worker EXCEPT ![w] = m]
  <2>1. CASE LoadTask(w)
    <3>1. PICK pc \in {"loaded", "bad_pin"} : worker' = [worker EXCEPT ![w].pc = pc]
      BY <2>1 DEF LoadTask
    <3> DEFINE m == [worker[w] EXCEPT !.pc = pc]
    <3>2. m \in Memories
      BY DEF TypeInv, TypeOK, Memories
    <3> QED BY <3>1, <3>2
  <2>2. CASE AdapterAnswers(w)
    <3>1. PICK out \in AdapterCodes \cup RunStates :
             worker' = [worker EXCEPT ![w] = [@ EXCEPT !.pc = "answered", !.out = out,
                                                       !.beating = FALSE]]
      BY <2>2 DEF AdapterAnswers
    <3> DEFINE m == [worker[w] EXCEPT !.pc = "answered", !.out = out, !.beating = FALSE]
    <3>2. m \in Memories
      BY DEF TypeInv, TypeOK, Memories
    <3>3. worker' = [worker EXCEPT ![w] = m]
      BY <3>1
    <3> QED BY <3>2, <3>3
  <2>3. CASE HeartbeatBreaks(w)
    <3> DEFINE m == [worker[w] EXCEPT !.beating = FALSE]
    <3>1. m \in Memories
      BY DEF TypeInv, TypeOK, Memories
    <3>2. worker' = [worker EXCEPT ![w] = m]
      BY <2>3 DEF HeartbeatBreaks
    <3> QED BY <3>1, <3>2
  <2>4. CASE DiscardAnswer(w) \/ FinalizeRefused(w) \/ LeaseLost(w) \/ Abandon(w)
    BY <2>4, IdleType DEF DiscardAnswer, FinalizeRefused, LeaseLost, Abandon, Forget
  <2> QED BY <2>1, <2>2, <2>3, <2>4
<1>2. UNCHANGED <<caseVars, taskVars>>
  BY DEF LoadTask, AdapterAnswers, DiscardAnswer, FinalizeRefused, LeaseLost,
         HeartbeatBreaks, Abandon
<1> QED BY <1>1, <1>2, MemoryType

(* What the fence of a worker write gives the step behind it.              *)
LEMMA HeldTask ==
  ASSUME TypeInv, NEW w \in Workers, Held(w)
  PROVE  /\ worker[w].task \in Tasks
         /\ Leased(worker[w].task)
         /\ task[worker[w].task].owner = w
         /\ task[worker[w].task].gen = worker[w].gen
         /\ task[worker[w].task].lease > 0
  BY DEF TypeInv, TypeOK, Memories, Held, Fenced, Tasks

(* One lemma per write of a worker.                                        *)
LEMMA StartType ==
  ASSUME TypeInv, NEW w \in Workers, StartTask(w)
  PROVE  TypeInv'
<1> DEFINE t == worker[w].task
           row == [task[t] EXCEPT !.state = "running"]
           memory == [worker[w] EXCEPT !.pc = "running", !.beating = TRUE]
<1>1. t \in Tasks
  BY HeldTask DEF StartTask
<1>2. row \in TaskRows /\ memory \in Memories
  <2>1. task[t] \in TaskRows /\ "running" \in TaskStates
    BY <1>1 DEF TypeInv, TypeOK, TaskStates, ActiveStates
  <2>2. row \in TaskRows
    BY <2>1 DEF TaskRows
  <2>3. memory \in Memories
    BY DEF TypeInv, TypeOK, Memories
  <2> QED BY <2>2, <2>3
<1>3. task' = [task EXCEPT ![t] = row] /\ worker' = [worker EXCEPT ![w] = memory]
  BY <1>1 DEF StartTask, TypeInv, TypeOK
<1>4. execs' \in [Tasks -> [Generations -> ExecStates]]
  BY <1>1 DEF StartTask, TypeInv, TypeOK, ExecStates
<1>5. events' \in [Tasks -> Seq(EventCodes)]
  <2>1. "execution_started" \in EventCodes
    BY DEF EventCodes
  <2> QED BY <1>1, <2>1, LogOne DEF StartTask, TypeInv
<1>6. AttemptsBounded'
  BY <1>1, <1>2, <1>3 DEF TypeInv, TypeOK, AttemptsBounded, Absent, AttemptsLeft, TaskRows
<1>7. UNCHANGED <<caseVars, pin, dispatch>>
  BY DEF StartTask
<1> QED BY <1>2, <1>3, <1>4, <1>5, <1>6, <1>7 DEF TypeInv, TypeOK, CaseTypeOK, caseVars

(* heartbeat_agent_task, extended or refused.                              *)
LEMMA HeartbeatType ==
  ASSUME TypeInv, NEW w \in Workers, Heartbeat(w)
  PROVE  TypeInv'
<1> DEFINE t == worker[w].task
           row == [task[t] EXCEPT !.lease = LeaseTicks]
           memory == [worker[w] EXCEPT !.beating = FALSE]
<1>1. CASE Held(w)
  <2>1. t \in Tasks
    BY <1>1, HeldTask
  <2>2. LeaseTicks \in LeaseTimes
    BY DEF LeaseTimes
  <2>3. row \in TaskRows
    <3>1. task[t] \in TaskRows
      BY <2>1 DEF TypeInv, TypeOK
    <3> QED BY <2>2, <3>1 DEF TaskRows
  <2>4. task' = [task EXCEPT ![t] = row] /\ dispatch' = [dispatch EXCEPT ![t] = LeaseTicks]
    BY <1>1, <2>1 DEF Heartbeat, ExtendLease, TypeInv, TypeOK
  <2>5. AttemptsBounded'
    BY <2>1, <2>3, <2>4 DEF TypeInv, TypeOK, AttemptsBounded, Absent, AttemptsLeft, TaskRows
  <2> QED BY <1>1, <2>1, <2>2, <2>3, <2>4, <2>5
          DEF Heartbeat, ExtendLease, TypeInv, TypeOK, CaseTypeOK, caseVars
<1>2. CASE ~Held(w)
  <2>1. memory \in Memories
    BY DEF TypeInv, TypeOK, Memories
  <2>2. worker' = [worker EXCEPT ![w] = memory]
    BY <1>2 DEF Heartbeat, TypeInv, TypeOK
  <2> QED BY <1>2, <2>1, <2>2, MemoryType DEF Heartbeat, taskVars
<1> QED BY <1>1, <1>2

(* fail_agent_task: back to the queue, or settled.                         *)
LEMMA FailType ==
  ASSUME TypeInv, NEW w \in Workers, FailTask(w)
  PROVE  TypeInv'
<1> DEFINE t == worker[w].task
           code == FailureCode(w)
           state == TerminalState(code)
<1>1. t \in Tasks /\ worker' = [worker EXCEPT ![w] = Idle]
  BY HeldTask DEF FailTask, Forget
<1>2. worker' \in [Workers -> Memories]
  BY <1>1, IdleType DEF TypeInv, TypeOK
<1>3. CASE code \in RetryableCodes /\ AttemptsLeft(t)
  <2> DEFINE row == [task[t] EXCEPT !.state = "queued", !.owner = NoWorker,
                                    !.lease = Gone, !.code = "none"]
  <2>1. Requeue(w, t)
    BY <1>3 DEF FailTask
  <2>2. row \in TaskRows
    <3>1. task[t] \in TaskRows
      BY <1>1 DEF TypeInv, TypeOK
    <3>2. "queued" \in TaskStates /\ Gone \in LeaseTimes /\ "none" \in TerminalCodes
      BY DEF TaskStates, ActiveStates, LeaseTimes, TerminalCodes
    <3> QED BY <3>1, <3>2 DEF TaskRows
  <2>3. task' = [task EXCEPT ![t] = row]
    BY <1>1, <2>1 DEF Requeue, TypeInv, TypeOK
  <2>4. AttemptsBounded'
    BY <1>1, <1>3, <2>2, <2>3
    DEF TypeInv, TypeOK, AttemptsBounded, Absent, AttemptsLeft, TaskRows
  <2>5. events' \in [Tasks -> Seq(EventCodes)]
    <3>1. "retry_scheduled" \in EventCodes
      BY DEF EventCodes
    <3> QED BY <1>1, <2>1, <3>1, LogOne DEF Requeue, TypeInv
  <2>6. /\ dispatch' \in [Tasks -> LeaseTimes]
        /\ execs' \in [Tasks -> [Generations -> ExecStates]]
    <3>1. /\ dispatch' = [dispatch EXCEPT ![t] = 0]
          /\ execs' = [execs EXCEPT ![t][worker[w].gen] = "retry_scheduled"]
      BY <2>1 DEF Requeue
    <3>2. 0 \in LeaseTimes /\ "retry_scheduled" \in ExecStates
      BY DEF LeaseTimes, ExecStates
    <3> QED BY <1>1, <3>1, <3>2 DEF TypeInv, TypeOK
  <2> QED BY <1>1, <1>2, <2>2, <2>3, <2>4, <2>5, <2>6
          DEF FailTask, TypeInv, TypeOK, CaseTypeOK, caseVars
<1>4. CASE ~(code \in RetryableCodes /\ AttemptsLeft(t))
  <2>1. /\ SettleRow(t, state, code, task[t].result)
        /\ execs' = [execs EXCEPT ![t][worker[w].gen] = state]
        /\ Log(t, <<state>>)
    BY <1>4 DEF FailTask
  <2>2. state \in {"timed_out", "blocked", "failed"}
    BY DEF TerminalState
  <2>3. state \in SettledStates /\ state \in ExecStates /\ state \in EventCodes
    BY <2>2 DEF SettledStates, ExecStates, EventCodes
  <2>4. code \in TerminalCodes
    BY DEF FailTask, Failing, FailureCode, TerminalCodes
  <2>5. task[t].result \in Nat
    BY <1>1 DEF TypeInv, TypeOK, TaskRows
  <2> HIDE DEF state, code
  <2>6. /\ task' \in [Tasks -> TaskRows]
        /\ dispatch' \in [Tasks -> LeaseTimes]
        /\ AttemptsBounded'
    BY <1>1, <2>1, <2>3, <2>4, <2>5, SettleRowType
  <2>7. execs' \in [Tasks -> [Generations -> ExecStates]]
    BY <1>1, <2>1, <2>3 DEF TypeInv, TypeOK
  <2>8. events' \in [Tasks -> Seq(EventCodes)]
    BY <1>1, <2>1, <2>3, LogOne DEF TypeInv
  <2> QED BY <1>1, <1>2, <2>6, <2>7, <2>8 DEF FailTask, TypeInv, TypeOK, CaseTypeOK, caseVars
<1> QED BY <1>3, <1>4

(* finalize_agent_task_result with persist_planning_result inside it.      *)
LEMMA FinalizeType ==
  ASSUME TypeInv, NEW w \in Workers, FinalizeTask(w)
  PROVE  TypeInv'
<1> DEFINE t == worker[w].task
           out == worker[w].out
           run == [task |-> t, rev |-> pin[t].rev, pack |-> pin[t].pack,
                   state |-> out, supersedes |-> pin[t].pred]
<1>1. t \in Tasks /\ out \in RunStates /\ worker' = [worker EXCEPT ![w] = Idle]
  BY HeldTask DEF FinalizeTask, Forget
<1>2. PersistPlanningResult(t, pin[t].rev, pin[t].pack, pin[t].pred, out)
  BY DEF FinalizeTask
<1>3. CaseTypeOK'
  <2>1. run \in [task : Nat, rev : Revisions, pack : Nat, state : RunStates, supersedes : Nat]
    <3>1. pin[t].rev = revision
      BY <1>2 DEF PersistPlanningResult, ResultAccepted, ResultFitsCase
    <3>2. pin[t] \in PinRows /\ revision \in Revisions /\ t \in Nat
      BY <1>1 DEF TypeInv, TypeOK, CaseTypeOK, Tasks
    <3> QED BY <1>1, <3>1, <3>2 DEF PinRows
  <2>2. /\ runs' = Append(runs, run)
        /\ current' = current \cup {Len(runs) + 1}
        /\ caseState' \in {caseState, "advisor_review"}
        /\ UNCHANGED <<revision, lineage, reviews, briefs, openBriefs, decisions,
                       packs, promoted>>
    BY <1>2 DEF PersistPlanningResult
  <2> HIDE DEF run
  <2>3. runs' \in Seq([task : Nat, rev : Revisions, pack : Nat,
                       state : RunStates, supersedes : Nat])
    BY <2>1, <2>2, AppendProperties DEF TypeInv, TypeOK, CaseTypeOK
  <2>4. Len(runs) + 1 \in Nat
    BY LenProperties DEF TypeInv, TypeOK, CaseTypeOK
  <2> QED BY <2>2, <2>3, <2>4 DEF TypeInv, TypeOK, CaseTypeOK, CaseStates
<1>4. /\ SettleRow(t, ResultState(out), ResultCode(out), Len(runs) + 1)
      /\ execs' = [execs EXCEPT ![t][worker[w].gen] = ResultExec(out)]
      /\ Log(t, <<ResultState(out)>>)
  BY DEF FinalizeTask
<1>5. /\ ResultState(out) \in SettledStates
      /\ ResultState(out) \in EventCodes
      /\ ResultCode(out) \in TerminalCodes
      /\ ResultExec(out) \in ExecStates
  BY <1>1 DEF ResultState, ResultCode, ResultExec, RunStates, SettledStates, EventCodes,
              TerminalCodes, ExecStates
<1>6. /\ task' \in [Tasks -> TaskRows]
      /\ dispatch' \in [Tasks -> LeaseTimes]
      /\ AttemptsBounded'
  <2>1. Len(runs) + 1 \in Nat
    BY LenProperties DEF TypeInv, TypeOK, CaseTypeOK
  <2> QED BY <1>1, <1>4, <1>5, <2>1, SettleRowType
<1>7. execs' \in [Tasks -> [Generations -> ExecStates]]
  BY <1>1, <1>4, <1>5 DEF TypeInv, TypeOK
<1>8. events' \in [Tasks -> Seq(EventCodes)]
  BY <1>1, <1>4, <1>5, LogOne DEF TypeInv
<1> QED BY <1>1, <1>3, <1>6, <1>7, <1>8, IdleType DEF FinalizeTask, TypeInv, TypeOK

(* Time runs leases and queue rows down to zero, never further.            *)
LEMMA TickType ==
  ASSUME TypeInv, Tick
  PROVE  TypeInv'
<1>1. \A n \in LeaseTimes : Later(n) \in LeaseTimes
  BY DEF LeaseTimes, Later
<1>2. dispatch' \in [Tasks -> LeaseTimes] /\ task' \in [Tasks -> TaskRows]
  BY <1>1 DEF Tick, TypeInv, TypeOK, TaskRows
<1>3. AttemptsBounded'
  BY <1>2 DEF Tick, TypeInv, TypeOK, AttemptsBounded, Absent, AttemptsLeft, TaskRows
<1> QED BY <1>2, <1>3 DEF Tick, TypeInv, TypeOK, CaseTypeOK, caseVars

(* Review, family decision, promotion and publication write Case rows only.*)
LEMMA CaseStepType ==
  ASSUME TypeInv, Review \/ Decide \/ Promote \/ ConfirmFact
  PROVE  TypeInv'
<1>1. CaseTypeOK'
  <2>1. CASE Review
    <3>1. PICK r \in current, action \in ReviewActions : ReviewPlanningRun(r, action)
      BY <2>1 DEF Review
    <3>2. /\ reviews' = reviews \cup {[run |-> r, action |-> action]}
          /\ briefs' \in {briefs, briefs \cup {r}}
          /\ openBriefs' \in {openBriefs, openBriefs \cup {r}}
          /\ caseState' \in {"planning", "family_review"}
          /\ UNCHANGED <<revision, lineage, runs, current, decisions, packs, promoted>>
      BY <3>1 DEF ReviewPlanningRun
    <3>3. r \in Nat /\ [run |-> r, action |-> action] \in [run : Nat, action : ReviewActions]
      BY DEF TypeInv, TypeOK, CaseTypeOK
    <3> QED BY <3>2, <3>3 DEF TypeInv, TypeOK, CaseTypeOK, CaseStates
  <2>2. CASE Decide
    BY <2>2 DEF Decide, DecideFamilyBrief, TypeInv, TypeOK, CaseTypeOK, CaseStates
  <2>3. CASE Promote
    BY <2>3 DEF Promote, PromoteExternalEvidence, TypeInv, TypeOK, CaseTypeOK
  <2>4. CASE ConfirmFact
    BY <2>4 DEF ConfirmFact, PublishRevision, TypeInv, TypeOK, CaseTypeOK, Revisions
  <2> QED BY <2>1, <2>2, <2>3, <2>4
<1>2. UNCHANGED <<taskVars, worker>>
  BY DEF Review, Decide, Promote, ConfirmFact
<1> QED BY <1>1, <1>2 DEF TypeInv, TypeOK, AttemptsBounded, Absent, AttemptsLeft, taskVars

(* Every step keeps the shape.                                             *)
LEMMA NextType == TypeInv /\ [Next]_vars => TypeInv'
<1> SUFFICES ASSUME TypeInv, [Next]_vars PROVE TypeInv'
  OBVIOUS
<1>1. CASE CreateTask
  <2>1. PICK t \in Tasks, op \in Operations, pack \in 1 .. packs : InsertTask(t, op, pack, NoTask)
    BY <1>1 DEF CreateTask
  <2>2. pack \in Nat /\ NoTask \in 0 .. MaxTasks
    BY DEF TypeInv, TypeOK, CaseTypeOK
  <2> QED BY <2>1, <2>2, InsertType
<1>2. ASSUME NEW s \in Tasks, RetryTask(s) PROVE TypeInv'
  <2>1. PICK t \in Tasks : InsertTask(t, pin[s].op, pin[s].pack, s)
    BY <1>2 DEF RetryTask
  <2>2. pin[s].op \in Operations /\ pin[s].pack \in Nat /\ s \in 0 .. MaxTasks
    BY <2>1 DEF InsertTask, TypeInv, TypeOK, PinRows, Tasks
  <2> QED BY <2>1, <2>2, InsertType
<1>3. ASSUME NEW t \in Tasks, CancelTask(t) PROVE TypeInv'
  BY <1>3, CancelType
<1>4. ASSUME NEW w \in Workers, NEW t \in Tasks, Claim(w, t) PROVE TypeInv'
  BY <1>4, ClaimType
<1>5. ASSUME NEW w \in Workers,
             WorkerStep(w) \/ Heartbeat(w) \/ HeartbeatBreaks(w) \/ Abandon(w)
      PROVE  TypeInv'
  BY <1>5, MemoryStepType, StartType, HeartbeatType, FailType, FinalizeType DEF WorkerStep
<1>6. CASE Tick
  BY <1>6, TickType
<1>7. CASE Review \/ Decide \/ Promote \/ ConfirmFact
  BY <1>7, CaseStepType
<1>8. CASE UNCHANGED vars
  BY <1>8 DEF vars, caseVars, taskVars, TypeInv, TypeOK, CaseTypeOK, AttemptsBounded,
              Absent, AttemptsLeft
<1> QED BY <1>1, <1>2, <1>3, <1>4, <1>5, <1>6, <1>7, <1>8 DEF Next

(* The inductive invariant holds in every reachable state.                 *)
THEOREM TypeInvariant == Spec => []TypeInv
  BY InitType, NextType, PTL DEF Spec

(* All rows keep their declared shape, at most MaxAttempts generations of  *)
(* a task included, for any number of workers, tasks and revisions.        *)
THEOREM TypeCorrect == Spec => []TypeOK
<1>1. TypeInv => TypeOK
  BY DEF TypeInv
<1> QED BY <1>1, TypeInvariant, PTL

------------------------------------------------------------------------------
(***************************************************************************)
(* One live task per revision, and a Case that stands still while a task   *)
(* is active.  The two hold one another up: a result is persisted for the  *)
(* one live task only, and a Case that plans accepts no review.            *)
(***************************************************************************)
Ownership == OneLiveTask /\ ActiveTaskOwnsCase

(* No task is live at the start.                                           *)
LEMMA InitOwnership == Init => Ownership
  BY DEF Init, NoRow, Ownership, OneLiveTask, ActiveTaskOwnsCase, Live, Active,
         LiveStates, ActiveStates

(* Steps that start no task and leave the Case's planning alone.           *)
Quiet ==
    /\ UNCHANGED <<caseState, revision, lineage, pin>>
    /\ \A t \in Tasks : (Live(t)' => Live(t)) /\ (Active(t)' => Active(t))

(* Quiet steps keep the ownership.                                         *)
LEMMA QuietKeeps == Ownership /\ Quiet => Ownership'
  BY DEF Ownership, OneLiveTask, ActiveTaskOwnsCase, Quiet

(* What a settled row is: neither live, unless it waits for the advisor,   *)
(* nor active.                                                             *)
LEMMA SettleQuiets ==
  ASSUME TypeOK, NEW t \in Tasks, Active(t), NEW state \in SettledStates, NEW code, NEW run,
         SettleRow(t, state, code, run)
  PROVE  /\ \A u \in Tasks : (Live(u)' => Live(u)) /\ (Active(u)' => Active(u))
         /\ ~Active(t)'
  BY DEF TypeOK, SettleRow, Live, Active, LiveStates, ActiveStates, SettledStates, TaskRows

(* A leased task is active, an active one live.                            *)
LEMMA LeasedIsActive == \A t \in Tasks : Leased(t) => Active(t) /\ Live(t)
  BY DEF Leased, Active, Live, LeasedStates, ActiveStates, LiveStates

(* A creation finds no live task of the revision.                          *)
LEMMA InsertOwnership ==
  ASSUME TypeInv, Ownership, NEW t \in Tasks, NEW op, NEW pack, NEW source,
         InsertTask(t, op, pack, source)
  PROVE  Ownership'
<1>1. /\ pin' = [pin EXCEPT ![t] = [op |-> op, rev |-> revision, pack |-> pack,
                                    pred |-> lineage[revision], from |-> source]]
      /\ task' = [task EXCEPT ![t].state = "queued"]
      /\ caseState' = "planning" /\ revision' = revision /\ lineage' = lineage
  BY DEF InsertTask, StartPlanning
<1>2. \A u \in Tasks : Live(u) => pin[u].rev # revision
  BY DEF InsertTask, NoLiveTask
<1>3. \A u \in Tasks \ {t} : pin'[u] = pin[u] /\ task'[u] = task[u]
  BY <1>1 DEF TypeInv, TypeOK
<1>4. pin'[t].rev = revision /\ pin'[t].pred = lineage[revision]
  BY <1>1 DEF TypeInv, TypeOK
<1>5. \A u \in Tasks : Active(u) => Live(u)
  BY DEF Active, Live, LiveStates
<1>6. OneLiveTask'
  BY <1>2, <1>3, <1>4 DEF Ownership, OneLiveTask, Live
<1>7. ActiveTaskOwnsCase'
  <2>1. \A u \in Tasks : ~Active(u)
    BY <1>2, <1>5 DEF Ownership, ActiveTaskOwnsCase
  <2> QED BY <1>1, <1>3, <1>4, <2>1 DEF ActiveTaskOwnsCase, Active
<1> QED BY <1>6, <1>7 DEF Ownership

(* Claiming starts no task: it leases or settles an active one.            *)
LEMMA ClaimQuiet ==
  ASSUME TypeInv, NEW w \in Workers, NEW t \in Tasks, Claim(w, t)
  PROVE  Quiet
<1>1. Active(t) /\ UNCHANGED <<caseVars, pin>>
  BY LeasedIsActive DEF Claim, ClaimQueued, ReclaimExpired, ExhaustExpired, Expired, LeaseTo,
     Active, ActiveStates
<1>2. CASE LeaseTo(w, t)
  BY <1>1, <1>2, LeasedIsActive
  DEF LeaseTo, TypeInv, TypeOK, Quiet, Live, Active, LiveStates, caseVars
<1>3. CASE ExhaustExpired(w, t)
  <2>1. "failed" \in SettledStates /\ SettleRow(t, "failed", "lease_expired", task[t].result)
    BY <1>3 DEF ExhaustExpired, SettledStates
  <2> QED BY <1>1, <2>1, SettleQuiets DEF Quiet, TypeInv, caseVars
<1> QED BY <1>2, <1>3 DEF Claim, ClaimQueued, ReclaimExpired

(* A cancel settles an active task.                                        *)
LEMMA CancelQuiet ==
  ASSUME TypeInv, NEW t \in Tasks, CancelTask(t)
  PROVE  Quiet
<1>1. /\ Active(t)
      /\ "cancelled" \in SettledStates
      /\ SettleRow(t, "cancelled", "cancelled", task[t].result)
      /\ UNCHANGED <<caseVars, pin>>
  BY DEF CancelTask, SettledStates
<1> QED BY <1>1, SettleQuiets DEF Quiet, TypeInv, caseVars

(* Short of a result, a worker only restarts, requeues or settles its task.*)
LEMMA WorkerQuiet ==
  ASSUME TypeInv, NEW w \in Workers,
         WorkerStep(w) \/ Heartbeat(w) \/ HeartbeatBreaks(w) \/ Abandon(w),
         ~FinalizeTask(w)
  PROVE  Quiet
<1> DEFINE t == worker[w].task
<1>1. Held(w) => t \in Tasks /\ Leased(t) /\ Active(t) /\ Live(t)
  BY HeldTask, LeasedIsActive
<1>2. CASE StartTask(w)
  BY <1>1, <1>2
  DEF StartTask, TypeInv, TypeOK, Quiet, Live, Active, LiveStates, ActiveStates, caseVars
<1>3. CASE Heartbeat(w)
  BY <1>1, <1>3 DEF Heartbeat, ExtendLease, TypeInv, TypeOK, Quiet, Live, Active, caseVars
<1>4. CASE FailTask(w)
  <2> DEFINE code == FailureCode(w)
             state == TerminalState(code)
  <2>1. Held(w) /\ UNCHANGED <<caseVars, pin>>
    BY <1>4 DEF FailTask
  <2>2. CASE Requeue(w, t)
    BY <1>1, <2>1, <2>2
    DEF Requeue, TypeInv, TypeOK, Quiet, Live, Active, LiveStates, ActiveStates, caseVars
  <2>3. CASE SettleRow(t, state, code, task[t].result)
    <3>1. state \in SettledStates
      BY DEF TerminalState, SettledStates
    <3> QED BY <1>1, <2>1, <2>3, <3>1, SettleQuiets DEF Quiet, TypeInv, caseVars
  <2> QED BY <1>4, <2>2, <2>3 DEF FailTask
<1>5. CASE UNCHANGED <<caseVars, taskVars>>
  BY <1>5 DEF Quiet, caseVars, taskVars, Live, Active
<1> QED BY <1>2, <1>3, <1>4, <1>5
        DEF WorkerStep, LoadTask, AdapterAnswers, DiscardAnswer, FinalizeRefused, LeaseLost,
            HeartbeatBreaks, Abandon

(* Time changes no state.                                                  *)
LEMMA TickQuiet == TypeInv /\ Tick => Quiet
  BY DEF Tick, TypeInv, TypeOK, TaskRows, Quiet, Live, Active, caseVars

(* A result ends the one active task of its revision.                      *)
LEMMA FinalizeOwnership ==
  ASSUME TypeInv, Ownership, NEW w \in Workers, FinalizeTask(w)
  PROVE  Ownership'
<1> DEFINE out == worker[w].out
<1>1. PICK t \in Tasks : /\ t = worker[w].task
                        /\ Active(t) /\ Live(t)
                        /\ ResultState(out) \in SettledStates
  BY HeldTask, LeasedIsActive
  DEF FinalizeTask, ResultState, RunStates, SettledStates
<1>2. /\ UNCHANGED <<revision, lineage, pin>>
      /\ SettleRow(t, ResultState(out), ResultCode(out), Len(runs) + 1)
  BY <1>1 DEF FinalizeTask, PersistPlanningResult
<1>3. /\ \A u \in Tasks : (Live(u)' => Live(u)) /\ (Active(u)' => Active(u))
      /\ ~Active(t)'
  BY <1>1, <1>2, SettleQuiets DEF TypeInv
<1>4. \A u \in Tasks : Active(u) => u = t
  <2>1. \A u \in Tasks : Active(u) => Live(u)
    BY DEF Active, Live, LiveStates
  <2> QED BY <1>1, <2>1 DEF Ownership, OneLiveTask, ActiveTaskOwnsCase
<1>5. ActiveTaskOwnsCase'
  <2>1. \A u \in Tasks : ~Active(u)'
    BY <1>3, <1>4
  <2> QED BY <2>1 DEF ActiveTaskOwnsCase
<1>6. OneLiveTask'
  BY <1>2, <1>3 DEF Ownership, OneLiveTask
<1> QED BY <1>5, <1>6 DEF Ownership

(* The commands on the Case meet no active task, or leave the Case as it   *)
(* is: a review and a decision need a Case that is not planning, a new     *)
(* revision needs every live task to have been sent back.                  *)
LEMMA CaseStepOwnership ==
  ASSUME TypeInv, Ownership, Review \/ Decide \/ Promote \/ ConfirmFact
  PROVE  Ownership'
<1>1. pin' = pin /\ task' = task
  BY DEF Review, Decide, Promote, ConfirmFact, taskVars
<1>2. OneLiveTask'
  BY <1>1 DEF Ownership, OneLiveTask, Live
<1>3. CASE Promote
  BY <1>1, <1>3 DEF Promote, PromoteExternalEvidence, Ownership, ActiveTaskOwnsCase,
                    OneLiveTask, Active, Live
<1>4. CASE Review \/ Decide \/ ConfirmFact
  <2>1. \A t \in Tasks : ~Active(t)
    <3>1. CASE Review
      BY <3>1 DEF Review, ReviewPlanningRun, Ownership, ActiveTaskOwnsCase
    <3>2. CASE Decide
      BY <3>2 DEF Decide, DecideFamilyBrief, Ownership, ActiveTaskOwnsCase
    <3>3. CASE ConfirmFact
      BY <3>3 DEF ConfirmFact, NothingBlocksRevision, SentBack, Live, Active,
                  LiveStates, ActiveStates
    <3> QED BY <1>4, <3>1, <3>2, <3>3
  <2> QED BY <1>1, <1>2, <2>1 DEF Ownership, ActiveTaskOwnsCase, Active
<1> QED BY <1>3, <1>4

(* Every step keeps the ownership.                                         *)
LEMMA NextOwnership == TypeInv /\ Ownership /\ [Next]_vars => Ownership'
<1> SUFFICES ASSUME TypeInv, Ownership, [Next]_vars PROVE Ownership'
  OBVIOUS
<1>1. CASE CreateTask
  BY <1>1, InsertOwnership DEF CreateTask
<1>2. ASSUME NEW s \in Tasks, RetryTask(s) PROVE Ownership'
  BY <1>2, InsertOwnership DEF RetryTask
<1>3. ASSUME NEW t \in Tasks, CancelTask(t) PROVE Ownership'
  BY <1>3, CancelQuiet, QuietKeeps
<1>4. ASSUME NEW w \in Workers, NEW t \in Tasks, Claim(w, t) PROVE Ownership'
  BY <1>4, ClaimQuiet, QuietKeeps
<1>5. ASSUME NEW w \in Workers,
             WorkerStep(w) \/ Heartbeat(w) \/ HeartbeatBreaks(w) \/ Abandon(w)
      PROVE  Ownership'
  BY <1>5, WorkerQuiet, QuietKeeps, FinalizeOwnership
<1>6. CASE Tick
  BY <1>6, TickQuiet, QuietKeeps
<1>7. CASE Review \/ Decide \/ Promote \/ ConfirmFact
  BY <1>7, CaseStepOwnership
<1>8. CASE UNCHANGED vars
  BY <1>8, QuietKeeps DEF Quiet, vars, caseVars, taskVars, Live, Active
<1> QED BY <1>1, <1>2, <1>3, <1>4, <1>5, <1>6, <1>7, <1>8 DEF Next

(* The ownership holds in every reachable state.                           *)
LEMMA OwnershipInvariant == Spec => []Ownership
  BY InitOwnership, NextOwnership, TypeInvariant, PTL DEF Spec

(* At most one live task plans a revision (agent_tasks_active_idx and the  *)
(* check in create_agent_task), for any number of tasks and workers.       *)
THEOREM OneLiveTaskAlways == Spec => []OneLiveTask
<1>1. Ownership => OneLiveTask
  BY DEF Ownership
<1> QED BY <1>1, OwnershipInvariant, PTL

(* While a task is active its Case keeps planning the very revision and    *)
(* predecessor the task pinned, so finalize_agent_task_result never meets  *)
(* a Case that has moved on.                                               *)
THEOREM ActiveTaskOwnsCaseAlways == Spec => []ActiveTaskOwnsCase
<1>1. Ownership => ActiveTaskOwnsCase
  BY DEF Ownership
<1> QED BY <1>1, OwnershipInvariant, PTL

------------------------------------------------------------------------------
(***************************************************************************)
(* The queue agrees with the task rows, a generation has one holder, and   *)
(* only its holder or a cancel ends an unexpired lease.                    *)
(***************************************************************************)
(* A worker with a claim remembers a task and a generation of it; a worker *)
(* without one remembers nothing.                                          *)
MemoryShape ==
    \A w \in Workers : IF worker[w].pc = "idle"
                       THEN worker[w].task = NoTask
                       ELSE worker[w].task \in Tasks

LeaseInv == DispatchExact /\ MemoryShape /\ OneHolder

(* No lease, no queue row and no claim at the start.                       *)
LEMMA InitLease == Init => LeaseInv
  BY DEF Init, NoRow, Idle, LeaseInv, DispatchExact, MemoryShape, OneHolder, Leased,
         LeasedStates

(* Steps that hand out no generation: workers keep their claims or forget  *)
(* them, rows keep their generation, and a lease its owner.                *)
MemoryKept ==
    \A v \in Workers :
        \/ worker'[v].pc = "idle" /\ worker'[v].task = NoTask
        \/ /\ worker[v].pc # "idle" /\ worker'[v].pc # "idle"
           /\ worker'[v].task = worker[v].task
           /\ worker'[v].gen = worker[v].gen

GenerationsKept ==
    \A t \in Tasks :
        /\ task'[t].gen = task[t].gen
        /\ task'[t].state \in LeasedStates =>
               task[t].state \in LeasedStates /\ task'[t].owner = task[t].owner

(* Such steps leave every generation with its one holder.                  *)
LEMMA HoldersKept ==
  ASSUME MemoryShape, OneHolder, MemoryKept, GenerationsKept
  PROVE  MemoryShape' /\ OneHolder'
<1>1. MemoryShape'
  BY DEF MemoryShape, MemoryKept
<1>2. ASSUME NEW v \in Workers, worker'[v].pc # "idle"
      PROVE  /\ worker'[v].gen <= task'[worker'[v].task].gen
             /\ /\ task'[worker'[v].task].state \in LeasedStates
                /\ worker'[v].gen = task'[worker'[v].task].gen
                => task'[worker'[v].task].owner = v
             /\ \A x \in Workers \ {v} : worker'[x].task = worker'[v].task
                                           => worker'[x].gen # worker'[v].gen
  <2>1. /\ worker[v].pc # "idle" /\ worker[v].task \in Tasks
        /\ worker'[v].task = worker[v].task /\ worker'[v].gen = worker[v].gen
    BY <1>2 DEF MemoryShape, MemoryKept
  <2>2. \A x \in Workers : worker'[x].task = worker[v].task
                             => worker'[x].gen = worker[x].gen /\ worker[x].task = worker[v].task
    BY <2>1 DEF MemoryKept, Tasks
  <2> QED BY <1>2, <2>1, <2>2 DEF OneHolder, Leased, GenerationsKept
<1>3. OneHolder'
  BY <1>2 DEF OneHolder, Leased
<1> QED BY <1>1, <1>3

(* What a step may make of one task row for the queue to stay exact.       *)
RowExact(row, available) ==
    /\ available = IF row.state = "queued" THEN 0 ELSE row.lease
    /\ row.state \in LeasedStates <=> row.lease # Gone
    /\ row.state \in LeasedStates <=> row.owner # NoWorker

(* A step that writes one row and its queue row exactly.                   *)
LEMMA DispatchStep ==
  ASSUME TypeInv, DispatchExact, NEW t \in Tasks, NEW row, NEW available,
         RowExact(row, available),
         task' = [task EXCEPT ![t] = row],
         dispatch' = [dispatch EXCEPT ![t] = available]
  PROVE  DispatchExact'
<1>1. \A u \in Tasks : u # t => task'[u] = task[u] /\ dispatch'[u] = dispatch[u]
  BY DEF TypeInv, TypeOK
<1>2. task'[t] = row /\ dispatch'[t] = available
  BY DEF TypeInv, TypeOK
<1> QED BY <1>1, <1>2 DEF DispatchExact, Leased, RowExact

(* Settling a row takes its lease and its queue row together.              *)
LEMMA SettleLease ==
  ASSUME TypeInv, LeaseInv, NEW t \in Tasks, NEW state \in SettledStates, NEW code, NEW run,
         SettleRow(t, state, code, run), MemoryKept
  PROVE  LeaseInv'
<1> DEFINE row == [task[t] EXCEPT !.state = state, !.owner = NoWorker, !.lease = Gone,
                                  !.code = code, !.result = run]
<1>1. task' = [task EXCEPT ![t] = row] /\ dispatch' = [dispatch EXCEPT ![t] = Gone]
  BY DEF SettleRow
<1>2. row.state = state /\ row.owner = NoWorker /\ row.lease = Gone /\ row.gen = task[t].gen
  BY DEF TypeInv, TypeOK, TaskRows
<1> HIDE DEF row
<1>3. state \notin LeasedStates /\ state # "queued"
  BY DEF SettledStates, LeasedStates
<1>4. DispatchExact'
  BY <1>1, <1>2, <1>3, DispatchStep DEF RowExact, LeaseInv
<1>5. GenerationsKept
  BY <1>1, <1>2, <1>3 DEF GenerationsKept, TypeInv, TypeOK
<1> QED BY <1>4, <1>5, HoldersKept DEF LeaseInv

(* A worker that does nothing, or forgets its claim.                       *)
LEMMA ForgetKeeps ==
  ASSUME TypeInv, MemoryShape, NEW w \in Workers, worker' = worker \/ Forget(w)
  PROVE  MemoryKept
<1>1. CASE worker' = worker
  BY <1>1 DEF MemoryShape, MemoryKept
<1>2. CASE Forget(w)
  <2>1. /\ worker'[w].pc = "idle" /\ worker'[w].task = NoTask
        /\ \A v \in Workers : v # w => worker'[v] = worker[v]
    BY <1>2 DEF Forget, Idle, TypeInv, TypeOK
  <2> QED BY <2>1 DEF MemoryShape, MemoryKept
<1> QED BY <1>1, <1>2

(* A new task enters the queue with no lease.                              *)
LEMMA InsertLease ==
  ASSUME TypeInv, LeaseInv, NEW t \in Tasks, NEW op, NEW pack, NEW source,
         InsertTask(t, op, pack, source)
  PROVE  LeaseInv'
<1> DEFINE row == [task[t] EXCEPT !.state = "queued"]
<1>1. /\ task' = [task EXCEPT ![t] = row] /\ dispatch' = [dispatch EXCEPT ![t] = 0]
      /\ worker' = worker /\ ~Leased(t)
  BY DEF InsertTask, Absent, Leased, LeasedStates
<1>2. /\ row.state = "queued" /\ row.gen = task[t].gen
      /\ row.owner = task[t].owner /\ row.lease = task[t].lease
  BY DEF TypeInv, TypeOK, TaskRows
<1> HIDE DEF row
<1>3. DispatchExact'
  <2>1. RowExact(row, 0)
    BY <1>1, <1>2 DEF RowExact, LeaseInv, DispatchExact, LeasedStates
  <2> QED BY <1>1, <2>1, DispatchStep DEF LeaseInv
<1>4. GenerationsKept
  BY <1>1, <1>2 DEF GenerationsKept, TypeInv, TypeOK, LeasedStates
<1>5. MemoryKept
  BY <1>1 DEF MemoryKept, LeaseInv, MemoryShape
<1> QED BY <1>3, <1>4, <1>5, HoldersKept DEF LeaseInv

(* A lease is handed out: the generation is new to every worker.           *)
LEMMA LeaseToLease ==
  ASSUME TypeInv, LeaseInv, NEW w \in Workers, NEW t \in Tasks,
         worker[w].pc = "idle", LeaseTo(w, t)
  PROVE  LeaseInv'
<1> DEFINE g == NextGeneration(t)
           row == [task[t] EXCEPT !.state = "leased", !.gen = g, !.owner = w,
                                  !.lease = LeaseTicks, !.code = "none"]
           memory == [Idle EXCEPT !.pc = "claimed", !.task = t, !.gen = g]
<1>1. /\ task' = [task EXCEPT ![t] = row] /\ dispatch' = [dispatch EXCEPT ![t] = LeaseTicks]
      /\ worker' = [worker EXCEPT ![w] = memory]
  BY DEF LeaseTo
<1>2. /\ row.state = "leased" /\ row.gen = g /\ row.owner = w /\ row.lease = LeaseTicks
      /\ memory.pc = "claimed" /\ memory.task = t /\ memory.gen = g
  BY DEF TypeInv, TypeOK, TaskRows, Idle
<1>3. task[t].gen \in Nat /\ g = task[t].gen + 1
  BY DEF TypeInv, TypeOK, TaskRows, NextGeneration
<1> HIDE DEF row, memory, g
<1>4. DispatchExact'
  <2>1. RowExact(row, LeaseTicks)
    BY <1>2, WorkersAssumption DEF RowExact, LeasedStates
  <2> QED BY <1>1, <2>1, DispatchStep DEF LeaseInv
<1>5. /\ \A u \in Tasks : task'[u] = IF u = t THEN row ELSE task[u]
      /\ \A v \in Workers : worker'[v] = IF v = w THEN memory ELSE worker[v]
  BY <1>1 DEF TypeInv, TypeOK
<1>6. MemoryShape'
  BY <1>2, <1>5 DEF LeaseInv, MemoryShape
<1>7. \A v \in Workers : worker[v].task = t => v # w /\ worker[v].pc # "idle"
                                                    /\ worker[v].gen < g
  <2> SUFFICES ASSUME NEW v \in Workers, worker[v].task = t
               PROVE  v # w /\ worker[v].pc # "idle" /\ worker[v].gen < g
    OBVIOUS
  <2>1. worker[v].pc # "idle"
    BY DEF LeaseInv, MemoryShape, Tasks
  <2>2. worker[v].gen <= task[t].gen /\ worker[v].gen \in Nat
    BY <2>1 DEF LeaseInv, OneHolder, TypeInv, TypeOK, Memories
  <2> QED BY <1>3, <2>1, <2>2
<1>8. ASSUME NEW v \in Workers, worker'[v].pc # "idle"
      PROVE  /\ worker'[v].gen <= task'[worker'[v].task].gen
             /\ /\ task'[worker'[v].task].state \in LeasedStates
                /\ worker'[v].gen = task'[worker'[v].task].gen
                => task'[worker'[v].task].owner = v
             /\ \A x \in Workers \ {v} : worker'[x].task = worker'[v].task
                                           => worker'[x].gen # worker'[v].gen
  <2>1. CASE v = w
    <3>1. worker'[v].task = t /\ worker'[v].gen = g /\ task'[t] = row
      BY <1>2, <1>5, <2>1
    <3>2. \A x \in Workers \ {v} : worker'[x] = worker[x]
      BY <1>5, <2>1
    <3>3. \A x \in Workers : worker[x].gen \in Nat
      BY DEF TypeInv, TypeOK, Memories
    <3> QED BY <1>2, <1>3, <1>7, <2>1, <3>1, <3>2, <3>3
  <2>2. CASE v # w
    <3>1. worker'[v] = worker[v] /\ worker[v].pc # "idle" /\ worker[v].task \in Tasks
      BY <1>5, <1>8, <2>2 DEF LeaseInv, MemoryShape
    <3>2. worker[v].gen \in Nat
      BY DEF TypeInv, TypeOK, Memories
    <3>3. CASE worker[v].task = t
      <4>1. worker[v].gen < g /\ task'[t].gen = g
        BY <1>2, <1>5, <1>7, <3>3
      <4>2. \A x \in Workers \ {v} : worker'[x].task = t => worker'[x].gen # worker[v].gen
        BY <1>2, <1>3, <1>5, <3>1, <3>2, <3>3, <4>1 DEF LeaseInv, OneHolder
      <4> QED BY <1>3, <3>1, <3>2, <3>3, <4>1, <4>2
    <3>4. CASE worker[v].task # t
      BY <1>2, <1>5, <3>1, <3>4 DEF LeaseInv, OneHolder, Leased
    <3> QED BY <3>3, <3>4
  <2> QED BY <2>1, <2>2
<1>9. OneHolder'
  BY <1>8 DEF OneHolder, Leased
<1> QED BY <1>4, <1>6, <1>9 DEF LeaseInv

(* claim_agent_task, whichever way it goes.                                *)
LEMMA ClaimLease ==
  ASSUME TypeInv, LeaseInv, NEW w \in Workers, NEW t \in Tasks, Claim(w, t)
  PROVE  LeaseInv'
<1>1. CASE ClaimQueued(w, t) \/ ReclaimExpired(w, t)
  BY <1>1, LeaseToLease DEF ClaimQueued, ReclaimExpired, Claimable
<1>2. CASE ExhaustExpired(w, t)
  <2>1. /\ "failed" \in SettledStates
        /\ SettleRow(t, "failed", "lease_expired", task[t].result) /\ worker' = worker
    BY <1>2 DEF ExhaustExpired, SettledStates
  <2>2. MemoryKept
    BY <2>1, ForgetKeeps DEF LeaseInv
  <2> QED BY <2>1, <2>2, SettleLease
<1> QED BY <1>1, <1>2 DEF Claim

(* cancel_agent_task clears the lease of whoever holds it.                 *)
LEMMA CancelLease ==
  ASSUME TypeInv, LeaseInv, NEW t \in Tasks, CancelTask(t)
  PROVE  LeaseInv'
<1>1. /\ "cancelled" \in SettledStates
      /\ SettleRow(t, "cancelled", "cancelled", task[t].result) /\ worker' = worker
  BY DEF CancelTask, SettledStates
<1>2. MemoryKept
  BY <1>1 DEF MemoryKept, LeaseInv, MemoryShape
<1> QED BY <1>1, <1>2, SettleLease

(* Steps that touch neither the rows nor the queue.                        *)
LEMMA MemoryLease ==
  ASSUME LeaseInv, MemoryKept, task' = task, dispatch' = dispatch
  PROVE  LeaseInv'
<1>1. GenerationsKept
  BY DEF GenerationsKept
<1>2. DispatchExact'
  BY DEF LeaseInv, DispatchExact, Leased
<1> QED BY <1>1, <1>2, HoldersKept DEF LeaseInv

(* The worker steps that write no row.                                     *)
LEMMA MemoryStepLease ==
  ASSUME TypeInv, LeaseInv, NEW w \in Workers,
         \/ LoadTask(w) \/ AdapterAnswers(w) \/ DiscardAnswer(w)
         \/ FinalizeRefused(w) \/ LeaseLost(w) \/ HeartbeatBreaks(w) \/ Abandon(w)
  PROVE  LeaseInv'
<1>1. task' = task /\ dispatch' = dispatch
  BY DEF LoadTask, AdapterAnswers, DiscardAnswer, FinalizeRefused, LeaseLost,
         HeartbeatBreaks, Abandon, taskVars
<1>2. CASE Forget(w)
  BY <1>1, <1>2, ForgetKeeps, MemoryLease DEF LeaseInv
<1>3. CASE LoadTask(w) \/ AdapterAnswers(w) \/ HeartbeatBreaks(w)
  <2>1. /\ worker[w].pc # "idle" /\ worker'[w].pc # "idle"
        /\ worker'[w].task = worker[w].task /\ worker'[w].gen = worker[w].gen
        /\ \A v \in Workers : v # w => worker'[v] = worker[v]
    <3>1. worker \in [Workers -> Memories]
      BY DEF TypeInv, TypeOK
    <3>2. CASE LoadTask(w)
      <4>1. PICK pc \in {"loaded", "bad_pin"} : worker' = [worker EXCEPT ![w].pc = pc]
        BY <3>2 DEF LoadTask
      <4>2. worker[w].pc = "claimed" /\ pc # "idle"
        BY <3>2 DEF LoadTask
      <4> QED BY <3>1, <4>1, <4>2 DEF Memories
    <3>3. CASE AdapterAnswers(w)
      <4>1. PICK out \in AdapterCodes \cup RunStates :
               worker' = [worker EXCEPT ![w] = [worker[w] EXCEPT !.pc = "answered", !.out = out,
                                                                 !.beating = FALSE]]
        BY <3>3 DEF AdapterAnswers
      <4>2. worker[w].pc = "running"
        BY <3>3 DEF AdapterAnswers
      <4> QED BY <3>1, <4>1, <4>2 DEF Memories
    <3>4. CASE HeartbeatBreaks(w)
      BY <3>1, <3>4 DEF HeartbeatBreaks, Memories
    <3> QED BY <1>3, <3>2, <3>3, <3>4
  <2>2. MemoryKept
    BY <2>1 DEF MemoryKept, LeaseInv, MemoryShape
  <2> QED BY <1>1, <2>2, MemoryLease
<1> QED BY <1>2, <1>3 DEF DiscardAnswer, FinalizeRefused, LeaseLost, Abandon

(* start_agent_task_execution keeps generation, owner and expiry.          *)
LEMMA StartLease ==
  ASSUME TypeInv, LeaseInv, NEW w \in Workers, StartTask(w)
  PROVE  LeaseInv'
<1>1. PICK t \in Tasks : t = worker[w].task /\ Leased(t)
  BY HeldTask DEF StartTask
<1> DEFINE row == [task[t] EXCEPT !.state = "running"]
<1>2. /\ task' = [task EXCEPT ![t] = row]
      /\ dispatch' = [dispatch EXCEPT ![t] = dispatch[t]]
  BY <1>1 DEF StartTask, TypeInv, TypeOK
<1>3. /\ row.state = "running" /\ row.gen = task[t].gen
      /\ row.owner = task[t].owner /\ row.lease = task[t].lease
  BY DEF TypeInv, TypeOK, TaskRows
<1> HIDE DEF row
<1>4. DispatchExact'
  <2>1. RowExact(row, dispatch[t])
    BY <1>1, <1>3 DEF RowExact, LeaseInv, DispatchExact, Leased, LeasedStates
  <2> QED BY <1>2, <2>1, DispatchStep DEF LeaseInv
<1>5. GenerationsKept
  BY <1>1, <1>2, <1>3 DEF GenerationsKept, TypeInv, TypeOK, Leased
<1>6. MemoryKept
  <2>1. /\ worker[w].pc # "idle" /\ worker'[w].pc # "idle"
        /\ worker'[w].task = worker[w].task /\ worker'[w].gen = worker[w].gen
        /\ \A v \in Workers : v # w => worker'[v] = worker[v]
    BY DEF StartTask, TypeInv, TypeOK, Memories
  <2> QED BY <2>1 DEF MemoryKept, LeaseInv, MemoryShape
<1> QED BY <1>4, <1>5, <1>6, HoldersKept DEF LeaseInv

(* A heartbeat moves the lease and the queue row by the same amount.       *)
LEMMA HeartbeatLease ==
  ASSUME TypeInv, LeaseInv, NEW w \in Workers, Heartbeat(w)
  PROVE  LeaseInv'
<1>1. CASE Held(w)
  <2>1. PICK t \in Tasks : t = worker[w].task /\ Leased(t)
    BY <1>1, HeldTask
  <2> DEFINE row == [task[t] EXCEPT !.lease = LeaseTicks]
  <2>2. /\ task' = [task EXCEPT ![t] = row]
        /\ dispatch' = [dispatch EXCEPT ![t] = LeaseTicks]
        /\ worker' = worker
    BY <1>1, <2>1 DEF Heartbeat, ExtendLease
  <2>3. /\ row.state = task[t].state /\ row.gen = task[t].gen
        /\ row.owner = task[t].owner /\ row.lease = LeaseTicks
    BY DEF TypeInv, TypeOK, TaskRows
  <2> HIDE DEF row
  <2>4. DispatchExact'
    <3>1. RowExact(row, LeaseTicks)
      BY <2>1, <2>3 DEF RowExact, LeaseInv, DispatchExact, Leased, LeasedStates
    <3> QED BY <2>2, <3>1, DispatchStep DEF LeaseInv
  <2>5. GenerationsKept
    BY <2>2, <2>3 DEF GenerationsKept, TypeInv, TypeOK
  <2>6. MemoryKept
    BY <2>2, ForgetKeeps DEF LeaseInv
  <2> QED BY <2>4, <2>5, <2>6, HoldersKept DEF LeaseInv
<1>2. CASE ~Held(w)
  <2>1. /\ task' = task /\ dispatch' = dispatch
        /\ worker[w].pc # "idle" /\ worker'[w].pc # "idle"
        /\ worker'[w].task = worker[w].task /\ worker'[w].gen = worker[w].gen
        /\ \A v \in Workers : v # w => worker'[v] = worker[v]
    <3>1. /\ worker[w].pc = "running" /\ task' = task /\ dispatch' = dispatch
          /\ worker' = [worker EXCEPT ![w].beating = FALSE]
      BY <1>2 DEF Heartbeat
    <3>2. worker \in [Workers -> Memories]
      BY DEF TypeInv, TypeOK
    <3> QED BY <3>1, <3>2 DEF Memories
  <2>2. MemoryKept
    BY <2>1 DEF MemoryKept, LeaseInv, MemoryShape
  <2> QED BY <2>1, <2>2, MemoryLease
<1> QED BY <1>1, <1>2

(* fail_agent_task gives the lease up either way.                          *)
LEMMA FailLease ==
  ASSUME TypeInv, LeaseInv, NEW w \in Workers, FailTask(w)
  PROVE  LeaseInv'
<1> DEFINE code == FailureCode(w)
           state == TerminalState(code)
<1>1. PICK t \in Tasks : t = worker[w].task /\ Leased(t)
  BY HeldTask DEF FailTask
<1>2. MemoryKept
  BY ForgetKeeps DEF FailTask, LeaseInv
<1>3. CASE Requeue(w, t)
  <2> DEFINE row == [task[t] EXCEPT !.state = "queued", !.owner = NoWorker,
                                    !.lease = Gone, !.code = "none"]
  <2>1. task' = [task EXCEPT ![t] = row] /\ dispatch' = [dispatch EXCEPT ![t] = 0]
    BY <1>3 DEF Requeue
  <2>2. /\ row.state = "queued" /\ row.gen = task[t].gen
        /\ row.owner = NoWorker /\ row.lease = Gone
    BY DEF TypeInv, TypeOK, TaskRows
  <2> HIDE DEF row
  <2>3. DispatchExact'
    <3>1. RowExact(row, 0)
      BY <2>2 DEF RowExact, LeasedStates
    <3> QED BY <2>1, <3>1, DispatchStep DEF LeaseInv
  <2>4. GenerationsKept
    BY <2>1, <2>2 DEF GenerationsKept, TypeInv, TypeOK, LeasedStates
  <2> QED BY <1>2, <2>3, <2>4, HoldersKept DEF LeaseInv
<1>4. CASE SettleRow(t, state, code, task[t].result)
  <2>1. state \in SettledStates
    BY DEF TerminalState, SettledStates
  <2> HIDE DEF state, code
  <2> QED BY <1>2, <1>4, <2>1, SettleLease
<1> QED BY <1>1, <1>3, <1>4 DEF FailTask

(* finalize_agent_task_result settles the row.                             *)
LEMMA FinalizeLease ==
  ASSUME TypeInv, LeaseInv, NEW w \in Workers, FinalizeTask(w)
  PROVE  LeaseInv'
<1> DEFINE out == worker[w].out
<1>1. PICK t \in Tasks : t = worker[w].task
  BY HeldTask DEF FinalizeTask
<1>2. SettleRow(t, ResultState(out), ResultCode(out), Len(runs) + 1)
  BY <1>1 DEF FinalizeTask
<1>3. ResultState(out) \in SettledStates
  BY DEF FinalizeTask, ResultState, RunStates, SettledStates
<1>4. MemoryKept
  BY ForgetKeeps DEF FinalizeTask, LeaseInv
<1> QED BY <1>2, <1>3, <1>4, SettleLease

(* Time brings lease and queue row to zero together.                       *)
LEMMA TickLease ==
  ASSUME TypeInv, LeaseInv, Tick
  PROVE  LeaseInv'
<1>1. \A t \in Tasks :
         /\ task'[t].state = task[t].state /\ task'[t].gen = task[t].gen
         /\ task'[t].owner = task[t].owner /\ task'[t].lease = Later(task[t].lease)
         /\ dispatch'[t] = Later(dispatch[t])
         /\ task[t].lease \in {Gone} \cup Nat
  BY DEF Tick, TypeInv, TypeOK, TaskRows, LeaseTimes
<1>2. \A n \in {Gone} \cup Nat : Later(n) = Gone <=> n = Gone
  BY DEF Later
<1>3. Later(0) = 0
  BY DEF Later
<1>4. DispatchExact'
  BY <1>1, <1>2, <1>3 DEF LeaseInv, DispatchExact, Leased
<1>5. GenerationsKept
  BY <1>1 DEF GenerationsKept
<1>6. MemoryKept
  BY DEF Tick, MemoryKept, LeaseInv, MemoryShape
<1> QED BY <1>4, <1>5, <1>6, HoldersKept DEF LeaseInv

(* Every step keeps the lease invariant.                                   *)
LEMMA NextLease == TypeInv /\ LeaseInv /\ [Next]_vars => LeaseInv'
<1> SUFFICES ASSUME TypeInv, LeaseInv, [Next]_vars PROVE LeaseInv'
  OBVIOUS
<1>1. CASE CreateTask
  BY <1>1, InsertLease DEF CreateTask
<1>2. ASSUME NEW s \in Tasks, RetryTask(s) PROVE LeaseInv'
  BY <1>2, InsertLease DEF RetryTask
<1>3. ASSUME NEW t \in Tasks, CancelTask(t) PROVE LeaseInv'
  BY <1>3, CancelLease
<1>4. ASSUME NEW w \in Workers, NEW t \in Tasks, Claim(w, t) PROVE LeaseInv'
  BY <1>4, ClaimLease
<1>5. ASSUME NEW w \in Workers,
             WorkerStep(w) \/ Heartbeat(w) \/ HeartbeatBreaks(w) \/ Abandon(w)
      PROVE  LeaseInv'
  BY <1>5, MemoryStepLease, StartLease, HeartbeatLease, FailLease, FinalizeLease DEF WorkerStep
<1>6. CASE Tick
  BY <1>6, TickLease
<1>7. CASE Review \/ Decide \/ Promote \/ ConfirmFact \/ UNCHANGED vars
  <2>1. task' = task /\ dispatch' = dispatch /\ worker' = worker
    BY <1>7 DEF Review, Decide, Promote, ConfirmFact, vars, taskVars
  <2>2. MemoryKept
    BY <2>1 DEF MemoryKept, LeaseInv, MemoryShape
  <2> QED BY <2>1, <2>2, MemoryLease
<1> QED BY <1>1, <1>2, <1>3, <1>4, <1>5, <1>6, <1>7 DEF Next

(* The lease invariant holds in every reachable state.                     *)
LEMMA LeaseInvariant == Spec => []LeaseInv
  BY InitLease, NextLease, TypeInvariant, PTL DEF Spec

(* Exactly the active tasks have a queue row, available when their lease   *)
(* ends: no crash, cancel or retry loses a task from the queue.            *)
THEOREM DispatchExactAlways == Spec => []DispatchExact
<1>1. LeaseInv => DispatchExact
  BY DEF LeaseInv
<1> QED BY <1>1, LeaseInvariant, PTL

(* Lease generations fence: no two of any number of workers hold the same  *)
(* generation, and only the newest can own the row.                        *)
THEOREM OneHolderAlways == Spec => []OneHolder
<1>1. LeaseInv => OneHolder
  BY DEF LeaseInv
<1> QED BY <1>1, LeaseInvariant, PTL

(* A step that leaves the state, generation and owner of a row alone.      *)
LEMMA RowUntouched ==
  ASSUME NEW t \in Tasks, Leased(t), task'[t].state = task[t].state,
         task'[t].gen = task[t].gen, task'[t].owner = task[t].owner
  PROVE  LeaseKept(t)
  BY DEF LeaseKept, Leased

(* What worker steps do to an unexpired lease: the fence is the owner's.   *)
LEMMA WorkerLeases ==
  ASSUME TypeInv, LeaseInv, NEW w \in Workers, NEW t \in Tasks,
         Leased(t), task[t].lease > 0,
         WorkerStep(w) \/ Heartbeat(w) \/ HeartbeatBreaks(w) \/ Abandon(w)
  PROVE  LeaseKept(t)
<1>1. CASE task' = task
  BY <1>1, RowUntouched
<1>2. CASE StartTask(w)
  <2>1. worker[w].task \in Tasks /\ task' = [task EXCEPT ![worker[w].task].state = "running"]
    BY <1>2, HeldTask DEF StartTask
  <2>2. /\ task'[t].gen = task[t].gen /\ task'[t].owner = task[t].owner
        /\ task'[t].state \in {task[t].state, "running"}
    BY <2>1 DEF TypeInv, TypeOK, TaskRows
  <2> QED BY <2>2 DEF LeaseKept, Leased, LeasedStates
<1>3. CASE Heartbeat(w)
  <2>1. CASE Held(w)
    <3>1. /\ worker[w].task \in Tasks
          /\ task' = [task EXCEPT ![worker[w].task].lease = LeaseTicks]
      BY <1>3, <2>1, HeldTask DEF Heartbeat, ExtendLease
    <3>2. /\ task'[t].gen = task[t].gen /\ task'[t].owner = task[t].owner
          /\ task'[t].state = task[t].state
      BY <3>1 DEF TypeInv, TypeOK, TaskRows
    <3> QED BY <3>2, RowUntouched
  <2>2. CASE ~Held(w)
    BY <1>1, <1>3, <2>2 DEF Heartbeat
  <2> QED BY <2>1, <2>2
<1>4. CASE FailTask(w) \/ FinalizeTask(w)
  <2>1. Held(w) /\ worker'[w] = Idle
    BY <1>4 DEF FailTask, FinalizeTask, Forget, TypeInv, TypeOK
  <2>2. CASE t = worker[w].task
    BY <2>1, <2>2, HeldTask DEF LeaseKept
  <2>3. CASE t # worker[w].task
    <3>1. task'[t] = task[t]
      BY <1>4, <2>3 DEF FailTask, Requeue, FinalizeTask, SettleRow, TypeInv, TypeOK
    <3> QED BY <3>1, RowUntouched
  <2> QED BY <2>2, <2>3
<1> QED BY <1>1, <1>2, <1>3, <1>4
        DEF WorkerStep, LoadTask, AdapterAnswers, DiscardAnswer, FinalizeRefused, LeaseLost,
            HeartbeatBreaks, Abandon, taskVars

(* No step takes an unexpired lease away, save as LeaseKept allows.        *)
LEMMA NextLeases == TypeInv /\ LeaseInv /\ [Next]_vars => LeasesKept
<1> SUFFICES ASSUME TypeInv, LeaseInv, [Next]_vars,
                    NEW t \in Tasks, Leased(t), task[t].lease > 0
             PROVE  LeaseKept(t)
  BY DEF LeasesKept
<1>1. ASSUME NEW u \in Tasks, NEW op, NEW pack, NEW source, InsertTask(u, op, pack, source)
      PROVE  LeaseKept(t)
  <2>1. task'[t] = task[t]
    BY <1>1 DEF InsertTask, Absent, Leased, LeasedStates, TypeInv, TypeOK
  <2> QED BY <2>1, RowUntouched
<1>2. ASSUME NEW u \in Tasks, CancelTask(u) PROVE LeaseKept(t)
  <2>1. task'[u].state = "cancelled" /\ (u # t => task'[t] = task[t])
    BY <1>2 DEF CancelTask, SettleRow, TypeInv, TypeOK, TaskRows
  <2> QED BY <2>1, RowUntouched DEF LeaseKept
<1>3. ASSUME NEW w \in Workers, NEW u \in Tasks, Claim(w, u) PROVE LeaseKept(t)
  <2>1. dispatch[u] = 0
    BY <1>3 DEF Claim, ClaimQueued, ReclaimExpired, ExhaustExpired, Claimable
  <2>2. u # t
    BY <2>1 DEF LeaseInv, DispatchExact, Leased, LeasedStates
  <2>3. task'[t] = task[t]
    BY <1>3, <2>2 DEF Claim, ClaimQueued, ReclaimExpired, ExhaustExpired, LeaseTo, SettleRow,
                      TypeInv, TypeOK
  <2> QED BY <2>3, RowUntouched
<1>4. ASSUME NEW w \in Workers,
             WorkerStep(w) \/ Heartbeat(w) \/ HeartbeatBreaks(w) \/ Abandon(w)
      PROVE  LeaseKept(t)
  BY <1>4, WorkerLeases
<1>5. CASE Tick
  BY <1>5, RowUntouched DEF Tick, TypeInv, TypeOK, TaskRows
<1>6. CASE Review \/ Decide \/ Promote \/ ConfirmFact \/ UNCHANGED vars
  BY <1>6, RowUntouched DEF Review, Decide, Promote, ConfirmFact, vars, taskVars
<1> QED BY <1>1, <1>2, <1>3, <1>4, <1>5, <1>6 DEF Next, CreateTask, RetryTask

(* An unexpired lease ends by its holder or by a cancel: neither time nor  *)
(* another worker's claim, late answer or failure takes it away.           *)
THEOREM LeaseRespectedAlways == Spec => LeaseRespected
<1>1. TypeInv /\ LeaseInv /\ [Next]_vars => [LeasesKept]_vars
  BY NextLeases
<1> QED BY <1>1, TypeInvariant, LeaseInvariant, PTL DEF Spec, LeaseRespected

------------------------------------------------------------------------------
(***************************************************************************)
(* The history of a task: executions and events tell what the row went     *)
(* through.  What the two logs say of one row is stated of the row and the *)
(* logs alone, and made inductive by what the events say of a queued task. *)
(***************************************************************************)
Retries == {"retry_scheduled", "lease_reclaimed"}

Ledgered(row, ex) ==
    \A g \in Generations :
        /\ g > row.gen => ex[g] = "none"
        /\ g < row.gen => ex[g] = "retry_scheduled"
        /\ g = row.gen =>
              \/ ex[g] = LastExec(row.state)
              \/ row.state = "cancelled" /\ ex[g] = "retry_scheduled"
        /\ g = MaxAttempts => ex[g] # "retry_scheduled"

Count(log, codes) == Cardinality({i \in DOMAIN log : log[i] \in codes})

LastEvent(state) == CASE state = "queued" -> {"queued", "retry_scheduled"}
                      [] state = "leased" -> {"lease_acquired"}
                      [] state = "running" -> {"execution_started"}
                      [] OTHER -> {state}

Logged(row, log) ==
    IF row.state = "absent" THEN log = << >>
    ELSE /\ log # << >> /\ Head(log) = "queued"
         /\ Count(log, {"lease_acquired"}) = row.gen
         /\ log[Len(log)] \in LastEvent(row.state)
         /\ Count(log, SettledStates) = IF row.state \in ActiveStates THEN 0 ELSE 1
         /\ row.state = "queued" => Count(log, Retries) = row.gen
         /\ row.state \in LeasedStates => Count(log, Retries) = row.gen - 1

History == \A t \in Tasks : Ledgered(task[t], execs[t]) /\ Logged(task[t], events[t])

(* The history of the rows is what HistoryTruthful asks for.               *)
LEMMA HistoryIsTruthful ==
  ASSUME TypeInv, History
  PROVE  HistoryTruthful
<1>1. ExecutionLedger
  BY DEF History, Ledgered, ExecutionLedger
<1>2. ASSUME NEW t \in Tasks
      PROVE  /\ Absent(t) <=> events[t] = << >>
             /\ ~Absent(t) =>
                  /\ Head(events[t]) = "queued"
                  /\ CountEvents(t, {"lease_acquired"}) = task[t].gen
                  /\ LET last == events[t][Len(events[t])] IN
                     CASE task[t].state = "queued" -> last \in {"queued", "retry_scheduled"}
                       [] task[t].state = "leased" -> last = "lease_acquired"
                       [] task[t].state = "running" -> last = "execution_started"
                       [] OTHER -> last = task[t].state
                  /\ CountEvents(t, SettledStates) = IF Active(t) THEN 0 ELSE 1
                  /\ Leased(t) => CountEvents(t, {"retry_scheduled", "lease_reclaimed"})
                                      = task[t].gen - 1
  <2>1. Logged(task[t], events[t])
    BY DEF History
  <2>2. events[t][Len(events[t])] \in LastEvent(task[t].state) \/ Absent(t)
    BY <2>1 DEF Logged, Absent
  <2>3. ~Absent(t) => LET last == events[t][Len(events[t])] IN
                     CASE task[t].state = "queued" -> last \in {"queued", "retry_scheduled"}
                       [] task[t].state = "leased" -> last = "lease_acquired"
                       [] task[t].state = "running" -> last = "execution_started"
                       [] OTHER -> last = task[t].state
    BY <2>2 DEF LastEvent
  <2> QED BY <2>1, <2>3 DEF Logged, Absent, Active, Leased, CountEvents, Count, Retries
<1>3. EventLogTruthful
  BY <1>2 DEF EventLogTruthful
<1> QED BY <1>1, <1>3 DEF HistoryTruthful

(* One event more is counted, or not.                                      *)
LEMMA CountOne ==
  ASSUME NEW log \in Seq(EventCodes), NEW e \in EventCodes, NEW codes
  PROVE  /\ Count(log, codes) \in Nat
         /\ Count(log \o <<e>>, codes) = Count(log, codes) + (IF e \in codes THEN 1 ELSE 0)
<1> DEFINE S == {i \in DOMAIN log : log[i] \in codes}
           T == {i \in DOMAIN (log \o <<e>>) : (log \o <<e>>)[i] \in codes}
<1>1. /\ DOMAIN log = 1 .. Len(log) /\ Len(log) \in Nat
      /\ <<e>> \in Seq(EventCodes) /\ Len(<<e>>) = 1 /\ <<e>>[1] = e
  BY OneEvent
<1>2. /\ log \o <<e>> \in Seq(EventCodes)
      /\ Len(log \o <<e>>) = Len(log) + 1
      /\ \A i \in 1 .. Len(log) : (log \o <<e>>)[i] = log[i]
      /\ (log \o <<e>>)[Len(log) + 1] = e
  BY <1>1, ConcatProperties
<1>3. DOMAIN (log \o <<e>>) = 1 .. (Len(log) + 1)
  BY <1>2
<1>4. IsFiniteSet(S)
  <2>1. IsFiniteSet(1 .. Len(log))
    BY <1>1, FS_Interval
  <2> QED BY <1>1, <2>1, FS_Subset
<1>5. Len(log) + 1 \notin S
  BY <1>1
<1>6. T = IF e \in codes THEN S \cup {Len(log) + 1} ELSE S
  BY <1>1, <1>2, <1>3
<1>7. Count(log, codes) = Cardinality(S) /\ Count(log \o <<e>>, codes) = Cardinality(T)
  BY DEF Count
<1> HIDE DEF S, T
<1>8. Cardinality(S) \in Nat
  BY <1>4, FS_CardinalityType
<1>9. Cardinality(S \cup {Len(log) + 1}) = Cardinality(S) + 1
  BY <1>4, <1>5, FS_AddElement
<1> QED BY <1>6, <1>7, <1>8, <1>9

(* The ends of a log that grows.                                           *)
LEMMA LogEnds ==
  ASSUME NEW log \in Seq(EventCodes), NEW e \in EventCodes
  PROVE  /\ log \o <<e>> \in Seq(EventCodes) /\ log \o <<e>> # << >>
         /\ (log \o <<e>>)[Len(log \o <<e>>)] = e
         /\ Head(log \o <<e>>) = IF log = << >> THEN e ELSE Head(log)
<1>1. /\ Len(log) \in Nat /\ <<e>> \in Seq(EventCodes) /\ Len(<<e>>) = 1 /\ <<e>>[1] = e
  BY OneEvent
<1>2. /\ log \o <<e>> \in Seq(EventCodes)
      /\ Len(log \o <<e>>) = Len(log) + 1
      /\ \A i \in 1 .. Len(log) : (log \o <<e>>)[i] = log[i]
      /\ (log \o <<e>>)[Len(log) + 1] = e
  BY <1>1, ConcatProperties
<1>3. log \o <<e>> # << >>
  BY <1>1, <1>2
<1>4. Head(log \o <<e>>) = (log \o <<e>>)[1]
  BY <1>2, <1>3
<1>5. log # << >> => Len(log) >= 1 /\ Head(log) = log[1]
  BY <1>1
<1>6. log = << >> => Len(log) = 0
  OBVIOUS
<1> QED BY <1>1, <1>2, <1>3, <1>4, <1>5, <1>6

(* A step that writes the row and the logs of one task.                    *)
LEMMA HistoryStep ==
  ASSUME TypeInv, History, NEW t \in Tasks, NEW row, NEW ex, NEW log,
         task' = [task EXCEPT ![t] = row],
         execs' = [execs EXCEPT ![t] = ex],
         events' = [events EXCEPT ![t] = log],
         Ledgered(row, ex), Logged(row, log)
  PROVE  History'
<1>1. /\ task'[t] = row /\ execs'[t] = ex /\ events'[t] = log
      /\ \A u \in Tasks : u # t => task'[u] = task[u] /\ execs'[u] = execs[u]
                                   /\ events'[u] = events[u]
  BY DEF TypeInv, TypeOK
<1>2. ASSUME NEW u \in Tasks
      PROVE  Ledgered(task'[u], execs'[u]) /\ Logged(task'[u], events'[u])
  BY <1>1 DEF History
<1> QED BY <1>2 DEF History

(* A step that leaves states, generations and logs alone.                  *)
LEMMA HistoryStands ==
  ASSUME History, UNCHANGED <<execs, events>>,
         \A t \in Tasks : task'[t].state = task[t].state /\ task'[t].gen = task[t].gen
  PROVE  History'
  BY DEF History, Ledgered, Logged

(* The execution rows of a task that settles: the last one ends with it,   *)
(* unless a cancel finds it given up already.                              *)
ClosedAs(t, ex, state) ==
    \A g \in Generations :
        IF g # task[t].gen THEN ex[g] = execs[t][g]
        ELSE \/ ex[g] = LastExec(state)
             \/ state = "cancelled" /\ ex[g] = "retry_scheduled" /\ ex[g] = execs[t][g]

(* Settling an active task: the open execution ends with it, and one event *)
(* says so.                                                                *)
LEMMA SettleHistory ==
  ASSUME TypeInv, History, NEW t \in Tasks, Active(t), NEW state \in SettledStates,
         NEW code, NEW run, SettleRow(t, state, code, run), Log(t, <<state>>), NEW ex,
         execs' = [execs EXCEPT ![t] = ex], ClosedAs(t, ex, state)
  PROVE  History'
<1> DEFINE row == [task[t] EXCEPT !.state = state, !.owner = NoWorker, !.lease = Gone,
                                  !.code = code, !.result = run]
           log == events[t] \o <<state>>
<1>1. /\ task' = [task EXCEPT ![t] = row] /\ events' = [events EXCEPT ![t] = log]
  BY DEF SettleRow, Log
<1>2. row.state = state /\ row.gen = task[t].gen /\ task[t].gen \in Nat
  BY DEF TypeInv, TypeOK, TaskRows
<1>3. state \in EventCodes /\ state \notin ActiveStates /\ state \notin LeasedStates
      /\ state # "absent" /\ state # "queued" /\ state \notin Retries
      /\ state # "lease_acquired" /\ state # "leased" /\ state # "running"
  BY DEF SettledStates, EventCodes, ActiveStates, LeasedStates, Retries
<1>4. events[t] \in Seq(EventCodes)
  BY DEF TypeInv, TypeOK
<1>5. Ledgered(task[t], execs[t]) /\ Logged(task[t], events[t]) /\ task[t].state # "absent"
  BY DEF History, Active, ActiveStates
<1> HIDE DEF row
<1>6. Ledgered(row, ex)
  <2>1. LastExec(state) # "retry_scheduled"
    BY <1>3 DEF LastExec, SettledStates
  <2>2. ASSUME NEW g \in Generations
        PROVE  /\ g > row.gen => ex[g] = "none"
               /\ g < row.gen => ex[g] = "retry_scheduled"
               /\ g = row.gen =>
                     \/ ex[g] = LastExec(row.state)
                     \/ row.state = "cancelled" /\ ex[g] = "retry_scheduled"
               /\ g = MaxAttempts => ex[g] # "retry_scheduled"
    <3>1. CASE g # task[t].gen
      BY <1>2, <1>5, <3>1 DEF Ledgered, Generations, ClosedAs
    <3>2. CASE g = task[t].gen
      BY <1>2, <1>5, <2>1, <3>2 DEF Ledgered, Generations, ClosedAs
    <3> QED BY <3>1, <3>2
  <2> QED BY <2>2 DEF Ledgered
<1>7. Logged(row, log)
  <2>1. /\ log # << >> /\ log[Len(log)] = state /\ Head(log) = Head(events[t])
    BY <1>3, <1>4, <1>5, LogEnds DEF Logged
  <2>2. /\ Count(log, {"lease_acquired"}) = Count(events[t], {"lease_acquired"})
        /\ Count(log, SettledStates) = Count(events[t], SettledStates) + 1
    BY <1>3, <1>4, CountOne
  <2>3. state \in LastEvent(state)
    BY <1>3 DEF LastEvent
  <2> HIDE DEF log
  <2> QED BY <1>2, <1>3, <1>5, <2>1, <2>2, <2>3 DEF Logged, Active
<1> HIDE DEF log
<1> QED BY <1>1, <1>6, <1>7, HistoryStep

(* A new task: one event, no attempt.                                      *)
LEMMA InsertHistory ==
  ASSUME TypeInv, History, NEW t \in Tasks, NEW op, NEW pack, NEW source,
         InsertTask(t, op, pack, source)
  PROVE  History'
<1> DEFINE row == [task[t] EXCEPT !.state = "queued"]
           log == events[t] \o <<"queued">>
<1>1. /\ task' = [task EXCEPT ![t] = row] /\ events' = [events EXCEPT ![t] = log]
      /\ execs' = execs /\ task[t].state = "absent"
  BY DEF InsertTask, Log, Absent
<1>2. row.state = "queued" /\ row.gen = 0 /\ task[t].gen = 0
  BY <1>1 DEF TypeInv, TypeOK, TaskRows, AttemptsBounded, Absent
<1>3. Ledgered(task[t], execs[t]) /\ events[t] = << >> /\ << >> \in Seq(EventCodes)
  BY <1>1 DEF History, Logged
<1> HIDE DEF row
<1>4. Ledgered(row, execs[t])
  BY <1>2, <1>3 DEF Ledgered, Generations
<1>5. Logged(row, log)
  <2>1. "queued" \in EventCodes
    BY DEF EventCodes
  <2>2. /\ log # << >> /\ log[Len(log)] = "queued" /\ Head(log) = "queued"
    BY <1>3, <2>1, LogEnds
  <2>3. \A codes : Count(<< >>, codes) = 0
    <3>1. \A codes : {i \in DOMAIN << >> : << >>[i] \in codes} = {}
      OBVIOUS
    <3> QED BY <3>1, FS_EmptySet DEF Count
  <2>4. /\ Count(log, {"lease_acquired"}) = 0 /\ Count(log, SettledStates) = 0
        /\ Count(log, Retries) = 0
    <3>1. events[t] \in Seq(EventCodes)
      BY <1>3
    <3>2. \A codes : Count(log, codes)
                      = Count(events[t], codes) + (IF "queued" \in codes THEN 1 ELSE 0)
      BY <2>1, <3>1, CountOne
    <3>3. \A codes : Count(events[t], codes) = 0
      BY <1>3, <2>3
    <3> HIDE DEF log
    <3> QED BY <3>2, <3>3 DEF SettledStates, Retries
  <2>5. "queued" \in LastEvent("queued")
    BY DEF LastEvent
  <2> HIDE DEF log
  <2> QED BY <1>2, <2>2, <2>4, <2>5 DEF Logged, ActiveStates, LeasedStates
<1>6. execs' = [execs EXCEPT ![t] = execs[t]]
  BY <1>1 DEF TypeInv, TypeOK
<1> HIDE DEF log
<1> QED BY <1>1, <1>4, <1>5, <1>6, HistoryStep

(* A generation is handed out: the one before is given up, if it was open. *)
LEMMA LeaseToLedger ==
  ASSUME TypeInv, History, NEW w \in Workers, NEW t \in Tasks, Active(t), AttemptsLeft(t),
         LeaseTo(w, t), NEW row, row.state = "leased", row.gen = task[t].gen + 1, NEW ex,
         execs' = [execs EXCEPT ![t] = ex],
         ex = [h \in Generations |->
                 IF h = row.gen THEN "leased"
                 ELSE IF h = row.gen - 1 /\ execs[t][h] \in OpenExecs THEN "retry_scheduled"
                 ELSE execs[t][h]]
  PROVE  Ledgered(row, ex)
<1>1. task[t].gen \in Nat /\ task[t].gen < MaxAttempts /\ Ledgered(task[t], execs[t])
  BY DEF TypeInv, TypeOK, TaskRows, AttemptsLeft, History
<1>2. LastExec("leased") = "leased"
  BY DEF LastExec
<1>3. ASSUME NEW g \in Generations, g = task[t].gen
      PROVE  ex[g] = "retry_scheduled"
  <2>1. execs[t][g] = LastExec(task[t].state)
    BY <1>1, <1>3 DEF Ledgered, Active, ActiveStates
  <2>2. CASE task[t].state = "queued"
    BY <1>1, <1>3, <2>1, <2>2 DEF LastExec, OpenExecs
  <2>3. CASE task[t].state \in {"leased", "running"}
    BY <1>1, <1>3, <2>1, <2>3 DEF LastExec, OpenExecs
  <2> QED BY <2>2, <2>3 DEF Active, ActiveStates
<1>4. ASSUME NEW g \in Generations
      PROVE  /\ g > row.gen => ex[g] = "none"
             /\ g < row.gen => ex[g] = "retry_scheduled"
             /\ g = row.gen => ex[g] = "leased"
             /\ g = MaxAttempts => ex[g] # "retry_scheduled"
  <2>1. CASE g > row.gen
    BY <1>1, <2>1 DEF Ledgered, Generations
  <2>2. CASE g = row.gen
    BY <2>2, <1>1
  <2>3. CASE g < row.gen
    <3>1. CASE g = task[t].gen
      BY <1>1, <1>3, <3>1
    <3>2. CASE g < task[t].gen
      BY <1>1, <2>3, <3>2 DEF Ledgered, Generations, OpenExecs
    <3> QED BY <1>1, <2>3, <3>1, <3>2 DEF Generations
  <2> QED BY <1>1, <2>1, <2>2, <2>3 DEF Generations
<1> QED BY <1>2, <1>4 DEF Ledgered

(* What a lease adds to the log of an active task: a reason if the one     *)
(* before it expired, and the acquisition.                                 *)
LEMMA LeaseLog ==
  ASSUME TypeInv, History, NEW t \in Tasks, Active(t), NEW log, NEW row,
         row.state = "leased", row.gen = task[t].gen + 1,
         \/ task[t].state = "queued" /\ log = events[t] \o <<"lease_acquired">>
         \/ Leased(t) /\ log = events[t] \o <<"lease_reclaimed", "lease_acquired">>
  PROVE  Logged(row, log)
<1>1. /\ events[t] \in Seq(EventCodes) /\ task[t].gen \in Nat
      /\ Logged(task[t], events[t]) /\ task[t].state # "absent"
  BY DEF TypeInv, TypeOK, TaskRows, History, Active, ActiveStates
<1>2. {"lease_acquired", "lease_reclaimed"} \subseteq EventCodes
  BY DEF EventCodes
<1>3. "lease_acquired" \in LastEvent("leased")
  BY DEF LastEvent
<1>4. ASSUME NEW s \in Seq(EventCodes), s # << >>, Head(s) = "queued",
             Count(s, {"lease_acquired"}) = task[t].gen,
             Count(s, SettledStates) = 0, Count(s, Retries) = task[t].gen,
             log = s \o <<"lease_acquired">>
      PROVE  Logged(row, log)
  <2>1. log # << >> /\ log[Len(log)] = "lease_acquired" /\ Head(log) = "queued"
    BY <1>2, <1>4, LogEnds
  <2>2. \A codes : Count(log, codes)
                    = Count(s, codes) + (IF "lease_acquired" \in codes THEN 1 ELSE 0)
    BY <1>2, <1>4, CountOne
  <2>3. "lease_acquired" \notin SettledStates /\ "lease_acquired" \notin Retries
    BY DEF SettledStates, Retries
  <2>4. /\ Count(log, {"lease_acquired"}) = task[t].gen + 1
        /\ Count(log, SettledStates) = 0 /\ Count(log, Retries) = task[t].gen
    BY <1>1, <1>4, <2>2, <2>3
  <2> QED BY <1>1, <1>3, <2>1, <2>4 DEF Logged, ActiveStates, LeasedStates
<1>5. CASE task[t].state = "queued" /\ log = events[t] \o <<"lease_acquired">>
  BY <1>1, <1>4, <1>5 DEF Logged, ActiveStates
<1>6. CASE Leased(t) /\ log = events[t] \o <<"lease_reclaimed", "lease_acquired">>
  <2> DEFINE s == events[t] \o <<"lease_reclaimed">>
  <2>1. s \in Seq(EventCodes) /\ s # << >> /\ Head(s) = "queued"
    BY <1>1, <1>2, LogEnds DEF Logged
  <2>2. \A codes : Count(s, codes)
                    = Count(events[t], codes) + (IF "lease_reclaimed" \in codes THEN 1 ELSE 0)
    BY <1>1, <1>2, CountOne
  <2>3. /\ Count(s, {"lease_acquired"}) = task[t].gen
        /\ Count(s, SettledStates) = 0 /\ Count(s, Retries) = task[t].gen
    <3>1. /\ Count(events[t], {"lease_acquired"}) = task[t].gen
          /\ Count(events[t], SettledStates) = 0
          /\ Count(events[t], Retries) = task[t].gen - 1
      BY <1>1, <1>6 DEF Logged, Leased, LeasedStates, ActiveStates
    <3> HIDE DEF s
    <3> QED BY <1>1, <2>2, <3>1 DEF SettledStates, Retries
  <2>4. log = s \o <<"lease_acquired">>
    BY <1>1, <1>6
  <2> HIDE DEF s
  <2> QED BY <1>4, <2>1, <2>3, <2>4
<1> QED BY <1>5, <1>6

(* claim_agent_task: a first lease, a reclaimed one, or the end.           *)
LEMMA ClaimHistory ==
  ASSUME TypeInv, History, NEW w \in Workers, NEW t \in Tasks, Claim(w, t)
  PROVE  History'
<1>1. CASE ClaimQueued(w, t) \/ ReclaimExpired(w, t)
  <2>1. /\ LeaseTo(w, t) /\ Active(t) /\ AttemptsLeft(t)
    BY <1>1 DEF ClaimQueued, ReclaimExpired, Expired, Leased, LeasedStates, Active,
                ActiveStates, TypeInv, AttemptsBounded
  <2>2. PICK log : /\ events' = [events EXCEPT ![t] = log]
                   /\ \/ task[t].state = "queued" /\ log = events[t] \o <<"lease_acquired">>
                      \/ Leased(t) /\ log = events[t] \o <<"lease_reclaimed", "lease_acquired">>
    BY <1>1 DEF ClaimQueued, ReclaimExpired, Expired, Log
  <2> DEFINE g == NextGeneration(t)
             row == [task[t] EXCEPT !.state = "leased", !.gen = g, !.owner = w,
                                    !.lease = LeaseTicks, !.code = "none"]
             ex == [h \in Generations |->
                      IF h = row.gen THEN "leased"
                      ELSE IF h = row.gen - 1 /\ execs[t][h] \in OpenExecs THEN "retry_scheduled"
                      ELSE execs[t][h]]
  <2>3. row.state = "leased" /\ row.gen = g /\ g = task[t].gen + 1
    BY DEF TypeInv, TypeOK, TaskRows, NextGeneration
  <2>4. task' = [task EXCEPT ![t] = row]
    BY <2>1 DEF LeaseTo
  <2>5. execs' = [execs EXCEPT ![t] = ex]
    BY <2>1, <2>3 DEF LeaseTo
  <2> HIDE DEF row
  <2>6. Ledgered(row, ex)
    BY <2>1, <2>3, <2>5, LeaseToLedger
  <2>7. Logged(row, log)
    BY <2>1, <2>2, <2>3, LeaseLog
  <2> HIDE DEF ex
  <2> QED BY <2>2, <2>4, <2>5, <2>6, <2>7, HistoryStep
<1>2. CASE ExhaustExpired(w, t)
  <2> DEFINE ex == [g \in Generations |->
                      IF g = task[t].gen /\ execs[t][g] \in OpenExecs THEN "failed"
                      ELSE execs[t][g]]
  <2>1. /\ SettleRow(t, "failed", "lease_expired", task[t].result)
        /\ Log(t, <<"failed">>) /\ execs' = [execs EXCEPT ![t] = ex]
        /\ Leased(t) /\ Active(t) /\ "failed" \in SettledStates
    BY <1>2 DEF ExhaustExpired, CloseExec, Expired, Leased, LeasedStates, Active,
                ActiveStates, SettledStates
  <2>2. ClosedAs(t, ex, "failed")
    BY <2>1 DEF ClosedAs, History, Ledgered, LastExec, Leased, LeasedStates, OpenExecs
  <2> HIDE DEF ex
  <2> QED BY <2>1, <2>2, SettleHistory
<1> QED BY <1>1, <1>2 DEF Claim

(* cancel_agent_task closes the open execution, or finds none.             *)
LEMMA CancelHistory ==
  ASSUME TypeInv, History, NEW t \in Tasks, CancelTask(t)
  PROVE  History'
<1> DEFINE ex == [g \in Generations |->
                    IF g = task[t].gen /\ execs[t][g] \in OpenExecs THEN "cancelled"
                    ELSE execs[t][g]]
<1>1. /\ SettleRow(t, "cancelled", "cancelled", task[t].result)
      /\ Log(t, <<"cancelled">>) /\ execs' = [execs EXCEPT ![t] = ex]
      /\ Active(t) /\ "cancelled" \in SettledStates
  BY DEF CancelTask, CloseExec, SettledStates
<1>2. ClosedAs(t, ex, "cancelled")
  <2> SUFFICES ASSUME NEW g \in Generations, g = task[t].gen
               PROVE  \/ ex[g] = LastExec("cancelled")
                      \/ ex[g] = "retry_scheduled" /\ ex[g] = execs[t][g]
    BY DEF ClosedAs
  <2>1. execs[t][g] = LastExec(task[t].state)
    BY <1>1 DEF History, Ledgered, Active, ActiveStates
  <2>2. CASE task[t].state = "queued"
    BY <2>1, <2>2 DEF LastExec, OpenExecs
  <2>3. CASE task[t].state \in {"leased", "running"}
    BY <2>1, <2>3 DEF LastExec, OpenExecs
  <2> QED BY <1>1, <2>2, <2>3 DEF Active, ActiveStates
<1> HIDE DEF ex
<1> QED BY <1>1, <1>2, SettleHistory

(* start_agent_task: the leased execution runs.                            *)
LEMMA StartHistory ==
  ASSUME TypeInv, History, NEW w \in Workers, StartTask(w)
  PROVE  History'
<1> DEFINE t == worker[w].task
           row == [task[t] EXCEPT !.state = "running"]
           ex == [execs[t] EXCEPT ![worker[w].gen] = "running"]
           log == events[t] \o <<"execution_started">>
<1>1. t \in Tasks /\ task[t].gen = worker[w].gen /\ task[t].state = "leased"
  BY HeldTask DEF StartTask
<1>2. /\ task' = [task EXCEPT ![t] = row] /\ execs' = [execs EXCEPT ![t] = ex]
      /\ events' = [events EXCEPT ![t] = log]
  BY <1>1 DEF StartTask, Log, TypeInv, TypeOK
<1>3. /\ row.state = "running" /\ row.gen = task[t].gen /\ task[t].gen \in Nat
      /\ events[t] \in Seq(EventCodes) /\ execs[t] \in [Generations -> ExecStates]
  BY <1>1 DEF TypeInv, TypeOK, TaskRows
<1>4. Ledgered(task[t], execs[t]) /\ Logged(task[t], events[t])
  BY <1>1 DEF History
<1> HIDE DEF t, row
<1>5. Ledgered(row, ex)
  BY <1>1, <1>3, <1>4 DEF Ledgered, LastExec
<1>6. Logged(row, log)
  <2>1. "execution_started" \in EventCodes
    BY DEF EventCodes
  <2>2. /\ log # << >> /\ log[Len(log)] = "execution_started" /\ Head(log) = Head(events[t])
    BY <1>1, <1>3, <1>4, <2>1, LogEnds DEF Logged
  <2>3. \A codes : Count(log, codes)
                    = Count(events[t], codes) + (IF "execution_started" \in codes THEN 1 ELSE 0)
    BY <1>3, <2>1, CountOne
  <2>4. \A codes : Count(events[t], codes) \in Nat
    BY <1>3, <2>1, CountOne
  <2>5. /\ Count(log, {"lease_acquired"}) = Count(events[t], {"lease_acquired"})
        /\ Count(log, SettledStates) = Count(events[t], SettledStates)
        /\ Count(log, Retries) = Count(events[t], Retries)
    <3> HIDE DEF log
    <3> QED BY <2>3, <2>4 DEF SettledStates, Retries
  <2>6. "execution_started" \in LastEvent("running")
    BY DEF LastEvent
  <2> HIDE DEF log
  <2> QED BY <1>1, <1>3, <1>4, <2>2, <2>5, <2>6 DEF Logged, ActiveStates, LeasedStates
<1> HIDE DEF ex, log
<1> QED BY <1>1, <1>2, <1>5, <1>6, HistoryStep

(* fail_agent_task puts the task back: one retry more.                     *)
LEMMA RequeueHistory ==
  ASSUME TypeInv, History, NEW w \in Workers, NEW t \in Tasks,
         Leased(t), task[t].gen = worker[w].gen, AttemptsLeft(t), Requeue(w, t)
  PROVE  History'
<1> DEFINE row == [task[t] EXCEPT !.state = "queued", !.owner = NoWorker, !.lease = Gone,
                                  !.code = "none"]
           ex == [execs[t] EXCEPT ![worker[w].gen] = "retry_scheduled"]
           log == events[t] \o <<"retry_scheduled">>
<1>2. /\ task' = [task EXCEPT ![t] = row] /\ execs' = [execs EXCEPT ![t] = ex]
      /\ events' = [events EXCEPT ![t] = log]
  BY DEF Requeue, Log, TypeInv, TypeOK
<1>3. /\ row.state = "queued" /\ row.gen = task[t].gen /\ task[t].gen \in Nat
      /\ events[t] \in Seq(EventCodes) /\ execs[t] \in [Generations -> ExecStates]
      /\ task[t].gen < MaxAttempts
  BY DEF TypeInv, TypeOK, TaskRows, AttemptsLeft
<1>4. Ledgered(task[t], execs[t]) /\ Logged(task[t], events[t]) /\ task[t].state # "absent"
  BY DEF History, Leased, LeasedStates
<1> HIDE DEF row
<1>5. Ledgered(row, ex)
  BY <1>3, <1>4 DEF Ledgered, LastExec
<1>6. Logged(row, log)
  <2>1. "retry_scheduled" \in EventCodes
    BY DEF EventCodes
  <2>2. /\ log # << >> /\ log[Len(log)] = "retry_scheduled" /\ Head(log) = Head(events[t])
    BY <1>3, <1>4, <2>1, LogEnds DEF Logged
  <2>3. \A codes : Count(log, codes)
                    = Count(events[t], codes) + (IF "retry_scheduled" \in codes THEN 1 ELSE 0)
    BY <1>3, <2>1, CountOne
  <2>4. \A codes : Count(events[t], codes) \in Nat
    BY <1>3, <2>1, CountOne
  <2>5. /\ Count(log, {"lease_acquired"}) = Count(events[t], {"lease_acquired"})
        /\ Count(log, SettledStates) = Count(events[t], SettledStates)
        /\ Count(log, Retries) = Count(events[t], Retries) + 1
    <3> HIDE DEF log
    <3> QED BY <2>3, <2>4 DEF SettledStates, Retries
  <2>6. "retry_scheduled" \in LastEvent("queued")
    BY DEF LastEvent
  <2> HIDE DEF log
  <2> QED BY <1>3, <1>4, <2>2, <2>5, <2>6 DEF Logged, ActiveStates, LeasedStates, Leased
<1> HIDE DEF ex, log
<1> QED BY <1>2, <1>5, <1>6, HistoryStep

(* fail_agent_task settles the task when no retry is due.                  *)
LEMMA FailHistory ==
  ASSUME TypeInv, History, NEW w \in Workers, FailTask(w)
  PROVE  History'
<1> DEFINE t == worker[w].task
           code == FailureCode(w)
           state == TerminalState(code)
           ex == [execs[t] EXCEPT ![worker[w].gen] = state]
<1>1. t \in Tasks /\ Leased(t) /\ task[t].gen = worker[w].gen /\ Active(t)
  BY HeldTask DEF FailTask, Active, ActiveStates, Leased, LeasedStates
<1>2. CASE code \in RetryableCodes /\ AttemptsLeft(t)
  <2>1. Requeue(w, t)
    BY <1>2 DEF FailTask
  <2> HIDE DEF t
  <2> QED BY <1>1, <1>2, <2>1, RequeueHistory
<1>3. CASE ~(code \in RetryableCodes /\ AttemptsLeft(t))
  <2>1. /\ SettleRow(t, state, code, task[t].result)
        /\ execs' = [execs EXCEPT ![t][worker[w].gen] = state]
        /\ Log(t, <<state>>)
    BY <1>3 DEF FailTask
  <2>2. state \in {"timed_out", "blocked", "failed"}
    BY DEF TerminalState
  <2>3. state \in SettledStates /\ LastExec(state) = state
    BY <2>2 DEF SettledStates, LastExec
  <2> HIDE DEF state, code
  <2>4. execs' = [execs EXCEPT ![t] = ex]
    BY <1>1, <2>1 DEF TypeInv, TypeOK
  <2>5. ClosedAs(t, ex, state)
    BY <1>1, <2>3 DEF ClosedAs, TypeInv, TypeOK
  <2> HIDE DEF ex, t
  <2> QED BY <1>1, <2>1, <2>3, <2>4, <2>5, SettleHistory
<1> QED BY <1>2, <1>3

(* finalize_agent_task_result.                                             *)
LEMMA FinalizeHistory ==
  ASSUME TypeInv, History, NEW w \in Workers, FinalizeTask(w)
  PROVE  History'
<1> DEFINE t == worker[w].task
           out == worker[w].out
           state == ResultState(out)
           ex == [execs[t] EXCEPT ![worker[w].gen] = ResultExec(out)]
<1>1. t \in Tasks /\ Leased(t) /\ task[t].gen = worker[w].gen /\ Active(t)
  BY HeldTask DEF FinalizeTask, Active, ActiveStates, Leased, LeasedStates
<1>2. /\ SettleRow(t, state, ResultCode(out), Len(runs) + 1)
      /\ execs' = [execs EXCEPT ![t][worker[w].gen] = ResultExec(out)]
      /\ Log(t, <<state>>)
  BY DEF FinalizeTask
<1>3. state \in SettledStates /\ LastExec(state) = ResultExec(out)
  BY DEF FinalizeTask, RunStates, ResultState, ResultExec, SettledStates, LastExec
<1> HIDE DEF state
<1>4. execs' = [execs EXCEPT ![t] = ex]
  BY <1>1, <1>2 DEF TypeInv, TypeOK
<1>5. ClosedAs(t, ex, state)
  BY <1>1, <1>3 DEF ClosedAs, TypeInv, TypeOK
<1> HIDE DEF ex, t
<1> QED BY <1>1, <1>2, <1>3, <1>4, <1>5, SettleHistory

(* heartbeat_agent_task moves the end of the lease, time brings it closer. *)
LEMMA LeaseTimeHistory ==
  ASSUME TypeInv, History, Tick \/ \E w \in Workers : Heartbeat(w)
  PROVE  History'
<1>1. CASE Tick
  <2>1. \A t \in Tasks : task'[t].state = task[t].state /\ task'[t].gen = task[t].gen
    BY <1>1 DEF Tick, TypeInv, TypeOK, TaskRows
  <2> QED BY <1>1, <2>1, HistoryStands DEF Tick
<1>2. ASSUME NEW w \in Workers, Heartbeat(w)
      PROVE  History'
  <2>1. \A t \in Tasks : task'[t].state = task[t].state /\ task'[t].gen = task[t].gen
    <3> DEFINE h == worker[w].task
               row == [task[h] EXCEPT !.lease = LeaseTicks]
    <3>1. CASE Held(w)
      <4>1. h \in Tasks /\ task' = [task EXCEPT ![h].lease = LeaseTicks]
        BY <1>2, <3>1, HeldTask DEF Heartbeat, ExtendLease
      <4> HIDE DEF h
      <4>2. task' = [task EXCEPT ![h] = row]
        BY <4>1 DEF TypeInv, TypeOK
      <4>3. task[h] \in TaskRows
        BY <4>1 DEF TypeInv, TypeOK
      <4>4. row.state = task[h].state /\ row.gen = task[h].gen
        BY <4>3 DEF TaskRows
      <4> HIDE DEF row
      <4> QED BY <4>1, <4>2, <4>4 DEF TypeInv, TypeOK
    <3>2. CASE ~Held(w)
      BY <1>2, <3>2 DEF Heartbeat
    <3> QED BY <3>1, <3>2
  <2> QED BY <1>2, <2>1, HistoryStands DEF Heartbeat
<1> QED BY <1>1, <1>2

(* Empty rows have an empty history.                                       *)
LEMMA InitHistory == Init => History
<1> SUFFICES ASSUME Init, NEW t \in Tasks
             PROVE  Ledgered(task[t], execs[t]) /\ Logged(task[t], events[t])
  BY DEF History
<1>1. /\ task[t].state = "absent" /\ task[t].gen = 0 /\ events[t] = << >>
      /\ execs[t] = [g \in Generations |-> "none"]
  BY DEF Init, NoRow
<1> QED BY <1>1 DEF Ledgered, Logged, Generations

(* Every step extends the history it found.                                *)
LEMMA NextHistory ==
  ASSUME TypeInv, History, [Next]_vars
  PROVE  History'
<1>1. CASE CreateTask
  BY <1>1, InsertHistory DEF CreateTask
<1>2. ASSUME NEW t \in Tasks, RetryTask(t)
      PROVE  History'
  BY <1>2, InsertHistory DEF RetryTask
<1>3. ASSUME NEW t \in Tasks, CancelTask(t)
      PROVE  History'
  BY <1>3, CancelHistory
<1>4. ASSUME NEW w \in Workers, NEW t \in Tasks, Claim(w, t)
      PROVE  History'
  BY <1>4, ClaimHistory
<1>5. CASE Tick \/ \E w \in Workers : Heartbeat(w)
  BY <1>5, LeaseTimeHistory
<1>6. ASSUME NEW w \in Workers, StartTask(w) \/ FailTask(w) \/ FinalizeTask(w)
      PROVE  History'
  BY <1>6, StartHistory, FailHistory, FinalizeHistory
<1>7. ASSUME NEW w \in Workers,
             \/ LoadTask(w) \/ AdapterAnswers(w) \/ DiscardAnswer(w)
             \/ FinalizeRefused(w) \/ LeaseLost(w) \/ HeartbeatBreaks(w) \/ Abandon(w)
      PROVE  UNCHANGED taskVars
  BY <1>7 DEF LoadTask, AdapterAnswers, DiscardAnswer, FinalizeRefused, LeaseLost,
              HeartbeatBreaks, Abandon
<1>8. (Review \/ Decide \/ Promote \/ ConfirmFact \/ UNCHANGED vars) => UNCHANGED taskVars
  BY DEF Review, Decide, Promote, ConfirmFact, vars
<1>9. UNCHANGED taskVars => History'
  BY HistoryStands DEF taskVars
<1> QED BY <1>1, <1>2, <1>3, <1>4, <1>5, <1>6, <1>7, <1>8, <1>9 DEF Next, WorkerStep

(* Hence the history holds in every reachable state ...                    *)
LEMMA HistoryInvariant == Spec => []History
<1>1. Init => History
  BY InitHistory
<1>2. TypeInv /\ History /\ [Next]_vars => History'
  BY NextHistory
<1> QED BY <1>1, <1>2, TypeInvariant, PTL DEF Spec

(* ... and the executions and events of a task are its true history: what  *)
(* a client reads of attempts, reasons and endings is what the row went    *)
(* through, for any number of tasks, workers and attempts.                 *)
THEOREM HistoryTruthfulAlways == Spec => []HistoryTruthful
<1>1. TypeInv /\ History => HistoryTruthful
  BY HistoryIsTruthful
<1> QED BY <1>1, TypeInvariant, HistoryInvariant, PTL

-----------------------------------------------------------------------------
(***************************************************************************)
(* The rows of a Case tell one story: RecordsAgree in every reachable      *)
(* state, and on it that work under way is never stale, that a run the     *)
(* advisor cannot review is the end of the Case, that every step is one of *)
(* TaskContract, that both reads of the connected demo agree and that what *)
(* they offer is accepted.  The invariant is RecordInv: what RecordsAgree  *)
(* says with what the rows say of rows that do not exist yet.              *)
(***************************************************************************)
HIDE OperationsAssumption

(* No row refers to a run that is not there, and only reviewable runs have *)
(* a review.                                                               *)
RunsKnown ==
    /\ current \subseteq RunIds
    /\ \A r \in RunIds : runs[r].task \in Tasks
    /\ \A v \in reviews : v.run \in RunIds /\ runs[v.run].state = "review_required"

(* The rows of tasks are filled in order, the first one ends the intake,   *)
(* and a pin names the predecessor of its revision and that run's pack.    *)
PinsSound ==
    \A t \in Tasks :
        /\ Absent(t) => pin[t] = NoPin /\ task[t].result = NoRun
        /\ ~Absent(t) =>
              /\ caseState # "intake"
              /\ pin[t].rev \in 1 .. revision
              /\ pin[t].pred = lineage[pin[t].rev]
              /\ pin[t].pred # NoRun =>
                     pin[t].pred \in RunIds /\ runs[pin[t].pred].pack = pin[t].pack
              /\ \A u \in 1 .. t - 1 : ~Absent(u)

(* Every promotion made a new version of the pack, for one revision.       *)
PacksSound ==
    /\ packs >= BaselinePack
    /\ \A n \in Revisions : promoted[n] # NoPack => promoted[n] \in BaselinePack + 1 .. packs
    /\ \A m, n \in Revisions : promoted[m] = promoted[n] /\ promoted[m] # NoPack => m = n
    /\ \A t \in Tasks : pin[t].op = "mixed" =>
           pin[t].pack # NoPack /\ promoted[pin[t].rev] = pin[t].pack

RecordInv == /\ RunsKnown /\ PinsSound /\ PacksSound /\ ResultExact /\ RetryOnce
             /\ CurrentRunFresh /\ LineageSound /\ CaseStateWitnessed

(* A worker that is not idle works on an attempt of a task that exists,    *)
(* and a result it has computed was read with the pack the operation asks  *)
(* for.                                                                    *)
AnswersPinned ==
    \A w \in Workers : worker[w].pc # "idle" =>
        LET t == worker[w].task IN
        /\ t \in Tasks /\ ~Absent(t) /\ worker[w].gen > 0
        /\ worker[w].pc = "answered" /\ worker[w].out \in RunStates =>
               \/ pin[t].op = "synthetic" /\ pin[t].pack = BaselinePack
               \/ pin[t].op = "mixed"

-----------------------------------------------------------------------------
(* The rows before a row are rows, and what types say of a run and a pin.  *)
LEMMA EarlierTask ==
  ASSUME NEW t \in Tasks, NEW u \in 1 .. t - 1
  PROVE  u \in Tasks /\ u < t
  BY DEF Tasks

LEMMA RunTyped ==
  ASSUME TypeOK, NEW r \in RunIds
  PROVE  /\ runs[r] \in [task : Nat, rev : Revisions, pack : Nat, state : RunStates,
                          supersedes : Nat]
         /\ r \in Nat \ {0}
<1> DEFINE Rows == [task : Nat, rev : Revisions, pack : Nat, state : RunStates,
                    supersedes : Nat]
<1>1. runs \in Seq(Rows) /\ r \in 1 .. Len(runs)
  BY DEF TypeOK, CaseTypeOK, RunIds
<1> HIDE DEF Rows
<1>2. runs[r] \in Rows
  BY <1>1, ElementOfSeq
<1>3. Len(runs) \in Nat
  BY <1>1, LenProperties
<1>4. r \in Nat \ {0}
  BY <1>1, <1>3
<1> QED BY <1>2, <1>4 DEF Rows

LEMMA PinTyped ==
  ASSUME TypeOK, NEW t \in Tasks, pin[t].from # NoTask
  PROVE  pin[t].from \in Tasks
<1>1. pin[t] \in PinRows
  BY DEF TypeOK
<1>2. pin[t].from \in 0 .. MaxTasks
  BY <1>1 DEF PinRows
<1> QED BY <1>2 DEF Tasks

(* At the start there is nothing to disagree about.                        *)
LEMMA InitRecords == Init => RecordInv /\ AnswersPinned
<1> SUFFICES ASSUME Init PROVE RecordInv /\ AnswersPinned
  OBVIOUS
<1>1. /\ runs = << >> /\ RunIds = {} /\ current = {} /\ reviews = {}
      /\ openBriefs = {} /\ decisions = {} /\ caseState = "intake" /\ packs = BaselinePack
      /\ lineage = [r \in Revisions |-> NoRun] /\ promoted = [r \in Revisions |-> NoPack]
  BY DEF Init, CaseInit, RunIds
<1>2. \A t \in Tasks : pin[t] = NoPin /\ task[t] = NoRow
  BY DEF Init
<1>3. RunsKnown /\ CurrentRunFresh /\ LineageSound /\ CaseStateWitnessed
  BY <1>1 DEF RunsKnown, CurrentRunFresh, LineageSound, CaseStateWitnessed
<1>4. PinsSound /\ PacksSound
  BY <1>1, <1>2 DEF PinsSound, PacksSound, NoPin, NoRow, Absent
<1>5. ResultExact
  BY <1>1, <1>2 DEF ResultExact, NoRow
<1>6. RetryOnce
  BY <1>2 DEF RetryOnce, NoPin
<1>7. AnswersPinned
  BY DEF Init, Idle, AnswersPinned
<1> QED BY <1>3, <1>4, <1>5, <1>6, <1>7 DEF RecordInv

(* What the steps have in common that neither create a task nor persist a  *)
(* result: the Case and the pins stay, a settled row stays as it is, and   *)
(* no task comes to wait for a review.                                     *)
Minor ==
    /\ UNCHANGED <<caseVars, pin>>
    /\ \A t \in Tasks :
           /\ task'[t].result = task[t].result
           /\ Absent(t)' <=> Absent(t)
           /\ ~Active(t) => task'[t].state = task[t].state /\ task'[t].code = task[t].code
           /\ Active(t) => task'[t].state # "waiting_review"

(* A settled task with a result has the outcome of its run; one that is    *)
(* still active has none.                                                  *)
LEMMA ActiveHasNoRun ==
  ASSUME TypeInv, RunsKnown, ResultExact, NEW t \in Tasks, Active(t)
  PROVE  task[t].result = NoRun
<1> SUFFICES ASSUME task[t].result # NoRun PROVE FALSE
  OBVIOUS
<1>1. task[t].result \in RunIds /\ task[t].state = ResultState(runs[task[t].result].state)
  BY DEF ResultExact
<1>2. runs[task[t].result].state \in RunStates
  BY <1>1, RunTyped DEF TypeInv
<1> QED BY <1>1, <1>2 DEF Active, ActiveStates, ResultState, RunStates

(* Such a step leaves every row in agreement.                              *)
LEMMA MinorRecords ==
  ASSUME TypeInv, RecordInv, Minor
  PROVE  RecordInv'
<1>1. RunIds' = RunIds
  BY DEF Minor, caseVars, RunIds
<1>2. RunsKnown' /\ CurrentRunFresh' /\ LineageSound' /\ CaseStateWitnessed'
  BY <1>1 DEF Minor, caseVars, RecordInv, RunsKnown, CurrentRunFresh, LineageSound,
              CaseStateWitnessed, Reviewed, ReviewsOf
<1>3. PinsSound' /\ PacksSound'
  BY <1>1, EarlierTask DEF Minor, caseVars, RecordInv, PinsSound, PacksSound
<1>4. ResultExact'
  <2>1. \A t \in Tasks : task[t].result # NoRun => ~Active(t)
    BY ActiveHasNoRun DEF RecordInv
  <2> QED BY <1>1, <2>1 DEF Minor, caseVars, RecordInv, ResultExact
<1>5. RetryOnce'
  <2>1. \A s \in Tasks : RecoverableEnd(s) => ~Active(s)
    BY DEF RecoverableEnd, Active, ActiveStates
  <2>2. \A s \in Tasks : RecoverableEnd(s) => RecoverableEnd(s)'
    BY <2>1 DEF Minor, RecoverableEnd
  <2> QED BY <2>2, PinTyped DEF TypeInv, Minor, RecordInv, RetryOnce
<1> QED BY <1>2, <1>3, <1>4, <1>5 DEF RecordInv

(* A terminal transition without a result is such a step.                  *)
LEMMA SettleMinor ==
  ASSUME TypeInv, NEW t \in Tasks, Active(t), NEW state \in SettledStates \ {"waiting_review"},
         NEW code, SettleRow(t, state, code, task[t].result), UNCHANGED <<caseVars, pin>>
  PROVE  Minor
  BY DEF TypeInv, TypeOK, TaskRows, SettleRow, Minor, Active, Absent, ActiveStates, SettledStates

(* Claiming leases or settles an active task.                              *)
LEMMA ClaimMinor ==
  ASSUME TypeInv, NEW w \in Workers, NEW t \in Tasks, Claim(w, t)
  PROVE  Minor
<1>1. Active(t) /\ UNCHANGED <<caseVars, pin>>
  BY LeasedIsActive DEF Claim, ClaimQueued, ReclaimExpired, ExhaustExpired, Expired, LeaseTo,
     Active, ActiveStates
<1>2. CASE LeaseTo(w, t)
  BY <1>1, <1>2 DEF LeaseTo, TypeInv, TypeOK, TaskRows, Minor, Active, Absent, ActiveStates
<1>3. CASE ExhaustExpired(w, t)
  BY <1>1, <1>3, SettleMinor DEF ExhaustExpired, SettledStates
<1> QED BY <1>2, <1>3 DEF Claim, ClaimQueued, ReclaimExpired

(* Short of a result, so are the steps of a worker.                        *)
LEMMA WorkerMinor ==
  ASSUME TypeInv, NEW w \in Workers,
         WorkerStep(w) \/ Heartbeat(w) \/ HeartbeatBreaks(w) \/ Abandon(w),
         ~FinalizeTask(w)
  PROVE  Minor
<1> DEFINE t == worker[w].task
<1>1. Held(w) => t \in Tasks /\ Active(t)
  BY HeldTask, LeasedIsActive
<1>2. CASE StartTask(w)
  BY <1>1, <1>2
  DEF StartTask, TypeInv, TypeOK, TaskRows, Minor, Active, Absent, ActiveStates, caseVars
<1>3. CASE Heartbeat(w)
  <2>1. CASE Held(w)
    <3>1. task' = [task EXCEPT ![t].lease = LeaseTicks] /\ UNCHANGED <<caseVars, pin>>
      BY <1>3, <2>1 DEF Heartbeat, ExtendLease
    <3>2. task[t].state # "waiting_review"
      BY <1>1, <2>1 DEF Active, ActiveStates
    <3> QED BY <1>1, <2>1, <3>1, <3>2
            DEF TypeInv, TypeOK, TaskRows, Minor, Active, Absent, ActiveStates
  <2>2. CASE ~Held(w)
    BY <1>3, <2>2 DEF Heartbeat, TypeInv, TypeOK, TaskRows, Minor, Active, Absent, ActiveStates
  <2> QED BY <2>1, <2>2
<1>4. CASE FailTask(w)
  <2> DEFINE code == FailureCode(w)
             state == TerminalState(code)
  <2>1. Held(w) /\ UNCHANGED <<caseVars, pin>>
    BY <1>4 DEF FailTask
  <2>2. CASE Requeue(w, t)
    BY <1>1, <2>1, <2>2
    DEF Requeue, TypeInv, TypeOK, TaskRows, Minor, Active, Absent, ActiveStates, caseVars
  <2>3. CASE SettleRow(t, state, code, task[t].result)
    <3>1. state \in SettledStates \ {"waiting_review"}
      BY DEF TerminalState, SettledStates
    <3> QED BY <1>1, <2>1, <2>3, <3>1, SettleMinor
  <2> QED BY <1>4, <2>2, <2>3 DEF FailTask
<1>5. CASE UNCHANGED <<caseVars, taskVars>>
  BY <1>5 DEF Minor, caseVars, taskVars, Active, Absent, TypeInv, TypeOK, TaskRows, ActiveStates
<1> QED BY <1>2, <1>3, <1>4, <1>5
        DEF WorkerStep, LoadTask, AdapterAnswers, DiscardAnswer, FinalizeRefused, LeaseLost,
            HeartbeatBreaks, Abandon

(* A new row refers to nothing that could disagree with it: a first task   *)
(* to none, a retry to a source that has ended and has no other successor. *)
LEMMA InsertRecords ==
  ASSUME TypeInv, RecordInv, NEW t \in Tasks, NEW op, NEW pack, NEW source,
         InsertTask(t, op, pack, source),
         \/ source = NoTask
         \/ source \in Tasks /\ RetryEligible(source)
            /\ op = pin[source].op /\ pack = pin[source].pack
  PROVE  RecordInv'
<1> DEFINE pins == [op |-> op, rev |-> revision, pack |-> pack,
                    pred |-> lineage[revision], from |-> source]
<1>1. /\ Absent(t) /\ \A u \in 1 .. t - 1 : ~Absent(u)
      /\ AdmitsTask(op, pack)
      /\ caseState' = "planning"
      /\ UNCHANGED <<revision, lineage, runs, current, reviews, briefs, openBriefs,
                     decisions, packs, promoted>>
  BY DEF InsertTask, StartPlanning
<1>2. /\ task'[t].state = "queued" /\ task'[t].result = task[t].result
      /\ \A u \in Tasks \ {t} : task'[u] = task[u]
      /\ pin'[t] = pins
      /\ \A u \in Tasks \ {t} : pin'[u] = pin[u]
  BY DEF InsertTask, TypeInv, TypeOK, TaskRows
<1>3. /\ ~Absent(t)'
      /\ \A u \in Tasks : ~Absent(u) => u # t /\ ~Absent(u)'
  BY <1>1, <1>2 DEF Absent
<1>4. RunIds' = RunIds
  BY <1>1 DEF RunIds
<1>5. RunsKnown' /\ CurrentRunFresh' /\ LineageSound'
  BY <1>1, <1>4 DEF RecordInv, RunsKnown, CurrentRunFresh, LineageSound, Reviewed
<1>6. CaseStateWitnessed'
  BY <1>1 DEF RecordInv, CaseStateWitnessed, ReviewsOf, AdmitsTask
<1>7. PinsSound'
  <2> SUFFICES ASSUME NEW v \in Tasks
               PROVE  (/\ Absent(v) => pin[v] = NoPin /\ task[v].result = NoRun
                       /\ ~Absent(v) =>
                             /\ caseState # "intake"
                             /\ pin[v].rev \in 1 .. revision
                             /\ pin[v].pred = lineage[pin[v].rev]
                             /\ pin[v].pred # NoRun =>
                                  pin[v].pred \in RunIds /\ runs[pin[v].pred].pack = pin[v].pack
                             /\ \A u \in 1 .. v - 1 : ~Absent(u))'
    BY DEF PinsSound
  <2>1. CASE v = t
    <3>1. revision \in 1 .. revision
      BY DEF TypeInv, TypeOK, CaseTypeOK, Revisions
    <3>2. lineage[revision] # NoRun => lineage[revision] \in RunIds
                                       /\ runs[lineage[revision]].pack = pack
      BY <1>1 DEF RecordInv, LineageSound, AdmitsTask, TypeInv, TypeOK, CaseTypeOK
    <3> QED BY <1>1, <1>2, <1>3, <1>4, <2>1, <3>1, <3>2, EarlierTask
  <2>2. CASE v # t
    BY <1>1, <1>2, <1>3, <1>4, <2>2, EarlierTask DEF RecordInv, PinsSound, Absent
  <2> QED BY <2>1, <2>2
<1>8. PacksSound'
  <2>1. op = "mixed" => pack # NoPack /\ promoted[revision] = pack
    BY <1>1 DEF AdmitsTask, TypeInv, TypeOK, CaseTypeOK
  <2>2. \A u \in Tasks : pin'[u].op = "mixed" =>
            pin'[u].pack # NoPack /\ promoted[pin'[u].rev] = pin'[u].pack
    BY <1>2, <2>1 DEF RecordInv, PacksSound
  <2> QED BY <1>1, <2>2 DEF RecordInv, PacksSound
<1>9. ResultExact'
  <2>1. task[t].result = NoRun
    BY <1>1 DEF RecordInv, PinsSound
  <2> QED BY <1>1, <1>2, <1>4, <2>1 DEF RecordInv, ResultExact
<1>10. RetryOnce'
  <2> SUFFICES ASSUME NEW v \in Tasks, NEW u \in Tasks, NEW s, s = pin'[v].from, s # NoTask
               PROVE  /\ s < v
                      /\ [pin'[v] EXCEPT !.from = pin'[s].from] = pin'[s]
                      /\ RecoverableEnd(s)' /\ task'[s].result = NoRun
                      /\ u # v => pin'[u].from # s
    BY DEF RetryOnce
  <2>1. \A x \in Tasks : RecoverableEnd(x) => x # t /\ ~Absent(x) /\ RecoverableEnd(x)'
    BY <1>1, <1>2 DEF RecoverableEnd, Absent
  <2>2. CASE v = t
    <3>1. s = source /\ s \in Tasks /\ RetryEligible(s) /\ op = pin[s].op /\ pack = pin[s].pack
      BY <1>2, <2>2
    <3>2. /\ pin[s].rev = revision /\ task[s].result = NoRun /\ RecoverableEnd(s)
          /\ \A x \in Tasks : pin[x].from # s
      BY <3>1 DEF RetryEligible
    <3>3. s # t /\ ~Absent(s) /\ pin'[s] = pin[s] /\ task'[s] = task[s]
      BY <1>2, <2>1, <3>1, <3>2
    <3>4. s < t
      <4>1. t \notin 1 .. s - 1
        BY <1>1, <3>1, <3>3 DEF RecordInv, PinsSound
      <4> QED BY <3>1, <3>3, <4>1 DEF Tasks
    <3>5. pin[s].pred = lineage[revision] /\ pin[s] \in PinRows
      BY <3>1, <3>2, <3>3 DEF RecordInv, PinsSound, TypeInv, TypeOK
    <3>6. [pins EXCEPT !.from = pin[s].from] = pin[s]
      BY <3>1, <3>2, <3>5 DEF PinRows
    <3> QED BY <1>2, <2>1, <2>2, <3>1, <3>2, <3>3, <3>4, <3>6
  <2>3. CASE v # t
    <3>1. s = pin[v].from /\ s \in Tasks
      BY <1>2, <2>3, PinTyped DEF TypeInv
    <3>2. /\ s < v /\ [pin[v] EXCEPT !.from = pin[s].from] = pin[s]
          /\ RecoverableEnd(s) /\ task[s].result = NoRun
          /\ u # v => pin[u].from # s
      BY <3>1 DEF RecordInv, RetryOnce
    <3>3. s # t /\ pin'[s] = pin[s] /\ task'[s] = task[s] /\ RecoverableEnd(s)'
      BY <1>2, <2>1, <3>1, <3>2
    <3>4. source # s
      BY <3>1 DEF RetryEligible
    <3> QED BY <1>2, <2>3, <3>1, <3>2, <3>3, <3>4
  <2> QED BY <2>2, <2>3
<1> QED BY <1>5, <1>6, <1>7, <1>8, <1>9, <1>10 DEF RecordInv

(* What persist_planning_result does to the runs: the new one is the only  *)
(* current one, and it is the one its task names.                          *)
LEMMA FinalizeRows ==
  ASSUME TypeInv, NEW w \in Workers, FinalizeTask(w),
         NEW t, t = worker[w].task, NEW n, n = Len(runs) + 1
  PROVE  /\ t \in Tasks /\ Active(t) /\ worker[w].out \in RunStates
         /\ n \in Nat \ {0} /\ n \notin RunIds /\ RunIds' = RunIds \cup {n}
         /\ \A r \in RunIds : runs'[r] = runs[r]
         /\ runs'[n] = [task |-> t, rev |-> pin[t].rev, pack |-> pin[t].pack,
                        state |-> worker[w].out, supersedes |-> pin[t].pred]
         /\ current = {} /\ current' = {n}
         /\ ResultFitsCase(pin[t].rev, pin[t].pred)
         /\ caseState' = IF worker[w].out = "review_required" THEN "advisor_review" ELSE "planning"
         /\ UNCHANGED <<revision, lineage, reviews, briefs, openBriefs, decisions,
                        packs, promoted, pin>>
         /\ task'[t].state = ResultState(worker[w].out) /\ task'[t].result = n
         /\ \A u \in Tasks \ {t} : task'[u] = task[u]
<1> DEFINE out == worker[w].out
           run == [task |-> t, rev |-> pin[t].rev, pack |-> pin[t].pack,
                   state |-> out, supersedes |-> pin[t].pred]
<1>1. /\ out \in RunStates /\ Held(w)
      /\ PersistPlanningResult(t, pin[t].rev, pin[t].pack, pin[t].pred, out)
      /\ SettleRow(t, ResultState(out), ResultCode(out), n)
      /\ pin' = pin
  BY DEF FinalizeTask
<1>2. t \in Tasks /\ Active(t)
  BY <1>1, HeldTask, LeasedIsActive
<1>3. /\ ResultFitsCase(pin[t].rev, pin[t].pred) /\ current = {}
      /\ runs' = Append(runs, run) /\ current' = {n}
      /\ caseState' = IF out = "review_required" THEN "advisor_review" ELSE "planning"
      /\ UNCHANGED <<revision, lineage, reviews, briefs, openBriefs, decisions, packs, promoted>>
  BY <1>1 DEF PersistPlanningResult, ResultAccepted, ResultIndexesFree, ResultFitsCase
<1>4. /\ Len(runs) \in Nat /\ Len(runs') = n
      /\ \A r \in 1 .. Len(runs) : runs'[r] = runs[r]
      /\ runs'[n] = run
  <2> DEFINE Rows == [task : Nat, rev : Revisions, pack : Nat, state : RunStates,
                      supersedes : Nat]
  <2>1. runs \in Seq(Rows) /\ run \in Rows
    <3>1. runs \in Seq(Rows)
      BY DEF TypeInv, TypeOK, CaseTypeOK
    <3>2. pin[t] \in PinRows /\ pin[t].rev = revision /\ revision \in Revisions /\ t \in Nat
      BY <1>2, <1>3 DEF TypeInv, TypeOK, CaseTypeOK, ResultFitsCase, Tasks
    <3> QED BY <1>1, <3>1, <3>2 DEF PinRows
  <2> HIDE DEF Rows, run
  <2>2. Len(runs) \in Nat
    BY <2>1, LenProperties
  <2> QED BY <1>3, <2>1, <2>2, AppendProperties
<1>5. n \in Nat \ {0} /\ n \notin RunIds /\ RunIds' = RunIds \cup {n}
  BY <1>4 DEF RunIds
<1>6. /\ task'[t].state = ResultState(out) /\ task'[t].result = n
      /\ \A u \in Tasks \ {t} : task'[u] = task[u]
  BY <1>1, <1>2 DEF SettleRow, TypeInv, TypeOK, TaskRows
<1> HIDE DEF run
<1>7. \A r \in RunIds : runs'[r] = runs[r]
  BY <1>4 DEF RunIds
<1> QED BY <1>1, <1>2, <1>3, <1>4, <1>5, <1>6, <1>7 DEF run

(* A result agrees with the rows: the pin its task took at its creation is *)
(* still that of the Case, and nobody has reviewed the run before it is.   *)
LEMMA FinalizeRecords ==
  ASSUME TypeInv, RecordInv, NEW w \in Workers, FinalizeTask(w)
  PROVE  RecordInv'
<1> DEFINE out == worker[w].out
<1>1. PICK t, n : t = worker[w].task /\ n = Len(runs) + 1
  OBVIOUS
<1>2. /\ t \in Tasks /\ Active(t) /\ out \in RunStates
      /\ n \in Nat \ {0} /\ n \notin RunIds /\ RunIds' = RunIds \cup {n}
      /\ \A r \in RunIds : runs'[r] = runs[r]
      /\ runs'[n] = [task |-> t, rev |-> pin[t].rev, pack |-> pin[t].pack,
                     state |-> out, supersedes |-> pin[t].pred]
      /\ current = {} /\ current' = {n}
      /\ ResultFitsCase(pin[t].rev, pin[t].pred)
      /\ caseState' = IF out = "review_required" THEN "advisor_review" ELSE "planning"
      /\ UNCHANGED <<revision, lineage, reviews, briefs, openBriefs, decisions,
                     packs, promoted, pin>>
      /\ task'[t].state = ResultState(out) /\ task'[t].result = n
      /\ \A u \in Tasks \ {t} : task'[u] = task[u]
  BY <1>1, FinalizeRows
<1>3. /\ task[t].result = NoRun /\ ~Absent(t) /\ ~Absent(t)'
      /\ \A u \in Tasks : Absent(u)' <=> Absent(u)
  <2>1. task[t].result = NoRun
    BY <1>2, ActiveHasNoRun DEF RecordInv
  <2> QED BY <1>2, <2>1 DEF Active, ActiveStates, Absent, ResultState, RunStates
<1>4. /\ caseState = "planning" /\ pin[t].rev = revision /\ pin[t].pred = lineage[revision]
      /\ pin[t].pred # NoRun => pin[t].pred \in RunIds /\ runs[pin[t].pred].pack = pin[t].pack
  BY <1>2, <1>3 DEF ResultFitsCase, RecordInv, PinsSound
<1>5. RunsKnown'
  BY <1>2 DEF RecordInv, RunsKnown
<1>6. PinsSound'
  BY <1>2, <1>3, EarlierTask DEF RecordInv, PinsSound
<1>7. PacksSound'
  BY <1>2 DEF RecordInv, PacksSound
<1>8. ResultExact'
  <2> SUFFICES ASSUME NEW u \in Tasks
               PROVE  (LET own == {r \in RunIds : runs[r].task = u} IN
                       IF task[u].result = NoRun
                       THEN own = {} /\ task[u].state # "waiting_review"
                       ELSE LET run == runs[task[u].result] IN
                            /\ own = {task[u].result}
                            /\ run.rev = pin[u].rev /\ run.pack = pin[u].pack
                            /\ run.supersedes = pin[u].pred
                            /\ task[u].state = ResultState(run.state))'
    BY DEF ResultExact
  <2>1. CASE u = t
    <3>1. {r \in RunIds : runs[r].task = t} = {}
      BY <1>2, <1>3 DEF RecordInv, ResultExact
    <3>2. {r \in RunIds' : runs'[r].task = t} = {n}
      BY <1>2, <3>1
    <3> QED BY <1>2, <2>1, <3>2
  <2>2. CASE u # t
    <3>1. {r \in RunIds' : runs'[r].task = u} = {r \in RunIds : runs[r].task = u}
      BY <1>2, <2>2
    <3>2. task[u].result # NoRun => task[u].result \in RunIds
      BY DEF RecordInv, ResultExact
    <3> QED BY <1>2, <2>2, <3>1, <3>2 DEF RecordInv, ResultExact
  <2> QED BY <2>1, <2>2
<1>9. RetryOnce'
  <2>1. \A s \in Tasks : RecoverableEnd(s) => s # t
    BY <1>2 DEF RecoverableEnd, Active, ActiveStates
  <2>2. \A s \in Tasks : RecoverableEnd(s) => RecoverableEnd(s)' /\ task'[s].result = task[s].result
    BY <1>2, <2>1 DEF RecoverableEnd
  <2> QED BY <1>2, <2>2, PinTyped DEF TypeInv, RecordInv, RetryOnce
<1>10. CurrentRunFresh'
  BY <1>2, <1>4 DEF RecordInv, CurrentRunFresh
<1>11. LineageSound'
  <2>1. \A m \in Revisions : lineage[m] # NoRun => lineage[m] \in RunIds /\ lineage[m] # n
    BY <1>2 DEF RecordInv, LineageSound
  <2>2. \A r \in RunIds : runs[r].supersedes # NoRun => runs[r].supersedes \in RunIds
    <3> TAKE r \in RunIds
    <3>1. runs[r].rev \in Revisions
      BY RunTyped DEF TypeInv
    <3> QED BY <2>1, <3>1 DEF RecordInv, LineageSound
  <2> QED BY <1>2, <1>4, <2>1, <2>2 DEF RecordInv, LineageSound, Reviewed
<1>12. CaseStateWitnessed'
  <2>1. ReviewsOf(n)' = {}
    BY <1>2 DEF RecordInv, RunsKnown, ReviewsOf
  <2>2. openBriefs = {} /\ decisions = {}
    BY <1>4 DEF RecordInv, CaseStateWitnessed
  <2> QED BY <1>2, <2>1, <2>2 DEF RecordInv, CaseStateWitnessed
<1> QED BY <1>5, <1>6, <1>7, <1>8, <1>9, <1>10, <1>11, <1>12 DEF RecordInv

(* A mixed task exists, hence pins a revision of the Case.                 *)
LEMMA MixedRevision ==
  ASSUME TypeInv, RecordInv, NEW t \in Tasks, pin[t].op = "mixed"
  PROVE  pin[t].rev \in Revisions
<1>1. ~Absent(t)
  BY DEF RecordInv, PinsSound, NoPin
<1> QED BY <1>1 DEF RecordInv, PinsSound, TypeInv, TypeOK, CaseTypeOK, Revisions

(* Reviews, decisions, promotions and publications write no task row.      *)
LEMMA CaseStepRows ==
  ASSUME TypeInv, RecordInv, UNCHANGED <<taskVars, runs>>,
         UNCHANGED <<packs, promoted>> \/ PromoteExternalEvidence,
         caseState # "intake" => caseState' # "intake",
         revision' \in {revision, revision + 1},
         \A n \in 1 .. revision : lineage'[n] = lineage[n]
  PROVE  /\ RunIds' = RunIds
         /\ PinsSound' /\ ResultExact' /\ RetryOnce' /\ PacksSound'
<1>1. RunIds' = RunIds /\ pin' = pin /\ task' = task
  BY DEF RunIds, taskVars
<1>2. PinsSound'
  <2>1. \A m \in 1 .. revision : m \in 1 .. revision'
    BY DEF TypeInv, TypeOK, CaseTypeOK, Revisions
  <2> QED BY <1>1, <2>1 DEF RecordInv, PinsSound, Absent
<1>3. ResultExact' /\ RetryOnce'
  BY <1>1 DEF RecordInv, ResultExact, RetryOnce, RecoverableEnd
<1>4. PacksSound'
  <2>1. CASE UNCHANGED <<packs, promoted>>
    BY <1>1, <2>1 DEF RecordInv, PacksSound
  <2>2. CASE PromoteExternalEvidence
    <3>1. /\ promoted[revision] = NoPack /\ packs' = packs + 1 /\ packs \in Nat
          /\ promoted'[revision] = packs + 1
          /\ \A m \in Revisions \ {revision} : promoted'[m] = promoted[m]
          /\ revision \in Revisions
      BY <2>2 DEF PromoteExternalEvidence, TypeInv, TypeOK, CaseTypeOK
    <3>2. \A m \in Revisions : promoted[m] # NoPack => promoted[m] \in BaselinePack + 1 .. packs
      BY DEF RecordInv, PacksSound
    <3>3. \A m \in Revisions : promoted'[m] # NoPack => promoted'[m] \in BaselinePack + 1 .. packs'
      BY <3>1, <3>2 DEF RecordInv, PacksSound
    <3>4. \A m \in Revisions : promoted[m] # packs + 1
      BY <3>1, <3>2
    <3>5. \A l, m \in Revisions : promoted'[l] = promoted'[m] /\ promoted'[l] # NoPack => l = m
      BY <3>1, <3>4 DEF RecordInv, PacksSound
    <3>6. \A t \in Tasks : pin[t].op = "mixed" => pin[t].rev # revision
      BY <3>1 DEF RecordInv, PacksSound
    <3>7. \A t \in Tasks : pin[t].op = "mixed" =>
              pin[t].pack # NoPack /\ promoted'[pin[t].rev] = pin[t].pack
      BY <3>1, <3>6, MixedRevision DEF RecordInv, PacksSound
    <3>8. packs' >= BaselinePack
      BY <3>1 DEF RecordInv, PacksSound
    <3> QED BY <1>1, <3>3, <3>5, <3>7, <3>8 DEF PacksSound
  <2> QED BY <2>1, <2>2
<1> QED BY <1>1, <1>2, <1>3, <1>4

(* A review is the first and only one of the current run.                  *)
LEMMA ReviewRecords ==
  ASSUME TypeInv, RecordInv, Review
  PROVE  RecordInv'
<1>1. PICK r \in current, action \in ReviewActions :
         ReviewPlanningRun(r, action) /\ UNCHANGED <<taskVars, worker>>
  BY DEF Review
<1> DEFINE new == [run |-> r, action |-> action]
<1>2. /\ caseState = "advisor_review" /\ runs[r].state = "review_required"
      /\ reviews' = reviews \cup {new}
      /\ UNCHANGED <<revision, lineage, runs, current, decisions, packs, promoted>>
      /\ IF action = "approve_for_consultation"
         THEN openBriefs' = openBriefs \cup {r} /\ caseState' = "family_review"
         ELSE openBriefs' = openBriefs /\ caseState' = "planning"
  BY <1>1 DEF ReviewPlanningRun
<1>3. /\ r \in RunIds /\ current = {r} /\ ReviewsOf(r) = {}
      /\ openBriefs = {} /\ decisions = {}
  BY <1>2 DEF RecordInv, CaseStateWitnessed, RunsKnown, CurrentRunFresh
<1>4. /\ RunIds' = RunIds
      /\ PinsSound' /\ ResultExact' /\ RetryOnce' /\ PacksSound'
  BY <1>1, <1>2, CaseStepRows
<1>5. RunsKnown' /\ CurrentRunFresh' /\ LineageSound'
  BY <1>2, <1>3, <1>4 DEF RecordInv, RunsKnown, CurrentRunFresh, LineageSound, Reviewed
<1>6. CaseStateWitnessed'
  <2>1. ReviewsOf(r)' = {new}
    BY <1>2, <1>3 DEF ReviewsOf
  <2>2. \A v1, v2 \in reviews' : v1.run = v2.run => v1 = v2
    BY <1>2, <1>3 DEF RecordInv, CaseStateWitnessed, ReviewsOf
  <2> QED BY <1>2, <1>3, <2>1, <2>2 DEF CaseStateWitnessed
<1> QED BY <1>4, <1>5, <1>6 DEF RecordInv

(* A decision is taken on the one open brief, that of the current run.     *)
LEMMA DecideRecords ==
  ASSUME TypeInv, RecordInv, Decide
  PROVE  RecordInv'
<1>1. PICK b \in openBriefs : DecideFamilyBrief(b) /\ UNCHANGED <<taskVars, worker>>
  BY DEF Decide
<1>2. /\ caseState = "family_review" /\ caseState' = "plan_ready"
      /\ decisions' = decisions \cup {b} /\ openBriefs' = openBriefs \ {b}
      /\ UNCHANGED <<revision, lineage, runs, current, reviews, packs, promoted>>
  BY <1>1 DEF DecideFamilyBrief
<1>3. openBriefs = current /\ current = {b} /\ decisions = {}
  BY <1>2 DEF RecordInv, CaseStateWitnessed, RunsKnown, CurrentRunFresh
<1>4. /\ RunIds' = RunIds
      /\ PinsSound' /\ ResultExact' /\ RetryOnce' /\ PacksSound'
  BY <1>1, <1>2, CaseStepRows
<1>5. RunsKnown' /\ CurrentRunFresh' /\ LineageSound'
  BY <1>2, <1>4 DEF RecordInv, RunsKnown, CurrentRunFresh, LineageSound, Reviewed
<1>6. CaseStateWitnessed'
  BY <1>2, <1>3 DEF RecordInv, CaseStateWitnessed, ReviewsOf
<1> QED BY <1>4, <1>5, <1>6 DEF RecordInv

(* A promotion touches the packs only.                                     *)
LEMMA PromoteRecords ==
  ASSUME TypeInv, RecordInv, Promote
  PROVE  RecordInv'
<1>1. /\ PromoteExternalEvidence /\ UNCHANGED taskVars
      /\ UNCHANGED <<caseState, revision, lineage, runs, current, reviews, openBriefs, decisions>>
  BY DEF Promote, PromoteExternalEvidence
<1>2. /\ RunIds' = RunIds
      /\ PinsSound' /\ ResultExact' /\ RetryOnce' /\ PacksSound'
  BY <1>1, CaseStepRows
<1>3. RunsKnown' /\ CurrentRunFresh' /\ LineageSound' /\ CaseStateWitnessed'
  BY <1>1, <1>2 DEF RecordInv, RunsKnown, CurrentRunFresh, LineageSound, CaseStateWitnessed,
                    Reviewed, ReviewsOf
<1> QED BY <1>2, <1>3 DEF RecordInv

(* A new revision retires the run that was sent back into its lineage.     *)
LEMMA PublishRecords ==
  ASSUME TypeInv, RecordInv, ConfirmFact
  PROVE  RecordInv'
<1>1. PICK r \in current \cup {NoRun} : PublishRevision(r) /\ UNCHANGED taskVars
  BY DEF ConfirmFact
<1>2. /\ revision \in Revisions /\ revision + 1 \in Revisions
      /\ revision' = revision + 1
      /\ lineage'[revision + 1] = r
      /\ \A n \in Revisions \ {revision + 1} : lineage'[n] = lineage[n]
      /\ current' = current \ {r} /\ MayReplace(r)
      /\ UNCHANGED <<caseState, runs, reviews, openBriefs, decisions, packs, promoted>>
  BY <1>1 DEF PublishRevision, TypeInv, TypeOK, CaseTypeOK, Revisions
<1>3. /\ caseState \in {"intake", "planning"} /\ current' = {}
      /\ r # NoRun => /\ r \in RunIds /\ current = {r} /\ Reviewed(r, "request_revision")
                      /\ runs[r].rev = revision
      /\ r = NoRun => current = {}
  BY <1>2 DEF MayReplace, RecordInv, RunsKnown
<1>4. /\ RunIds' = RunIds
      /\ PinsSound' /\ ResultExact' /\ RetryOnce' /\ PacksSound'
  <2>1. \A n \in 1 .. revision : lineage'[n] = lineage[n]
    BY <1>2 DEF Revisions
  <2> QED BY <1>1, <1>2, <2>1, CaseStepRows
<1>5. \A x \in RunIds : /\ runs[x].rev \in Revisions /\ runs[x].rev <= revision
                        /\ lineage'[runs[x].rev] = lineage[runs[x].rev]
  <2> TAKE x \in RunIds
  <2>1. runs[x].rev \in Revisions
    BY RunTyped DEF TypeInv
  <2>2. runs[x].rev <= revision
    BY <1>2, <2>1 DEF RecordInv, CurrentRunFresh, Revisions
  <2> QED BY <1>2, <2>1, <2>2 DEF Revisions
<1>6. RunsKnown'
  BY <1>2, <1>3, <1>4 DEF RecordInv, RunsKnown
<1>7. CurrentRunFresh'
  <2> SUFFICES ASSUME NEW x \in RunIds
               PROVE  runs[x].rev < revision + 1 /\ lineage'[runs[x].rev + 1] = x
    BY <1>2, <1>3, <1>4 DEF CurrentRunFresh
  <2>1. CASE x \in current
    BY <1>2, <1>3, <1>5, <2>1 DEF Revisions
  <2>2. CASE x \notin current
    <3>1. runs[x].rev < revision /\ lineage[runs[x].rev + 1] = x
      BY <2>2 DEF RecordInv, CurrentRunFresh
    <3>2. runs[x].rev + 1 \in Revisions \ {revision + 1}
      BY <1>2, <1>5, <3>1 DEF Revisions
    <3> QED BY <1>2, <1>5, <3>1, <3>2 DEF Revisions
  <2> QED BY <2>1, <2>2
<1>8. LineageSound'
  <2>1. ASSUME NEW n \in Revisions, lineage'[n] # NoRun
        PROVE  /\ n <= revision + 1 /\ lineage'[n] \in RunIds
               /\ runs[lineage'[n]].rev = n - 1
               /\ Reviewed(lineage'[n], "request_revision")
    <3>1. CASE n = revision + 1
      BY <1>2, <1>3, <2>1, <3>1 DEF Revisions
    <3>2. CASE n # revision + 1
      BY <1>2, <2>1, <3>2 DEF RecordInv, LineageSound, Revisions
    <3> QED BY <3>1, <3>2
  <2> QED BY <1>2, <1>3, <1>4, <1>5, <2>1 DEF RecordInv, LineageSound, Reviewed
<1>9. CaseStateWitnessed'
  BY <1>2, <1>3 DEF RecordInv, CaseStateWitnessed, ReviewsOf
<1> QED BY <1>4, <1>6, <1>7, <1>8, <1>9 DEF RecordInv

(* Every step keeps the records in agreement.                              *)
LEMMA NextRecords == TypeInv /\ RecordInv /\ [Next]_vars => RecordInv'
<1> SUFFICES ASSUME TypeInv, RecordInv, [Next]_vars PROVE RecordInv'
  OBVIOUS
<1>1. CASE CreateTask
  BY <1>1, InsertRecords DEF CreateTask
<1>2. ASSUME NEW s \in Tasks, RetryTask(s) PROVE RecordInv'
  BY <1>2, InsertRecords DEF RetryTask
<1>3. ASSUME NEW t \in Tasks, CancelTask(t) PROVE RecordInv'
  <2>1. "cancelled" \in SettledStates \ {"waiting_review"}
    BY DEF SettledStates
  <2> QED BY <1>3, <2>1, SettleMinor, MinorRecords DEF CancelTask
<1>4. ASSUME NEW w \in Workers, NEW t \in Tasks, Claim(w, t) PROVE RecordInv'
  BY <1>4, ClaimMinor, MinorRecords
<1>5. ASSUME NEW w \in Workers,
             WorkerStep(w) \/ Heartbeat(w) \/ HeartbeatBreaks(w) \/ Abandon(w)
      PROVE  RecordInv'
  BY <1>5, WorkerMinor, MinorRecords, FinalizeRecords
<1>6. CASE Tick
  <2>1. Minor
    BY <1>6 DEF Tick, TypeInv, TypeOK, TaskRows, Minor, Active, Absent, ActiveStates
  <2> QED BY <2>1, MinorRecords
<1>7. CASE Review \/ Decide \/ Promote \/ ConfirmFact
  BY <1>7, ReviewRecords, DecideRecords, PromoteRecords, PublishRecords
<1>8. CASE UNCHANGED vars
  <2>1. Minor
    BY <1>8 DEF vars, taskVars, Minor, Active, Absent, ActiveStates
  <2> QED BY <2>1, MinorRecords
<1> QED BY <1>1, <1>2, <1>3, <1>4, <1>5, <1>6, <1>7, <1>8 DEF Next

(* The records agree in every reachable state, with the strengthening.     *)
LEMMA RecordInvariant == Spec => []RecordInv
<1>1. Init => RecordInv
  BY InitRecords
<1> QED BY <1>1, NextRecords, TypeInvariant, PTL DEF Spec

(* A mixed task rests on the one pack promoted for its revision.           *)
LEMMA MixedFromPacks == TypeInv /\ RecordInv => MixedApproved
<1> SUFFICES ASSUME TypeInv, RecordInv, NEW t \in Tasks, pin[t].op = "mixed"
             PROVE  /\ pin[t].pack # BaselinePack
                    /\ promoted[pin[t].rev] = pin[t].pack
                    /\ \A n \in Revisions : promoted[n] = pin[t].pack => n = pin[t].rev
  BY DEF MixedApproved
<1>1. promoted[pin[t].rev] = pin[t].pack /\ pin[t].pack # NoPack
  BY DEF RecordInv, PacksSound
<1>2. pin[t].rev \in Revisions
  BY MixedRevision
<1> QED BY <1>1, <1>2 DEF RecordInv, PacksSound

(* A retry, a promotion, a review, a revision or a result that arrives     *)
(* late: in whatever order the commands, workers and expiries come, a task *)
(* and its run find each other, a retry repeats its source once, a mixed   *)
(* run rests on the pack approved for its revision, the lineage is a chain *)
(* of sent-back runs, and the state of the Case is backed by its rows.     *)
THEOREM RecordsAgreeAlways == Spec => []RecordsAgree
<1>1. TypeInv /\ RecordInv => RecordsAgree
  BY MixedFromPacks DEF RecordInv, RecordsAgree
<1> QED BY <1>1, RecordInvariant, TypeInvariant, PTL

-----------------------------------------------------------------------------
(*                  Work under way is never stale                          *)

(* The pins of a task are written once.                                    *)
LEMMA PinsKept ==
  ASSUME TypeInv, [Next]_vars, NEW t \in Tasks, ~Absent(t)
  PROVE  ~Absent(t)' /\ pin'[t] = pin[t]
<1> DEFINE Kept == ~Absent(t)' /\ pin'[t] = pin[t]
<1>1. Minor => Kept
  BY DEF Minor
<1>2. ASSUME NEW u \in Tasks, NEW op, NEW pack, NEW source, InsertTask(u, op, pack, source)
      PROVE  Kept
  BY <1>2 DEF InsertTask, Absent, TypeInv, TypeOK
<1>3. CASE CreateTask
  BY <1>2, <1>3 DEF CreateTask
<1>4. ASSUME NEW s \in Tasks, RetryTask(s) PROVE Kept
  BY <1>2, <1>4 DEF RetryTask
<1>5. ASSUME NEW u \in Tasks, CancelTask(u) PROVE Kept
  <2>1. "cancelled" \in SettledStates \ {"waiting_review"}
    BY DEF SettledStates
  <2> QED BY <1>1, <1>5, <2>1, SettleMinor DEF CancelTask
<1>6. ASSUME NEW w \in Workers, NEW u \in Tasks, Claim(w, u) PROVE Kept
  BY <1>1, <1>6, ClaimMinor
<1>7. ASSUME NEW w \in Workers,
             WorkerStep(w) \/ Heartbeat(w) \/ HeartbeatBreaks(w) \/ Abandon(w)
      PROVE  Kept
  <2>1. CASE FinalizeTask(w)
    <3> DEFINE u == worker[w].task
               out == worker[w].out
    <3>1. /\ Held(w) /\ pin' = pin /\ out \in RunStates
          /\ SettleRow(u, ResultState(out), ResultCode(out), Len(runs) + 1)
      BY <2>1 DEF FinalizeTask
    <3>2. u \in Tasks
      BY <3>1, HeldTask
    <3> QED BY <3>1, <3>2 DEF SettleRow, TypeInv, TypeOK, TaskRows, Absent, ResultState, RunStates
  <2> QED BY <1>1, <1>7, <2>1, WorkerMinor
<1>8. CASE Tick
  BY <1>8 DEF Tick, TypeInv, TypeOK, TaskRows, Absent
<1>9. CASE Review \/ Decide \/ Promote \/ ConfirmFact \/ UNCHANGED vars
  BY <1>9 DEF Review, Decide, Promote, ConfirmFact, vars, taskVars, Absent
<1> QED BY <1>3, <1>4, <1>5, <1>6, <1>7, <1>8, <1>9 DEF Next

(* A worker comes by a task by claiming it, and by a result only by        *)
(* reading the snapshot its operation asks for.                            *)
LEMMA NextAnswers == TypeInv /\ AnswersPinned /\ [Next]_vars => AnswersPinned'
<1> SUFFICES ASSUME TypeInv, AnswersPinned, [Next]_vars PROVE AnswersPinned'
  OBVIOUS
<1> DEFINE Sound(m) == m.pc # "idle" =>
              /\ m.task \in Tasks /\ ~Absent(m.task) /\ m.gen > 0
              /\ m.pc = "answered" /\ m.out \in RunStates =>
                     \/ pin[m.task].op = "synthetic" /\ pin[m.task].pack = BaselinePack
                     \/ pin[m.task].op = "mixed"
<1>1. \A w \in Workers : Sound(worker[w])
  BY DEF AnswersPinned
<1>2. \A w \in Workers : Sound(worker'[w])
  <2> SUFFICES ASSUME NEW v \in Workers, worker'[v] # worker[v] PROVE Sound(worker'[v])
    BY <1>1
  <2> HIDE DEF Sound
  <2>1. ASSUME NEW w \in Workers, NEW t \in Tasks, Claim(w, t) PROVE Sound(worker'[v])
    <3>1. LeaseTo(w, t) /\ ~Absent(t)
      BY <2>1 DEF Claim, ClaimQueued, ReclaimExpired, ExhaustExpired, Expired, Leased,
                  LeasedStates, Absent
    <3>2. worker'[v] = [Idle EXCEPT !.pc = "claimed", !.task = t, !.gen = NextGeneration(t)]
      BY <3>1 DEF LeaseTo, TypeInv, TypeOK
    <3>3. NextGeneration(t) > 0
      BY DEF NextGeneration, TypeInv, TypeOK, TaskRows
    <3> QED BY <3>1, <3>2, <3>3 DEF Sound, Idle
  <2>2. ASSUME NEW w \in Workers,
               WorkerStep(w) \/ Heartbeat(w) \/ HeartbeatBreaks(w) \/ Abandon(w)
        PROVE  Sound(worker'[v])
    <3>1. CASE AdapterAnswers(w)
      <4>1. PICK out \in AdapterCodes
                         \cup (IF SnapshotLoads(worker[w].task) THEN RunStates ELSE {}) :
               worker' = [worker EXCEPT ![w] = [@ EXCEPT !.pc = "answered", !.out = out,
                                                         !.beating = FALSE]]
        BY <3>1 DEF AdapterAnswers
      <4>2. /\ v = w /\ worker[v].pc = "running" /\ worker[v] \in Memories
            /\ worker'[v] = [worker[v] EXCEPT !.pc = "answered", !.out = out, !.beating = FALSE]
        BY <3>1, <4>1 DEF AdapterAnswers, TypeInv, TypeOK
      <4>3. /\ worker'[v].task = worker[v].task /\ worker'[v].gen = worker[v].gen
            /\ worker'[v].out = out
        BY <4>2 DEF Memories
      <4>4. out \in RunStates => SnapshotLoads(worker[v].task)
        BY <4>1, <4>2 DEF AdapterCodes, RunStates
      <4>5. worker'[v].pc = "answered"
        BY <4>2 DEF Memories
      <4> QED BY <1>1, <4>2, <4>3, <4>4, <4>5 DEF Sound, SnapshotLoads
    <3>2. CASE LoadTask(w) \/ StartTask(w) \/ Heartbeat(w) \/ HeartbeatBreaks(w)
      <4>1. /\ v = w /\ worker[v].pc \notin {"idle", "answered"}
            /\ worker'[v].task = worker[v].task /\ worker'[v].gen = worker[v].gen
            /\ worker'[v].pc # "answered"
        <5>1. worker[w] \in Memories /\ worker \in [Workers -> Memories]
          BY DEF TypeInv, TypeOK
        <5>2. \/ /\ worker[w].pc \in {"claimed", "loaded"}
                 /\ \E pc \in {"loaded", "bad_pin"} : worker' = [worker EXCEPT ![w].pc = pc]
              \/ /\ worker[w].pc \in {"claimed", "loaded"}
                 /\ worker' = [worker EXCEPT ![w].pc = "running", ![w].beating = TRUE]
              \/ /\ worker[w].pc = "running"
                 /\ worker' = [worker EXCEPT ![w].beating = FALSE]
          BY <3>2 DEF LoadTask, StartTask, Heartbeat, HeartbeatBreaks
        <5> QED BY <5>1, <5>2 DEF Memories
      <4> QED BY <1>1, <4>1 DEF Sound
    <3>3. CASE worker' = [worker EXCEPT ![w] = Idle]
      BY <3>3 DEF TypeInv, TypeOK, Idle, Sound
    <3> QED BY <2>2, <3>1, <3>2, <3>3
            DEF WorkerStep, DiscardAnswer, FailTask, FinalizeTask, FinalizeRefused, LeaseLost,
                Abandon, Forget
  <2>3. worker' # worker
    OBVIOUS
  <2>4. CASE CreateTask \/ (\E s \in Tasks : RetryTask(s) \/ CancelTask(s)) \/ Tick
             \/ Review \/ Decide \/ Promote \/ ConfirmFact \/ UNCHANGED vars
    BY <2>3, <2>4 DEF CreateTask, RetryTask, InsertTask, CancelTask, Tick, Review, Decide,
                      Promote, ConfirmFact, vars
  <2> QED BY <2>1, <2>2, <2>4 DEF Next
<1>3. \A t \in Tasks : ~Absent(t) => ~Absent(t)' /\ pin'[t] = pin[t]
  BY PinsKept
<1> QED BY <1>2, <1>3 DEF AnswersPinned

(* A result that may still be persisted fits the Case as it is.            *)
LEMMA AnswersFresh == TypeInv /\ Ownership /\ RecordInv /\ AnswersPinned => AnswerFresh
<1> SUFFICES ASSUME TypeInv, Ownership, RecordInv, AnswersPinned,
                    NEW w \in Workers, worker[w].pc = "answered",
                    worker[w].out \in RunStates, Held(w),
                    NEW t, t = worker[w].task
             PROVE  SnapshotLoads(t) /\ ResultFitsCase(pin[t].rev, pin[t].pred)
  BY DEF AnswerFresh
<1>1. t \in Tasks /\ Active(t)
  BY HeldTask, LeasedIsActive
<1>2. caseState = "planning" /\ pin[t].rev = revision /\ pin[t].pred = lineage[revision]
  BY <1>1 DEF Ownership, ActiveTaskOwnsCase
<1>3. SnapshotLoads(t)
  BY <1>1, <1>2 DEF AnswersPinned, RecordInv, PacksSound, SnapshotLoads
<1>4. pin[t].pred # NoRun => runs[pin[t].pred].rev = revision - 1 /\ pin[t].pred \notin current
  BY <1>2 DEF RecordInv, LineageSound, TypeInv, TypeOK, CaseTypeOK
<1> QED BY <1>2, <1>3, <1>4 DEF ResultFitsCase

(* When the lineage lets a revision replace the current run, the tasks     *)
(* that are still live are those whose runs were sent back.                *)
LEMMA RevisionsWait == TypeInv /\ Ownership /\ RecordInv => RevisionNeverUnderWork
<1> SUFFICES ASSUME TypeInv, Ownership, RecordInv, NEW r \in current \cup {NoRun}, MayReplace(r),
                    NEW t \in Tasks, Live(t)
             PROVE  SentBack(t)
  BY DEF RevisionNeverUnderWork, NothingBlocksRevision
<1>1. ~Absent(t) /\ caseState # "intake"
  <2>1. ~Absent(t)
    BY DEF Live, LiveStates, ActiveStates, Absent
  <2> QED BY <2>1 DEF RecordInv, PinsSound
<1>2. /\ r \in RunIds /\ current = {r} /\ Reviewed(r, "request_revision")
      /\ runs[r].rev = revision /\ runs[r].state = "review_required"
  BY <1>1 DEF MayReplace, RecordInv, RunsKnown, Reviewed
<1>3. PICK o \in Tasks : /\ o = runs[r].task /\ task[o].result = r
                        /\ task[o].state = "waiting_review" /\ pin[o].rev = revision
  <2>1. runs[r].task \in Tasks /\ r # NoRun
    BY <1>2, RunTyped DEF RecordInv, RunsKnown, TypeInv
  <2> DEFINE o == runs[r].task
             own == {x \in RunIds : runs[x].task = o}
  <2>2. r \in own
    BY <1>2
  <2>3. task[o].result # NoRun /\ own = {task[o].result}
    BY <2>1, <2>2 DEF RecordInv, ResultExact
  <2>4. task[o].result = r
    BY <2>2, <2>3
  <2>5. task[o].state = ResultState("review_required") /\ pin[o].rev = revision
    BY <1>2, <2>1, <2>3, <2>4 DEF RecordInv, ResultExact
  <2> QED BY <2>1, <2>4, <2>5 DEF ResultState
<1>4. ~Active(t)
  <2> SUFFICES ASSUME Active(t) PROVE FALSE
    OBVIOUS
  <2>1. pin[t].rev = revision
    BY DEF Ownership, ActiveTaskOwnsCase
  <2>2. t = o
    BY <1>3, <2>1 DEF Ownership, OneLiveTask, Live, LiveStates
  <2> QED BY <1>3, <2>2 DEF Active, ActiveStates
<1>5. task[t].state = "waiting_review"
  BY <1>4 DEF Live, LiveStates, Active
<1>6. /\ task[t].result \in RunIds
      /\ runs[task[t].result].rev = pin[t].rev
  BY <1>5 DEF RecordInv, ResultExact
<1>7. CASE task[t].result = r
  BY <1>2, <1>5, <1>6, <1>7 DEF SentBack
<1>8. CASE task[t].result # r
  <2> DEFINE x == task[t].result
  <2>1. x \notin current /\ pin[t].rev < revision /\ lineage[pin[t].rev + 1] = x
    BY <1>2, <1>6, <1>8 DEF RecordInv, CurrentRunFresh
  <2>2. pin[t].rev + 1 \in Revisions
    <3>1. pin[t].rev \in 1 .. revision /\ revision \in 1 .. MaxRevision
      BY <1>1 DEF RecordInv, PinsSound, TypeInv, TypeOK, CaseTypeOK, Revisions
    <3> QED BY <2>1, <3>1 DEF Revisions
  <2>3. Reviewed(x, "request_revision")
    <3>1. x # NoRun
      BY <1>6, RunTyped DEF TypeInv
    <3> QED BY <2>1, <2>2, <3>1 DEF RecordInv, LineageSound
  <2> QED BY <1>5, <2>1, <2>3 DEF SentBack
<1> QED BY <1>7, <1>8

(* Although an adapter reads its snapshot in one transaction and persists  *)
(* its result in another, no command in between makes the answer stale     *)
(* while its worker holds the lease; and the check of                      *)
(* verify_memory_candidate for live tasks (NV014) never refuses what its   *)
(* lineage check would let through.                                        *)
THEOREM WorkFreshAlways == Spec => []WorkFresh
<1>1. Init => AnswersPinned
  BY InitRecords
<1>2. Spec => []AnswersPinned
  BY <1>1, NextAnswers, TypeInvariant, PTL DEF Spec
<1>3. TypeInv /\ Ownership /\ RecordInv /\ AnswersPinned => WorkFresh
  BY AnswersFresh, RevisionsWait DEF WorkFresh, Ownership
<1> QED BY <1>2, <1>3, RecordInvariant, OwnershipInvariant, TypeInvariant, PTL

-----------------------------------------------------------------------------
(*                    A run nobody can review is final                     *)

(* Such a run keeps the Case planning: no other state has a current run    *)
(* that is not up for review or approved.                                  *)
LEMMA UnreviewablePlans ==
  ASSUME TypeInv, RecordInv, NEW r \in current, runs[r].state # "review_required"
  PROVE  caseState = "planning" /\ current = {r} /\ ~Reviewed(r, "request_revision")
<1>1. r \in RunIds /\ current = {r}
  BY DEF RecordInv, RunsKnown, CurrentRunFresh
<1>2. ~Reviewed(r, "request_revision") /\ ReviewsOf(r) = {}
  BY DEF RecordInv, RunsKnown, Reviewed, ReviewsOf
<1>3. caseState # "advisor_review"
  BY <1>1 DEF RecordInv, CaseStateWitnessed
<1>4. caseState \notin {"family_review", "plan_ready"}
  BY <1>1, <1>2 DEF RecordInv, CaseStateWitnessed
<1>5. caseState # "intake"
  <2>1. runs[r].task \in Tasks /\ r # NoRun
    BY <1>1, RunTyped DEF RecordInv, RunsKnown, TypeInv
  <2>2. task[runs[r].task].result # NoRun
    BY <1>1, <2>1 DEF RecordInv, ResultExact
  <2> QED BY <2>1, <2>2 DEF RecordInv, PinsSound
<1> QED BY <1>1, <1>2, <1>3, <1>4, <1>5 DEF TypeInv, TypeOK, CaseTypeOK, CaseStates

(* No step retires it, adds a run or moves the Case on.                    *)
LEMMA UnreviewableStays ==
  ASSUME TypeInv, RecordInv, [Next]_vars, NEW r \in current, runs[r].state # "review_required"
  PROVE  r \in current' /\ runs' = runs /\ caseState' = "planning" /\ revision' = revision
<1> DEFINE Stays == /\ r \in current' /\ runs' = runs
                    /\ caseState' = "planning" /\ revision' = revision
<1>1. caseState = "planning" /\ current = {r} /\ ~Reviewed(r, "request_revision") /\ r # NoRun
  BY UnreviewablePlans, RunTyped DEF RecordInv, RunsKnown, TypeInv
<1>2. Minor => Stays
  BY <1>1 DEF Minor, caseVars
<1>3. CASE CreateTask
  BY <1>1, <1>3 DEF CreateTask, InsertTask, StartPlanning
<1>4. ASSUME NEW s \in Tasks, RetryTask(s) PROVE Stays
  BY <1>1, <1>4 DEF RetryTask, InsertTask, StartPlanning
<1>5. ASSUME NEW t \in Tasks, CancelTask(t) PROVE Stays
  BY <1>1, <1>5 DEF CancelTask, caseVars
<1>6. ASSUME NEW w \in Workers, NEW t \in Tasks, Claim(w, t) PROVE Stays
  BY <1>2, <1>6, ClaimMinor
<1>7. ASSUME NEW w \in Workers,
             WorkerStep(w) \/ Heartbeat(w) \/ HeartbeatBreaks(w) \/ Abandon(w)
      PROVE  Stays
  <2>1. ~FinalizeTask(w)
    BY <1>1 DEF FinalizeTask, PersistPlanningResult, ResultAccepted, ResultIndexesFree
  <2> QED BY <1>2, <1>7, <2>1, WorkerMinor
<1>8. CASE Review \/ Decide
  BY <1>1, <1>8 DEF Review, ReviewPlanningRun, Decide, DecideFamilyBrief
<1>9. CASE Promote
  BY <1>1, <1>9 DEF Promote, PromoteExternalEvidence
<1>10. CASE ConfirmFact
  BY <1>1, <1>10 DEF ConfirmFact, PublishRevision, MayReplace
<1>11. CASE Tick \/ UNCHANGED vars
  BY <1>1, <1>11 DEF Tick, vars, caseVars
<1> QED BY <1>3, <1>4, <1>5, <1>6, <1>7, <1>8, <1>9, <1>10, <1>11 DEF Next

(* Why a blocked result is not remedied: while a blocked or failed run is  *)
(* current, no command of the advisor or the family, no task and no worker *)
(* replaces it, moves the Case on or publishes a revision.                 *)
THEOREM NothingReplacesUnreviewableAlways == Spec => NothingReplacesUnreviewable
<1>1. TypeInv /\ RecordInv /\ [Next]_vars =>
          [UnreviewableStands]_vars
  BY UnreviewableStays DEF UnreviewableStands
<1> QED BY <1>1, RecordInvariant, TypeInvariant, PTL DEF Spec, NothingReplacesUnreviewable

-----------------------------------------------------------------------------
(*                 What the advisor is promised is kept                    *)

(* The contract's variables, when one task is seen to move or none is.     *)
Seen == [u \in Tasks |-> ProjectTaskStatus(u)]

Unseen(u) == /\ ProjectTaskStatus(u)' = ProjectTaskStatus(u)
             /\ task'[u].gen = task[u].gen /\ task'[u].result = task[u].result

LEMMA AllUnseen ==
  ASSUME \A u \in Tasks : Unseen(u)
  PROVE  UNCHANGED Contract!vars
  BY DEF Unseen, Contract!vars

LEMMA OneSeen ==
  ASSUME NEW t \in Tasks, \A u \in Tasks \ {t} : Unseen(u)
  PROVE  /\ Seen' = [Seen EXCEPT ![t] = ProjectTaskStatus(t)']
         /\ [u \in Tasks |-> task'[u].gen] =
                [[u \in Tasks |-> task[u].gen] EXCEPT ![t] = task'[t].gen]
         /\ [u \in Tasks |-> task'[u].result] =
                [[u \in Tasks |-> task[u].result] EXCEPT ![t] = task'[t].result]
  BY DEF Unseen, Seen

(* A task whose row and whose Case stay as they are looks the same.        *)
LEMMA RowUnseen ==
  ASSUME NEW u \in Tasks, task'[u] = task[u], current' = current
  PROVE  Unseen(u)
  BY DEF Unseen, ProjectTaskStatus, Absent, Active

(* The runs are those the tasks left, each its own: the next run has the   *)
(* number the contract gives it.                                           *)
LEMMA RunsNumbered ==
  ASSUME TypeInv, RecordInv
  PROVE  Cardinality({u \in Tasks : task[u].result # NoRun}) = Len(runs)
<1> DEFINE S == {u \in Tasks : task[u].result # NoRun}
           f == [r \in 1 .. Len(runs) |-> runs[r].task]
<1>1. Len(runs) \in Nat /\ RunIds = 1 .. Len(runs)
  BY LenProperties DEF RunIds, TypeInv, TypeOK, CaseTypeOK
<1>2. ASSUME NEW r \in RunIds
      PROVE  runs[r].task \in S /\ task[runs[r].task].result = r
  <2> DEFINE u == runs[r].task
  <2>1. u \in Tasks /\ r \in {x \in RunIds : runs[x].task = u}
    BY DEF RecordInv, RunsKnown
  <2>2. task[u].result # NoRun /\ {x \in RunIds : runs[x].task = u} = {task[u].result}
    BY <2>1 DEF RecordInv, ResultExact
  <2> QED BY <2>1, <2>2
<1>3. ASSUME NEW u \in S
      PROVE  task[u].result \in RunIds /\ runs[task[u].result].task = u
  BY DEF RecordInv, ResultExact
<1>4. f \in Bijection(1 .. Len(runs), S)
  <2>1. f \in [1 .. Len(runs) -> S]
    BY <1>1, <1>2
  <2>2. \A x, y \in 1 .. Len(runs) : f[x] = f[y] => x = y
    BY <1>1, <1>2
  <2>3. \A u \in S : \E x \in 1 .. Len(runs) : f[x] = u
    BY <1>1, <1>3
  <2> QED BY <2>1, <2>2, <2>3 DEF Bijection, Injection, Surjection, IsInjective
<1> HIDE DEF f, S
<1>5. ExistsBijection(1 .. Len(runs), S)
  BY <1>4 DEF ExistsBijection
<1>6. Cardinality(S) = Len(runs)
  BY <1>1, <1>5, FS_CountingElements
<1> QED BY <1>6 DEF S

(* A step that changes what one task shows and no number of any.           *)
LEMMA OneShown ==
  ASSUME NEW t \in Tasks, \A u \in Tasks \ {t} : Unseen(u), NEW s, ProjectTaskStatus(t)' = s,
         \A u \in Tasks : task'[u].gen = task[u].gen /\ task'[u].result = task[u].result
  PROVE  /\ Seen' = [Seen EXCEPT ![t] = s]
         /\ [u \in Tasks |-> task'[u].gen] = [u \in Tasks |-> task[u].gen]
         /\ [u \in Tasks |-> task'[u].result] = [u \in Tasks |-> task[u].result]
<1>1. Seen' = [Seen EXCEPT ![t] = s]
  BY DEF Unseen, Seen
<1>2. /\ [u \in Tasks |-> task'[u].gen] = [u \in Tasks |-> task[u].gen]
      /\ [u \in Tasks |-> task'[u].result] = [u \in Tasks |-> task[u].result]
  OBVIOUS
<1> QED BY <1>1, <1>2

LEMMA SeenIs == ASSUME NEW u \in Tasks PROVE Seen[u] = ProjectTaskStatus(u)
  BY DEF Seen

(* A creation finds no task under preparation.                             *)
LEMMA InsertSeen ==
  ASSUME TypeInv, Ownership, NEW t \in Tasks, NEW op, NEW pack, NEW source,
         InsertTask(t, op, pack, source)
  PROVE  Contract!Accept(t)
<1>1. /\ Absent(t) /\ \A u \in Tasks : ~Active(u)
      /\ task' = [task EXCEPT ![t].state = "queued"] /\ current' = current
  BY DEF InsertTask, StartPlanning, NoLiveTask, Ownership, ActiveTaskOwnsCase, Live, Active,
         LiveStates
<1>2. \A u \in Tasks : task'[u].gen = task[u].gen /\ task'[u].result = task[u].result
  BY <1>1 DEF TypeInv, TypeOK, TaskRows
<1>3. \A u \in Tasks \ {t} : Unseen(u)
  BY <1>1, RowUnseen DEF TypeInv, TypeOK
<1>4. /\ ProjectTaskStatus(t) = "absent" /\ ProjectTaskStatus(t)' = "preparing"
      /\ \A u \in Tasks : ProjectTaskStatus(u) # "preparing"
  <2>1. task'[t].state = "queued"
    BY <1>1 DEF TypeInv, TypeOK, TaskRows
  <2>2. \A u \in Tasks : task[u].state \in TaskStates
    BY DEF TypeInv, TypeOK, TaskRows
  <2> QED BY <1>1, <2>1, <2>2 DEF ProjectTaskStatus, Absent, Active, ActiveStates, TaskStates,
                                  SettledStates
<1>5. PICK s : s = "preparing"
  OBVIOUS
<1>6. /\ Seen' = [Seen EXCEPT ![t] = s]
      /\ [u \in Tasks |-> task'[u].gen] = [u \in Tasks |-> task[u].gen]
      /\ [u \in Tasks |-> task'[u].result] = [u \in Tasks |-> task[u].result]
  BY <1>2, <1>3, <1>4, <1>5, OneShown
<1>7. Seen[t] = "absent" /\ \A u \in Tasks : Seen[u] # "preparing"
  BY <1>4, SeenIs
<1> QED BY <1>5, <1>6, <1>7 DEF Contract!Accept, Seen

(* A terminal transition without a result settles the task.                *)
LEMMA SettleSeen ==
  ASSUME TypeInv, NEW t \in Tasks, Active(t),
         NEW state \in {"blocked", "timed_out", "failed", "cancelled"}, NEW code,
         SettleRow(t, state, code, task[t].result), current' = current,
         state # "cancelled" => task[t].gen > 0
  PROVE  Contract!SettleWithout(t)
<1>1. /\ task'[t].state = state /\ task'[t].gen = task[t].gen
      /\ task'[t].result = task[t].result
      /\ \A u \in Tasks \ {t} : task'[u] = task[u]
  BY DEF SettleRow, TypeInv, TypeOK, TaskRows
<1>2. \A u \in Tasks : task'[u].gen = task[u].gen /\ task'[u].result = task[u].result
  BY <1>1
<1>3. \A u \in Tasks \ {t} : Unseen(u)
  BY <1>1, RowUnseen
<1>4. /\ ProjectTaskStatus(t) = "preparing"
      /\ ProjectTaskStatus(t)' = IF state = "blocked" THEN "needs_evidence" ELSE state
  BY <1>1 DEF ProjectTaskStatus, Absent, Active, ActiveStates
<1>5. PICK s : s = IF state = "blocked" THEN "needs_evidence" ELSE state
  OBVIOUS
<1>6. /\ Seen' = [Seen EXCEPT ![t] = s]
      /\ [u \in Tasks |-> task'[u].gen] = [u \in Tasks |-> task[u].gen]
      /\ [u \in Tasks |-> task'[u].result] = [u \in Tasks |-> task[u].result]
  BY <1>2, <1>3, <1>4, <1>5, OneShown
<1>7. Seen[t] = "preparing" /\ s \in {"needs_evidence", "timed_out", "failed", "cancelled"}
  BY <1>4, <1>5, SeenIs
<1>8. s # "cancelled" => task[t].gen > 0
  BY <1>5
<1> QED BY <1>6, <1>7, <1>8 DEF Contract!SettleWithout, Seen

(* A claim begins an attempt, if one is left, or settles the task.         *)
LEMMA ClaimSeen ==
  ASSUME TypeInv, NEW w \in Workers, NEW t \in Tasks, Claim(w, t)
  PROVE  Contract!Attempt(t) \/ Contract!SettleWithout(t)
<1>1. Active(t) /\ current' = current
  BY LeasedIsActive DEF Claim, ClaimQueued, ReclaimExpired, ExhaustExpired, Expired, LeaseTo,
     Active, ActiveStates, caseVars
<1>2. CASE LeaseTo(w, t) /\ AttemptsLeft(t)
  <2>1. /\ task'[t].state = "leased" /\ task'[t].gen = task[t].gen + 1
        /\ task'[t].result = task[t].result
        /\ \A u \in Tasks \ {t} : task'[u] = task[u]
    BY <1>2 DEF LeaseTo, NextGeneration, TypeInv, TypeOK, TaskRows
  <2>2. \A u \in Tasks : task'[u].result = task[u].result
    BY <2>1
  <2>3. \A u \in Tasks \ {t} : Unseen(u)
    BY <1>1, <2>1, RowUnseen
  <2>4. ProjectTaskStatus(t) = "preparing" /\ ProjectTaskStatus(t)' = "preparing"
    BY <1>1, <2>1 DEF ProjectTaskStatus, Absent, Active, ActiveStates
  <2>5. \A u \in Tasks : ProjectTaskStatus(u)' = ProjectTaskStatus(u)
    BY <2>3, <2>4 DEF Unseen
  <2> QED BY <1>2, <2>1, <2>2, <2>3, <2>4, <2>5, OneSeen
          DEF Contract!Attempt, AttemptsLeft
<1>3. CASE ExhaustExpired(w, t)
  <2>1. task[t].gen > 0 /\ SettleRow(t, "failed", "lease_expired", task[t].result)
    BY <1>3 DEF ExhaustExpired, AttemptsLeft, TypeInv, TypeOK, TaskRows
  <2> QED BY <1>1, <2>1, SettleSeen
<1>4. (LeaseTo(w, t) /\ AttemptsLeft(t)) \/ ExhaustExpired(w, t)
  BY DEF Claim, ClaimQueued, ReclaimExpired, TypeInv, AttemptsBounded
<1> QED BY <1>2, <1>3, <1>4

(* A result settles the task with the next run of the Case; the runs of    *)
(* other tasks were no longer current before.                              *)
LEMMA FinalizeSeen ==
  ASSUME TypeInv, RecordInv, AnswersPinned, NEW w \in Workers, FinalizeTask(w)
  PROVE  \E t \in Tasks : Contract!SettleWithRun(t)
<1> DEFINE out == worker[w].out
<1>1. PICK t, n : t = worker[w].task /\ n = Len(runs) + 1
  OBVIOUS
<1>2. /\ t \in Tasks /\ Active(t) /\ out \in RunStates
      /\ n \in Nat \ {0} /\ n \notin RunIds /\ RunIds' = RunIds \cup {n}
      /\ \A r \in RunIds : runs'[r] = runs[r]
      /\ runs'[n] = [task |-> t, rev |-> pin[t].rev, pack |-> pin[t].pack,
                     state |-> out, supersedes |-> pin[t].pred]
      /\ current = {} /\ current' = {n}
      /\ ResultFitsCase(pin[t].rev, pin[t].pred)
      /\ caseState' = IF out = "review_required" THEN "advisor_review" ELSE "planning"
      /\ UNCHANGED <<revision, lineage, reviews, briefs, openBriefs, decisions,
                     packs, promoted, pin>>
      /\ task'[t].state = ResultState(out) /\ task'[t].result = n
      /\ \A u \in Tasks \ {t} : task'[u] = task[u]
  BY <1>1, FinalizeRows
<1>3. task'[t].gen = task[t].gen /\ task[t].gen > 0
  <2>1. Held(w) /\ SettleRow(t, ResultState(out), ResultCode(out), n)
    BY <1>1 DEF FinalizeTask
  <2>2. task[t].gen = worker[w].gen /\ worker[w].pc # "idle"
    BY <1>1, <2>1, HeldTask DEF FinalizeTask
  <2>3. worker[w].gen > 0
    BY <2>2 DEF AnswersPinned
  <2> QED BY <1>2, <2>1, <2>2, <2>3 DEF SettleRow, TypeInv, TypeOK, TaskRows
<1>4. \A u \in Tasks \ {t} : Unseen(u)
  <2> TAKE u \in Tasks \ {t}
  <2>1. task'[u] = task[u] /\ (task[u].result # n \/ task[u].result = NoRun)
    BY <1>2 DEF RecordInv, ResultExact
  <2>2. task[u].state = "waiting_review" => task[u].result # NoRun
    BY DEF RecordInv, ResultExact
  <2> QED BY <1>2, <2>1, <2>2 DEF Unseen, ProjectTaskStatus, Absent, Active
<1>5. /\ ProjectTaskStatus(t) = "preparing"
      /\ ProjectTaskStatus(t)' \in {"needs_advisor_review", "needs_evidence", "failed"}
  BY <1>2 DEF ProjectTaskStatus, Absent, Active, ActiveStates, ResultState, RunStates
<1>6. Cardinality({u \in Tasks : task[u].result # 0}) + 1 = n
  BY <1>1, RunsNumbered
<1>7. \A u \in Tasks : task'[u].gen = task[u].gen
  BY <1>2, <1>3
<1>8. Contract!Cardinality({u \in Tasks : [x \in Tasks |-> task[x].result][u] # 0}) + 1 = n
  <2>1. {u \in Tasks : [x \in Tasks |-> task[x].result][u] # 0}
          = {u \in Tasks : task[u].result # 0}
    OBVIOUS
  <2>2. \A S : Contract!Cardinality(S) = Cardinality(S)
    BY DEF Contract!Cardinality, Cardinality
  <2> QED BY <1>6, <2>1, <2>2
<1>9. /\ Seen[t] = "preparing" /\ [x \in Tasks |-> task[x].gen][t] > 0
      /\ Seen' = [Seen EXCEPT ![t] = ProjectTaskStatus(t)']
      /\ [u \in Tasks |-> task'[u].gen] = [u \in Tasks |-> task[u].gen]
      /\ [u \in Tasks |-> task'[u].result] = [[u \in Tasks |-> task[u].result] EXCEPT ![t] = n]
  BY <1>2, <1>3, <1>4, <1>5, <1>7, OneSeen DEF Seen
<1>10. Contract!SettleWithRun(t)
  BY <1>5, <1>8, <1>9 DEF Contract!SettleWithRun, Seen
<1> QED BY <1>2, <1>10

(* Short of a result, a worker step is not seen, or settles its task.      *)
LEMMA WorkerSeen ==
  ASSUME TypeInv, AnswersPinned, NEW w \in Workers,
         WorkerStep(w) \/ Heartbeat(w) \/ HeartbeatBreaks(w) \/ Abandon(w),
         ~FinalizeTask(w)
  PROVE  UNCHANGED Contract!vars \/ \E t \in Tasks : Contract!SettleWithout(t)
<1> DEFINE t == worker[w].task
<1>1. Held(w) => t \in Tasks /\ Active(t) /\ task[t].gen = worker[w].gen
  BY HeldTask, LeasedIsActive
<1>2. CASE FailTask(w) /\ ~Requeue(w, t)
  <2> DEFINE code == FailureCode(w)
             state == TerminalState(code)
  <2>1. Held(w) /\ SettleRow(t, state, code, task[t].result) /\ current' = current
    BY <1>2 DEF FailTask, caseVars
  <2>2. state \in {"blocked", "timed_out", "failed"}
    BY DEF TerminalState
  <2>3. worker[w].gen > 0
    BY <1>2 DEF FailTask, Failing, AnswersPinned
  <2> HIDE DEF state, code
  <2> QED BY <1>1, <2>1, <2>2, <2>3, SettleSeen
<1>3. CASE ~FailTask(w) \/ Requeue(w, t)
  <2>1. \/ task' = task
        \/ /\ t \in Tasks /\ Active(t) /\ task'[t].state \in ActiveStates
           /\ task'[t].gen = task[t].gen /\ task'[t].result = task[t].result
           /\ \A u \in Tasks \ {t} : task'[u] = task[u]
    <3>1. CASE StartTask(w)
      BY <1>1, <3>1 DEF StartTask, TypeInv, TypeOK, TaskRows, ActiveStates
    <3>2. CASE Heartbeat(w) /\ Held(w)
      <4>1. task' = [task EXCEPT ![t].lease = LeaseTicks]
        BY <3>2 DEF Heartbeat, ExtendLease
      <4> QED BY <1>1, <3>2, <4>1 DEF TypeInv, TypeOK, TaskRows, Active
    <3>3. CASE FailTask(w) /\ Requeue(w, t)
      BY <1>1, <3>3 DEF FailTask, Requeue, TypeInv, TypeOK, TaskRows, ActiveStates
    <3> QED BY <1>3, <3>1, <3>2, <3>3
            DEF WorkerStep, LoadTask, AdapterAnswers, DiscardAnswer, FinalizeRefused, LeaseLost,
                Heartbeat, HeartbeatBreaks, Abandon, taskVars
  <2>2. current' = current
    BY <1>3 DEF WorkerStep, LoadTask, StartTask, AdapterAnswers, DiscardAnswer, FailTask,
                FinalizeRefused, LeaseLost, Heartbeat, HeartbeatBreaks, Abandon, caseVars
  <2>3. \A u \in Tasks : Unseen(u)
    <3>1. CASE task' = task
      BY <2>2, <3>1, RowUnseen
    <3>2. CASE task' # task
      BY <2>1, <2>2, <3>2, RowUnseen DEF Unseen, ProjectTaskStatus, Active, Absent, ActiveStates
    <3> QED BY <3>1, <3>2
  <2> QED BY <2>3, AllUnseen
<1> QED BY <1>2, <1>3

(* A new revision outdates the run it replaces.                            *)
LEMMA PublishSeen ==
  ASSUME TypeInv, RecordInv, ConfirmFact
  PROVE  UNCHANGED Contract!vars \/ \E t \in Tasks : Contract!Outdate(t)
<1>1. PICK r \in current \cup {NoRun} : PublishRevision(r) /\ task' = task
  BY DEF ConfirmFact, taskVars
<1>2. current' = current \ {r} /\ MayReplace(r) /\ current \subseteq RunIds
  BY <1>1 DEF PublishRevision, RecordInv, RunsKnown
<1>3. CASE r = NoRun
  <2>1. current' = current
    BY <1>2, <1>3 DEF MayReplace
  <2> QED BY <1>1, <2>1, RowUnseen, AllUnseen
<1>4. CASE r # NoRun
  <2>1. /\ r \in RunIds /\ runs[r].state = "review_required"
        /\ current = {r} /\ current' = {}
    BY <1>2, <1>4 DEF MayReplace, Reviewed, RecordInv, RunsKnown
  <2>2. PICK t \in Tasks : t = runs[r].task
    BY <2>1 DEF RecordInv, RunsKnown
  <2>3. /\ task[t].result = r /\ task[t].state = "waiting_review"
        /\ \A u \in Tasks \ {t} : task[u].result # r
    <3>1. r \in {x \in RunIds : runs[x].task = t}
      BY <2>1, <2>2
    <3>2. task[t].result # NoRun /\ {x \in RunIds : runs[x].task = t} = {task[t].result}
      BY <3>1 DEF RecordInv, ResultExact
    <3>3. task[t].result = r
      BY <3>1, <3>2
    <3>4. task[t].state = ResultState(runs[r].state)
      BY <3>2, <3>3 DEF RecordInv, ResultExact
    <3>5. \A u \in Tasks \ {t} : task[u].result # r
      BY <1>4, <2>2 DEF RecordInv, ResultExact
    <3> QED BY <2>1, <3>3, <3>4, <3>5 DEF ResultState
  <2>4. \A u \in Tasks \ {t} : Unseen(u)
    BY <1>1, <2>1, <2>3 DEF Unseen, ProjectTaskStatus, Absent, Active
  <2>5. /\ ProjectTaskStatus(t) = "needs_advisor_review"
        /\ ProjectTaskStatus(t)' = "outdated"
    BY <1>1, <2>1, <2>3 DEF ProjectTaskStatus, Absent, Active, ActiveStates
  <2>6. \A u \in Tasks : task'[u].gen = task[u].gen /\ task'[u].result = task[u].result
    BY <1>1
  <2>7. /\ Seen[t] = "needs_advisor_review" /\ Seen' = [Seen EXCEPT ![t] = "outdated"]
        /\ [u \in Tasks |-> task'[u].gen] = [u \in Tasks |-> task[u].gen]
        /\ [u \in Tasks |-> task'[u].result] = [u \in Tasks |-> task[u].result]
    <3>1. PICK s : s = "outdated"
      OBVIOUS
    <3> QED BY <2>4, <2>5, <2>6, <3>1, OneShown, SeenIs
  <2>8. Contract!Outdate(t)
    BY <2>7 DEF Contract!Outdate, Seen
  <2> QED BY <2>8
<1> QED BY <1>3, <1>4

(* Every step is one of the contract, or not seen.                         *)
LEMMA NextSeen ==
  ASSUME TypeInv, Ownership, RecordInv, AnswersPinned, [Next]_vars
  PROVE  UNCHANGED Contract!vars \/ Contract!Next
<1> DEFINE Step == UNCHANGED Contract!vars \/ Contract!Next
<1>1. CASE CreateTask
  BY <1>1, InsertSeen DEF CreateTask, Contract!Next
<1>2. ASSUME NEW s \in Tasks, RetryTask(s) PROVE Step
  BY <1>2, InsertSeen DEF RetryTask, Contract!Next
<1>3. ASSUME NEW t \in Tasks, CancelTask(t) PROVE Step
  <2>1. Contract!SettleWithout(t)
    BY <1>3, SettleSeen DEF CancelTask, caseVars
  <2> QED BY <2>1 DEF Contract!Next, Contract!Settle
<1>4. ASSUME NEW w \in Workers, NEW t \in Tasks, Claim(w, t) PROVE Step
  BY <1>4, ClaimSeen DEF Contract!Next, Contract!Settle
<1>5. ASSUME NEW w \in Workers,
             WorkerStep(w) \/ Heartbeat(w) \/ HeartbeatBreaks(w) \/ Abandon(w)
      PROVE  Step
  BY <1>5, FinalizeSeen, WorkerSeen DEF Contract!Next, Contract!Settle
<1>6. CASE Tick
  <2>1. \A u \in Tasks : Unseen(u)
    BY <1>6 DEF Tick, TypeInv, TypeOK, TaskRows, caseVars, Unseen, ProjectTaskStatus, Absent, Active
  <2> QED BY <2>1, AllUnseen
<1>7. CASE Review \/ Decide \/ Promote \/ UNCHANGED vars
  <2>1. task' = task /\ current' = current
    BY <1>7 DEF Review, ReviewPlanningRun, Decide, DecideFamilyBrief, Promote,
                PromoteExternalEvidence, vars, caseVars, taskVars
  <2> QED BY <2>1, RowUnseen, AllUnseen
<1>8. CASE ConfirmFact
  BY <1>8, PublishSeen DEF Contract!Next
<1> QED BY <1>1, <1>2, <1>3, <1>4, <1>5, <1>6, <1>7, <1>8 DEF Next

(* Seen through the public statuses, whatever the tables, the queue and    *)
(* the workers do is a step of the contract or none: tasks are accepted    *)
(* one at a time, attempts are bounded, a status settles once, and the     *)
(* runs are numbered in the order of the tasks that left them.             *)
THEOREM ContractStepsAlways == Spec => ContractSteps
<1>1. Init => Contract!Init
  <2>1. Init => \A t \in Tasks : task[t].gen = 0 /\ task[t].result = 0 /\ Absent(t)
    BY DEF Init, NoRow, Absent
  <2>2. \A t \in Tasks : Absent(t) => ProjectTaskStatus(t) = "absent"
    BY DEF ProjectTaskStatus, Absent, Active, ActiveStates
  <2> QED BY <2>1, <2>2 DEF Contract!Init
<1>2. Init => AnswersPinned
  BY InitRecords
<1>3. Spec => []AnswersPinned
  BY <1>2, NextAnswers, TypeInvariant, PTL DEF Spec
<1>4. TypeInv /\ Ownership /\ RecordInv /\ AnswersPinned /\ [Next]_vars =>
          UNCHANGED Contract!vars \/ Contract!Next
  BY NextSeen
<1> QED BY <1>1, <1>3, <1>4, RecordInvariant, OwnershipInvariant, TypeInvariant, PTL
        DEF Spec, ContractSteps

-----------------------------------------------------------------------------
-----------------------------------------------------------------------------
(***************************************************************************)
(* What the demo tells and offers is what the rows warrant.  For this the  *)
(* rows have to say a little more: whoever is asked has a brief, a Case    *)
(* that plans again has an advisor's answer to its run, a pin names a pack *)
(* there is, and a live task is the last one of its revision, so that the  *)
(* task the projections look at is the one the Case waits for.             *)
(***************************************************************************)
OffersBacked ==
    /\ openBriefs \cup decisions \subseteq briefs
    /\ caseState = "planning" =>
           \A r \in current : runs[r].state = "review_required" =>
               Reviewed(r, "reject") \/ Reviewed(r, "request_revision")
    /\ \A t \in Tasks : ~Absent(t) => pin[t].pack \in 1 .. packs
    /\ \A t, u \in Tasks : Live(t) /\ pin[u].rev = pin[t].rev => u <= t

LEMMA InitOffers == Init => OffersBacked
  BY DEF Init, CaseInit, NoRow, OffersBacked, Absent, Live, LiveStates, ActiveStates

LEMMA MinorOffers ==
  ASSUME TypeInv, OffersBacked, Minor
  PROVE  OffersBacked'
<1>1. \A t \in Tasks : Live(t)' => Live(t)
  BY DEF Minor, Live, LiveStates, Active
<1> QED BY <1>1 DEF Minor, caseVars, OffersBacked, Reviewed

(* A new row comes after all others and finds no live one.                 *)
LEMMA InsertOffers ==
  ASSUME TypeInv, RecordInv, OffersBacked,
         NEW t \in Tasks, NEW op, NEW pack, NEW source, InsertTask(t, op, pack, source)
  PROVE  OffersBacked'
<1>1. /\ Absent(t) /\ AdmitsTask(op, pack) /\ NoLiveTask
      /\ caseState' = "planning"
      /\ UNCHANGED <<revision, runs, current, reviews, briefs, openBriefs, decisions, packs>>
  BY DEF InsertTask, StartPlanning
<1>2. /\ pin'[t].rev = revision /\ pin'[t].pack = pack
      /\ \A u \in Tasks \ {t} : pin'[u] = pin[u] /\ task'[u] = task[u]
  BY DEF InsertTask, TypeInv, TypeOK
<1>3. caseState = "planning" \/ current = {}
  <2>1. CASE caseState = "intake"
    <3>1. \A r \in current : runs[r].task \in Tasks /\ task[runs[r].task].result # NoRun
      BY RunTyped DEF TypeInv, RecordInv, RunsKnown, ResultExact
    <3> QED BY <2>1, <3>1 DEF RecordInv, PinsSound
  <2> QED BY <1>1, <2>1 DEF AdmitsTask
<1>4. caseState' = "planning" =>
         \A r \in current' : runs'[r].state = "review_required" =>
             Reviewed(r, "reject")' \/ Reviewed(r, "request_revision")'
  BY <1>1, <1>3 DEF OffersBacked, Reviewed
<1>5. \A u \in Tasks : ~Absent(u)' => pin'[u].pack \in 1 .. packs'
  BY <1>1, <1>2 DEF OffersBacked, Absent, AdmitsTask
<1>6. ASSUME NEW u \in Tasks, pin[u].rev = revision, u # t PROVE u < t
  <2>1. revision # 0
    BY DEF TypeInv, TypeOK, CaseTypeOK, Revisions
  <2>2. ~Absent(u)
    BY <1>6, <2>1 DEF RecordInv, PinsSound, NoPin
  <2>3. t \notin 1 .. u - 1
    BY <1>1, <2>2 DEF RecordInv, PinsSound
  <2> QED BY <1>6, <2>3 DEF Tasks
<1>7. ASSUME NEW v \in Tasks, NEW u \in Tasks, Live(v)', pin'[u].rev = pin'[v].rev
      PROVE  u <= v
  <2>1. CASE v = t
    BY <1>2, <1>6, <1>7, <2>1 DEF Tasks
  <2>2. CASE v # t
    <3>1. Live(v) /\ pin[v].rev # revision /\ u # t
      BY <1>1, <1>2, <1>7, <2>2 DEF Live, NoLiveTask
    <3> QED BY <1>2, <1>7, <2>2, <3>1 DEF OffersBacked
  <2> QED BY <2>1, <2>2
<1>8. (openBriefs \cup decisions \subseteq briefs)'
  BY <1>1 DEF OffersBacked
<1> QED BY <1>4, <1>5, <1>7, <1>8 DEF OffersBacked

LEMMA FinalizeOffers ==
  ASSUME TypeInv, RecordInv, OffersBacked, NEW w \in Workers, FinalizeTask(w)
  PROVE  OffersBacked'
<1>1. PICK t, n : t = worker[w].task /\ n = Len(runs) + 1
  OBVIOUS
<1>2. /\ t \in Tasks /\ Active(t) /\ worker[w].out \in RunStates
      /\ runs'[n] = [task |-> t, rev |-> pin[t].rev, pack |-> pin[t].pack,
                     state |-> worker[w].out, supersedes |-> pin[t].pred]
      /\ current' = {n}
      /\ caseState' = IF worker[w].out = "review_required" THEN "advisor_review" ELSE "planning"
      /\ UNCHANGED <<revision, reviews, briefs, openBriefs, decisions, packs, pin>>
      /\ \A u \in Tasks \ {t} : task'[u] = task[u]
  BY <1>1, FinalizeRows
<1>3. \A u \in Tasks : (Live(u)' => Live(u)) /\ (~Absent(u)' => ~Absent(u))
  BY <1>2 DEF Live, Absent, Active, ActiveStates, LiveStates
<1> QED BY <1>2, <1>3 DEF OffersBacked

LEMMA CaseStepOffers ==
  ASSUME TypeInv, RecordInv, OffersBacked, Review \/ Decide \/ Promote \/ ConfirmFact
  PROVE  OffersBacked'
<1>1. UNCHANGED <<pin, task>>
  BY DEF Review, Decide, Promote, ConfirmFact, taskVars
<1>2. \A t, u \in Tasks : Live(t)' /\ pin'[u].rev = pin'[t].rev => u <= t
  BY <1>1 DEF OffersBacked, Live
<1>3. \A t \in Tasks : ~Absent(t)' => pin'[t].pack \in 1 .. packs'
  <2>1. packs \in Nat /\ packs' \in {packs, packs + 1}
    BY DEF Review, Decide, Promote, ConfirmFact, ReviewPlanningRun, DecideFamilyBrief,
           PromoteExternalEvidence, PublishRevision, TypeInv, TypeOK, CaseTypeOK
  <2>2. \A k \in 1 .. packs : k \in 1 .. packs'
    BY <2>1
  <2> QED BY <1>1, <2>2 DEF OffersBacked, Absent
<1>4. CASE Review
  <2>1. PICK r \in current, action \in ReviewActions :
           ReviewPlanningRun(r, action) /\ UNCHANGED <<taskVars, worker>>
    BY <1>4 DEF Review
  <2>2. current = {r}
    BY DEF RecordInv, RunsKnown, CurrentRunFresh
  <2>3. [run |-> r, action |-> action] \in reviews'
    BY <2>1 DEF ReviewPlanningRun
  <2>4. caseState' = "planning" => action \in {"reject", "request_revision"}
    BY <2>1 DEF ReviewPlanningRun, ReviewActions
  <2>5. current' = current /\ runs' = runs /\ decisions' = decisions
    BY <2>1 DEF ReviewPlanningRun
  <2>6. \/ briefs' = briefs /\ openBriefs' = openBriefs
        \/ briefs' = briefs \cup {r} /\ openBriefs' = openBriefs \cup {r}
    BY <2>1 DEF ReviewPlanningRun
  <2> QED BY <1>2, <1>3, <2>2, <2>3, <2>4, <2>5, <2>6 DEF OffersBacked, Reviewed
<1>5. CASE Decide
  BY <1>2, <1>3, <1>5 DEF OffersBacked, Decide, DecideFamilyBrief
<1>6. CASE Promote
  BY <1>2, <1>3, <1>6 DEF OffersBacked, Promote, PromoteExternalEvidence, Reviewed
<1>7. CASE ConfirmFact
  BY <1>2, <1>3, <1>7 DEF OffersBacked, ConfirmFact, PublishRevision, Reviewed
<1> QED BY <1>4, <1>5, <1>6, <1>7

LEMMA NextOffers == TypeInv /\ RecordInv /\ OffersBacked /\ [Next]_vars => OffersBacked'
<1> SUFFICES ASSUME TypeInv, RecordInv, OffersBacked, [Next]_vars PROVE OffersBacked'
  OBVIOUS
<1>1. CASE CreateTask
  BY <1>1, InsertOffers DEF CreateTask
<1>2. ASSUME NEW s \in Tasks, RetryTask(s) PROVE OffersBacked'
  BY <1>2, InsertOffers DEF RetryTask
<1>3. ASSUME NEW t \in Tasks, CancelTask(t) PROVE OffersBacked'
  <2>1. "cancelled" \in SettledStates \ {"waiting_review"}
    BY DEF SettledStates
  <2> QED BY <1>3, <2>1, SettleMinor, MinorOffers DEF CancelTask
<1>4. ASSUME NEW w \in Workers, NEW t \in Tasks, Claim(w, t) PROVE OffersBacked'
  BY <1>4, ClaimMinor, MinorOffers
<1>5. ASSUME NEW w \in Workers,
             WorkerStep(w) \/ Heartbeat(w) \/ HeartbeatBreaks(w) \/ Abandon(w)
      PROVE  OffersBacked'
  BY <1>5, WorkerMinor, MinorOffers, FinalizeOffers
<1>6. CASE Tick
  <2>1. Minor
    BY <1>6 DEF Tick, TypeInv, TypeOK, TaskRows, Minor, Active, Absent, ActiveStates
  <2> QED BY <2>1, MinorOffers
<1>7. CASE Review \/ Decide \/ Promote \/ ConfirmFact
  BY <1>7, CaseStepOffers
<1>8. CASE UNCHANGED vars
  <2>1. Minor
    BY <1>8 DEF vars, taskVars, Minor, Active, Absent, ActiveStates
  <2> QED BY <2>1, MinorOffers
<1> QED BY <1>1, <1>2, <1>3, <1>4, <1>5, <1>6, <1>7, <1>8 DEF Next

LEMMA OffersInvariant == Spec => []OffersBacked
  BY InitOffers, NextOffers, RecordInvariant, TypeInvariant, PTL DEF Spec

(* A set of rows that is not empty has a last one.                         *)
LEMMA LastOf ==
  ASSUME NEW S \in SUBSET Tasks, S # {}
  PROVE  \E t \in S : \A u \in S : u <= t
<1> DEFINE R == OpToRel(<, Nat)
           T == {MaxTasks - s : s \in S}
<1>1. IsWellFoundedOn(R, Nat)
  BY NatLessThanWellFounded
<1>2. \A y, x \in Nat : <<y, x>> \in R <=> y < x
  BY DEF OpToRel
<1>3. T \subseteq Nat /\ T # {}
  <2>1. \A s \in S : MaxTasks - s \in Nat
    BY DEF Tasks
  <2>2. PICK s : s \in S
    OBVIOUS
  <2>3. MaxTasks - s \in T
    BY <2>2
  <2> QED BY <2>1, <2>3
<1> HIDE DEF R, T
<1>4. \E x \in T : \A y \in T : ~(<<y, x>> \in R)
  BY <1>1, <1>3, WFMin, Zenon
<1>5. PICK x \in T : \A y \in T : ~(<<y, x>> \in R)
  BY <1>4
<1>6. \A y \in T : ~(y < x)
  BY <1>2, <1>3, <1>5, Zenon
<1>7. PICK t \in S : x = MaxTasks - t
  BY DEF T
<1>8. \A u \in S : ~(MaxTasks - u < x)
  BY <1>6 DEF T
<1> QED BY <1>7, <1>8 DEF Tasks

(* The task both projections look at.                                      *)
LEMMA LatestIs ==
  ASSUME TypeInv
  PROVE  /\ LatestTask = NoTask => \A u \in Tasks : pin[u].rev # revision
         /\ LatestTask # NoTask =>
              /\ LatestTask \in Tasks /\ pin[LatestTask].rev = revision
              /\ \A u \in Tasks : pin[u].rev = revision => u <= LatestTask
<1> DEFINE planned == {u \in Tasks : pin[u].rev = revision}
<1>1. CASE planned = {}
  BY <1>1 DEF LatestTask
<1>2. CASE planned # {}
  <2>1. LatestTask = CHOOSE t \in planned : \A u \in planned : u <= t
    BY <1>2 DEF LatestTask
  <2>2. \E t \in planned : \A u \in planned : u <= t
    BY <1>2, LastOf
  <2>3. LatestTask \in planned /\ \A u \in planned : u <= LatestTask
    BY <2>1, <2>2
  <2> QED BY <2>3 DEF Tasks
<1> QED BY <1>1, <1>2

LEMMA LatestFacts ==
  ASSUME TypeInv, RecordInv, LatestTask # NoTask, NEW t, t = LatestTask
  PROVE  /\ t \in Tasks /\ ~Absent(t) /\ task[t].state \in TaskStates \ {"absent"}
         /\ pin[t].rev = revision /\ pin[t].pred = lineage[revision]
         /\ caseState # "intake"
         /\ LatestResult = task[t].result
         /\ LatestResult = NoRun => task[t].state # "waiting_review"
         /\ LatestResult # NoRun =>
              /\ LatestResult \in RunIds /\ current = {LatestResult}
              /\ runs[LatestResult].rev = revision
              /\ runs[LatestResult].pack = pin[t].pack
              /\ runs[LatestResult].supersedes = lineage[revision]
              /\ runs[LatestResult].state \in RunStates
              /\ task[t].state = ResultState(runs[LatestResult].state)
<1>1. t \in Tasks /\ pin[t].rev = revision
  BY LatestIs
<1>2. revision # 0
  BY DEF TypeInv, TypeOK, CaseTypeOK, Revisions
<1>3. ~Absent(t)
  BY <1>1, <1>2 DEF RecordInv, PinsSound, NoPin
<1>4. caseState # "intake" /\ pin[t].pred = lineage[revision]
  BY <1>1, <1>3 DEF RecordInv, PinsSound
<1>5. task[t].state \in TaskStates \ {"absent"}
  BY <1>1, <1>3 DEF TypeInv, TypeOK, TaskRows, Absent
<1>6. PICK r : r = LatestResult
  OBVIOUS
<1>7. r = task[t].result
  BY <1>6 DEF LatestResult
<1>8. r = NoRun => task[t].state # "waiting_review"
  BY <1>1, <1>7 DEF RecordInv, ResultExact
<1>9. ASSUME r # NoRun
      PROVE  /\ r \in RunIds
             /\ runs[r].rev = revision /\ runs[r].pack = pin[t].pack
             /\ runs[r].supersedes = lineage[revision]
             /\ task[t].state = ResultState(runs[r].state)
  BY <1>1, <1>4, <1>7, <1>9 DEF RecordInv, ResultExact
<1>10. ASSUME r # NoRun PROVE current = {r} /\ runs[r].state \in RunStates
  <2>1. runs[r].state \in RunStates
    BY <1>9, <1>10, RunTyped DEF TypeInv
  <2>2. revision \in Nat
    BY DEF TypeInv, TypeOK, CaseTypeOK, Revisions
  <2> QED BY <1>9, <1>10, <2>1, <2>2 DEF RecordInv, CurrentRunFresh
<1> QED BY <1>1, <1>3, <1>4, <1>5, <1>6, <1>7, <1>8, <1>9, <1>10

(* The brief of a Case that has one is that of its current run.            *)
LEMMA BriefsAre ==
  ASSUME TypeInv, RecordInv, OffersBacked
  PROVE  /\ AuthoritativeBriefs = IF caseState \in {"family_review", "plan_ready"}
                                  THEN current ELSE {}
         /\ caseState \in {"family_review", "plan_ready"} => \E r \in RunIds : current = {r}
<1>1. \A r \in current : current = {r} /\ r \in RunIds /\ runs[r].rev = revision
  BY DEF RecordInv, RunsKnown, CurrentRunFresh
<1>2. caseState = "family_review" => openBriefs = current /\ decisions = {}
  BY DEF RecordInv, CaseStateWitnessed
<1>3. caseState = "plan_ready" => decisions = current /\ openBriefs = {}
  BY DEF RecordInv, CaseStateWitnessed
<1>4. caseState \in {"family_review", "plan_ready"} => \E r \in current : TRUE
  BY DEF RecordInv, CaseStateWitnessed
<1>5. openBriefs \cup decisions \subseteq briefs
  BY DEF OffersBacked
<1>6. AuthoritativeBriefs = IF caseState \in {"family_review", "plan_ready"} THEN current ELSE {}
  <2>1. CASE caseState = "family_review"
    BY <1>1, <1>2, <1>5, <2>1 DEF AuthoritativeBriefs
  <2>2. CASE caseState = "plan_ready"
    BY <1>1, <1>3, <1>5, <2>2 DEF AuthoritativeBriefs
  <2>3. CASE caseState \notin {"family_review", "plan_ready"}
    BY <2>3 DEF AuthoritativeBriefs
  <2> QED BY <2>1, <2>2, <2>3
<1> QED BY <1>1, <1>4, <1>6

(* A run that was sent back is the result of the latest task, which waits. *)
LEMMA RequestIs ==
  ASSUME TypeInv, RecordInv, OffersBacked, RevisionRequested
  PROVE  /\ caseState = "planning" /\ LatestTask # NoTask
         /\ LatestResult # NoRun /\ runs[LatestResult].state = "review_required"
         /\ current = {LatestResult} /\ Reviewed(LatestResult, "request_revision")
<1>1. PICK r \in current : runs[r].rev = revision /\ Reviewed(r, "request_revision")
  BY DEF RevisionRequested
<1>2. r \in RunIds /\ current = {r} /\ runs[r].state = "review_required"
  BY <1>1 DEF RecordInv, RunsKnown, CurrentRunFresh, Reviewed
<1>3. PICK t : t = runs[r].task
  OBVIOUS
<1>4. t \in Tasks
  BY <1>2, <1>3 DEF RecordInv, RunsKnown
<1>5. task[t].result = r /\ pin[t].rev = revision /\ task[t].state = "waiting_review"
  <2>1. r \in {x \in RunIds : runs[x].task = t}
    BY <1>2, <1>3
  <2>2. task[t].result = r
    BY <1>4, <2>1 DEF RecordInv, ResultExact
  <2>3. r # NoRun
    BY <1>2, RunTyped DEF TypeInv
  <2> QED BY <1>1, <1>2, <1>4, <2>2, <2>3 DEF RecordInv, ResultExact, ResultState
<1>6. Live(t)
  BY <1>5 DEF Live, LiveStates
<1>7. LatestTask = t
  <2>1. LatestTask # NoTask
    BY <1>4, <1>5, LatestIs
  <2>2. LatestTask <= t /\ t <= LatestTask /\ LatestTask \in Tasks
    BY <1>4, <1>5, <1>6, <2>1, LatestIs DEF OffersBacked
  <2> QED BY <1>4, <2>2 DEF Tasks
<1>8. t # NoTask /\ LatestResult = r /\ r # NoRun
  BY <1>2, <1>4, <1>5, <1>7, RunTyped DEF LatestResult, Tasks, TypeInv
<1>9. caseState = "planning"
  <2>1. [run |-> r, action |-> "request_revision"] \in ReviewsOf(r)
    BY <1>1 DEF Reviewed, ReviewsOf
  <2>2. caseState # "advisor_review"
    BY <1>2, <2>1 DEF RecordInv, CaseStateWitnessed
  <2>3. caseState \notin {"family_review", "plan_ready"}
    <3>1. [run |-> r, action |-> "request_revision"] #
             [run |-> r, action |-> "approve_for_consultation"]
      OBVIOUS
    <3> QED BY <1>2, <2>1, <3>1 DEF RecordInv, CaseStateWitnessed
  <2>4. caseState # "intake"
    BY <1>7, <1>8, LatestFacts
  <2> QED BY <2>2, <2>3, <2>4 DEF TypeInv, TypeOK, CaseTypeOK, CaseStates
<1> QED BY <1>1, <1>2, <1>7, <1>8, <1>9

(* The situations a Case can be in, as far as both projections see it.     *)
AtFamily == /\ caseState \in {"family_review", "plan_ready"}
            /\ AuthoritativeBriefs # {} /\ AuthoritativeBriefs = current /\ ~RevisionRequested
Quarters == AuthoritativeBriefs = {} /\ ~RevisionRequested
Sent == AuthoritativeBriefs = {} /\ RevisionRequested
Unplanned == Quarters /\ LatestTask = NoTask
Resulted(state) ==
    Quarters /\ LatestTask # NoTask /\ LatestResult # NoRun /\ runs[LatestResult].state = state
Stopped ==
    /\ Quarters /\ LatestTask # NoTask
    /\ task[LatestTask].state \in {"blocked", "timed_out", "failed", "cancelled"}
    /\ ~ResultIs("blocked") /\ ~ResultIs("review_required")
    /\ LatestResult # NoRun => task[LatestTask].state = "failed"
UnderWay == Quarters /\ LatestTask # NoTask /\ Active(LatestTask) /\ LatestResult = NoRun

LEMMA Situations ==
  ASSUME TypeInv, RecordInv, OffersBacked
  PROVE  \/ AtFamily \/ Sent \/ Unplanned
         \/ Resulted("blocked") \/ Resulted("review_required")
         \/ Stopped \/ UnderWay
<1>1. CASE AuthoritativeBriefs # {}
  <2>1. caseState \in {"family_review", "plan_ready"} /\ AuthoritativeBriefs = current
    BY <1>1, BriefsAre
  <2>2. ~RevisionRequested
    BY <2>1, RequestIs
  <2> QED BY <1>1, <2>1, <2>2 DEF AtFamily
<1>2. CASE AuthoritativeBriefs = {} /\ RevisionRequested
  BY <1>2 DEF Sent
<1>3. CASE Quarters /\ LatestTask = NoTask
  BY <1>3 DEF Unplanned
<1>4. CASE Quarters /\ LatestTask # NoTask
  <2>1. PICK t, r : t = LatestTask /\ r = LatestResult
    OBVIOUS
  <2>2. /\ t \in Tasks /\ task[t].state \in TaskStates \ {"absent"}
        /\ r = NoRun => task[t].state # "waiting_review"
        /\ r # NoRun => /\ runs[r].state \in RunStates
                        /\ task[t].state = ResultState(runs[r].state)
    BY <1>4, <2>1, LatestFacts
  <2>3. r # NoRun => ~Active(t)
    <3>1. r = task[t].result
      BY <1>4, <2>1, LatestFacts
    <3> QED BY <2>2, <3>1, ActiveHasNoRun DEF RecordInv
  <2>4. CASE r # NoRun
    <3>1. CASE runs[r].state \in {"blocked", "review_required"}
      BY <1>4, <2>1, <2>4, <3>1 DEF Resulted
    <3>2. CASE runs[r].state = "failed"
      BY <1>4, <2>1, <2>2, <2>4, <3>2 DEF Stopped, ResultIs, ResultState
    <3> QED BY <2>2, <2>4, <3>1, <3>2 DEF RunStates
  <2>5. CASE r = NoRun
    <3>1. Active(t) \/ task[t].state \in {"blocked", "timed_out", "failed", "cancelled"}
      BY <2>2, <2>5 DEF TaskStates, SettledStates, ActiveStates, Active
    <3> QED BY <1>4, <2>1, <2>5, <3>1 DEF Stopped, UnderWay, ResultIs
  <2> QED BY <2>4, <2>5
<1> QED BY <1>1, <1>2, <1>3, <1>4 DEF Quarters

(* What the status says in each of them.                                   *)
LEMMA PhaseIs ==
  ASSUME NEW pending
  PROVE  /\ AtFamily => JourneyPhase(pending) = caseState
         /\ Sent => JourneyPhase(pending) = IF pending THEN "revision_fact_pending"
                                                       ELSE "revision_requested"
         /\ Unplanned => JourneyPhase(pending) = IF Revised THEN "replan_required"
                                                            ELSE "task_ready"
         /\ Resulted("blocked") =>
              JourneyPhase(pending) = IF Revised THEN "revision_blocked"
                                                 ELSE "terminal_task_failure"
         /\ Resulted("review_required") =>
              JourneyPhase(pending) = IF Revised THEN "revision_review_required"
                                                 ELSE "review_required"
         /\ Stopped => JourneyPhase(pending) = "terminal_task_failure"
         /\ UnderWay => JourneyPhase(pending) = IF Revised THEN "revision_task_active"
                                                           ELSE "active_task"
<1>1. AtFamily => JourneyPhase(pending) = caseState
  BY DEF AtFamily, JourneyPhase
<1>2. Sent => JourneyPhase(pending) = IF pending THEN "revision_fact_pending"
                                                 ELSE "revision_requested"
  BY DEF Sent, JourneyPhase
<1>3. Unplanned => JourneyPhase(pending) = IF Revised THEN "replan_required" ELSE "task_ready"
  BY DEF Unplanned, Quarters, JourneyPhase, ResultIs, LatestResult
<1>4. Resulted("blocked") =>
        JourneyPhase(pending) = IF Revised THEN "revision_blocked" ELSE "terminal_task_failure"
  BY DEF Resulted, Quarters, JourneyPhase, ResultIs
<1>5. Resulted("review_required") =>
        JourneyPhase(pending) = IF Revised THEN "revision_review_required"
                                           ELSE "review_required"
  BY DEF Resulted, Quarters, JourneyPhase, ResultIs
<1>6. Stopped => JourneyPhase(pending) = "terminal_task_failure"
  BY DEF Stopped, Quarters, JourneyPhase
<1>7. UnderWay =>
        JourneyPhase(pending) = IF Revised THEN "revision_task_active" ELSE "active_task"
  <2>1. UnderWay => /\ AuthoritativeBriefs = {} /\ ~RevisionRequested
                    /\ ~ResultIs("blocked") /\ ~ResultIs("review_required")
                    /\ LatestTask # NoTask
                    /\ task[LatestTask].state \notin {"blocked", "timed_out", "failed", "cancelled"}
    BY DEF UnderWay, Quarters, ResultIs, Active, ActiveStates
  <2> QED BY <2>1 DEF JourneyPhase
<1> QED BY <1>1, <1>2, <1>3, <1>4, <1>5, <1>6, <1>7

(* A plan that can be asked for is one create_agent_task accepts.          *)
LEMMA UnplannedOffer ==
  ASSUME TypeInv, RecordInv, OffersBacked, Unplanned
  PROVE  NoLiveTask /\ AdmitsTask("synthetic", IF Revised THEN runs[Predecessor].pack
                                               ELSE BaselinePack)
<1>1. \A u \in Tasks : pin[u].rev # revision
  BY LatestIs DEF Unplanned
<1>2. \A r \in current : FALSE
  <2> SUFFICES ASSUME NEW r \in current PROVE FALSE
    OBVIOUS
  <2>1. r \in RunIds /\ runs[r].rev = revision /\ runs[r].task \in Tasks /\ r # NoRun
    BY RunTyped DEF RecordInv, RunsKnown, CurrentRunFresh, TypeInv
  <2>2. task[runs[r].task].result = r
    BY <2>1 DEF RecordInv, ResultExact
  <2>3. pin[runs[r].task].rev = revision
    BY <2>1, <2>2 DEF RecordInv, ResultExact
  <2> QED BY <1>1, <2>1, <2>3
<1>3. caseState \in {"intake", "planning"}
  BY <1>2 DEF RecordInv, CaseStateWitnessed, TypeInv, TypeOK, CaseTypeOK, CaseStates
<1>4. BaselinePack \in 1 .. packs
  BY DEF RecordInv, PacksSound, TypeInv, TypeOK, CaseTypeOK
<1>5. ASSUME Revised PROVE runs[Predecessor].pack \in 1 .. packs
  <2>1. revision \in Revisions
    BY DEF TypeInv, TypeOK, CaseTypeOK
  <2>2. PICK r : r = Predecessor
    OBVIOUS
  <2>3. r \in RunIds /\ r # NoRun
    BY <1>5, <2>1, <2>2 DEF Revised, Predecessor, RecordInv, LineageSound
  <2>4. PICK t : t = runs[r].task
    OBVIOUS
  <2>5. t \in Tasks /\ task[t].result = r
    BY <2>3, <2>4 DEF RecordInv, RunsKnown, ResultExact
  <2>6. ~Absent(t) /\ runs[r].pack = pin[t].pack
    BY <2>3, <2>5 DEF RecordInv, PinsSound, ResultExact
  <2> QED BY <2>2, <2>5, <2>6 DEF OffersBacked
<1>6. NoLiveTask
  BY <1>1 DEF NoLiveTask
<1>7. /\ lineage[revision] # NoRun => Revised /\ Predecessor = lineage[revision]
      /\ lineage[revision] = NoRun => ~Revised
  BY DEF Revised, Predecessor
<1> QED BY <1>3, <1>4, <1>5, <1>6, <1>7 DEF AdmitsTask

(* A retry that can be asked for is accepted, too.                         *)
LEMMA RetryOffer ==
  ASSUME TypeInv, RecordInv, OffersBacked, LatestTask # NoTask, NEW t, t = LatestTask,
         RetryEligible(t)
  PROVE  NoLiveTask /\ AdmitsTask(pin[t].op, pin[t].pack)
<1>1. /\ t \in Tasks /\ ~Absent(t) /\ pin[t].rev = revision /\ pin[t].pred = lineage[revision]
  BY LatestFacts
<1>2. pin[t].pack \in 1 .. packs
  BY <1>1 DEF OffersBacked
<1>3. lineage[revision] # NoRun => pin[t].pack = runs[lineage[revision]].pack
  BY <1>1 DEF RecordInv, PinsSound
<1>4. caseState = "planning" /\ NoLiveTask
  BY DEF RetryEligible, NoLiveTask
<1>5. pin[t].op = "mixed" => promoted[revision] = pin[t].pack
  BY DEF RetryEligible
<1> QED BY <1>2, <1>3, <1>4, <1>5 DEF AdmitsTask

LEMMA OffersHold == TypeInv /\ Ownership /\ RecordInv /\ OffersBacked => OffersAccepted
<1> SUFFICES ASSUME TypeInv, Ownership, RecordInv, OffersBacked, NEW pending \in PendingFacts,
                    NEW phase, phase = JourneyPhase(pending)
             PROVE  /\ phase \in {"task_ready", "replan_required"} =>
                           NoLiveTask /\ AdmitsTask("synthetic",
                                            IF Revised THEN runs[Predecessor].pack
                                            ELSE BaselinePack)
                    /\ phase = "terminal_task_failure" /\ RetryEligible(LatestTask) =>
                           NoLiveTask /\ AdmitsTask(pin[LatestTask].op, pin[LatestTask].pack)
                    /\ phase \in {"active_task", "revision_task_active"} => Active(LatestTask)
                    /\ phase \in {"review_required", "revision_review_required"} /\ ~Rejected =>
                           /\ caseState = "advisor_review"
                           /\ current = {LatestResult} /\ runs[LatestResult].rev = revision
                    /\ phase \in {"revision_requested", "revision_fact_pending"} =>
                           NothingBlocksRevision /\ \E r \in current : MayReplace(r)
                    /\ phase = "family_review" =>
                           \E b \in openBriefs : AuthoritativeBriefs = {b} /\ b \in current
  BY DEF OffersAccepted
<1>1. CASE AtFamily
  <2>1. phase = caseState /\ phase \in {"family_review", "plan_ready"}
    BY <1>1, PhaseIs DEF AtFamily
  <2>2. phase = "family_review" => openBriefs = current
    BY <2>1 DEF RecordInv, CaseStateWitnessed
  <2>3. \E b \in RunIds : current = {b}
    BY <2>1, BriefsAre
  <2>4. AuthoritativeBriefs = current
    BY <1>1 DEF AtFamily
  <2> QED BY <2>1, <2>2, <2>3, <2>4
<1>2. CASE Sent
  <2>1. phase \in {"revision_requested", "revision_fact_pending"}
    BY <1>2, PhaseIs
  <2>2. PICK r : r = LatestResult
    OBVIOUS
  <2>3. caseState = "planning" /\ current = {r} /\ Reviewed(r, "request_revision") /\ r # NoRun
    BY <1>2, <2>2, RequestIs DEF Sent
  <2>4. runs[r].rev = revision
    BY <2>3 DEF RecordInv, RunsKnown, CurrentRunFresh
  <2>5. decisions = {}
    BY <2>3 DEF RecordInv, CaseStateWitnessed
  <2>6. MayReplace(r)
    BY <2>3, <2>4, <2>5 DEF MayReplace
  <2>7. NothingBlocksRevision
    BY <2>3, <2>6, RevisionsWait DEF RevisionNeverUnderWork
  <2> QED BY <2>1, <2>3, <2>6, <2>7
<1>3. CASE Unplanned
  <2>1. phase \in {"task_ready", "replan_required"}
    BY <1>3, PhaseIs
  <2> QED BY <1>3, <2>1, UnplannedOffer
<1>4. CASE Resulted("blocked") \/ Stopped
  <2>1. phase \in {"revision_blocked", "terminal_task_failure"} /\ LatestTask # NoTask
    BY <1>4, PhaseIs DEF Resulted, Stopped
  <2> QED BY <2>1, RetryOffer
<1>5. CASE Resulted("review_required")
  <2>1. phase \in {"review_required", "revision_review_required"}
    BY <1>5, PhaseIs
  <2>2. PICK r : r = LatestResult
    OBVIOUS
  <2>3. /\ current = {r} /\ runs[r].rev = revision /\ runs[r].state = "review_required"
        /\ caseState # "intake"
    BY <1>5, <2>2, LatestFacts DEF Resulted
  <2>4. caseState = "planning" => Rejected
    <3>1. ~Reviewed(r, "request_revision")
      BY <1>5, <2>3 DEF Resulted, Quarters, RevisionRequested
    <3> QED BY <2>3, <3>1 DEF OffersBacked, Rejected
  <2>5. caseState \notin {"family_review", "plan_ready"}
    BY <1>5, <2>3, BriefsAre DEF Resulted, Quarters
  <2>6. caseState \in {"planning", "advisor_review"}
    BY <2>3, <2>5 DEF TypeInv, TypeOK, CaseTypeOK, CaseStates
  <2> QED BY <2>1, <2>2, <2>3, <2>4, <2>6
<1>6. CASE UnderWay
  <2>1. phase \in {"active_task", "revision_task_active"} /\ Active(LatestTask)
    BY <1>6, PhaseIs DEF UnderWay
  <2> QED BY <2>1
<1> QED BY <1>1, <1>2, <1>3, <1>4, <1>5, <1>6, Situations

(* The step a phase offers is one its command accepts, for any number of   *)
(* tasks, workers and revisions: what the status is computed from and what *)
(* the commands check are the same rows.                                   *)
THEOREM OffersAcceptedAlways == Spec => []OffersAccepted
  BY OffersHold, OffersInvariant, RecordInvariant, OwnershipInvariant, TypeInvariant, PTL

(* A ledger is known by its eight parts.                                   *)
Parts(phase, inputs, run, review, brief, recovery, comparison, status) ==
    [phase |-> phase, inputs |-> inputs, run |-> run, review |-> review, brief |-> brief,
     recovery |-> recovery, comparison |-> comparison, status |-> status]

(* The status of the latest task in each situation.                        *)
LEMMA StatusIs ==
  ASSUME TypeInv, RecordInv, OffersBacked, LatestTask # NoTask, NEW s,
         s = ProjectTaskStatus(LatestTask)
  PROVE  /\ Sent \/ Resulted("review_required") => s = "needs_advisor_review"
         /\ Resulted("blocked") => s = "needs_evidence"
         /\ Stopped => /\ s \in TerminalViews
                       /\ LatestResult # NoRun => s = "failed"
         /\ UnderWay => s = "preparing"
<1>1. PICK t, r : t = LatestTask /\ r = LatestResult
  OBVIOUS
<1>2. /\ t \in Tasks /\ ~Absent(t) /\ r = task[t].result
      /\ r # NoRun => r \in current /\ task[t].state = ResultState(runs[r].state)
  BY <1>1, LatestFacts
<1>3. Sent \/ Resulted("review_required") => r # NoRun /\ runs[r].state = "review_required"
  BY <1>1, RequestIs DEF Sent, Resulted
<1>4. s = ProjectTaskStatus(t)
  BY <1>1
<1>5. Sent \/ Resulted("review_required") => s = "needs_advisor_review"
  BY <1>2, <1>3, <1>4 DEF ProjectTaskStatus, ResultState, Active, ActiveStates
<1>6. Resulted("blocked") => s = "needs_evidence"
  BY <1>1, <1>2, <1>4 DEF Resulted, ProjectTaskStatus, ResultState, Active, ActiveStates
<1>7. Stopped => s \in TerminalViews /\ (LatestResult # NoRun => s = "failed")
  BY <1>1, <1>2, <1>4 DEF Stopped, ProjectTaskStatus, Active, ActiveStates, TerminalViews
<1>8. UnderWay => s = "preparing"
  BY <1>1, <1>2, <1>4 DEF UnderWay, ProjectTaskStatus
<1> QED BY <1>5, <1>6, <1>7, <1>8

(* The first projection, part by part, in each situation.                  *)
LEMMA FirstIs ==
  ASSUME TypeInv, RecordInv, OffersBacked
  PROVE  /\ AtFamily =>
              \E s : FirstLedger = Parts(caseState, FALSE, NoRun, FALSE, TRUE, "none", FALSE, s)
         /\ Sent \/ Resulted("review_required") =>
              FirstLedger = Parts("review_required", FALSE, LatestResult, TRUE, FALSE, "none",
                                  FALSE, "needs_advisor_review")
         /\ Unplanned => FirstLedger = Parts("task_ready", TRUE, NoRun, FALSE, FALSE, "none",
                                             FALSE, "none")
         /\ Resulted("blocked") =>
              FirstLedger = Parts("terminal_task_failure", FALSE, NoRun, FALSE, FALSE,
                                  "explain", FALSE, "needs_evidence")
         /\ Stopped =>
              \E s \in TerminalViews :
                 /\ LatestResult # NoRun => s = "failed"
                 /\ FirstLedger = Parts("terminal_task_failure", FALSE, NoRun, FALSE, FALSE,
                                        IF RetryEligible(LatestTask) THEN "retry" ELSE "explain",
                                        FALSE, s)
         /\ UnderWay => FirstLedger = Parts("active_task", TRUE, NoRun, FALSE, FALSE, "none",
                                            FALSE, "preparing")
<1>1. PICK s : s = IF LatestTask = NoTask THEN "none" ELSE ProjectTaskStatus(LatestTask)
  OBVIOUS
<1>2. TaskPart = Parts("", FALSE, NoRun, FALSE, FALSE, "none", FALSE, s)
  BY <1>1 DEF TaskPart, Parts
<1>3. CASE AtFamily
  <2>1. AuthoritativeBriefs # {}
    BY <1>3 DEF AtFamily
  <2>2. FirstLedger = Parts(caseState, FALSE, NoRun, FALSE, TRUE, "none", FALSE, s)
    BY <1>2, <2>1 DEF FirstLedger, Parts
  <2> QED BY <1>3, <2>1, <2>2 DEF AtFamily, Sent, Resulted, Unplanned, Stopped, UnderWay, Quarters
<1>4. CASE Unplanned
  <2>1. AuthoritativeBriefs = {} /\ LatestTask = NoTask /\ s = "none"
    BY <1>1, <1>4 DEF Unplanned, Quarters
  <2>2. FirstLedger = Parts("task_ready", TRUE, NoRun, FALSE, FALSE, "none", FALSE, "none")
    BY <1>2, <2>1 DEF FirstLedger, Parts
  <2>3. ~AtFamily /\ ~Sent /\ ~Resulted("review_required") /\ ~Resulted("blocked")
        /\ ~Stopped /\ ~UnderWay
    BY <1>4 DEF AtFamily, Sent, Resulted, Unplanned, Stopped, UnderWay, Quarters
  <2> QED BY <2>2, <2>3
<1>5. ASSUME Sent \/ Resulted("review_required")
      PROVE  FirstLedger = Parts("review_required", FALSE, LatestResult, TRUE, FALSE, "none",
                                 FALSE, "needs_advisor_review")
  <2>1. AuthoritativeBriefs = {} /\ LatestTask # NoTask
    BY <1>5, RequestIs DEF Sent, Resulted, Quarters
  <2>2. s = "needs_advisor_review"
    BY <1>1, <1>5, <2>1, StatusIs
  <2> QED BY <1>2, <2>1, <2>2 DEF FirstLedger, Parts, TerminalViews
<1>6. ASSUME Resulted("blocked")
      PROVE  FirstLedger = Parts("terminal_task_failure", FALSE, NoRun, FALSE, FALSE,
                                 "explain", FALSE, "needs_evidence")
  <2>1. AuthoritativeBriefs = {} /\ LatestTask # NoTask
    BY <1>6 DEF Resulted, Quarters
  <2>2. s = "needs_evidence"
    BY <1>1, <1>6, <2>1, StatusIs
  <2>3. ~RetryEligible(LatestTask)
    <3>1. LatestResult = task[LatestTask].result /\ LatestResult # NoRun
      BY <1>6, <2>1, LatestFacts DEF Resulted
    <3> QED BY <3>1 DEF RetryEligible
  <2> QED BY <1>2, <2>1, <2>2, <2>3 DEF FirstLedger, Parts, TerminalViews
<1>7. ASSUME Stopped
      PROVE  /\ s \in TerminalViews
             /\ LatestResult # NoRun => s = "failed"
             /\ FirstLedger = Parts("terminal_task_failure", FALSE, NoRun, FALSE, FALSE,
                                    IF RetryEligible(LatestTask) THEN "retry" ELSE "explain",
                                    FALSE, s)
  <2>1. AuthoritativeBriefs = {} /\ LatestTask # NoTask
    BY <1>7 DEF Stopped, Quarters
  <2>2. s \in TerminalViews /\ (LatestResult # NoRun => s = "failed")
    BY <1>1, <1>7, <2>1, StatusIs
  <2>3. s # "preparing"
    BY <2>2 DEF TerminalViews
  <2> QED BY <1>2, <2>1, <2>2, <2>3 DEF FirstLedger, Parts
<1>8. ASSUME UnderWay
      PROVE  FirstLedger = Parts("active_task", TRUE, NoRun, FALSE, FALSE, "none",
                                 FALSE, "preparing")
  <2>1. AuthoritativeBriefs = {} /\ LatestTask # NoTask
    BY <1>8 DEF UnderWay, Quarters
  <2>2. s = "preparing"
    BY <1>1, <1>8, <2>1, StatusIs
  <2> QED BY <1>2, <2>1, <2>2 DEF FirstLedger, Parts
<1>9. CASE ~AtFamily /\ ~Unplanned
  BY <1>5, <1>6, <1>7, <1>8, <1>9
<1> QED BY <1>3, <1>4, <1>9

(* What comes before a revised plan, for the checks that look at it.       *)
LEMMA BeforeRevised ==
  ASSUME TypeInv, RecordInv, Revised
  PROVE  /\ revision >= 2 /\ runs[Predecessor].rev = revision - 1
         /\ Reviewed(Predecessor, "request_revision")
         /\ runs[Predecessor].state = "review_required"
<1>1. revision \in Revisions
  BY DEF TypeInv, TypeOK, CaseTypeOK
<1>2. PICK p : p = Predecessor
  OBVIOUS
<1>3. /\ p \in RunIds /\ runs[p].rev = revision - 1 /\ Reviewed(p, "request_revision")
  BY <1>1, <1>2 DEF Revised, Predecessor, RecordInv, LineageSound
<1>4. runs[p].rev \in Revisions
  BY <1>3, RunTyped DEF TypeInv
<1>5. revision >= 2
  BY <1>1, <1>3, <1>4 DEF Revisions
<1>6. runs[p].state = "review_required"
  BY <1>3 DEF Reviewed, RecordInv, RunsKnown
<1> QED BY <1>2, <1>3, <1>5, <1>6

(* Both reads can be answered whenever the run shown is the latest result, *)
(* reviewable or blocked.                                                  *)
LEMMA ReadsAnswered ==
  ASSUME TypeInv, RecordInv, NEW ledger, ledger.comparison => Revised,
         ledger.run # NoRun =>
            /\ ledger.run = LatestResult /\ LatestTask # NoTask
            /\ runs[LatestResult].state \in {"review_required", "blocked"}
  PROVE  LedgerReadable(ledger)
<1>1. LineageConsistent
  <2>1. LatestTask # NoTask => pin[LatestTask].pred = Predecessor
    BY LatestFacts DEF Predecessor
  <2>2. LatestResult # NoRun => LatestTask # NoTask
    BY DEF LatestResult
  <2>3. LatestResult # NoRun => runs[LatestResult].supersedes = Predecessor
                                /\ LatestResult \in current
    BY <2>2, LatestFacts DEF Predecessor
  <2> QED BY <2>1, <2>3 DEF LineageConsistent
<1>2. ledger.run # NoRun => ledger.run \in current
  BY LatestFacts
<1>3. ledger.run # NoRun => runs[ledger.run].state \in {"review_required", "blocked"}
  OBVIOUS
<1> QED BY <1>1, <1>2, <1>3, BeforeRevised DEF LedgerReadable

(* The inputs are added to the ledger of a retry and to no other.          *)
LEMMA InputsShown ==
  ASSUME NEW phase, NEW run, NEW review, NEW brief, NEW recovery, NEW comparison, NEW status
  PROVE  /\ WithInputs(Parts(phase, TRUE, run, review, brief, recovery, comparison, status)) =
                Parts(phase, TRUE, run, review, brief, recovery, comparison, status)
         /\ phase # "terminal_task_failure" \/ recovery # "retry" =>
              WithInputs(Parts(phase, FALSE, run, review, brief, recovery, comparison, status)) =
                Parts(phase, FALSE, run, review, brief, recovery, comparison, status)
         /\ phase = "terminal_task_failure" /\ recovery = "retry" =>
              WithInputs(Parts(phase, FALSE, run, review, brief, recovery, comparison, status)) =
                Parts(phase, TRUE, run, review, brief, recovery, comparison, status)
<1>1. ASSUME NEW inputs \in BOOLEAN, NEW v,
             v = Parts(phase, inputs, run, review, brief, recovery, comparison, status),
             NEW shown \in BOOLEAN,
             shown <=> inputs \/ (phase = "terminal_task_failure" /\ recovery = "retry")
      PROVE  WithInputs(v) = Parts(phase, shown, run, review, brief, recovery, comparison, status)
  <2>1. v.phase = phase /\ v.recovery = recovery /\ v.inputs = inputs
    BY <1>1 DEF Parts
  <2>2. (v.inputs \/ (v.phase = "terminal_task_failure" /\ v.recovery = "retry")) = shown
    BY <1>1, <2>1
  <2>3. WithInputs(v) = [v EXCEPT !.inputs = shown]
    BY <2>2 DEF WithInputs
  <2> QED BY <1>1, <2>3 DEF Parts
<1> QED BY <1>1

(* The ledger is Served when, in each situation, its parts are these.      *)
LEMMA ServedAtFamily ==
  ASSUME TypeInv, RecordInv, OffersBacked, NEW pending, AtFamily, ~Revised
  PROVE  Served(pending)
<1>1. PICK s : FirstLedger = Parts(caseState, FALSE, NoRun, FALSE, TRUE, "none", FALSE, s)
  BY FirstIs
<1>2. PICK c : c = caseState
  OBVIOUS
<1>3. c \in {"family_review", "plan_ready"} /\ ~RevisionRequested
  BY <1>2 DEF AtFamily
<1>4. PICK first : first = FirstLedger
  OBVIOUS
<1>5. first = Parts(c, FALSE, NoRun, FALSE, TRUE, "none", FALSE, s)
  BY <1>1, <1>2, <1>4
<1>6. Ledger(pending) = first
  <2>1. Ledger(pending) = WithInputs(first)
    <3>1. first.phase = c
      BY <1>5 DEF Parts
    <3>2. Versioned(first, pending) = first
      BY <1>3, <3>1 DEF Versioned
    <3> QED BY <1>4, <3>2 DEF Ledger
  <2> QED BY <1>3, <1>5, <2>1 DEF WithInputs, Parts
<1>7. LedgerReadable(first)
  BY <1>5, ReadsAnswered DEF Parts
<1>8. FirstValid(first)
  BY <1>3, <1>5 DEF FirstValid, Parts
<1>9. LedgerValid(first)
  BY <1>3, <1>5 DEF LedgerValid, Parts
<1>10. BrowserAccepts(first)
  BY <1>3, <1>5 DEF BrowserAccepts, Parts
<1>11. first.phase = JourneyPhase(pending)
  BY <1>2, <1>5, PhaseIs DEF Parts
<1> QED BY <1>4, <1>6, <1>7, <1>8, <1>9, <1>10, <1>11 DEF Served

LEMMA ServedSent ==
  ASSUME TypeInv, RecordInv, OffersBacked, NEW pending, Sent
  PROVE  Served(pending)
<1>1. PICK first, r, phase :
        /\ first = FirstLedger /\ r = LatestResult
        /\ phase = IF pending THEN "revision_fact_pending" ELSE "revision_requested"
  OBVIOUS
<1>2. first = Parts("review_required", FALSE, r, TRUE, FALSE, "none", FALSE,
                    "needs_advisor_review")
  BY <1>1, FirstIs
<1>3. r # NoRun /\ runs[r].state = "review_required" /\ LatestTask # NoTask /\ RevisionRequested
  BY <1>1, RequestIs DEF Sent
<1>4. PICK v, ledger : v = Versioned(first, pending) /\ ledger = WithInputs(v)
                        /\ ledger = Ledger(pending)
  BY <1>1 DEF Ledger
<1> DEFINE parts == Parts(phase, FALSE, r, TRUE, FALSE, "none", FALSE, "needs_advisor_review")
<1>5. ledger = parts
  <2>1. v = [first EXCEPT !.phase = phase]
    BY <1>1, <1>3, <1>4 DEF Versioned
  <2>2. phase # "terminal_task_failure"
    BY <1>1
  <2>3. v = parts
    BY <1>2, <1>4, <2>1, <2>2 DEF Parts
  <2>4. WithInputs(parts) = parts
    BY <2>2, InputsShown
  <2> QED BY <1>4, <2>3, <2>4
<1>6. LedgerReadable(ledger)
  BY <1>1, <1>3, <1>5, ReadsAnswered DEF Parts
<1>7. FirstValid(first)
  BY <1>2, <1>3 DEF FirstValid, Parts
<1>8. LedgerValid(ledger)
  BY <1>1, <1>3, <1>5 DEF LedgerValid, Parts
<1>9. BrowserAccepts(ledger)
  BY <1>1, <1>5 DEF BrowserAccepts, Parts
<1>10. ledger.phase = JourneyPhase(pending)
  BY <1>1, <1>5, PhaseIs DEF Parts
<1> QED BY <1>1, <1>4, <1>6, <1>7, <1>8, <1>9, <1>10 DEF Served

LEMMA ServedUnplanned ==
  ASSUME TypeInv, RecordInv, OffersBacked, NEW pending, Unplanned
  PROVE  Served(pending)
<1>1. PICK first, phase : /\ first = FirstLedger
                          /\ phase = IF Revised THEN "replan_required" ELSE "task_ready"
  OBVIOUS
<1>2. first = Parts("task_ready", TRUE, NoRun, FALSE, FALSE, "none", FALSE, "none")
  BY <1>1, FirstIs
<1>3. LatestTask = NoTask /\ LatestResult = NoRun /\ ~RevisionRequested
  BY DEF Unplanned, Quarters, LatestResult
<1>4. PICK v, ledger : v = Versioned(first, pending) /\ ledger = WithInputs(v)
                        /\ ledger = Ledger(pending)
  BY <1>1 DEF Ledger
<1> DEFINE parts == Parts(phase, TRUE, NoRun, FALSE, FALSE, "none", FALSE, "none")
<1>5. ledger = parts
  <2>1. CASE Revised
    <3>1. v = [first EXCEPT !.phase = phase]
      BY <1>1, <1>3, <1>4, <2>1 DEF Versioned
    <3>2. v = parts
      BY <1>2, <3>1 DEF Parts
    <3>3. phase = "replan_required"
      BY <1>1, <2>1
    <3>4. WithInputs(parts) = parts
      BY <3>3, InputsShown
    <3> QED BY <1>4, <3>2, <3>4
  <2>2. CASE ~Revised
    <3>1. v = first
      BY <1>1, <1>2, <1>3, <1>4, <2>2 DEF Versioned, Parts
    <3>2. phase = "task_ready"
      BY <1>1, <2>2
    <3>3. v = parts
      BY <1>2, <3>1, <3>2 DEF Parts
    <3>4. WithInputs(parts) = parts
      BY <3>2, InputsShown
    <3> QED BY <1>4, <3>3, <3>4
  <2> QED BY <2>1, <2>2
<1>6. LedgerReadable(ledger)
  BY <1>5, ReadsAnswered DEF Parts
<1>7. FirstValid(first)
  BY <1>2 DEF FirstValid, Bare, Parts
<1>8. LedgerValid(ledger)
  BY <1>1, <1>5, BeforeRevised DEF LedgerValid, Bare, Parts
<1>9. BrowserAccepts(ledger)
  BY <1>1, <1>5 DEF BrowserAccepts, Parts
<1>10. ledger.phase = JourneyPhase(pending)
  BY <1>1, <1>5, PhaseIs DEF Parts
<1> QED BY <1>1, <1>4, <1>6, <1>7, <1>8, <1>9, <1>10 DEF Served

LEMMA ServedBlocked ==
  ASSUME TypeInv, RecordInv, OffersBacked, NEW pending, Resulted("blocked")
  PROVE  Served(pending)
<1>1. PICK first, r, phase, compared :
        /\ first = FirstLedger /\ r = LatestResult
        /\ compared = IF Revised THEN TRUE ELSE FALSE
        /\ phase = IF Revised THEN "revision_blocked" ELSE "terminal_task_failure"
  OBVIOUS
<1>2. first = Parts("terminal_task_failure", FALSE, NoRun, FALSE, FALSE, "explain", FALSE,
                    "needs_evidence")
  BY <1>1, FirstIs
<1>3. /\ r # NoRun /\ runs[r].state = "blocked" /\ LatestTask # NoTask /\ ~RevisionRequested
      /\ ~ResultIs("review_required") /\ ResultIs("blocked")
  BY <1>1 DEF Resulted, Quarters, ResultIs
<1>4. PICK v, ledger : v = Versioned(first, pending) /\ ledger = WithInputs(v)
                        /\ ledger = Ledger(pending)
  BY <1>1 DEF Ledger
<1> DEFINE parts == Parts(phase, FALSE, r, FALSE, FALSE, "none", compared, "needs_evidence")
<1>5. ledger = parts
  <2>1. CASE Revised
    <3>1. /\ first.status \in ComparedViews /\ first.review = FALSE
          /\ first.recovery = "explain"
      BY <1>2 DEF Parts, ComparedViews
    <3>2. v = [first EXCEPT !.phase = phase, !.run = r, !.comparison = TRUE,
                            !.review = FALSE, !.recovery = "none"]
      BY <1>1, <1>3, <1>4, <2>1, <3>1 DEF Versioned
    <3>3. compared = TRUE /\ phase = "revision_blocked"
      BY <1>1, <2>1
    <3>4. v = parts
      BY <1>2, <3>2, <3>3 DEF Parts
    <3>5. WithInputs(parts) = parts
      BY <3>3, InputsShown
    <3> QED BY <1>4, <3>4, <3>5
  <2>2. CASE ~Revised
    <3>1. v = [first EXCEPT !.run = r, !.recovery = "none"]
      BY <1>1, <1>2, <1>3, <1>4, <2>2 DEF Versioned, Parts
    <3>2. phase = "terminal_task_failure" /\ compared = FALSE
      BY <1>1, <2>2
    <3>3. v = parts
      BY <1>2, <3>1, <3>2 DEF Parts
    <3>4. WithInputs(parts) = parts
      BY <3>2, InputsShown
    <3> QED BY <1>4, <3>3, <3>4
  <2> QED BY <2>1, <2>2
<1>6. LedgerReadable(ledger)
  BY <1>1, <1>3, <1>5, ReadsAnswered DEF Parts
<1>7. FirstValid(first)
  BY <1>2 DEF FirstValid, Bare, Parts, TerminalViews
<1>8. LedgerValid(ledger)
  <2>1. CASE Revised
    BY <1>1, <1>3, <1>5, <2>1, BeforeRevised DEF LedgerValid, RunShown, Parts
  <2>2. CASE ~Revised
    BY <1>1, <1>3, <1>5, <2>2 DEF LedgerValid, RunShown, Bare, Parts
  <2> QED BY <2>1, <2>2
<1>9. BrowserAccepts(ledger)
  BY <1>1, <1>5 DEF BrowserAccepts, Parts
<1>10. ledger.phase = JourneyPhase(pending)
  BY <1>1, <1>5, PhaseIs DEF Parts
<1> QED BY <1>1, <1>4, <1>6, <1>7, <1>8, <1>9, <1>10 DEF Served

LEMMA ServedReviewable ==
  ASSUME TypeInv, RecordInv, OffersBacked, NEW pending, Resulted("review_required")
  PROVE  Served(pending)
<1>1. PICK first, r, phase, compared :
        /\ first = FirstLedger /\ r = LatestResult
        /\ compared = IF Revised THEN TRUE ELSE FALSE
        /\ phase = IF Revised THEN "revision_review_required" ELSE "review_required"
  OBVIOUS
<1>2. first = Parts("review_required", FALSE, r, TRUE, FALSE, "none", FALSE,
                    "needs_advisor_review")
  BY <1>1, FirstIs
<1>3. /\ r # NoRun /\ runs[r].state = "review_required" /\ LatestTask # NoTask
      /\ ~RevisionRequested /\ ResultIs("review_required")
  BY <1>1 DEF Resulted, Quarters, ResultIs
<1>4. PICK v, ledger : v = Versioned(first, pending) /\ ledger = WithInputs(v)
                        /\ ledger = Ledger(pending)
  BY <1>1 DEF Ledger
<1> DEFINE parts == Parts(phase, FALSE, r, TRUE, FALSE, "none", compared, "needs_advisor_review")
<1>5. ledger = parts
  <2>1. CASE Revised
    <3>1. /\ first.status \in ComparedViews /\ first.review = TRUE
          /\ first.recovery = "none"
      BY <1>2 DEF Parts, ComparedViews
    <3>2. v = [first EXCEPT !.phase = phase, !.run = r, !.comparison = TRUE,
                            !.review = TRUE, !.recovery = "none"]
      BY <1>1, <1>3, <1>4, <2>1, <3>1 DEF Versioned
    <3>3. compared = TRUE /\ phase = "revision_review_required"
      BY <1>1, <2>1
    <3>4. v = parts
      BY <1>2, <3>2, <3>3 DEF Parts
    <3>5. WithInputs(parts) = parts
      BY <3>3, InputsShown
    <3> QED BY <1>4, <3>4, <3>5
  <2>2. CASE ~Revised
    <3>1. v = first
      BY <1>1, <1>2, <1>3, <1>4, <2>2 DEF Versioned, Parts
    <3>2. phase = "review_required" /\ compared = FALSE
      BY <1>1, <2>2
    <3>3. v = parts
      BY <1>2, <3>1, <3>2 DEF Parts
    <3>4. WithInputs(parts) = parts
      BY <3>2, InputsShown
    <3> QED BY <1>4, <3>3, <3>4
  <2> QED BY <2>1, <2>2
<1>6. LedgerReadable(ledger)
  BY <1>1, <1>3, <1>5, ReadsAnswered DEF Parts
<1>7. FirstValid(first)
  BY <1>2, <1>3 DEF FirstValid, Parts
<1>8. LedgerValid(ledger)
  BY <1>1, <1>3, <1>5, BeforeRevised DEF LedgerValid, RunShown, Parts
<1>9. BrowserAccepts(ledger)
  BY <1>1, <1>5 DEF BrowserAccepts, Parts
<1>10. ledger.phase = JourneyPhase(pending)
  BY <1>1, <1>5, PhaseIs DEF Parts
<1> QED BY <1>1, <1>4, <1>6, <1>7, <1>8, <1>9, <1>10 DEF Served

LEMMA ServedStopped ==
  ASSUME TypeInv, RecordInv, OffersBacked, NEW pending, Stopped
  PROVE  Served(pending)
<1>1. PICK first, again, shown, t :
        /\ first = FirstLedger /\ t = LatestTask
        /\ shown = IF RetryEligible(t) THEN TRUE ELSE FALSE
        /\ again = IF RetryEligible(t) THEN "retry" ELSE "explain"
  OBVIOUS
<1>2. PICK s \in TerminalViews :
        /\ LatestResult # NoRun => s = "failed"
        /\ first = Parts("terminal_task_failure", FALSE, NoRun, FALSE, FALSE, again, FALSE, s)
  BY <1>1, FirstIs
<1>3. ~RevisionRequested /\ t # NoTask /\ ~ResultIs("blocked")
  BY <1>1 DEF Stopped, Quarters
<1>4. again = "retry" => caseState = "planning" /\ RetryWarranted(t)
  BY <1>1 DEF RetryEligible, RetryWarranted
<1>5. PICK v, ledger : v = Versioned(first, pending) /\ ledger = WithInputs(v)
                        /\ ledger = Ledger(pending)
  BY <1>1 DEF Ledger
<1>6. ledger = Parts("terminal_task_failure", shown, NoRun, FALSE, FALSE, again,
                     FALSE, s)
  <2>1. first.status = s /\ first.phase = "terminal_task_failure" /\ s # "preparing"
    BY <1>2 DEF Parts, TerminalViews
  <2>2. ~(LatestResult # NoRun /\ s \in ComparedViews)
    BY <1>2 DEF ComparedViews
  <2>3. v = first
    BY <1>1, <1>3, <1>5, <2>1, <2>2 DEF Versioned
  <2>4. ledger = WithInputs(first)
    BY <1>5, <2>3
  <2>5. CASE again = "retry"
    <3>1. shown = TRUE
      BY <1>1, <2>5
    <3>2. WithInputs(first) = Parts("terminal_task_failure", TRUE, NoRun, FALSE, FALSE, again,
                                    FALSE, s)
      BY <1>2, <2>5, InputsShown, ZenonT(40)
    <3> QED BY <2>4, <3>1, <3>2
  <2>6. CASE again # "retry"
    <3>1. shown = FALSE
      BY <1>1, <2>6
    <3>2. WithInputs(first) = first
      BY <1>2, <2>6, InputsShown, ZenonT(40)
    <3> QED BY <1>2, <2>4, <3>1, <3>2
  <2> QED BY <2>5, <2>6
<1>7. LedgerReadable(ledger)
  BY <1>6, ReadsAnswered DEF Parts
<1>8. FirstValid(first)
  BY <1>1, <1>2, <1>4 DEF FirstValid, Bare, Parts
<1>9. LedgerValid(ledger)
  BY <1>1, <1>2, <1>4, <1>6 DEF LedgerValid, Bare, Parts
<1>10. BrowserAccepts(ledger)
  BY <1>6 DEF BrowserAccepts, Parts
<1>11. ledger.phase = JourneyPhase(pending)
  BY <1>6, PhaseIs DEF Parts
<1> QED BY <1>1, <1>5, <1>7, <1>8, <1>9, <1>10, <1>11 DEF Served

LEMMA ServedUnderWay ==
  ASSUME TypeInv, RecordInv, OffersBacked, NEW pending, UnderWay
  PROVE  Served(pending)
<1>1. PICK first, phase : /\ first = FirstLedger
                          /\ phase = IF Revised THEN "revision_task_active" ELSE "active_task"
  OBVIOUS
<1>2. first = Parts("active_task", TRUE, NoRun, FALSE, FALSE, "none", FALSE, "preparing")
  BY <1>1, FirstIs
<1>3. LatestTask # NoTask /\ LatestResult = NoRun /\ ~RevisionRequested
  BY DEF UnderWay, Quarters
<1>4. PICK v, ledger : v = Versioned(first, pending) /\ ledger = WithInputs(v)
                        /\ ledger = Ledger(pending)
  BY <1>1 DEF Ledger
<1> DEFINE parts == Parts(phase, TRUE, NoRun, FALSE, FALSE, "none", FALSE, "preparing")
<1>5. ledger = parts
  <2>1. CASE Revised
    <3>1. v = [first EXCEPT !.phase = phase]
      BY <1>1, <1>2, <1>3, <1>4, <2>1 DEF Versioned, Parts
    <3>2. v = parts
      BY <1>2, <3>1 DEF Parts
    <3>3. phase = "revision_task_active"
      BY <1>1, <2>1
    <3>4. WithInputs(parts) = parts
      BY <3>3, InputsShown
    <3> QED BY <1>4, <3>2, <3>4
  <2>2. CASE ~Revised
    <3>1. v = first
      BY <1>1, <1>2, <1>3, <1>4, <2>2 DEF Versioned, Parts
    <3>2. phase = "active_task"
      BY <1>1, <2>2
    <3>3. v = parts
      BY <1>2, <3>1, <3>2 DEF Parts
    <3>4. WithInputs(parts) = parts
      BY <3>2, InputsShown
    <3> QED BY <1>4, <3>3, <3>4
  <2> QED BY <2>1, <2>2
<1>6. LedgerReadable(ledger)
  BY <1>5, ReadsAnswered DEF Parts
<1>7. FirstValid(first)
  BY <1>2 DEF FirstValid, Bare, Parts
<1>8. LedgerValid(ledger)
  BY <1>1, <1>5, BeforeRevised DEF LedgerValid, Bare, Parts
<1>9. BrowserAccepts(ledger)
  BY <1>1, <1>5 DEF BrowserAccepts, Parts
<1>10. ledger.phase = JourneyPhase(pending)
  BY <1>1, <1>5, PhaseIs DEF Parts
<1> QED BY <1>1, <1>4, <1>6, <1>7, <1>8, <1>9, <1>10 DEF Served

LEMMA LedgersHold == TypeInv /\ RecordInv /\ OffersBacked => LedgerAgrees
<1> SUFFICES ASSUME TypeInv, RecordInv, OffersBacked, NEW pending \in PendingFacts,
                    ~(Revised /\ AuthoritativeBriefs # {})
             PROVE  Served(pending)
  BY DEF LedgerAgrees
<1>1. AtFamily => ~Revised
  BY DEF AtFamily
<1> QED BY <1>1, Situations, ServedAtFamily, ServedSent, ServedUnplanned, ServedBlocked,
           ServedReviewable, ServedStopped, ServedUnderWay

(* For any number of tasks, workers and revisions the status and the       *)
(* ledger tell the advisor the same phase and the ledger passes every      *)
(* check: the situations of a Case exclude each other, and in each of them *)
(* the two computations, their checks and the browser's agree part by part.*)
THEOREM LedgerAgreesAlways == Spec => []LedgerAgrees
  BY LedgersHold, OffersInvariant, RecordInvariant, TypeInvariant, PTL
=============================================================================
