---------------------------- MODULE TaskProperties ----------------------------
(***************************************************************************)
(* What the planning tasks of a Case promise: properties of AgentTasks.    *)
(***************************************************************************)
EXTENDS AgentTasks, FiniteSets

(* Every row, and what every worker remembers, has its declared shape.     *)
PinRows == [op : Operations \cup {"none"}, rev : 0 .. MaxRevision, pack : Nat,
            pred : Nat, from : 0 .. MaxTasks]
LeaseTimes == {Gone} \cup 0 .. LeaseTicks
TaskRows == [state : TaskStates, gen : 0 .. MaxAttempts, owner : Workers \cup {NoWorker},
             lease : LeaseTimes, result : Nat, code : TerminalCodes]
Memories == [pc : {"idle", "claimed", "loaded", "bad_pin", "running", "answered"},
             task : 0 .. MaxTasks, gen : 0 .. MaxAttempts, beating : BOOLEAN,
             out : {"none"} \cup AdapterCodes \cup RunStates]

TypeOK ==
    /\ CaseTypeOK
    /\ pin \in [Tasks -> PinRows]
    /\ task \in [Tasks -> TaskRows]
    /\ dispatch \in [Tasks -> LeaseTimes]
    /\ execs \in [Tasks -> [Generations -> ExecStates]]
    /\ events \in [Tasks -> Seq(EventCodes)]
    /\ worker \in [Workers -> Memories]

-----------------------------------------------------------------------------
(*                       Leases, generations and the queue                 *)

(* The queue and the task rows agree: exactly the active tasks are queued, *)
(* a queued one is available now and a leased one when its lease ends.  A  *)
(* task whose queue row is lost is never claimed again.                    *)
DispatchExact ==
    \A t \in Tasks :
        /\ dispatch[t] = IF task[t].state = "queued" THEN 0 ELSE task[t].lease
        /\ Leased(t) <=> task[t].lease # Gone
        /\ Leased(t) <=> task[t].owner # NoWorker

(* No two workers believe in the same generation of a task, and of all the *)
(* workers with a claim on it only the newest can be the owner in the row. *)
OneHolder ==
    \A w \in Workers : worker[w].pc # "idle" =>
        LET t == worker[w].task IN
        /\ worker[w].gen <= task[t].gen
        /\ Leased(t) /\ worker[w].gen = task[t].gen => task[t].owner = w
        /\ \A v \in Workers \ {w} : worker[v].task = t => worker[v].gen # worker[w].gen

(* The execution rows are the exact history of the attempts: all but the   *)
(* last were given up for a retry, the last matches the task, and there is *)
(* never a retry after the last permitted attempt.                         *)
LastExec(state) == CASE state = "queued" -> "retry_scheduled"
                     [] state = "waiting_review" -> "succeeded"
                     [] OTHER -> state

ExecutionLedger ==
    \A t \in Tasks, g \in Generations :
        /\ g > task[t].gen => execs[t][g] = "none"
        /\ g < task[t].gen => execs[t][g] = "retry_scheduled"
        /\ g = task[t].gen =>
              \/ execs[t][g] = LastExec(task[t].state)
              \/ task[t].state = "cancelled" /\ execs[t][g] = "retry_scheduled"
        /\ g = MaxAttempts => execs[t][g] # "retry_scheduled"

(* A client that only reads the event stream learns the truth: the log of  *)
(* a task starts with queued, has one lease_acquired per attempt, a reason *)
(* for each repeated attempt, and closes once, with the state of the row.  *)
CountEvents(t, codes) == Cardinality({i \in DOMAIN events[t] : events[t][i] \in codes})

EventLogTruthful ==
    \A t \in Tasks :
        /\ Absent(t) <=> events[t] = << >>
        /\ ~Absent(t) => /\ Head(events[t]) = "queued"
                         /\ CountEvents(t, {"lease_acquired"}) = task[t].gen
                         /\ LET last == events[t][Len(events[t])] IN
                            CASE task[t].state = "queued" -> last \in {"queued", "retry_scheduled"}
                              [] task[t].state = "leased" -> last = "lease_acquired"
                              [] task[t].state = "running" -> last = "execution_started"
                              [] OTHER -> last = task[t].state
                         /\ CountEvents(t, SettledStates) = IF Active(t) THEN 0 ELSE 1
                         /\ Leased(t) => CountEvents(t, {"retry_scheduled", "lease_reclaimed"})
                                             = task[t].gen - 1

(* Attempts and events tell one story, the one the rows tell.              *)
HistoryTruthful == ExecutionLedger /\ EventLogTruthful

(* A lease that has not expired is ended by its holder or by a cancel of   *)
(* the advisor, never by another worker, by time or by a retry.            *)
LeaseKept(t) ==
    \/ Leased(t)' /\ task'[t].gen = task[t].gen /\ task'[t].owner = task[t].owner
    \/ task'[t].state = "cancelled"
    \/ /\ worker[task[t].owner].task = t
       /\ worker[task[t].owner].gen = task[t].gen
       /\ worker'[task[t].owner] = Idle

LeasesKept == \A t \in Tasks : Leased(t) /\ task[t].lease > 0 => LeaseKept(t)

LeaseRespected == [][LeasesKept]_vars

-----------------------------------------------------------------------------
(*                           Tasks and their Case                          *)

(* At most one live task plans a revision, whatever mix of creations,      *)
(* retries, late results and reviews came before.                          *)
OneLiveTask ==
    \A t, u \in Tasks : Live(t) /\ Live(u) /\ pin[t].rev = pin[u].rev => t = u

(* While a task is active the Case cannot move under it: still planning,   *)
(* the revision the task pinned, the same predecessor.                     *)
ActiveTaskOwnsCase ==
    \A t \in Tasks : Active(t) => /\ caseState = "planning"
                                  /\ pin[t].rev = revision
                                  /\ pin[t].pred = lineage[revision]

(* A revision is never published under live work: whenever the lineage     *)
(* rules let one replace the current run, every live task was sent back,   *)
(* so the separate refusal (NV014) of verify_memory_candidate is a second  *)
(* line of defence.                                                        *)
RevisionNeverUnderWork ==
    \A r \in current \cup {NoRun} : MayReplace(r) => NothingBlocksRevision

(* An answer computed from an earlier snapshot is not stale when the       *)
(* worker that still holds the lease comes to persist it.                  *)
AnswerFresh ==
    \A w \in Workers :
        worker[w].pc = "answered" /\ worker[w].out \in RunStates /\ Held(w) =>
            LET t == worker[w].task IN
            SnapshotLoads(t) /\ ResultFitsCase(pin[t].rev, pin[t].pred)

(* Whoever still works, or is about to persist, works on the Case as it    *)
(* is: nothing the others did has made the work stale.                     *)
WorkFresh == ActiveTaskOwnsCase /\ AnswerFresh /\ RevisionNeverUnderWork

(* A task and its planning run find each other: a result names the only    *)
(* run of the task, with the task's pins and outcome, and a task without a *)
(* result has no run.                                                      *)
ResultExact ==
    \A t \in Tasks :
        LET own == {r \in RunIds : runs[r].task = t} IN
        IF task[t].result = NoRun
        THEN own = {} /\ task[t].state # "waiting_review"
        ELSE LET run == runs[task[t].result] IN
             /\ own = {task[t].result}
             /\ run.rev = pin[t].rev /\ run.pack = pin[t].pack /\ run.supersedes = pin[t].pred
             /\ task[t].state = ResultState(run.state)

(* The current run is unique and belongs to the current revision; every    *)
(* other run was retired into the lineage of the next revision.            *)
CurrentRunFresh ==
    \A r \in RunIds :
        IF r \in current
        THEN current = {r} /\ runs[r].rev = revision
        ELSE runs[r].rev < revision /\ lineage[runs[r].rev + 1] = r

(* Each revision's predecessor is a retired run of the revision before,    *)
(* sent back by an advisor; a run supersedes exactly its revision's        *)
(* predecessor and inherits its source pack.                               *)
LineageSound ==
    /\ \A n \in Revisions : lineage[n] # NoRun =>
           /\ n <= revision
           /\ lineage[n] \in RunIds \ current
           /\ runs[lineage[n]].rev = n - 1
           /\ Reviewed(lineage[n], "request_revision")
    /\ \A r \in RunIds :
           LET pred == runs[r].supersedes IN
           /\ pred = lineage[runs[r].rev]
           /\ pred # NoRun => runs[pred].pack = runs[r].pack

(* The state of the Case is backed by its rows: an advisor is only asked   *)
(* about an unreviewed current run, a family only about an approved one,   *)
(* and a plan rests on the one decision taken on the current run.          *)
ReviewsOf(r) == {v \in reviews : v.run = r}

CaseStateWitnessed ==
    /\ caseState = "advisor_review" =>
           \E r \in current : runs[r].state = "review_required" /\ ReviewsOf(r) = {}
    /\ caseState \in {"family_review", "plan_ready"} =>
           \E r \in current : ReviewsOf(r) = {[run |-> r, action |-> "approve_for_consultation"]}
    /\ openBriefs = IF caseState = "family_review" THEN current ELSE {}
    /\ decisions = IF caseState = "plan_ready" THEN current ELSE {}
    /\ \A v1, v2 \in reviews : v1.run = v2.run => v1 = v2

(* A retry repeats a task that ended recoverably and without a result,     *)
(* with the same pins, and is its only successor.                          *)
RetryOnce ==
    \A t, u \in Tasks :
        LET s == pin[t].from IN
        s # NoTask =>
            /\ s < t
            /\ [pin[t] EXCEPT !.from = pin[s].from] = pin[s]
            /\ RecoverableEnd(s) /\ task[s].result = NoRun
            /\ u # t => pin[u].from # s

(* A mixed task, and any run it leaves, rests on the pack an advisor       *)
(* promoted for that very revision; no other task may use it later as its  *)
(* baseline unless the lineage passes it on.                               *)
MixedApproved ==
    \A t \in Tasks : pin[t].op = "mixed" =>
        /\ pin[t].pack # BaselinePack
        /\ promoted[pin[t].rev] = pin[t].pack
        /\ \A n \in Revisions : promoted[n] = pin[t].pack => n = pin[t].rev

(* Tasks, runs, lineage, reviews and the Case tell one story.              *)
RecordsAgree == /\ ResultExact /\ RetryOnce /\ MixedApproved
                /\ CurrentRunFresh /\ LineageSound /\ CaseStateWitnessed

(* How the code treats a planning result that is not reviewable: while a   *)
(* blocked or failed run is current, a step retires no such run, adds no   *)
(* run, does not move the Case and publishes no revision.  It is the       *)
(* reason BlockedRunRemediable below is not kept.                          *)
UnreviewableStands ==
    \A r \in current : runs[r].state # "review_required" =>
        /\ r \in current'
        /\ runs' = runs
        /\ caseState' = "planning" /\ revision' = revision

NothingReplacesUnreviewable == [][UnreviewableStands]_vars

-----------------------------------------------------------------------------
(*                                 Progress                                *)

(* Every accepted task settles, whatever workers crash and leases expire.  *)
EveryTaskSettles == \A t \in Tasks : Active(t) ~> ~Active(t)

(* The advisor and the family keep using the commands the Case accepts:    *)
(* new work, a retry, approved Evidence, a confirmed fact, a review.       *)
Diligence ==
    /\ SF_vars(CreateTask)
    /\ \A t \in Tasks : SF_vars(RetryTask(t))
    /\ SF_vars(Promote)
    /\ SF_vars(ConfirmFact)
    /\ SF_vars(Review)

DiligentSpec == FairSpec /\ Diligence

(* docs/design/state-and-interaction-matrix.md:46, revision_blocked (the   *)
(* successor of a revised plan is blocked): the primary action is to       *)
(* "remediate Evidence/facts".  So people who keep using the commands the  *)
(* Case accepts should see a blocked successor replaced, where MaxTasks    *)
(* leaves them a task to try it with and they cancel none.                 *)
BlockedRunRemediable ==
    \A r \in Tasks :
        (/\ r \in current /\ runs[r].state = "blocked" /\ runs[r].supersedes # NoRun
         /\ \E t \in Tasks : Absent(t))
            ~> r \notin current \/ \E t \in Tasks : task[t].state = "cancelled"
=============================================================================
