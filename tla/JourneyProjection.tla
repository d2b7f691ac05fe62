-------------------------- MODULE JourneyProjection --------------------------
(***************************************************************************)
(* What the connected demo tells people about a Case: the journey status   *)
(* every participant reads, the ledger only the advisor reads, and the     *)
(* checks a ledger passes on its way, in the models of the API and again   *)
(* in the browser.  Reads change no row, so they are functions of the      *)
(* state.  pending is app.read_connected_journey_fact_pending: there is an *)
(* undecided candidate of a planning fact, which may be so or not.         *)
(***************************************************************************)
EXTENDS TaskRefinement

(* The rows both reads select: the latest task of the current revision,    *)
(* its result, the frozen predecessor, a request for revision, the brief.  *)
LatestTask ==
    LET planned == {t \in Tasks : pin[t].rev = revision} IN
    IF planned = {} THEN NoTask ELSE CHOOSE t \in planned : \A u \in planned : u <= t

LatestResult == IF LatestTask = NoTask THEN NoRun ELSE task[LatestTask].result
ResultIs(state) == LatestResult # NoRun /\ runs[LatestResult].state = state
Predecessor == lineage[revision]
Revised == Predecessor # NoRun
RevisionRequested ==
    \E r \in current : runs[r].rev = revision /\ Reviewed(r, "request_revision")

AuthoritativeBriefs ==
    {b \in briefs : /\ runs[b].rev = revision
                    /\ \/ caseState = "family_review" /\ b \in openBriefs \ decisions
                       \/ caseState = "plan_ready" /\ b \in decisions \ openBriefs}

(* _has_planning_revision_lineage raises unless the task and the run rest  *)
(* on the predecessor of their revision.                                   *)
LineageConsistent ==
    /\ LatestTask # NoTask => pin[LatestTask].pred = Predecessor
    /\ LatestResult # NoRun => /\ runs[LatestResult].supersedes = Predecessor
                               /\ Revised => LatestResult \in current

-----------------------------------------------------------------------------
(*                            The journey status                           *)

JourneyPhase(pending) ==
    IF AuthoritativeBriefs # {} THEN caseState
    ELSE IF RevisionRequested THEN IF pending THEN "revision_fact_pending"
                                              ELSE "revision_requested"
    ELSE IF ResultIs("blocked") THEN IF Revised THEN "revision_blocked"
                                                ELSE "terminal_task_failure"
    ELSE IF ResultIs("review_required") THEN IF Revised THEN "revision_review_required"
                                                        ELSE "review_required"
    ELSE IF LatestTask = NoTask THEN IF Revised THEN "replan_required" ELSE "task_ready"
    ELSE IF task[LatestTask].state \in {"blocked", "timed_out", "failed", "cancelled"}
         THEN "terminal_task_failure"
    ELSE IF Revised THEN "revision_task_active" ELSE "active_task"

(* Whose turn it is, as told to a participant of the given role.           *)
ActiveRole(phase, asked) ==
    CASE phase = "revision_requested" -> IF asked = "parent" THEN "parent" ELSE "student"
      [] phase \in {"family_review", "plan_ready"} -> "parent"
      [] OTHER -> "advisor"

-----------------------------------------------------------------------------
(*                            The advisor ledger                           *)

(* _source_for_current_revision: the ledger knows the registered packs     *)
(* only, so a Case planned over promoted evidence is answered with 503.    *)
SourceRegistered ==
    LET expected == IF Revised THEN runs[Predecessor].pack ELSE BaselinePack IN
    /\ expected = BaselinePack
    /\ LatestTask # NoTask => pin[LatestTask].pack = expected
    /\ LatestResult # NoRun => runs[LatestResult].pack = expected

(* Which optional parts a ledger carries; routes, Evidence and run are     *)
(* read together, so one field stands for the three.                       *)
TaskPart == [phase |-> "", inputs |-> FALSE, run |-> NoRun, review |-> FALSE,
             brief |-> FALSE, recovery |-> "none", comparison |-> FALSE,
             status |-> IF LatestTask = NoTask THEN "none" ELSE ProjectTaskStatus(LatestTask)]

TerminalViews == {"needs_evidence", "timed_out", "failed", "cancelled", "outdated"}

(* _advisor_ledger_projection.                                             *)
FirstLedger ==
    LET part == TaskPart IN
    IF AuthoritativeBriefs # {} THEN [part EXCEPT !.phase = caseState, !.brief = TRUE]
    ELSE IF LatestTask = NoTask THEN [part EXCEPT !.phase = "task_ready", !.inputs = TRUE]
    ELSE IF part.status = "preparing"
         THEN [part EXCEPT !.phase = "active_task", !.inputs = TRUE]
    ELSE IF part.status \in TerminalViews
         THEN [part EXCEPT !.phase = "terminal_task_failure",
                   !.recovery = IF RetryEligible(LatestTask) THEN "retry" ELSE "explain"]
    ELSE [part EXCEPT !.phase = "review_required", !.run = LatestResult, !.review = TRUE]

(* A slip: a blocked successor is not shown with its comparison.           *)
ComparedReviewsOnly == {"needs_advisor_review"}
ComparedViews == {"needs_advisor_review", "needs_evidence"}

(* _versioned_advisor_ledger, versions 2 and 3; a retry shows the inputs.  *)
Versioned(first, pending) ==
    LET open == ResultIs("review_required") IN
    IF RevisionRequested
    THEN [first EXCEPT !.phase = IF pending THEN "revision_fact_pending"
                                            ELSE "revision_requested"]
    ELSE IF Revised /\ LatestResult # NoRun /\ first.status \in ComparedViews
    THEN [first EXCEPT !.phase = IF open THEN "revision_review_required"
                                         ELSE "revision_blocked",
                       !.run = LatestResult, !.comparison = TRUE,
                       !.review = @ /\ open,
                       !.recovery = IF open THEN @ ELSE "none"]
    ELSE IF Revised /\ LatestTask = NoTask
    THEN [first EXCEPT !.phase = "replan_required"]
    ELSE IF Revised /\ first.status = "preparing"
    THEN [first EXCEPT !.phase = "revision_task_active"]
    ELSE IF ~Revised /\ first.phase = "terminal_task_failure" /\ ResultIs("blocked")
    THEN [first EXCEPT !.run = LatestResult, !.recovery = "none"]
    ELSE first

WithInputs(ledger) == [ledger EXCEPT !.inputs = @ \/ (ledger.phase = "terminal_task_failure"
                                                      /\ ledger.recovery = "retry")]

Ledger(pending) == WithInputs(Versioned(FirstLedger, pending))

(* What else makes the two reads raise: the comparison needs the request   *)
(* review and two reviewable or blocked results, a run shown is current.   *)
LedgerReadable(ledger) ==
    /\ LineageConsistent
    /\ Revised => /\ runs[Predecessor].rev = revision - 1
                  /\ Reviewed(Predecessor, "request_revision")
    /\ ledger.run # NoRun => /\ ledger.run \in current
                             /\ runs[ledger.run].state \in {"review_required", "blocked"}
    /\ ledger.comparison => runs[Predecessor].state \in {"review_required", "blocked"}

-----------------------------------------------------------------------------
(*                        The checks a ledger passes                       *)

Bare(ledger) == /\ ledger.run = NoRun /\ ~ledger.review
                /\ ~ledger.brief /\ ~ledger.comparison
RetryWarranted(t) == RecoverableEnd(t) /\ task[t].result = NoRun
RunShown(ledger, state) == ledger.run # NoRun /\ runs[ledger.run].state = state

(* AdvisorLedgerV1.validate_phase_projection, of the first projection.     *)
FirstValid(ledger) ==
    /\ ledger.recovery = "retry" => RetryWarranted(LatestTask)
    /\ ledger.phase = "task_ready" =>
           ledger.inputs /\ ledger.status = "none" /\ Bare(ledger) /\ ledger.recovery = "none"
    /\ ledger.phase = "active_task" =>
           /\ ledger.inputs /\ ledger.status = "preparing"
           /\ Bare(ledger) /\ ledger.recovery = "none"
    /\ ledger.phase = "review_required" =>
           /\ ledger.status = "needs_advisor_review" /\ ledger.run # NoRun
           /\ ledger.review /\ ~ledger.brief /\ ledger.recovery = "none"
    /\ ledger.phase \in {"family_review", "plan_ready"} =>
           /\ ~ledger.inputs /\ ledger.run = NoRun /\ ledger.brief
           /\ ~ledger.review /\ ledger.recovery = "none"
    /\ ledger.phase = "terminal_task_failure" =>
           /\ ~ledger.inputs /\ ledger.status \in TerminalViews
           /\ Bare(ledger) /\ ledger.recovery # "none"

(* _validate_revision_projection, of what versions 2 and 3 answer.         *)
LedgerValid(ledger) ==
    LET phase == ledger.phase IN
    /\ ledger.review => ledger.run # NoRun
    /\ ledger.run # NoRun => ledger.run = LatestResult
    /\ phase # "terminal_task_failure" => ledger.recovery = "none"
    /\ phase \in {"task_ready", "active_task", "replan_required", "revision_task_active"} =>
           /\ ledger.inputs /\ Bare(ledger)
           /\ ledger.status = IF phase \in {"active_task", "revision_task_active"}
                              THEN "preparing" ELSE "none"
    /\ phase \in {"replan_required", "revision_task_active"} => revision >= 2
    /\ phase \in {"review_required", "revision_review_required"} =>
           /\ ledger.status = "needs_advisor_review" /\ RunShown(ledger, "review_required")
           /\ ledger.review /\ ~ledger.brief
           /\ ledger.comparison <=> phase = "revision_review_required"
    /\ phase \in {"revision_requested", "revision_fact_pending"} =>
           ledger.status # "none" /\ ledger.run # NoRun /\ ~ledger.comparison /\ ~ledger.brief
    /\ phase \in {"family_review", "plan_ready"} =>
           /\ ~ledger.inputs /\ ledger.run = NoRun /\ ~ledger.comparison
           /\ ~ledger.review /\ ledger.brief
    /\ phase \in {"revision_review_required", "revision_blocked"} =>
           revision >= 2 /\ ledger.run # NoRun /\ ledger.comparison
    /\ phase = "revision_blocked" =>
           /\ ledger.status = "needs_evidence" /\ RunShown(ledger, "blocked")
           /\ ~ledger.review
    /\ phase = "terminal_task_failure" =>
           /\ ledger.inputs <=> ledger.recovery = "retry"
           /\ ledger.recovery = "retry" => caseState = "planning" /\ RetryWarranted(LatestTask)
           /\ \/ /\ ledger.status \in TerminalViews
                 /\ Bare(ledger) /\ ledger.recovery # "none"
              \/ /\ ledger.status = "needs_evidence" /\ RunShown(ledger, "blocked")
                 /\ Bare([ledger EXCEPT !.run = NoRun]) /\ ledger.recovery = "none"

(* phaseValid, the same table once more in the browser, asks for more than *)
(* the models of the API in these places only.                             *)
BrowserAccepts(ledger) ==
    /\ ledger.brief => ledger.phase \in {"family_review", "plan_ready"}
    /\ ledger.phase = "revision_review_required" => ledger.status = "needs_advisor_review"

(* The answer is not an error, passes every check, and its phase is the    *)
(* one of the status, without which the reducer refuses the pair.          *)
Served(pending) ==
    LET ledger == Ledger(pending) IN
    /\ LedgerReadable(ledger)
    /\ FirstValid(FirstLedger) /\ LedgerValid(ledger) /\ BrowserAccepts(ledger)
    /\ ledger.phase = JourneyPhase(pending)

-----------------------------------------------------------------------------
(*                             What they promise                           *)

(* A pending fact changes the phase of a requested revision only.          *)
PendingFacts == IF RevisionRequested THEN BOOLEAN ELSE {FALSE}

(* The status and the ledger, computed by separate code from the same      *)
(* rows, tell the advisor the same phase, and every ledger passes the      *)
(* checks of both versions and of the browser, after any mix of retries,   *)
(* late results, reviews and revisions.  (Once a family is asked about a   *)
(* revised plan this fails, see LedgerServed; the browser no longer reads  *)
(* the ledger then.)                                                       *)
LedgerAgrees ==
    \A pending \in PendingFacts :
        SourceRegistered /\ ~(Revised /\ AuthoritativeBriefs # {}) => Served(pending)

(* The step a phase offers is one its command accepts: a task can be       *)
(* created or retried, the run reviewed, the fact confirmed, the brief     *)
(* decided.  (The advisor's own reject leaves a phase nobody can act on:   *)
(* the Case is back in planning, the task still waits for its review.)     *)
Rejected == \E r \in current : Reviewed(r, "reject")

OffersAccepted ==
    \A pending \in PendingFacts :
        LET phase == JourneyPhase(pending) IN
        /\ phase \in {"task_ready", "replan_required"} =>
               NoLiveTask /\ AdmitsTask("synthetic", IF Revised THEN runs[Predecessor].pack
                                                     ELSE BaselinePack)
        /\ phase = "terminal_task_failure" /\ RetryEligible(LatestTask) =>
               NoLiveTask /\ AdmitsTask(pin[LatestTask].op, pin[LatestTask].pack)
        /\ phase \in {"active_task", "revision_task_active"} => Active(LatestTask)
        /\ phase \in {"review_required", "revision_review_required"} /\ ~Rejected =>
               /\ caseState = "advisor_review"
               /\ current = {LatestResult} /\ runs[LatestResult].rev = revision
        /\ phase \in {"revision_requested", "revision_fact_pending"} =>
               NothingBlocksRevision /\ \E r \in current : MayReplace(r)
        /\ phase = "family_review" =>
               \E b \in openBriefs : AuthoritativeBriefs = {b} /\ b \in current

(* The Ledger uses a discriminated phase and never fills an absent part;   *)
(* in family-review it carries the "advisor completion plus current        *)
(* family-safe Brief identity; advisor-only review inputs are absent"      *)
(* (the connected demo design): so the advisor can read it there as well.  *)
LedgerServed ==
    \A pending \in BOOLEAN :
        SourceRegistered /\ caseState \in {"family_review", "plan_ready"} => Served(pending)
=============================================================================
