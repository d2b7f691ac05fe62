----------------------------- MODULE StudentCase -----------------------------
(***************************************************************************)
(* One student Case: its revisions, the planning runs persisted for it,    *)
(* the advisor reviews, the decision brief and the family decision.  The   *)
(* handlers are the SECURITY DEFINER functions of the migrations; each is  *)
(* one transaction that holds the Case row lock, hence one action.         *)
(***************************************************************************)
EXTENDS Integers, Sequences

CONSTANTS
    Operations,   \* planning operations, a subset of {"synthetic", "mixed"}
    MaxRevision   \* bound: the last Case revision that may be published

ASSUME OperationsAssumption == Operations \subseteq {"synthetic", "mixed"}
ASSUME MaxRevisionAssumption == MaxRevision \in Nat \ {0}

VARIABLES
    caseState,    \* student_cases.state
    revision,     \* student_cases.current_revision
    lineage,      \* student_case_revisions.superseded_planning_run_id, by revision
    runs,         \* planning_runs in insertion order; a run's id is its index
    current,      \* the runs whose is_current is set
    reviews,      \* advisor_reviews, as [run, action]
    briefs,       \* decision_briefs, by run
    openBriefs,   \* the briefs whose is_current is set
    decisions,    \* family_decisions (each with its timeline_plan), by run
    packs,        \* source_packs: the last version of the baseline pack
    promoted      \* pack version an approved verification promoted, by revision

caseVars == <<caseState, revision, lineage, runs, current, reviews, briefs,
              openBriefs, decisions, packs, promoted>>

-----------------------------------------------------------------------------
NoRun == 0
NoPack == 0
BaselinePack == 1

CaseStates == {"intake", "planning", "advisor_review", "family_review", "plan_ready"}
RunStates == {"review_required", "blocked", "failed"}
ReviewActions == {"approve_for_consultation", "reject", "request_revision"}
Revisions == 1 .. MaxRevision

RunIds == 1 .. Len(runs)
Reviewed(r, action) == [run |-> r, action |-> action] \in reviews

CaseInit ==
    /\ caseState = "intake"
    /\ revision = 1
    /\ lineage = [r \in Revisions |-> NoRun]
    /\ runs = << >>
    /\ current = {}
    /\ reviews = {}
    /\ briefs = {}
    /\ openBriefs = {}
    /\ decisions = {}
    /\ packs = BaselinePack
    /\ promoted = [r \in Revisions |-> NoPack]

-----------------------------------------------------------------------------

(***************************************************************************)
(* The Case's part of create_agent_task: which operation over which source *)
(* pack version a new task may pin.  A revision that supersedes a run      *)
(* inherits that run's pack; a mixed task needs the pack that was promoted *)
(* for this very revision.                                                 *)
(***************************************************************************)
AdmitsTask(op, pack) ==
    /\ pack \in 1 .. packs
    /\ lineage[revision] # NoRun => pack = runs[lineage[revision]].pack
    /\ \/ caseState = "intake" /\ op = "synthetic"
       \/ caseState = "planning"
    /\ op = "mixed" => promoted[revision] = pack

(* A slip: the first task leaves the Case in intake.                       *)
PlanInPlace == UNCHANGED caseVars

(* The synthetic operation is what moves a Case from intake to planning.   *)
StartPlanning ==
    /\ caseState' = "planning"
    /\ UNCHANGED <<revision, lineage, runs, current, reviews, briefs, openBriefs,
                   decisions, packs, promoted>>

(***************************************************************************)
(* What persist_planning_result demands of a result for revision rev that  *)
(* supersedes run sup: the Case still plans that revision, the predecessor *)
(* is the frozen one and retired, and neither unique index (one current    *)
(* run per Case, one successor per predecessor) is hit.                    *)
(***************************************************************************)
ResultFitsCase(rev, sup) ==
    /\ caseState = "planning"
    /\ revision = rev
    /\ lineage[rev] = sup
    /\ sup # NoRun => runs[sup].rev = rev - 1 /\ sup \notin current

ResultIndexesFree(sup) ==
    /\ current = {}
    /\ sup # NoRun => \A r \in RunIds : runs[r].supersedes # sup

ResultAccepted(rev, sup) == ResultFitsCase(rev, sup) /\ ResultIndexesFree(sup)

(* Insert the run as current; a review_required run hands the Case over to *)
(* the advisor (trigger advance_case_on_review_required).                  *)
PersistPlanningResult(t, rev, pack, sup, outcome) ==
    /\ ResultAccepted(rev, sup)
    /\ runs' = Append(runs, [task |-> t, rev |-> rev, pack |-> pack,
                             state |-> outcome, supersedes |-> sup])
    /\ current' = current \cup {Len(runs) + 1}
    /\ caseState' = IF outcome = "review_required" THEN "advisor_review" ELSE caseState
    /\ UNCHANGED <<revision, lineage, reviews, briefs, openBriefs, decisions,
                   packs, promoted>>

(* A slip: the review is recorded, the Case is not moved on.               *)
ReviewKeepsCase(r, action) ==
    /\ caseState = "advisor_review" /\ r \in current
    /\ runs[r].state = "review_required"
    /\ reviews' = reviews \cup {[run |-> r, action |-> action]}
    /\ UNCHANGED <<caseState, revision, lineage, runs, current, briefs, openBriefs,
                   decisions, packs, promoted>>

(* review_planning_run, a decision of the advisor on the current run.      *)
ReviewPlanningRun(r, action) ==
    /\ caseState = "advisor_review"
    /\ r \in current
    /\ runs[r].state = "review_required"
    /\ runs[r].rev = revision
    /\ action = "request_revision" => ~Reviewed(r, "request_revision")
    /\ reviews' = reviews \cup {[run |-> r, action |-> action]}
    /\ IF action = "approve_for_consultation"
       THEN /\ briefs' = briefs \cup {r}
            /\ openBriefs' = openBriefs \cup {r}
            /\ caseState' = "family_review"
       ELSE /\ caseState' = "planning"
            /\ UNCHANGED <<briefs, openBriefs>>
    /\ UNCHANGED <<revision, lineage, runs, current, decisions, packs, promoted>>

(* decide_family_brief: decision, timeline and plan_ready in one           *)
(* transaction (the intermediate state decided is never committed).        *)
DecideFamilyBrief(b) ==
    /\ b \in openBriefs
    /\ runs[b].rev = revision
    /\ caseState = "family_review"
    /\ Reviewed(b, "approve_for_consultation")
    /\ decisions' = decisions \cup {b}
    /\ openBriefs' = openBriefs \ {b}
    /\ caseState' = "plan_ready"
    /\ UNCHANGED <<revision, lineage, runs, current, reviews, briefs, packs, promoted>>

(* verify_and_promote_dra_candidate, approving: at most one approved       *)
(* verification per Case revision, each promoting a new pack version.      *)
PromoteExternalEvidence ==
    /\ "mixed" \in Operations
    /\ caseState = "planning"
    /\ promoted[revision] = NoPack
    /\ packs' = packs + 1
    /\ promoted' = [promoted EXCEPT ![revision] = packs + 1]
    /\ UNCHANGED <<caseState, revision, lineage, runs, current, reviews, briefs,
                   openBriefs, decisions>>

(* The half of verify_memory_candidate that confirms a fact: which current *)
(* run, if any, a next revision may replace ...                            *)
MayReplace(r) ==
    /\ caseState \in {"intake", "planning"}
    /\ IF r = NoRun
       THEN current = {} /\ caseState # "planning"
       ELSE /\ current = {r}
            /\ Reviewed(r, "request_revision")
            /\ runs[r].rev = revision
            /\ decisions = {}

(* ... and the publication, which retires that run into the lineage.       *)
PublishRevision(r) ==
    /\ revision < MaxRevision
    /\ MayReplace(r)
    /\ revision' = revision + 1
    /\ lineage' = [lineage EXCEPT ![revision + 1] = r]
    /\ current' = current \ {r}
    /\ UNCHANGED <<caseState, runs, reviews, briefs, openBriefs, decisions,
                   packs, promoted>>

-----------------------------------------------------------------------------
(* The shape of the Case rows.                                             *)
CaseTypeOK ==
    /\ caseState \in CaseStates
    /\ revision \in Revisions
    /\ lineage \in [Revisions -> Nat]
    /\ runs \in Seq([task : Nat, rev : Revisions, pack : Nat,
                     state : RunStates, supersedes : Nat])
    /\ current \subseteq Nat
    /\ reviews \subseteq [run : Nat, action : ReviewActions]
    /\ briefs \subseteq Nat
    /\ openBriefs \subseteq Nat
    /\ decisions \subseteq Nat
    /\ packs \in Nat
    /\ promoted \in [Revisions -> Nat]
=============================================================================
