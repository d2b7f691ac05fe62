---------------------------- MODULE PlanRevisions ----------------------------
(***************************************************************************)
(* What the planning runs of a Case say, revision after revision: the      *)
(* preferences each revision publishes, the source pack a task over it has *)
(* to pin, the input made of both, the policy's answer, and the comparison *)
(* of a run with the one it supersedes.  StudentCase has the rows and the  *)
(* commands on them; tasks are reduced to one that is pinned, answers once *)
(* or comes to nothing, since AgentTasks shows that one at a time works.   *)
(***************************************************************************)
EXTENDS StudentCase, PlanningScenarios

CONSTANTS
    Scopes,        \* the sets of preferred countries people propose
    Intakes,       \* the intakes they propose
    Budgets        \* the budgets they propose

VARIABLES
    prefs,         \* student and family preferences, by revision
    results,       \* planning_routes of the run: outcome and reason by country
    work           \* the task at work, or NoWork

revisionVars == <<prefs, results, work>>
vars == <<caseVars, revisionVars>>

DelayPack == 17    \* the intake delay pack; baseline versions are 1 .. packs
NoWork == [op |-> "none", rev |-> 0, pack |-> NoPack, sup |-> NoRun]
BudgetRows == [refused : BOOLEAN, preferred : Nat, ceiling : Nat, elasticity : 0 .. 2500]

ASSUME ScopesAssumption == \A s \in Scopes : ScopeValid(s)
ASSUME BudgetsAssumption == \A b \in Budgets : b \in BudgetRows /\ BudgetValid(b)
ASSUME PacksAssumption == MaxRevision + 1 < DelayPack

Preferences == [countries : SUBSET Countries, intake : {Packs.baseline.intake} \cup Intakes,
                budget : BudgetRows, japanRisk : BOOLEAN]

GoldenPreferences == [countries |-> Countries, intake |-> "2027-02",
                      budget |-> GoldenBudget, japanRisk |-> TRUE]

Init ==
    /\ CaseInit
    /\ prefs = [r \in Revisions |-> GoldenPreferences]
    /\ results = << >>
    /\ work = NoWork

-----------------------------------------------------------------------------
(*                     Which pack a revision is planned on                 *)

(* The one change of intake a planned revision may make.                   *)
DelayFrom(old, new, pack) ==
    old = Packs.baseline.intake /\ new = Packs.delay.intake /\ pack = BaselinePack

IntakeChanged(rev, sup) == prefs[rev].intake # prefs[runs[sup].rev].intake

(* A slip: every successor inherits the pack of its predecessor.           *)
InheritedPack(rev, sup) == runs[sup].pack

SuccessorPack(rev, sup) ==
    IF IntakeChanged(rev, sup) THEN DelayPack ELSE runs[sup].pack

(* create_agent_task and the loading of the snapshot agree on the pins.    *)
PinsLineage(rev, sup, pack) ==
    /\ sup # NoRun =>
           /\ IntakeChanged(rev, sup) =>
                  DelayFrom(prefs[runs[sup].rev].intake, prefs[rev].intake, runs[sup].pack)
           /\ pack = SuccessorPack(rev, sup)
    /\ pack = DelayPack => sup # NoRun /\ prefs[rev].intake = Packs.delay.intake

-----------------------------------------------------------------------------
(*                                 Commands                                *)

(* create_agent_task; a Case that never planned leaves intake with it.     *)
CreateTask(op, pack) ==
    /\ work = NoWork
    /\ pack = DelayPack \/ pack \in 1 .. packs
    /\ PinsLineage(revision, lineage[revision], pack)
    /\ pack = DelayPack => op = "synthetic"
    /\ \/ caseState = "intake" /\ op = "synthetic" /\ StartPlanning
       \/ caseState = "planning" /\ UNCHANGED caseVars
    /\ op = "mixed" => promoted[revision] = pack
    /\ work' = [op |-> op, rev |-> revision, pack |-> pack, sup |-> lineage[revision]]
    /\ UNCHANGED <<prefs, results>>

(* The snapshot of the pinned revision and pack, if the functions that load *)
(* it give one out and it can be made an input.                            *)
SnapshotServes ==
    /\ caseState = "planning" /\ revision = work.rev
    /\ \/ /\ work.op = "synthetic"
          /\ work.pack \in {BaselinePack, DelayPack}
          /\ PinsLineage(work.rev, lineage[work.rev], work.pack)
          /\ SyntheticPackServes(IF work.pack = DelayPack THEN "delay" ELSE "baseline",
                                 prefs[work.rev])
       \/ /\ work.op = "mixed"
          /\ promoted[work.rev] = work.pack
          /\ MixedSnapshotValid(PromotedEvidence(work.pack), work.pack)

PlanningInput ==
    IF work.op = "mixed" THEN MixedInput(work.pack, prefs[work.rev])
    ELSE SyntheticInput(IF work.pack = DelayPack THEN "delay" ELSE "baseline",
                        prefs[work.rev])

(* The worker evaluates the input and persists the run with its routes.    *)
PlanCase ==
    /\ work # NoWork
    /\ SnapshotServes
    /\ work.op = "mixed" => MixedPayloadUndrifted(PlanningInput, work.pack)
    /\ LET result == EvaluatePlanningRun(PlanningInput) IN
       /\ PersistPlanningResult(Len(runs) + 1, work.rev, work.pack, work.sup, result.state)
       /\ results' = Append(results, result.routes)
    /\ work' = NoWork
    /\ UNCHANGED prefs

(* The task comes to nothing: refused pins, a failure, a cancel.           *)
DropTask ==
    /\ work # NoWork
    /\ work' = NoWork
    /\ UNCHANGED <<caseVars, prefs, results>>

ReviewRun(action) ==
    /\ \E r \in current : ReviewPlanningRun(r, action)
    /\ UNCHANGED revisionVars

Decide == \E b \in openBriefs : DecideFamilyBrief(b) /\ UNCHANGED revisionVars

Promote == PromoteExternalEvidence /\ UNCHANGED revisionVars

(* The facts that reach the policy, and the values proposed for them.      *)
Proposals ==
    {"countries"} \X Scopes \cup {"intake"} \X Intakes \cup {"budget"} \X Budgets
        \cup {"japanRisk"} \X BOOLEAN

PlanningFacts == {"countries", "intake", "budget"}

(* A slip: a revision that replaces a planned one may change any fact.     *)
ReviseAnyFact(run, key, value) ==
    (run # NoRun /\ key = "intake") => DelayFrom(prefs[revision].intake, value, runs[run].pack)

(* verify_memory_candidate, confirming: what a revision that replaces a    *)
(* planned one may change ...                                              *)
MayRevise(run, key, value) ==
    run # NoRun =>
        /\ key \in PlanningFacts
        /\ key = "intake" => DelayFrom(prefs[revision].intake, value, runs[run].pack)

(* ... and the next revision with the confirmed value in it.               *)
ConfirmFact(key, value) ==
    /\ work = NoWork
    /\ \E run \in current \cup {NoRun} :
           MayRevise(run, key, value) /\ PublishRevision(run)
    /\ prefs' = [prefs EXCEPT ![revision + 1] = [prefs[revision] EXCEPT ![key] = value]]
    /\ UNCHANGED <<results, work>>

Next ==
    \/ \E op \in Operations, pack \in 1 .. packs \cup {DelayPack} : CreateTask(op, pack)
    \/ PlanCase
    \/ DropTask
    \/ \E action \in ReviewActions : ReviewRun(action)
    \/ Decide
    \/ Promote
    \/ \E p \in Proposals : ConfirmFact(p[1], p[2])

Spec == Init /\ [][Next]_vars

-----------------------------------------------------------------------------
(*                              The comparison                             *)

(* derive_planning_revision_fact_delta: the facts in which a revision      *)
(* differs from the one before; the comparison needs exactly one.          *)
ChangedFacts(rev) == { k \in PlanningFacts : prefs[rev][k] # prefs[rev - 1][k] }

Comparable(rev) ==
    /\ Cardinality(ChangedFacts(rev)) = 1
    /\ prefs[rev].japanRisk = prefs[rev - 1].japanRisk

(* A country in either of two runs, and what became of its route.          *)
Delta(old, new, c) ==
    IF c \notin DOMAIN old THEN "added"
    ELSE IF c \notin DOMAIN new THEN "removed"
    ELSE IF old[c] = new[c] THEN "unchanged" ELSE "changed"

Comparison(r) ==
    LET old == results[runs[r].supersedes] new == results[r] IN
    [c \in DOMAIN old \cup DOMAIN new |-> Delta(old, new, c)]

-----------------------------------------------------------------------------
(*                                Properties                               *)

RouteOutcomes == {"blocked", "conditional", "recommended_with_condition"}
RouteReasons == {"budget_refused", "cost_or_fx_evidence_incomplete",
                 "complete_cost_and_fx_within_boundary",
                 "budget_hard_ceiling_or_elasticity_exceeded",
                 "synthetic_high_risk_alternative",
                 "japan_risk_or_program_fit_unresolved",
                 "direct_program_fit_evidence_absent"}
RunRoutes == UNION { [scope -> [outcome : RouteOutcomes, reason : RouteReasons]] :
                         scope \in SUBSET Countries }

TypeOK ==
    /\ CaseTypeOK
    /\ prefs \in [Revisions -> Preferences]
    /\ results \in Seq(RunRoutes) /\ Len(results) = Len(runs)
    /\ work \in [op : {"none"} \cup Operations, rev : 0 .. MaxRevision,
                 pack : Nat, sup : Nat]

(* What it costs to begin in an intake, whatever pack a run was made on.   *)
PriceOf(intake) == IF intake = "2027-02" THEN 3055 ELSE 3264

(* The evidence reaches an intake: the baseline's own, or the delayed one  *)
(* when the revision that asked for it, or one before, replaced a run.     *)
Priced(rev) ==
    \/ prefs[rev].intake = "2027-02"
    \/ \E r \in 2 .. rev : /\ lineage[r] # NoRun
                           /\ prefs[r - 1].intake = "2027-02"
                           /\ prefs[r].intake = "2028-02"
                           /\ prefs[rev].intake = "2028-02"

Affordable(b, price) ==
    /\ ~b.refused
    /\ price <= b.ceiling
    /\ (price - b.preferred) * 10000 <= b.preferred * b.elasticity

(* A run goes to the advisor exactly when its revision wants Australia, in *)
(* an intake there is evidence for, and the budget of that revision covers *)
(* what that intake costs; otherwise it is blocked.  The pack a task pins, *)
(* and not the revision, carries the price, and it is chosen along the     *)
(* lineage (0017, synthetic.py): a successor on the wrong pack would       *)
(* recommend what another intake costs.                                    *)
RunsJustified ==
    \A r \in RunIds :
        LET p == prefs[runs[r].rev]
            wanted == /\ "australia" \in p.countries
                      /\ Priced(runs[r].rev)
                      /\ Affordable(p.budget, PriceOf(p.intake))
        IN runs[r].state = IF wanted THEN "review_required" ELSE "blocked"

(* What changed in a plan is explained by the fact that changed            *)
(* (revision.py): another scope adds and removes countries and touches no  *)
(* route of the others; another budget or intake touches Australia only;   *)
(* a fact confirmed with the value it had changes nothing.                 *)
ComparisonExplained ==
    \A r \in RunIds : runs[r].supersedes # NoRun =>
        LET rev == runs[r].rev
            old == prefs[rev - 1].countries
            new == prefs[rev].countries
            delta == Comparison(r)
        IN /\ runs[r].rev = runs[runs[r].supersedes].rev + 1
           /\ Cardinality(ChangedFacts(rev)) <= 1
           /\ prefs[rev].japanRisk = prefs[rev - 1].japanRisk
           /\ \A c \in DOMAIN delta :
                 /\ delta[c] = "added" <=> c \in new \ old
                 /\ delta[c] = "removed" <=> c \in old \ new
                 /\ delta[c] = "changed" =>
                        c = "australia" /\ ChangedFacts(rev) \cap {"intake", "budget"} # {}

(* "Confirm a changed planning fact": every run that replaces another can  *)
(* be compared with it.  Put it into the cfg to see the unchanged budget   *)
(* that verify_memory_candidate accepts and no comparison is made for.     *)
RevisionComparable ==
    \A r \in RunIds : runs[r].supersedes # NoRun => Comparable(runs[r].rev)
=============================================================================
