---------------------------- MODULE PlanningPolicy ----------------------------
(***************************************************************************)
(* The planning policy: what a planning run answers to an input that names *)
(* a Case revision, a source pack, the evidence taken from it and the      *)
(* costs that cite the evidence (planning/policy.py).  A claim is a pair   *)
(* of country and role.  Amounts are in units of 10,000 minor; the total   *)
(* of a cost is its tuition and living cost at its exchange rate.  Periods *)
(* and the budget's currency have one value in the models and are left out.*)
(***************************************************************************)
EXTENDS Integers, FiniteSets

Countries == {"australia", "japan", "malaysia"}
Roles == {"program_fit", "tuition", "living_cost", "fx", "ranking"}
CostRoles == {"tuition", "living_cost", "fx"}

Synthetic == "accepted_synthetic_demo"
External == "externally_verified"
Untrusted == "untrusted_candidate"

BaselineClaims == ({"australia"} \X Roles) \cup {<<"japan", "program_fit">>}
ExternalClaim == <<"australia", "program_fit">>
RequiredClaims == {"australia"} \X (Roles \ {"ranking"})

ClaimsOf(in) == { e.claim : e \in in.evidence }
IdsOf(in) == { e.id : e \in in.evidence }

(* A budget that may be written down at all.                               *)
BudgetValid(b) ==
    /\ b.elasticity \in 0 .. 2500
    /\ ~b.refused => 0 < b.preferred /\ b.preferred <= b.ceiling

ScopeValid(scope) == scope # {} /\ scope \subseteq Countries

-----------------------------------------------------------------------------
(* The reasons for which an input is not planned, in the order they are    *)
(* looked for; a fault is a pair of condition and reason.                  *)

EvidenceUnique(in) ==
    /\ Cardinality(IdsOf(in)) = Cardinality(in.evidence)
    /\ Cardinality(ClaimsOf(in)) = Cardinality(in.evidence)

ContractFaults(in) ==
    << <<~in.versioned, "schema_or_version_invalid">>,
       <<~ScopeValid(in.scope), "country_scope_invalid">>,
       <<~in.identified, "schema_or_version_invalid">>,
       <<in.mixed /\ ~(/\ Cardinality(ClaimsOf(in)) = Cardinality(in.evidence)
                       /\ ClaimsOf(in) = BaselineClaims),
         "mixed_evidence_baseline_invalid">>,
       <<in.mixed /\ \E e \in in.evidence :
             (e.claim = ExternalClaim) # (e.authority = External),
         "mixed_evidence_authority_invalid">>,
       <<~in.mixed /\ \E e \in in.evidence : e.authority # Synthetic,
         "evidence_authority_invalid">>,
       <<\E c \in in.costs : c.currency # "AUD", "cost_currency_invalid">> >>

Cited(in, id, claim) == \E e \in in.evidence : e.id = id /\ e.claim = claim

ProvenanceFaults(in) ==
    << <<Cardinality(in.tenants) # 1, "tenant_mismatch">>,
       <<~EvidenceUnique(in), "evidence_provenance_invalid">>,
       <<\E e \in in.evidence : e.authority = Untrusted \/ ~e.sound,
         "evidence_provenance_invalid">>,
       <<\E c \in in.costs, role \in CostRoles :
             ~Cited(in, c.cites[role], <<c.country, role>>),
         "evidence_provenance_invalid">>,
       <<\E k \in in.rankings : ~Cited(in, k.cites, <<k.country, "ranking">>),
         "evidence_provenance_invalid">> >>

Faulty(faults) == { i \in DOMAIN faults : faults[i][1] }
FirstReason(faults) ==
    faults[CHOOSE i \in Faulty(faults) : \A j \in Faulty(faults) : i <= j][2]

-----------------------------------------------------------------------------
(* The routes, country by country.                                         *)

(* The Australian cost that is complete for the intake the student wants.  *)
CompleteCosts(in) ==
    { c \in in.costs : /\ c.country = "australia"
                       /\ c.intake = in.intake
                       /\ \A role \in CostRoles : c.cites[role] \in IdsOf(in) }

(* The total stays under the hard ceiling and under the preferred amount   *)
(* with its elasticity in basis points.                                    *)
WithinBudget(budget, total) ==
    /\ total <= budget.ceiling
    /\ total * 10000 <= budget.preferred * (10000 + budget.elasticity)

Australia(in) ==
    IF in.budget.refused
    THEN [outcome |-> "blocked", reason |-> "budget_refused"]
    ELSE IF ~(RequiredClaims \subseteq ClaimsOf(in)) \/ CompleteCosts(in) = {}
    THEN [outcome |-> "blocked", reason |-> "cost_or_fx_evidence_incomplete"]
    ELSE IF \A c \in CompleteCosts(in) : WithinBudget(in.budget, c.total)
    THEN [outcome |-> "recommended_with_condition",
          reason |-> "complete_cost_and_fx_within_boundary"]
    ELSE [outcome |-> "blocked",
          reason |-> "budget_hard_ceiling_or_elasticity_exceeded"]

Japan(in) ==
    IF <<"japan", "program_fit">> \in ClaimsOf(in) /\ in.japanRisk
    THEN [outcome |-> "conditional", reason |-> "synthetic_high_risk_alternative"]
    ELSE [outcome |-> "blocked", reason |-> "japan_risk_or_program_fit_unresolved"]

Malaysia(in) ==
    IF <<"malaysia", "program_fit">> \in ClaimsOf(in)
    THEN [outcome |-> "conditional", reason |-> "malaysia_program_fit_present"]
    ELSE [outcome |-> "blocked", reason |-> "direct_program_fit_evidence_absent"]

Routes(in) ==
    [c \in in.scope |-> IF c = "australia" THEN Australia(in)
                        ELSE IF c = "japan" THEN Japan(in)
                        ELSE Malaysia(in)]

Recommended(routes) ==
    { c \in DOMAIN routes : routes[c].outcome = "recommended_with_condition" }

FailedResult(reason) == [state |-> "failed", reason |-> reason, routes |-> << >>]

PlannedResult(routes) ==
    IF Cardinality(Recommended(routes)) = 1
    THEN [state |-> "review_required",
          reason |-> "single_fully_evidenced_recommendation", routes |-> routes]
    ELSE [state |-> "blocked", reason |-> "recommendation_cardinality", routes |-> routes]

EvaluatePlanningRun(in) ==
    IF Faulty(ContractFaults(in)) # {}
    THEN FailedResult(FirstReason(ContractFaults(in)))
    ELSE IF Faulty(ProvenanceFaults(in)) # {}
    THEN FailedResult(FirstReason(ProvenanceFaults(in)))
    ELSE PlannedResult(Routes(in))
=============================================================================
