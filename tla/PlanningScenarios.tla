-------------------------- MODULE PlanningScenarios --------------------------
(***************************************************************************)
(* The inputs the policy is given.  The two checked-in source packs with   *)
(* the scenarios a pack must pass each time it is loaded (fixtures.py), the *)
(* input of a synthetic task made from a pack and a Case revision           *)
(* (synthetic.py), the input of a mixed task made from a promoted version   *)
(* of the baseline pack (mixed.py), and the assertions about planning that  *)
(* a version of the planning Skill is evaluated by (skills/evaluation.py).  *)
(***************************************************************************)
EXTENDS PlanningPolicy

(* The packs by name, as the files price them.                             *)
Packs == [baseline |-> [intake |-> "2027-02", total |-> 3055],
          delay    |-> [intake |-> "2028-02", total |-> 3264]]

GoldenBudget == [refused |-> FALSE, preferred |-> 3400, ceiling |-> 4000,
                 elasticity |-> 1000]
RefusedBudget == [refused |-> TRUE, preferred |-> 0, ceiling |-> 0, elasticity |-> 1000]

(* Evidence of one claim; version tells the copies in promoted packs apart. *)
Evidence(claim, version, authority) ==
    [id |-> <<claim, version>>, claim |-> claim, authority |-> authority, sound |-> TRUE]

SyntheticEvidence(claims) == { Evidence(c, 1, Synthetic) : c \in claims }

CostRow(pack, version) ==
    [country |-> "australia", intake |-> pack.intake, total |-> pack.total,
     currency |-> "AUD",
     cites |-> [role \in CostRoles |-> <<<<"australia", role>>, version>>]]

RankingRow(version) == [country |-> "australia",
                        cites |-> <<<<"australia", "ranking">>, version>>]

(* What the models of an input guarantee: schema versions, identities and  *)
(* one organization.                                                       *)
InputFor(pref, mixed, evidence, costs, rankings) ==
    [mixed |-> mixed, versioned |-> TRUE, identified |-> TRUE, tenants |-> {"demo"},
     scope |-> pref.countries, intake |-> pref.intake, budget |-> pref.budget,
     japanRisk |-> pref.japanRisk,
     evidence |-> evidence, costs |-> costs, rankings |-> rankings]

(* Only the rows of the countries the Case prefers are given to the policy. *)
OfCountries(rows, scope) == { row \in rows : row.country \in scope }

-----------------------------------------------------------------------------
(* The fixture of a pack and its stable scenarios.                         *)

FixtureInput(pack) ==
    InputFor([countries |-> Countries, intake |-> pack.intake,
              budget |-> GoldenBudget, japanRisk |-> TRUE],
             FALSE, SyntheticEvidence(BaselineClaims), {CostRow(pack, 1)}, {RankingRow(1)})

WithEvidence(in, claim, e) ==
    [in EXCEPT !.evidence = { f \in @ : f.claim # claim } \cup e]

Drifted(claim) == { [Evidence(claim, 1, Synthetic) EXCEPT !.sound = FALSE] }
Untrustworthy(claim) == { Evidence(claim, 1, Untrusted) }

BudgetRefused(in) == [in EXCEPT !.budget = RefusedBudget]
StaleRanking(in) == WithEvidence(in, <<"australia", "ranking">>,
                                 Drifted(<<"australia", "ranking">>))
DraFallback(in) == WithEvidence(in, ExternalClaim, Untrustworthy(ExternalClaim))
ZeroHit(in) == WithEvidence(in, ExternalClaim, {})
PreferenceConflict(in) ==
    [in EXCEPT !.budget = [@ EXCEPT !.preferred = 1000, !.ceiling = 1000]]

RunStateOf(in) == EvaluatePlanningRun(in).state
OutcomeOf(in, country) == EvaluatePlanningRun(in).routes[country].outcome

StableScenariosHold(in) ==
    /\ RunStateOf(in) = "review_required"
    /\ OutcomeOf(in, "japan") = "conditional"
    /\ OutcomeOf(in, "malaysia") = "blocked"
    /\ RunStateOf(BudgetRefused(in)) = "blocked"
    /\ RunStateOf(StaleRanking(in)) = "failed"
    /\ RunStateOf(DraFallback(in)) = "failed"
    /\ RunStateOf(ZeroHit(in)) = "blocked"
    /\ RunStateOf(PreferenceConflict(in)) = "blocked"

(* A pack is used only if the policy still answers as the manifest says.   *)
FixtureValid(pack) ==
    LET in == FixtureInput(pack) IN
    /\ OutcomeOf(in, "australia") = "recommended_with_condition"
    /\ StableScenariosHold(in)
    /\ \A e \in in.evidence : e.authority = Synthetic

BaselineValid == FixtureValid(Packs.baseline)
DelayValid == FixtureValid(Packs.delay)

-----------------------------------------------------------------------------
(* The input of a synthetic task: the pack's evidence under the revision's *)
(* preferences.  The delay pack serves one intake only.                    *)
SyntheticPackServes(name, pref) ==
    \/ name = "baseline" /\ BaselineValid
    \/ name = "delay" /\ pref.intake = Packs.delay.intake /\ DelayValid

SyntheticInput(name, pref) ==
    InputFor(pref, FALSE, SyntheticEvidence(BaselineClaims),
             OfCountries({CostRow(Packs[name], 1)}, pref.countries),
             OfCountries({RankingRow(1)}, pref.countries))

(* The evidence of a promoted version of the baseline pack: copies of the  *)
(* synthetic items and the verified one in the place of its claim.         *)
PromotedEvidence(version) ==
    { Evidence(c, version, Synthetic) : c \in BaselineClaims \ {ExternalClaim} }
      \cup {Evidence(ExternalClaim, version, External)}

MixedSnapshotValid(evidence, version) ==
    /\ BaselineValid
    /\ version > 1
    /\ { e.claim : e \in evidence } = BaselineClaims
    /\ Cardinality(evidence) = Cardinality(BaselineClaims)
    /\ \A e \in evidence : e.sound /\ (e.authority = External) = (e.claim = ExternalClaim)

MixedInput(version, pref) ==
    InputFor(pref, TRUE, PromotedEvidence(version),
             OfCountries({CostRow(Packs.baseline, version)}, pref.countries),
             OfCountries({RankingRow(version)}, pref.countries))

(* The worker compares a mixed payload with the baseline once more.        *)
MixedPayloadUndrifted(in, version) ==
    /\ MixedSnapshotValid(in.evidence, version)
    /\ \A c \in in.costs : /\ c.intake = Packs.baseline.intake
                           /\ c.total = Packs.baseline.total
                           /\ \A role \in CostRoles : Cited(in, c.cites[role], <<c.country, role>>)
    /\ { c.country : c \in in.costs } = in.scope \cap {"australia"}
    /\ { k.country : k \in in.rankings } = in.scope \cap {"australia"}
    /\ \A k \in in.rankings : Cited(in, k.cites, <<k.country, "ranking">>)

-----------------------------------------------------------------------------
(* The evaluation of the planning Skill: an assertion passes if the policy *)
(* observes what the dataset of the version expects.  The input differs    *)
(* from the fixture: four claims, no ranking, the risk of Japan refused.   *)

SkillInput == InputFor([countries |-> Countries, intake |-> "2027-02",
                        budget |-> GoldenBudget, japanRisk |-> FALSE],
                       FALSE, SyntheticEvidence(RequiredClaims),
                       {CostRow(Packs.baseline, 1)}, {})

ObservedRoute(in, country) == [outcome |-> OutcomeOf(in, country)]
ObservedRun(in) == [state |-> RunStateOf(in), reason |-> EvaluatePlanningRun(in).reason]

(* The same claim twice; the second item is told apart by its place only.  *)
Duplicated(in) ==
    [in EXCEPT !.evidence = @ \cup {[Evidence(ExternalClaim, 1, Synthetic)
                                       EXCEPT !.id = <<ExternalClaim, 2>>]}]

Observed == [
    australia_conditional |-> ObservedRoute(SkillInput, "australia"),
    baseline_hash_drift_failed |->
        ObservedRun(WithEvidence(SkillInput, ExternalClaim, Drifted(ExternalClaim))),
    budget_refusal_blocked |->
        EvaluatePlanningRun(BudgetRefused(SkillInput)).routes["australia"],
    duplicate_claim_failed |-> ObservedRun(Duplicated(SkillInput)),
    malaysia_blocked |-> ObservedRoute(SkillInput, "malaysia"),
    untrusted_evidence_failed |->
        ObservedRun(WithEvidence(SkillInput, ExternalClaim, Untrustworthy(ExternalClaim)))]

Expected == [
    australia_conditional |-> [outcome |-> "recommended_with_condition"],
    baseline_hash_drift_failed |->
        [state |-> "failed", reason |-> "evidence_provenance_invalid"],
    budget_refusal_blocked |-> [outcome |-> "blocked", reason |-> "budget_refused"],
    duplicate_claim_failed |->
        [state |-> "failed", reason |-> "evidence_provenance_invalid"],
    malaysia_blocked |-> [outcome |-> "blocked"],
    untrusted_evidence_failed |->
        [state |-> "failed", reason |-> "evidence_authority_invalid"]]

(* Version 1 is 1.0.0, version 2 is 1.0.1 with two assertions more.        *)
Assertions(version) ==
    IF version = 1 THEN DOMAIN Expected \ {"duplicate_claim_failed", "untrusted_evidence_failed"}
                   ELSE DOMAIN Expected

SkillPasses(version) == \A a \in Assertions(version) : Observed[a] = Expected[a]
=============================================================================
