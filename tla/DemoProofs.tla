----------------------------- MODULE DemoProofs -----------------------------
(***************************************************************************)
(* What the demonstration keeps: its planning runs, for any number of      *)
(* revisions, any scopes and intakes, and any budgets; its browser tab on  *)
(* both pages, for any number of faults; and its database, for any number  *)
(* of moves of its schema and its people.                                  *)
(*                                                                         *)
(* First the policy: the input of a task has one item of evidence for each *)
(* claim of the baseline and its rows cite them, so nothing is refused and *)
(* the answer is what RoutesOn and StateOn say of the pack under the       *)
(* preferences.  Then the lineage: a revision that replaces a run changes  *)
(* one fact, and the pack its run pins is the delay pack exactly when the  *)
(* intake was delayed there or before.  Then the tab: its saved keys are   *)
(* keys the person asked for, its csrf token fits no other role's cookie,  *)
(* and what it repeats is about the role it acts for.  Last the database:  *)
(* a seed leaves what it made before, and what people did, as it was, at   *)
(* every migration.                                                        *)
(***************************************************************************)
EXTENDS PlanRevisions, DemoDatabase, BudgetJourney, FiniteSetTheorems,
        SequenceTheorems, TLAPS

-----------------------------------------------------------------------------
(*                          Nothing is refused                             *)

LEMMA NoContractFault ==
  ASSUME NEW in,
         in.versioned, in.identified, ScopeValid(in.scope),
         ClaimsOf(in) = BaselineClaims,
         Cardinality(ClaimsOf(in)) = Cardinality(in.evidence),
         in.mixed => \A e \in in.evidence : e.claim = ExternalClaim <=> e.authority = External,
         ~in.mixed => \A e \in in.evidence : e.authority = Synthetic,
         \A c \in in.costs : c.currency = "AUD"
  PROVE  Faulty(ContractFaults(in)) = {}
  <1>1. ~ContractFaults(in)[1][1] /\ ~ContractFaults(in)[3][1] BY DEF ContractFaults
  <1>2. ~ContractFaults(in)[2][1] BY DEF ContractFaults
  <1>3. ~ContractFaults(in)[4][1] BY DEF ContractFaults
  <1>4. ~ContractFaults(in)[5][1] BY DEF ContractFaults
  <1>5. ~ContractFaults(in)[6][1] BY DEF ContractFaults
  <1>6. ~ContractFaults(in)[7][1] BY DEF ContractFaults
  <1>7. DOMAIN ContractFaults(in) = 1 .. 7 BY DEF ContractFaults
  <1> QED BY <1>1, <1>2, <1>3, <1>4, <1>5, <1>6, <1>7 DEF Faulty

LEMMA NoProvenanceFault ==
  ASSUME NEW in,
         Cardinality(in.tenants) = 1,
         Cardinality(ClaimsOf(in)) = Cardinality(in.evidence),
         Cardinality(IdsOf(in)) = Cardinality(in.evidence),
         \A e \in in.evidence : e.authority # Untrusted /\ e.sound,
         \A c \in in.costs : \A role \in CostRoles : Cited(in, c.cites[role], <<c.country, role>>),
         \A k \in in.rankings : Cited(in, k.cites, <<k.country, "ranking">>)
  PROVE  Faulty(ProvenanceFaults(in)) = {}
  <1>1. ~ProvenanceFaults(in)[1][1] BY DEF ProvenanceFaults
  <1>2. ~ProvenanceFaults(in)[2][1] BY DEF ProvenanceFaults, EvidenceUnique
  <1>3. ~ProvenanceFaults(in)[3][1] BY DEF ProvenanceFaults
  <1>4. ~ProvenanceFaults(in)[4][1] BY DEF ProvenanceFaults
  <1>5. ~ProvenanceFaults(in)[5][1] BY DEF ProvenanceFaults
  <1>6. DOMAIN ProvenanceFaults(in) = 1 .. 5 BY DEF ProvenanceFaults
  <1> QED BY <1>1, <1>2, <1>3, <1>4, <1>5, <1>6 DEF Faulty

LEMMA BaselineClaimsFinite == IsFiniteSet(BaselineClaims)
  <1>1. BaselineClaims =
          {<<"australia", "program_fit">>} \cup {<<"australia", "tuition">>}
            \cup {<<"australia", "living_cost">>} \cup {<<"australia", "fx">>}
            \cup {<<"australia", "ranking">>} \cup {<<"japan", "program_fit">>}
    BY DEF BaselineClaims, Roles
  <1> QED BY <1>1, FS_Singleton, FS_Union

\* Evidence with one item for each claim of the baseline, named after it.
LEMMA OneItemPerClaim ==
  ASSUME NEW items, NEW version,
         \A e \in items : e.claim \in BaselineClaims /\ e.id = <<e.claim, version>>,
         \A c \in BaselineClaims : \E e \in items : e.claim = c,
         \A e, f \in items : e.claim = f.claim => e = f
  PROVE  /\ { e.claim : e \in items } = BaselineClaims
         /\ Cardinality(items) = Cardinality(BaselineClaims)
         /\ Cardinality({ e.id : e \in items }) = Cardinality(BaselineClaims)
  <1> DEFINE item == [c \in BaselineClaims |-> CHOOSE e \in items : e.claim = c]
             id == [c \in BaselineClaims |-> <<c, version>>]
             ids == { e.id : e \in items }
  <1>1. { e.claim : e \in items } = BaselineClaims OBVIOUS
  <1>2. \A c \in BaselineClaims : item[c] \in items /\ item[c].claim = c OBVIOUS
  <1>3. item \in Bijection(BaselineClaims, items)
    <2>1. item \in [BaselineClaims -> items] BY <1>2
    <2>2. \A c, d \in BaselineClaims : item[c] = item[d] => c = d BY <1>2
    <2>3. \A e \in items : \E c \in BaselineClaims : item[c] = e BY <1>2
    <2> HIDE DEF item
    <2> QED BY <2>1, <2>2, <2>3 DEF Bijection, Injection, Surjection, IsInjective
  <1>4. id \in Bijection(BaselineClaims, ids)
    <2>1. \A c \in BaselineClaims : id[c] \in ids BY <1>2
    <2>2. id \in [BaselineClaims -> ids] BY <2>1
    <2>3. \A c, d \in BaselineClaims : id[c] = id[d] => c = d OBVIOUS
    <2>4. ASSUME NEW e \in items PROVE e.claim \in BaselineClaims /\ id[e.claim] = e.id OBVIOUS
    <2>5. \A i \in ids : \E c \in BaselineClaims : id[c] = i
      <3> HIDE DEF id
      <3> QED BY <2>4
    <2> HIDE DEF id, ids
    <2> QED BY <2>2, <2>3, <2>5 DEF Bijection, Injection, Surjection, IsInjective
  <1> HIDE DEF item, id, ids
  <1>5. Cardinality(items) = Cardinality(BaselineClaims)
    BY <1>3, BaselineClaimsFinite, FS_Bijection DEF ExistsBijection
  <1>6. Cardinality(ids) = Cardinality(BaselineClaims)
    BY <1>4, BaselineClaimsFinite, FS_Bijection DEF ExistsBijection
  <1> QED BY <1>1, <1>5, <1>6 DEF ids

-----------------------------------------------------------------------------
(*           What a run answers: a pack under the preferences              *)

AustraliaOn(pack, pref) ==
  IF pref.budget.refused
  THEN [outcome |-> "blocked", reason |-> "budget_refused"]
  ELSE IF pref.intake # pack.intake
  THEN [outcome |-> "blocked", reason |-> "cost_or_fx_evidence_incomplete"]
  ELSE IF WithinBudget(pref.budget, pack.total)
  THEN [outcome |-> "recommended_with_condition",
        reason |-> "complete_cost_and_fx_within_boundary"]
  ELSE [outcome |-> "blocked",
        reason |-> "budget_hard_ceiling_or_elasticity_exceeded"]

JapanOn(pref) ==
  IF pref.japanRisk
  THEN [outcome |-> "conditional", reason |-> "synthetic_high_risk_alternative"]
  ELSE [outcome |-> "blocked", reason |-> "japan_risk_or_program_fit_unresolved"]

MalaysiaOn == [outcome |-> "blocked", reason |-> "direct_program_fit_evidence_absent"]

RoutesOn(pack, pref) ==
  [c \in pref.countries |-> IF c = "australia" THEN AustraliaOn(pack, pref)
                            ELSE IF c = "japan" THEN JapanOn(pref)
                            ELSE MalaysiaOn]

Recommends(pack, pref) ==
  /\ "australia" \in pref.countries
  /\ ~pref.budget.refused
  /\ pref.intake = pack.intake
  /\ WithinBudget(pref.budget, pack.total)

StateOn(pack, pref) == IF Recommends(pack, pref) THEN "review_required" ELSE "blocked"

\* The input is the pack, copied as a version, under the preferences.
Carries(in, pack, version, pref) ==
  /\ in.scope = pref.countries
  /\ in.intake = pref.intake
  /\ in.budget = pref.budget
  /\ in.japanRisk = pref.japanRisk
  /\ ClaimsOf(in) = BaselineClaims
  /\ in.costs = OfCountries({CostRow(pack, version)}, pref.countries)
  /\ \A c \in BaselineClaims : <<c, version>> \in IdsOf(in)

LEMMA AustraliaAnswer ==
  ASSUME NEW in, NEW pack, NEW version, NEW pref, Carries(in, pack, version, pref),
         "australia" \in pref.countries
  PROVE  Australia(in) = AustraliaOn(pack, pref)
  <1> DEFINE row == CostRow(pack, version)
  <1>1. row.country = "australia" /\ row.intake = pack.intake /\ row.total = pack.total
    BY DEF CostRow
  <1>2. in.costs = {row} BY <1>1 DEF Carries, OfCountries
  <1>3. ASSUME NEW role \in CostRoles PROVE row.cites[role] \in IdsOf(in)
    <2>1. row.cites[role] = <<<<"australia", role>>, version>> BY DEF CostRow
    <2>2. <<"australia", role>> \in BaselineClaims BY DEF CostRoles, BaselineClaims, Roles
    <2> QED BY <2>1, <2>2 DEF Carries
  <1>4. RequiredClaims \subseteq ClaimsOf(in)
    BY DEF Carries, RequiredClaims, BaselineClaims
  <1>5. CASE pref.intake = pack.intake
    <2>1. CompleteCosts(in) = {row} BY <1>1, <1>2, <1>3, <1>5 DEF CompleteCosts, Carries
    <2> HIDE DEF row
    <2> QED BY <1>1, <1>4, <1>5, <2>1 DEF Australia, AustraliaOn, Carries
  <1>6. CASE pref.intake # pack.intake
    <2>1. CompleteCosts(in) = {} BY <1>1, <1>2, <1>6 DEF CompleteCosts, Carries
    <2> HIDE DEF row
    <2> QED BY <1>6, <2>1 DEF Australia, AustraliaOn, Carries
  <1> QED BY <1>5, <1>6

LEMMA RoutesAnswer ==
  ASSUME NEW in, NEW pack, NEW version, NEW pref, Carries(in, pack, version, pref),
         ScopeValid(pref.countries)
  PROVE  Routes(in) = RoutesOn(pack, pref)
  <1>1. "australia" \in pref.countries => Australia(in) = AustraliaOn(pack, pref)
    BY AustraliaAnswer
  <1>2. Japan(in) = JapanOn(pref)
    BY DEF Japan, JapanOn, Carries, BaselineClaims
  <1>3. Malaysia(in) = MalaysiaOn
    BY DEF Malaysia, MalaysiaOn, Carries, BaselineClaims
  <1>4. in.scope = pref.countries BY DEF Carries
  <1> QED BY <1>1, <1>2, <1>3, <1>4 DEF Routes, RoutesOn

LEMMA StateAnswer ==
  ASSUME NEW pack, NEW pref, ScopeValid(pref.countries)
  PROVE  /\ PlannedResult(RoutesOn(pack, pref)).state = StateOn(pack, pref)
         /\ PlannedResult(RoutesOn(pack, pref)).routes = RoutesOn(pack, pref)
  <1> DEFINE routes == RoutesOn(pack, pref)
  <1>1. DOMAIN routes = pref.countries BY DEF RoutesOn
  <1>2. \A c \in pref.countries : c # "australia" => routes[c].outcome # "recommended_with_condition"
    BY DEF RoutesOn, JapanOn, MalaysiaOn
  <1>3. "australia" \in pref.countries =>
          (routes["australia"].outcome = "recommended_with_condition" <=> Recommends(pack, pref))
    <2>1. "australia" \in pref.countries => routes["australia"] = AustraliaOn(pack, pref)
      BY DEF RoutesOn
    <2> HIDE DEF routes
    <2> QED BY <2>1 DEF AustraliaOn, Recommends
  <1> HIDE DEF routes
  <1>4. CASE Recommends(pack, pref)
    <2>1. Recommended(routes) = {"australia"}
      BY <1>1, <1>2, <1>3, <1>4 DEF Recommended, Recommends
    <2>2. Cardinality(Recommended(routes)) = 1 BY <2>1, FS_Singleton
    <2> QED BY <1>4, <2>2 DEF PlannedResult, StateOn, routes
  <1>5. CASE ~Recommends(pack, pref)
    <2>1. Recommended(routes) = {}
      BY <1>1, <1>2, <1>3, <1>5 DEF Recommended, Recommends
    <2>2. Cardinality(Recommended(routes)) = 0 BY <2>1, FS_EmptySet
    <2> QED BY <1>5, <2>2 DEF PlannedResult, StateOn, routes
  <1> QED BY <1>4, <1>5

\* The cites of the rows of a version are the ids of its items.
LEMMA RowsCite ==
  ASSUME NEW in, NEW pack, NEW version, NEW scope,
         \A c \in BaselineClaims : Cited(in, <<c, version>>, c),
         in.costs = OfCountries({CostRow(pack, version)}, scope),
         in.rankings = OfCountries({RankingRow(version)}, scope)
  PROVE  /\ \A c \in in.costs : c.currency = "AUD"
         /\ \A c \in in.costs : \A role \in CostRoles : Cited(in, c.cites[role], <<c.country, role>>)
         /\ \A k \in in.rankings : Cited(in, k.cites, <<k.country, "ranking">>)
  <1> DEFINE cost == CostRow(pack, version)
             rank == RankingRow(version)
  <1>1. cost.country = "australia" /\ cost.currency = "AUD" BY DEF CostRow
  <1>2. rank.country = "australia" /\ rank.cites = <<<<"australia", "ranking">>, version>>
    BY DEF RankingRow
  <1>3. ASSUME NEW role \in CostRoles PROVE Cited(in, cost.cites[role], <<"australia", role>>)
    <2>1. cost.cites[role] = <<<<"australia", role>>, version>> BY DEF CostRow
    <2>2. <<"australia", role>> \in BaselineClaims BY DEF CostRoles, BaselineClaims, Roles
    <2> QED BY <2>1, <2>2
  <1>4. <<"australia", "ranking">> \in BaselineClaims BY DEF BaselineClaims, Roles
  <1>5. \A c \in in.costs : c = cost BY DEF OfCountries
  <1>6. \A k \in in.rankings : k = rank BY DEF OfCountries
  <1> HIDE DEF cost, rank
  <1>7. \A k \in in.rankings : Cited(in, k.cites, <<k.country, "ranking">>)
    BY <1>2, <1>4, <1>6
  <1> QED BY <1>1, <1>3, <1>5, <1>7

LEMMA SyntheticAnswer ==
  ASSUME NEW name \in {"baseline", "delay"}, NEW pref, ScopeValid(pref.countries)
  PROVE  EvaluatePlanningRun(SyntheticInput(name, pref))
           = PlannedResult(RoutesOn(Packs[name], pref))
  <1> DEFINE in == SyntheticInput(name, pref)
             items == SyntheticEvidence(BaselineClaims)
  <1>1. /\ in.evidence = items /\ ~in.mixed /\ in.versioned /\ in.identified
        /\ in.tenants = {"demo"} /\ in.scope = pref.countries
        /\ in.intake = pref.intake /\ in.budget = pref.budget /\ in.japanRisk = pref.japanRisk
        /\ in.costs = OfCountries({CostRow(Packs[name], 1)}, pref.countries)
        /\ in.rankings = OfCountries({RankingRow(1)}, pref.countries)
    BY DEF SyntheticInput, InputFor
  <1>2. \A e \in items : /\ e.claim \in BaselineClaims /\ e.id = <<e.claim, 1>>
                         /\ e.authority = Synthetic /\ e.sound
    BY DEF SyntheticEvidence, Evidence
  <1>3. ASSUME NEW c \in BaselineClaims PROVE \E e \in items : e.claim = c
    <2>1. Evidence(c, 1, Synthetic) \in items BY DEF SyntheticEvidence
    <2>2. Evidence(c, 1, Synthetic).claim = c BY DEF Evidence
    <2> QED BY <2>1, <2>2
  <1>4. ASSUME NEW e \in items, NEW f \in items, e.claim = f.claim PROVE e = f
    <2>1. PICK c \in BaselineClaims : e = Evidence(c, 1, Synthetic) BY DEF SyntheticEvidence
    <2>2. PICK d \in BaselineClaims : f = Evidence(d, 1, Synthetic) BY DEF SyntheticEvidence
    <2>3. c = d BY <1>4, <2>1, <2>2 DEF Evidence
    <2> QED BY <2>1, <2>2, <2>3
  <1> HIDE DEF in, items
  <1>5. /\ ClaimsOf(in) = BaselineClaims
        /\ Cardinality(in.evidence) = Cardinality(BaselineClaims)
        /\ Cardinality(IdsOf(in)) = Cardinality(BaselineClaims)
    <2>1. /\ { e.claim : e \in items } = BaselineClaims
          /\ Cardinality(items) = Cardinality(BaselineClaims)
          /\ Cardinality({ e.id : e \in items }) = Cardinality(BaselineClaims)
      BY <1>2, <1>3, <1>4, OneItemPerClaim
    <2> QED BY <1>1, <2>1 DEF ClaimsOf, IdsOf
  <1>6. \A c \in BaselineClaims : Cited(in, <<c, 1>>, c) BY <1>1, <1>2, <1>3 DEF Cited
  <1>7. /\ \A c \in in.costs : c.currency = "AUD"
        /\ \A c \in in.costs : \A role \in CostRoles : Cited(in, c.cites[role], <<c.country, role>>)
        /\ \A k \in in.rankings : Cited(in, k.cites, <<k.country, "ranking">>)
    BY <1>1, <1>6, RowsCite
  <1>8. Carries(in, Packs[name], 1, pref)
    BY <1>1, <1>5, <1>6 DEF Carries, Cited, IdsOf
  <1>9. Faulty(ContractFaults(in)) = {}
    BY <1>1, <1>2, <1>5, <1>7, NoContractFault
  <1>10. Faulty(ProvenanceFaults(in)) = {}
    <2>1. Cardinality(in.tenants) = 1 BY <1>1, FS_Singleton
    <2>2. \A e \in in.evidence : e.authority # Untrusted /\ e.sound
      BY <1>1, <1>2 DEF Synthetic, Untrusted
    <2> QED BY <1>5, <1>7, <2>1, <2>2, NoProvenanceFault
  <1> QED BY <1>8, <1>9, <1>10, RoutesAnswer DEF EvaluatePlanningRun, in

LEMMA MixedAnswer ==
  ASSUME NEW version, NEW pref, ScopeValid(pref.countries)
  PROVE  EvaluatePlanningRun(MixedInput(version, pref))
           = PlannedResult(RoutesOn(Packs.baseline, pref))
  <1> DEFINE in == MixedInput(version, pref)
             items == PromotedEvidence(version)
  <1>1. /\ in.evidence = items /\ in.mixed /\ in.versioned /\ in.identified
        /\ in.tenants = {"demo"} /\ in.scope = pref.countries
        /\ in.intake = pref.intake /\ in.budget = pref.budget /\ in.japanRisk = pref.japanRisk
        /\ in.costs = OfCountries({CostRow(Packs.baseline, version)}, pref.countries)
        /\ in.rankings = OfCountries({RankingRow(version)}, pref.countries)
    BY DEF MixedInput, InputFor
  <1>2. ExternalClaim \in BaselineClaims BY DEF ExternalClaim, BaselineClaims, Roles
  <1>3. \A e \in items : /\ e.claim \in BaselineClaims /\ e.id = <<e.claim, version>> /\ e.sound
                         /\ e.claim = ExternalClaim => e.authority = External
                         /\ e.claim # ExternalClaim => e.authority = Synthetic
    BY <1>2 DEF PromotedEvidence, Evidence
  <1> DEFINE item(c) ==
        Evidence(c, version, IF c = ExternalClaim THEN External ELSE Synthetic)
  <1>4. ASSUME NEW c \in BaselineClaims PROVE \E e \in items : e.claim = c
    <2>1. item(c) \in items BY DEF PromotedEvidence
    <2>2. item(c).claim = c BY DEF Evidence
    <2> QED BY <2>1, <2>2
  <1>5. ASSUME NEW e \in items, NEW f \in items, e.claim = f.claim PROVE e = f
    <2>1. \E c \in BaselineClaims : e = item(c) BY <1>2 DEF PromotedEvidence
    <2>2. \E d \in BaselineClaims : f = item(d) BY <1>2 DEF PromotedEvidence
    <2>3. \A c : item(c).claim = c BY DEF Evidence
    <2> HIDE DEF item
    <2> QED BY <1>5, <2>1, <2>2, <2>3
  <1> HIDE DEF in, items
  <1>6. /\ ClaimsOf(in) = BaselineClaims
        /\ Cardinality(in.evidence) = Cardinality(BaselineClaims)
        /\ Cardinality(IdsOf(in)) = Cardinality(BaselineClaims)
    <2>1. /\ { e.claim : e \in items } = BaselineClaims
          /\ Cardinality(items) = Cardinality(BaselineClaims)
          /\ Cardinality({ e.id : e \in items }) = Cardinality(BaselineClaims)
      BY <1>3, <1>4, <1>5, OneItemPerClaim
    <2> QED BY <1>1, <2>1 DEF ClaimsOf, IdsOf
  <1>7. \A c \in BaselineClaims : Cited(in, <<c, version>>, c) BY <1>1, <1>3, <1>4 DEF Cited
  <1>8. /\ \A c \in in.costs : c.currency = "AUD"
        /\ \A c \in in.costs : \A role \in CostRoles : Cited(in, c.cites[role], <<c.country, role>>)
        /\ \A k \in in.rankings : Cited(in, k.cites, <<k.country, "ranking">>)
    BY <1>1, <1>7, RowsCite
  <1>9. Carries(in, Packs.baseline, version, pref)
    BY <1>1, <1>6, <1>7 DEF Carries, Cited, IdsOf
  <1>10. Faulty(ContractFaults(in)) = {}
    <2>1. \A e \in in.evidence : e.claim = ExternalClaim <=> e.authority = External
      BY <1>1, <1>3 DEF Synthetic, External
    <2> QED BY <1>1, <1>6, <1>8, <2>1, NoContractFault
  <1>11. Faulty(ProvenanceFaults(in)) = {}
    <2>1. Cardinality(in.tenants) = 1 BY <1>1, FS_Singleton
    <2>2. \A e \in in.evidence : e.authority # Untrusted /\ e.sound
      BY <1>1, <1>3 DEF Synthetic, External, Untrusted
    <2> QED BY <1>6, <1>8, <2>1, <2>2, NoProvenanceFault
  <1> QED BY <1>9, <1>10, <1>11, RoutesAnswer DEF EvaluatePlanningRun, in

LEMMA AffordableIsWithin ==
  ASSUME NEW b \in BudgetRows, NEW price \in Nat
  PROVE  Affordable(b, price) <=> ~b.refused /\ WithinBudget(b, price)
  <1>1. PICK p : p = b.preferred OBVIOUS
  <1>2. PICK e : e = b.elasticity OBVIOUS
  <1>3. p \in Nat /\ e \in Nat BY <1>1, <1>2 DEF BudgetRows
  <1>4. (price - p) * 10000 <= p * e <=> price * 10000 <= p * (10000 + e)
    <2>1. p * (10000 + e) = p * 10000 + p * e BY <1>3
    <2>2. PICK k : k = p * e OBVIOUS
    <2>3. k \in Nat BY <1>3, <2>2
    <2> QED BY <1>3, <2>1, <2>2, <2>3
  <1> QED BY <1>1, <1>2, <1>4 DEF Affordable, WithinBudget

-----------------------------------------------------------------------------
(*                          The inductive invariant                        *)

PackOf(version) == IF version = DelayPack THEN Packs.delay ELSE Packs.baseline

ScopesNamed == \A n \in Revisions : ScopeValid(prefs[n].countries)

IntakeIsEmpty == caseState = "intake" => runs = << >>

CurrentRuns == current \subseteq RunIds

\* Once a revision replaced a run, every later one replaces a run of the
\* revision before it.
LineageKept ==
  \A n \in Revisions : lineage[n] # NoRun =>
    /\ n \in 2 .. revision
    /\ lineage[n] \in RunIds
    /\ runs[lineage[n]].rev = n - 1
    /\ \A m \in n .. revision : lineage[m] # NoRun

RunsOfRevisions ==
  \A r \in RunIds : runs[r].rev <= revision /\ runs[r].supersedes = lineage[runs[r].rev]

OneFactRevised ==
  \A n \in Revisions : lineage[n] # NoRun =>
    /\ prefs[n].japanRisk = prefs[n - 1].japanRisk
    /\ \E key \in PlanningFacts :
         \A k \in PlanningFacts \ {key} : prefs[n][k] = prefs[n - 1][k]

Judged ==
  \A r \in RunIds :
    /\ results[r] = RoutesOn(PackOf(runs[r].pack), prefs[runs[r].rev])
    /\ runs[r].state = StateOn(PackOf(runs[r].pack), prefs[runs[r].rev])

RunsPinned == \A r \in RunIds : PinsLineage(runs[r].rev, runs[r].supersedes, runs[r].pack)

Delayed(rev) ==
  \E r \in 2 .. rev : /\ lineage[r] # NoRun
                      /\ prefs[r - 1].intake = "2027-02"
                      /\ prefs[r].intake = "2028-02"
                      /\ prefs[rev].intake = "2028-02"

\* The delay pack prices exactly the runs of a delayed intake.
DelayExact == \A r \in RunIds : runs[r].pack = DelayPack <=> Delayed(runs[r].rev)

Records ==
  /\ ScopesNamed /\ CurrentRuns /\ LineageKept /\ RunsOfRevisions
  /\ OneFactRevised /\ Judged /\ RunsPinned /\ DelayExact

WorkPinned ==
  work # NoWork =>
    /\ work.rev = revision
    /\ work.sup = lineage[revision]
    /\ PinsLineage(work.rev, work.sup, work.pack)
    /\ work.pack = DelayPack => work.op = "synthetic"

RevisionInv == TypeOK /\ Records /\ IntakeIsEmpty /\ WorkPinned

LEMMA GoldenPreferencesType ==
  GoldenPreferences \in Preferences /\ ScopeValid(GoldenPreferences.countries)
<1>1. GoldenBudget \in BudgetRows BY DEF GoldenBudget, BudgetRows
<1>2. Countries \in SUBSET Countries /\ ScopeValid(Countries) BY DEF ScopeValid, Countries
<1>3. GoldenPreferences.countries = Countries BY DEF GoldenPreferences
<1>4. GoldenPreferences \in Preferences
  <2> HIDE DEF GoldenBudget, Countries
  <2> QED BY <1>1, <1>2 DEF GoldenPreferences, Preferences, Packs
<1> QED BY <1>2, <1>3, <1>4

LEMMA InitRevision == Init => RevisionInv
<1> SUFFICES ASSUME Init PROVE RevisionInv OBVIOUS
<1> USE MaxRevisionAssumption, OperationsAssumption DEF Init, CaseInit, Revisions
<1>1. RunIds = {} BY DEF RunIds
<1>2. TypeOK
  <2>1. CaseTypeOK
    BY EmptySeq DEF CaseTypeOK, CaseStates, NoRun, NoPack, BaselinePack
  <2>2. prefs \in [Revisions -> Preferences] BY GoldenPreferencesType
  <2>3. results \in Seq(RunRoutes) /\ Len(results) = Len(runs) BY EmptySeq
  <2>4. work \in [op : {"none"} \cup Operations, rev : 0 .. MaxRevision, pack : Nat, sup : Nat]
    BY DEF NoWork, NoPack, NoRun
  <2> QED BY <2>1, <2>2, <2>3, <2>4 DEF TypeOK
<1>3. Records
  BY <1>1, GoldenPreferencesType
     DEF Records, ScopesNamed, CurrentRuns, LineageKept, RunsOfRevisions, OneFactRevised,
         Judged, RunsPinned, DelayExact
<1> QED BY <1>2, <1>3 DEF RevisionInv, IntakeIsEmpty, WorkPinned

\* The steps that leave the runs and the revisions alone.
LEMMA RecordsKept ==
  ASSUME Records, UNCHANGED <<revision, lineage, runs, current, prefs, results>>
  PROVE  Records'
  BY DEF Records, ScopesNamed, CurrentRuns, LineageKept, RunsOfRevisions, OneFactRevised,
         Judged, RunsPinned, DelayExact, Delayed, RunIds, PinsLineage, IntakeChanged,
         SuccessorPack

LEMMA WorkKept ==
  ASSUME WorkPinned, UNCHANGED <<revision, lineage, runs, prefs, work>>
  PROVE  WorkPinned'
  BY DEF WorkPinned, PinsLineage, IntakeChanged, SuccessorPack

LEMMA CreateTaskKeeps ==
  ASSUME RevisionInv, NEW op \in Operations, NEW pack \in 1 .. packs \cup {DelayPack},
         CreateTask(op, pack)
  PROVE  RevisionInv'
<1>1. TypeOK'
  <2>1. work' \in [op : {"none"} \cup Operations, rev : 0 .. MaxRevision, pack : Nat, sup : Nat]
    BY MaxRevisionAssumption
       DEF CreateTask, RevisionInv, TypeOK, CaseTypeOK, Revisions, DelayPack
  <2>2. CaseTypeOK'
    BY DEF CreateTask, StartPlanning, caseVars, RevisionInv, TypeOK, CaseTypeOK, CaseStates
  <2>3. UNCHANGED <<prefs, results, runs>>
    BY DEF CreateTask, StartPlanning, caseVars
  <2> QED BY <2>1, <2>2, <2>3 DEF RevisionInv, TypeOK
<1>2. Records'
  BY RecordsKept DEF CreateTask, StartPlanning, caseVars, RevisionInv
<1>3. IntakeIsEmpty'
  BY DEF CreateTask, StartPlanning, caseVars, RevisionInv, IntakeIsEmpty
<1>4. WorkPinned'
  <2>1. PinsLineage(revision, lineage[revision], pack)' <=>
          PinsLineage(revision, lineage[revision], pack)
    BY DEF CreateTask, StartPlanning, caseVars, PinsLineage, IntakeChanged, SuccessorPack
  <2>2. /\ work'.op = op /\ work'.rev = revision /\ work'.pack = pack
        /\ work'.sup = lineage[revision]
        /\ UNCHANGED <<revision, lineage>>
    BY DEF CreateTask, StartPlanning, caseVars
  <2>3. PinsLineage(revision, lineage[revision], pack) /\ (pack = DelayPack => op = "synthetic")
    BY DEF CreateTask
  <2> QED BY <2>1, <2>2, <2>3 DEF WorkPinned
<1> QED BY <1>1, <1>2, <1>3, <1>4 DEF RevisionInv

\* The steps that move the Case or its evidence, not its plans.
LEMMA CaseStepKeeps ==
  ASSUME RevisionInv,
         CaseTypeOK',
         UNCHANGED <<revision, lineage, runs, current, prefs, results>>,
         work' \in {work, NoWork},
         caseState' = "intake" => caseState = "intake"
  PROVE  RevisionInv'
<1>1. NoWork \in [op : {"none"} \cup Operations, rev : 0 .. MaxRevision, pack : Nat, sup : Nat]
  BY MaxRevisionAssumption DEF NoWork, NoPack, NoRun
<1>2. TypeOK' BY <1>1 DEF RevisionInv, TypeOK
<1>3. Records' BY RecordsKept DEF RevisionInv
<1>4. IntakeIsEmpty' BY DEF RevisionInv, IntakeIsEmpty
<1>5. WorkPinned'
  <2>1. CASE work' = work BY <2>1, WorkKept DEF RevisionInv
  <2>2. CASE work' = NoWork BY <2>2 DEF WorkPinned
  <2> QED BY <2>1, <2>2
<1> QED BY <1>2, <1>3, <1>4, <1>5 DEF RevisionInv

LEMMA DropTaskKeeps == RevisionInv /\ DropTask => RevisionInv'
<1> SUFFICES ASSUME RevisionInv, DropTask PROVE RevisionInv' OBVIOUS
<1>1. CaseTypeOK' BY DEF DropTask, caseVars, RevisionInv, TypeOK, CaseTypeOK
<1> QED BY <1>1, CaseStepKeeps DEF DropTask, caseVars

LEMMA ReviewRunKeeps ==
  ASSUME RevisionInv, NEW action \in ReviewActions, ReviewRun(action)
  PROVE  RevisionInv'
<1>1. PICK r \in current : ReviewPlanningRun(r, action) BY DEF ReviewRun
<1>2. r \in Nat BY DEF RevisionInv, TypeOK, CaseTypeOK
<1>3. CaseTypeOK'
  <2>1. reviews' \subseteq [run : Nat, action : ReviewActions]
    BY <1>1, <1>2 DEF ReviewPlanningRun, RevisionInv, TypeOK, CaseTypeOK
  <2>2. briefs' \subseteq Nat /\ openBriefs' \subseteq Nat /\ caseState' \in CaseStates
    BY <1>1, <1>2 DEF ReviewPlanningRun, RevisionInv, TypeOK, CaseTypeOK, CaseStates
  <2>3. UNCHANGED <<revision, lineage, runs, current, decisions, packs, promoted>>
    BY <1>1 DEF ReviewPlanningRun
  <2> QED BY <2>1, <2>2, <2>3 DEF RevisionInv, TypeOK, CaseTypeOK
<1>4. UNCHANGED <<revision, lineage, runs, current, prefs, results, work>>
  BY <1>1 DEF ReviewPlanningRun, ReviewRun, revisionVars
<1>5. caseState' # "intake" BY <1>1 DEF ReviewPlanningRun
<1> QED BY <1>3, <1>4, <1>5, CaseStepKeeps

LEMMA DecideKeeps == RevisionInv /\ Decide => RevisionInv'
<1> SUFFICES ASSUME RevisionInv, Decide PROVE RevisionInv' OBVIOUS
<1>1. PICK b \in openBriefs : DecideFamilyBrief(b) BY DEF Decide
<1>2. CaseTypeOK'
  BY <1>1 DEF DecideFamilyBrief, RevisionInv, TypeOK, CaseTypeOK, CaseStates
<1>3. UNCHANGED <<revision, lineage, runs, current, prefs, results, work>>
  BY <1>1 DEF DecideFamilyBrief, Decide, revisionVars
<1>4. caseState' # "intake" BY <1>1 DEF DecideFamilyBrief
<1> QED BY <1>2, <1>3, <1>4, CaseStepKeeps

LEMMA PromoteKeeps == RevisionInv /\ Promote => RevisionInv'
<1> SUFFICES ASSUME RevisionInv, Promote PROVE RevisionInv' OBVIOUS
<1>1. CaseTypeOK'
  BY DEF Promote, PromoteExternalEvidence, RevisionInv, TypeOK, CaseTypeOK
<1>2. UNCHANGED <<caseState, revision, lineage, runs, current, prefs, results, work>>
  BY DEF Promote, PromoteExternalEvidence, revisionVars
<1> QED BY <1>1, <1>2, CaseStepKeeps

\* What PinsLineage says does not depend on what comes later.
LEMMA PinsRemain ==
  ASSUME NEW rev, NEW sup, NEW pack,
         prefs'[rev].intake = prefs[rev].intake,
         sup # NoRun => /\ runs'[sup].rev = runs[sup].rev
                        /\ runs'[sup].pack = runs[sup].pack
                        /\ prefs'[runs[sup].rev].intake = prefs[runs[sup].rev].intake
  PROVE  PinsLineage(rev, sup, pack)' <=> PinsLineage(rev, sup, pack)
<1> QED BY DEF PinsLineage, IntakeChanged, SuccessorPack

-----------------------------------------------------------------------------
(*                          The next revision                              *)

LEMMA ProposalType ==
  ASSUME NEW p \in Proposals, NEW pref \in Preferences, ScopeValid(pref.countries)
  PROVE  LET new == [pref EXCEPT ![p[1]] = p[2]] IN
         /\ new \in Preferences
         /\ ScopeValid(new.countries)
         /\ p[1] \in PlanningFacts =>
              /\ new.japanRisk = pref.japanRisk
              /\ \A k \in PlanningFacts \ {p[1]} : new[k] = pref[k]
<1> DEFINE new == [pref EXCEPT ![p[1]] = p[2]]
<1>1. CASE p \in {"countries"} \X Scopes
  <2>1. p[1] = "countries" /\ p[2] \in Scopes BY <1>1
  <2>2. ScopeValid(p[2]) /\ p[2] \in SUBSET Countries BY <2>1, ScopesAssumption DEF ScopeValid
  <2>3. new = [pref EXCEPT !.countries = p[2]] BY <2>1
  <2> HIDE DEF new
  <2> QED BY <2>1, <2>2, <2>3 DEF Preferences, PlanningFacts, new
<1>2. CASE p \in {"intake"} \X Intakes
  <2>1. p[1] = "intake" /\ p[2] \in Intakes BY <1>2
  <2>3. new = [pref EXCEPT !.intake = p[2]] BY <2>1
  <2> HIDE DEF new
  <2> QED BY <2>1, <2>3 DEF Preferences, PlanningFacts, new
<1>3. CASE p \in {"budget"} \X Budgets
  <2>1. p[1] = "budget" /\ p[2] \in BudgetRows BY <1>3, BudgetsAssumption
  <2>3. new = [pref EXCEPT !.budget = p[2]] BY <2>1
  <2> HIDE DEF new
  <2> QED BY <2>1, <2>3 DEF Preferences, PlanningFacts, new
<1>4. CASE p \in {"japanRisk"} \X BOOLEAN
  <2>1. p[1] = "japanRisk" /\ p[2] \in BOOLEAN BY <1>4
  <2>3. new = [pref EXCEPT !.japanRisk = p[2]] BY <2>1
  <2> HIDE DEF new
  <2> QED BY <2>1, <2>3 DEF Preferences, PlanningFacts, new
<1> QED BY <1>1, <1>2, <1>3, <1>4 DEF Proposals

LEMMA RunRevision ==
  ASSUME RevisionInv, NEW r \in RunIds
  PROVE  runs[r].rev \in 1 .. revision
<1> DEFINE Row == [task : Nat, rev : Revisions, pack : Nat, state : RunStates, supersedes : Nat]
<1>1. runs \in Seq(Row) /\ revision \in Revisions BY DEF RevisionInv, TypeOK, CaseTypeOK
<1>2. runs[r] \in Row BY <1>1, ElementOfSeq DEF RunIds
<1>3. runs[r].rev \in Revisions BY <1>2
<1>4. runs[r].rev <= revision BY DEF RevisionInv, Records, RunsOfRevisions
<1> QED BY <1>1, <1>3, <1>4, MaxRevisionAssumption DEF Revisions

LEMMA ConfirmFactKeeps ==
  ASSUME RevisionInv, NEW p \in Proposals, ConfirmFact(p[1], p[2])
  PROVE  RevisionInv'
<1>1. PICK run \in current \cup {NoRun} :
        MayRevise(run, p[1], p[2]) /\ PublishRevision(run)
  BY DEF ConfirmFact
<1> DEFINE n == revision + 1
           new == [prefs[revision] EXCEPT ![p[1]] = p[2]]
<1>2. /\ revision \in Revisions /\ n \in Revisions /\ n # revision
      /\ revision' = n /\ revision \in Nat \ {0} /\ MaxRevision \in Nat
  BY <1>1, MaxRevisionAssumption DEF PublishRevision, RevisionInv, TypeOK, CaseTypeOK, Revisions
<1>3. prefs \in [Revisions -> Preferences] /\ lineage \in [Revisions -> Nat]
  BY DEF RevisionInv, TypeOK, CaseTypeOK
<1>4. prefs' = [prefs EXCEPT ![n] = new] /\ lineage' = [lineage EXCEPT ![n] = run]
  BY <1>1 DEF ConfirmFact, PublishRevision
<1>5. prefs[revision] \in Preferences /\ ScopeValid(prefs[revision].countries)
  BY <1>2, <1>3 DEF RevisionInv, Records, ScopesNamed
<1>6. /\ new \in Preferences /\ ScopeValid(new.countries)
      /\ p[1] \in PlanningFacts =>
           /\ new.japanRisk = prefs[revision].japanRisk
           /\ \A k \in PlanningFacts \ {p[1]} : new[k] = prefs[revision][k]
  BY <1>5, ProposalType
<1> HIDE DEF new
<1>7. /\ \A m \in Revisions : m # n => prefs'[m] = prefs[m] /\ lineage'[m] = lineage[m]
      /\ prefs'[n] = new /\ lineage'[n] = run
  BY <1>2, <1>3, <1>4
<1>8. UNCHANGED <<caseState, runs, results>> /\ work' = work /\ work = NoWork
  BY <1>1 DEF ConfirmFact, PublishRevision
<1>9. current' = current \ {run} BY <1>1 DEF PublishRevision
<1>10. \A r \in RunIds : runs[r].rev \in 1 .. revision BY RunRevision
<1>11. run \in Nat BY <1>1 DEF RevisionInv, TypeOK, CaseTypeOK, NoRun
<1>12. TypeOK'
  <2>1. prefs' \in [Revisions -> Preferences] BY <1>3, <1>4, <1>6
  <2>2. lineage' \in [Revisions -> Nat] BY <1>3, <1>4, <1>11
  <2>3. CaseTypeOK'
    BY <1>1, <1>2, <2>2 DEF PublishRevision, RevisionInv, TypeOK, CaseTypeOK
  <2> QED BY <1>8, <2>1, <2>3 DEF RevisionInv, TypeOK
<1>13. ScopesNamed' BY <1>6, <1>7 DEF RevisionInv, Records, ScopesNamed
<1>14. CurrentRuns' BY <1>8, <1>9 DEF RevisionInv, Records, CurrentRuns, RunIds
<1>15. run # NoRun =>
         run \in RunIds /\ runs[run].rev = revision /\ p[1] \in PlanningFacts
  BY <1>1 DEF PublishRevision, MayReplace, MayRevise, RevisionInv, Records, CurrentRuns
<1>16. run = NoRun => \A m \in Revisions : lineage[m] = NoRun
  <2>1. run = NoRun => caseState = "intake" BY <1>1 DEF PublishRevision, MayReplace
  <2>2. run = NoRun => RunIds = {} BY <2>1 DEF RevisionInv, IntakeIsEmpty, RunIds
  <2> QED BY <2>2 DEF RevisionInv, Records, LineageKept
<1>17. LineageKept'
  <2> SUFFICES ASSUME NEW m \in Revisions, lineage'[m] # NoRun
               PROVE  /\ m \in 2 .. n
                      /\ lineage'[m] \in RunIds
                      /\ runs[lineage'[m]].rev = m - 1
                      /\ \A k \in m .. n : lineage'[k] # NoRun
    BY <1>2, <1>8 DEF LineageKept, RunIds
  <2>1. CASE m = n
    <3>1. lineage'[m] = run BY <1>7, <2>1
    <3>2. \A k \in m .. n : k = n BY <2>1, <1>2
    <3> QED BY <1>2, <1>15, <2>1, <3>1, <3>2 DEF Revisions
  <2>2. CASE m # n
    <3>1. lineage'[m] = lineage[m] BY <1>7, <2>2
    <3>2. /\ m \in 2 .. revision /\ lineage[m] \in RunIds /\ runs[lineage[m]].rev = m - 1
          /\ \A k \in m .. revision : lineage[k] # NoRun
      BY <3>1 DEF RevisionInv, Records, LineageKept
    <3>3. run # NoRun BY <1>16, <3>1
    <3>4. ASSUME NEW k \in m .. n PROVE lineage'[k] # NoRun
      <4>1. CASE k = n BY <1>7, <3>3, <4>1
      <4>2. CASE k # n
        <5>1. k \in m .. revision /\ k \in Revisions BY <1>2, <3>2, <4>2 DEF Revisions
        <5> QED BY <1>7, <3>2, <4>2, <5>1
      <4> QED BY <4>1, <4>2
    <3> QED BY <1>2, <3>1, <3>2, <3>4
  <2> QED BY <2>1, <2>2
<1>18. RunsOfRevisions'
  <2>1. ASSUME NEW r \in RunIds
        PROVE  runs[r].rev <= n /\ runs[r].supersedes = lineage'[runs[r].rev]
    <3>1. runs[r].rev \in Revisions /\ runs[r].rev # n /\ runs[r].rev <= n
      BY <1>2, <1>10 DEF Revisions
    <3> QED BY <1>7, <3>1 DEF RevisionInv, Records, RunsOfRevisions
  <2> QED BY <1>2, <1>8, <2>1 DEF RunsOfRevisions, RunIds
<1>19. OneFactRevised'
  <2> SUFFICES ASSUME NEW m \in Revisions, lineage'[m] # NoRun
               PROVE  /\ prefs'[m].japanRisk = prefs'[m - 1].japanRisk
                      /\ \E key \in PlanningFacts :
                           \A k \in PlanningFacts \ {key} : prefs'[m][k] = prefs'[m - 1][k]
    BY DEF OneFactRevised
  <2>1. CASE m = n
    <3>1. prefs'[m] = new /\ prefs'[m - 1] = prefs[revision] /\ run # NoRun
      BY <1>2, <1>7, <2>1
    <3> QED BY <1>6, <1>15, <3>1
  <2>2. CASE m # n
    <3>1. lineage[m] # NoRun /\ prefs'[m] = prefs[m] BY <1>7, <2>2
    <3>2. m \in 2 .. revision BY <3>1 DEF RevisionInv, Records, LineageKept
    <3>3. m - 1 \in Revisions /\ m - 1 # n BY <1>2, <3>2 DEF Revisions
    <3>4. prefs'[m - 1] = prefs[m - 1] BY <1>7, <3>3
    <3> QED BY <3>1, <3>4 DEF RevisionInv, Records, OneFactRevised
  <2> QED BY <2>1, <2>2
<1>20. Judged'
  <2>1. ASSUME NEW r \in RunIds PROVE prefs'[runs[r].rev] = prefs[runs[r].rev]
    <3>1. runs[r].rev \in Revisions /\ runs[r].rev # n BY <1>2, <1>10 DEF Revisions
    <3> QED BY <1>7, <3>1
  <2> QED BY <1>8, <2>1 DEF RevisionInv, Records, Judged, RunIds
<1>21. RunsPinned'
  <2>1. ASSUME NEW r \in RunIds
        PROVE  PinsLineage(runs[r].rev, runs[r].supersedes, runs[r].pack)'
    <3>1. PICK rev : rev = runs[r].rev OBVIOUS
    <3>2. PICK sup : sup = runs[r].supersedes OBVIOUS
    <3>3. PICK pack : pack = runs[r].pack OBVIOUS
    <3>4. rev \in Revisions /\ rev # n BY <1>2, <1>10, <3>1 DEF Revisions
    <3>5. prefs'[rev] = prefs[rev] BY <1>7, <3>4
    <3>6. sup # NoRun => sup \in RunIds
      BY <3>1, <3>2, <3>4 DEF RevisionInv, Records, RunsOfRevisions, LineageKept
    <3>7. sup # NoRun => runs[sup].rev \in Revisions /\ runs[sup].rev # n
      BY <1>2, <1>10, <3>6 DEF Revisions
    <3>8. sup # NoRun => prefs'[runs[sup].rev] = prefs[runs[sup].rev] BY <1>7, <3>7
    <3>9. PinsLineage(rev, sup, pack)
      BY <3>1, <3>2, <3>3 DEF RevisionInv, Records, RunsPinned
    <3>10. PinsLineage(rev, sup, pack)' BY <1>8, <3>5, <3>8, <3>9, PinsRemain
    <3> QED BY <1>8, <3>1, <3>2, <3>3, <3>10
  <2> QED BY <1>8, <2>1 DEF RunsPinned, RunIds
<1>22. DelayExact'
  <2>1. ASSUME NEW rev \in 1 .. revision PROVE Delayed(rev)' <=> Delayed(rev)
    <3>1. \A m \in 1 .. rev : prefs'[m] = prefs[m] /\ lineage'[m] = lineage[m]
      BY <1>2, <1>7 DEF Revisions
    <3>2. \A r \in 2 .. rev : r \in 1 .. rev /\ r - 1 \in 1 .. rev OBVIOUS
    <3>3. rev \in 1 .. rev OBVIOUS
    <3> QED BY <3>1, <3>2, <3>3 DEF Delayed
  <2>2. ASSUME NEW r \in RunIds PROVE runs[r].pack = DelayPack <=> Delayed(runs[r].rev)'
    <3>1. runs[r].pack = DelayPack <=> Delayed(runs[r].rev)
      BY DEF RevisionInv, Records, DelayExact
    <3>2. PICK rev : rev = runs[r].rev OBVIOUS
    <3>3. rev \in 1 .. revision BY <1>10, <3>2
    <3>4. Delayed(rev)' <=> Delayed(rev) BY <2>1, <3>3
    <3>5. rev = runs'[r].rev BY <1>8, <3>2
    <3> QED BY <3>1, <3>2, <3>4, <3>5
  <2> QED BY <1>8, <2>2 DEF DelayExact, RunIds
<1>23. IntakeIsEmpty' BY <1>8 DEF RevisionInv, IntakeIsEmpty
<1>24. WorkPinned' BY <1>8 DEF WorkPinned
<1>25. Records'
  BY <1>13, <1>14, <1>17, <1>18, <1>19, <1>20, <1>21, <1>22 DEF Records
<1> QED BY <1>12, <1>23, <1>24, <1>25 DEF RevisionInv

-----------------------------------------------------------------------------
(*                               The next run                              *)

\* A run whose pins are kept is on the delay pack exactly when its intake is
\* delayed, if that is so of the run it replaces.
LEMMA DelayFollowsPins ==
  ASSUME RevisionInv, NEW rev \in 1 .. revision, NEW pack,
         PinsLineage(rev, lineage[rev], pack)
  PROVE  pack = DelayPack <=> Delayed(rev)
<1> DEFINE sup == lineage[rev]
<1>1. revision \in Revisions /\ MaxRevision \in Nat
  BY MaxRevisionAssumption DEF RevisionInv, TypeOK, CaseTypeOK
<1>2. rev \in Revisions BY <1>1 DEF Revisions
<1>3. CASE sup = NoRun
  <2>1. pack # DelayPack BY <1>3 DEF PinsLineage
  <2>2. ASSUME NEW r \in 2 .. rev, lineage[r] # NoRun PROVE FALSE
    <3>1. r \in Revisions /\ rev \in r .. revision BY <1>1, <1>2 DEF Revisions
    <3> QED BY <1>3, <2>2, <3>1 DEF RevisionInv, Records, LineageKept
  <2> QED BY <2>1, <2>2 DEF Delayed
<1>4. CASE sup # NoRun
  <2>1. rev \in 2 .. revision /\ sup \in RunIds /\ runs[sup].rev = rev - 1
    BY <1>2, <1>4 DEF RevisionInv, Records, LineageKept
  <2>2. runs[sup].pack = DelayPack <=> Delayed(rev - 1)
    BY <2>1 DEF RevisionInv, Records, DelayExact
  <2>3. rev \in 2 .. rev /\ \A r \in 2 .. (rev - 1) : r \in 2 .. rev BY <2>1
  <2>4. CASE IntakeChanged(rev, sup)
    <3>1. pack = DelayPack BY <1>4, <2>4 DEF PinsLineage, SuccessorPack
    <3>2. prefs[rev - 1].intake = "2027-02" /\ prefs[rev].intake = "2028-02"
      BY <1>4, <2>1, <2>4 DEF PinsLineage, DelayFrom, Packs
    <3>3. Delayed(rev) BY <1>4, <2>3, <3>2 DEF Delayed
    <3> QED BY <3>1, <3>3
  <2>5. CASE ~IntakeChanged(rev, sup)
    <3>1. pack = runs[sup].pack BY <1>4, <2>5 DEF PinsLineage, SuccessorPack
    <3>2. prefs[rev].intake = prefs[rev - 1].intake BY <2>1, <2>5 DEF IntakeChanged
    <3>3. Delayed(rev - 1) => Delayed(rev) BY <2>3, <3>2 DEF Delayed
    <3>4. Delayed(rev) => Delayed(rev - 1)
      <4> SUFFICES ASSUME NEW r \in 2 .. rev, lineage[r] # NoRun,
                          prefs[r - 1].intake = "2027-02", prefs[r].intake = "2028-02",
                          prefs[rev].intake = "2028-02"
                   PROVE  Delayed(rev - 1)
        BY DEF Delayed
      <4>1. r # rev BY <3>2
      <4>2. r \in 2 .. (rev - 1) BY <2>1, <4>1
      <4> QED BY <3>2, <4>2 DEF Delayed
    <3> QED BY <2>2, <3>1, <3>3, <3>4
  <2> QED BY <2>4, <2>5
<1> QED BY <1>3, <1>4

\* The answer of the run of the task at work.
LEMMA PlanningAnswer ==
  ASSUME RevisionInv, work # NoWork, SnapshotServes
  PROVE  LET pack == PackOf(work.pack) pref == prefs[revision] IN
         /\ EvaluatePlanningRun(PlanningInput).routes = RoutesOn(pack, pref)
         /\ EvaluatePlanningRun(PlanningInput).state = StateOn(pack, pref)
<1>1. work.rev = revision /\ revision \in Revisions
  BY DEF RevisionInv, WorkPinned, TypeOK, CaseTypeOK
<1>2. ScopeValid(prefs[revision].countries) BY <1>1 DEF RevisionInv, Records, ScopesNamed
<1>3. CASE work.op = "mixed"
  <2>1. work.pack # DelayPack BY <1>3 DEF RevisionInv, WorkPinned
  <2>2. EvaluatePlanningRun(PlanningInput) = PlannedResult(RoutesOn(Packs.baseline, prefs[revision]))
    BY <1>1, <1>2, <1>3, MixedAnswer DEF PlanningInput
  <2>3. PackOf(work.pack) = Packs.baseline BY <2>1 DEF PackOf
  <2> QED BY <1>2, <2>2, <2>3, StateAnswer
<1>4. CASE work.op # "mixed"
  <2> DEFINE name == IF work.pack = DelayPack THEN "delay" ELSE "baseline"
  <2>1. PlanningInput = SyntheticInput(name, prefs[revision]) BY <1>1, <1>4 DEF PlanningInput
  <2>2. name \in {"baseline", "delay"} OBVIOUS
  <2>3. Packs[name] = PackOf(work.pack) BY DEF Packs, PackOf
  <2> HIDE DEF name
  <2>4. EvaluatePlanningRun(PlanningInput) = PlannedResult(RoutesOn(Packs[name], prefs[revision]))
    BY <1>2, <2>1, <2>2, SyntheticAnswer
  <2> QED BY <1>2, <2>3, <2>4, StateAnswer
<1> QED BY <1>3, <1>4

LEMMA RoutesType ==
  ASSUME NEW pack, NEW pref, ScopeValid(pref.countries)
  PROVE  RoutesOn(pack, pref) \in RunRoutes
<1> DEFINE Row == [outcome : RouteOutcomes, reason : RouteReasons]
<1>1. AustraliaOn(pack, pref) \in Row BY DEF AustraliaOn, RouteOutcomes, RouteReasons
<1>2. JapanOn(pref) \in Row BY DEF JapanOn, RouteOutcomes, RouteReasons
<1>3. MalaysiaOn \in Row BY DEF MalaysiaOn, RouteOutcomes, RouteReasons
<1> HIDE DEF Row
<1>4. RoutesOn(pack, pref) \in [pref.countries -> Row] BY <1>1, <1>2, <1>3 DEF RoutesOn
<1>5. pref.countries \in SUBSET Countries BY DEF ScopeValid
<1> QED BY <1>4, <1>5 DEF RunRoutes, Row

LEMMA PlanCaseKeeps == RevisionInv /\ PlanCase => RevisionInv'
<1> SUFFICES ASSUME RevisionInv, PlanCase PROVE RevisionInv' OBVIOUS
<1>0. PICK id : id = Len(runs) + 1 OBVIOUS
<1> DEFINE pack == PackOf(work.pack)
           pref == prefs[revision]
           run == [task |-> id, rev |-> revision, pack |-> work.pack,
                   state |-> StateOn(pack, pref), supersedes |-> work.sup]
           Row == [task : Nat, rev : Revisions, pack : Nat, state : RunStates, supersedes : Nat]
<1>1. /\ runs \in Seq(Row) /\ results \in Seq(RunRoutes) /\ Len(results) = Len(runs)
      /\ revision \in Revisions /\ MaxRevision \in Nat /\ current \subseteq RunIds
  BY MaxRevisionAssumption
     DEF RevisionInv, TypeOK, CaseTypeOK, Records, CurrentRuns
<1>2. /\ work # NoWork /\ work.rev = revision /\ work.sup = lineage[revision]
      /\ PinsLineage(revision, work.sup, work.pack)
  BY DEF PlanCase, RevisionInv, WorkPinned
<1>3. work.pack \in Nat /\ work.sup \in Nat BY DEF RevisionInv, TypeOK
<1>4. ScopeValid(pref.countries) BY <1>1 DEF RevisionInv, Records, ScopesNamed
<1>5. /\ EvaluatePlanningRun(PlanningInput).routes = RoutesOn(pack, pref)
      /\ EvaluatePlanningRun(PlanningInput).state = StateOn(pack, pref)
  BY PlanningAnswer DEF PlanCase
<1>6. /\ PersistPlanningResult(id, revision, work.pack, work.sup, StateOn(pack, pref))
      /\ results' = Append(results, RoutesOn(pack, pref))
      /\ work' = NoWork /\ UNCHANGED prefs
  BY <1>0, <1>2, <1>5 DEF PlanCase
<1>7. /\ runs' = Append(runs, run) /\ current' = current \cup {id}
      /\ caseState' \in {"planning", "advisor_review"}
      /\ UNCHANGED <<revision, lineage, reviews, briefs, openBriefs, decisions, packs, promoted>>
  BY <1>0, <1>6 DEF PersistPlanningResult, ResultAccepted, ResultFitsCase
<1>8. StateOn(pack, pref) \in RunStates BY DEF StateOn, RunStates
<1>9. Len(runs) \in Nat /\ id \in Nat \ {0} BY <1>0, <1>1, LenProperties
<1>10. run \in Row BY <1>1, <1>3, <1>8, <1>9
<1> HIDE DEF pack, pref, Row
<1>11. /\ runs' \in Seq(Row) /\ Len(runs') = id
       /\ \A r \in 1 .. Len(runs) : runs'[r] = runs[r]
       /\ runs'[id] = run
  BY <1>0, <1>1, <1>7, <1>10, AppendProperties
<1>12. RoutesOn(pack, pref) \in RunRoutes BY <1>4, RoutesType
<1>13. /\ results' \in Seq(RunRoutes) /\ Len(results') = id
       /\ \A r \in 1 .. Len(runs) : results'[r] = results[r]
       /\ results'[id] = RoutesOn(pack, pref)
  BY <1>0, <1>1, <1>6, <1>12, AppendProperties
<1>14. /\ RunIds' = RunIds \cup {id}
       /\ \A r \in RunIds : runs'[r] = runs[r] /\ results'[r] = results[r]
  BY <1>0, <1>9, <1>11, <1>13 DEF RunIds
<1>15. run.rev = revision /\ run.pack = work.pack /\ run.supersedes = work.sup
       /\ run.state = StateOn(pack, pref)
  OBVIOUS
<1> HIDE DEF run
<1>16. TypeOK'
  <2>1. caseState' \in CaseStates BY <1>7 DEF CaseStates
  <2>2. current' \subseteq Nat BY <1>7, <1>9 DEF RevisionInv, TypeOK, CaseTypeOK
  <2>3. CaseTypeOK'
    BY <1>7, <1>11, <2>1, <2>2 DEF RevisionInv, TypeOK, CaseTypeOK, Row
  <2>4. NoWork \in [op : {"none"} \cup Operations, rev : 0 .. MaxRevision, pack : Nat, sup : Nat]
    BY <1>1 DEF NoWork, NoPack, NoRun
  <2> QED BY <1>6, <1>11, <1>13, <2>3, <2>4 DEF RevisionInv, TypeOK
<1>17. ScopesNamed' BY <1>6 DEF RevisionInv, Records, ScopesNamed
<1>18. CurrentRuns' BY <1>1, <1>7, <1>14 DEF CurrentRuns
<1>19. LineageKept'
  BY <1>7, <1>14 DEF RevisionInv, Records, LineageKept
<1>20. RunsOfRevisions'
  <2>1. \A r \in RunIds : runs'[r].rev <= revision /\ runs'[r].supersedes = lineage[runs'[r].rev]
    BY <1>14 DEF RevisionInv, Records, RunsOfRevisions
  <2>2. runs'[id].rev <= revision /\ runs'[id].supersedes = lineage[runs'[id].rev]
    BY <1>1, <1>2, <1>11, <1>15 DEF Revisions
  <2> QED BY <1>7, <1>14, <2>1, <2>2 DEF RunsOfRevisions
<1>21. OneFactRevised' BY <1>6, <1>7 DEF RevisionInv, Records, OneFactRevised
<1>22. Judged'
  <2>1. ASSUME NEW r \in RunIds
        PROVE  /\ results'[r] = RoutesOn(PackOf(runs'[r].pack), prefs[runs'[r].rev])
               /\ runs'[r].state = StateOn(PackOf(runs'[r].pack), prefs[runs'[r].rev])
    BY <1>14 DEF RevisionInv, Records, Judged
  <2>2. /\ results'[id] = RoutesOn(PackOf(runs'[id].pack), prefs[runs'[id].rev])
        /\ runs'[id].state = StateOn(PackOf(runs'[id].pack), prefs[runs'[id].rev])
    BY <1>11, <1>13, <1>15 DEF pack, pref
  <2> QED BY <1>6, <1>14, <2>1, <2>2 DEF Judged
<1>23. ASSUME NEW rev \in Revisions, NEW sup, NEW p, sup = lineage[rev], PinsLineage(rev, sup, p)
       PROVE  PinsLineage(rev, sup, p)'
  <2>1. sup # NoRun => sup \in RunIds BY <1>23 DEF RevisionInv, Records, LineageKept
  <2>2. sup # NoRun => runs'[sup] = runs[sup] BY <1>14, <2>1
  <2>3. prefs' = prefs BY <1>6
  <2> QED BY <1>23, <2>2, <2>3, PinsRemain
<1>24. RunsPinned'
  <2>1. ASSUME NEW r \in RunIds
        PROVE  PinsLineage(runs[r].rev, runs[r].supersedes, runs[r].pack)'
    <3>1. PICK rev : rev = runs[r].rev OBVIOUS
    <3>2. PICK sup : sup = runs[r].supersedes OBVIOUS
    <3>3. PICK p : p = runs[r].pack OBVIOUS
    <3>4. rev \in Revisions BY <1>1, <3>1, RunRevision DEF Revisions
    <3>5. sup = lineage[rev] BY <3>1, <3>2 DEF RevisionInv, Records, RunsOfRevisions
    <3>6. PinsLineage(rev, sup, p)
      BY <3>1, <3>2, <3>3 DEF RevisionInv, Records, RunsPinned
    <3>7. PinsLineage(rev, sup, p)' BY <1>23, <3>4, <3>5, <3>6
    <3> QED BY <1>14, <3>1, <3>2, <3>3, <3>7
  <2>2. PinsLineage(runs[id].rev, runs[id].supersedes, runs[id].pack)'
    <3>1. PICK rev : rev = revision OBVIOUS
    <3>2. PICK sup : sup = work.sup OBVIOUS
    <3>3. PICK p : p = work.pack OBVIOUS
    <3>4. PinsLineage(rev, sup, p)' BY <1>1, <1>2, <1>23, <3>1, <3>2, <3>3
    <3>5. rev = runs'[id].rev /\ sup = runs'[id].supersedes /\ p = runs'[id].pack
      BY <1>11, <1>15, <3>1, <3>2, <3>3
    <3> QED BY <3>4, <3>5
  <2> QED BY <1>14, <2>1, <2>2 DEF RunsPinned
<1>25. DelayExact'
  <2>1. ASSUME NEW rev PROVE Delayed(rev)' <=> Delayed(rev) BY <1>6, <1>7 DEF Delayed
  <2>2. ASSUME NEW r \in RunIds PROVE runs'[r].pack = DelayPack <=> Delayed(runs'[r].rev)
    BY <1>14 DEF RevisionInv, Records, DelayExact
  <2>3. runs'[id].pack = DelayPack <=> Delayed(runs'[id].rev)
    <3>1. revision \in 1 .. revision BY <1>1 DEF Revisions
    <3>2. work.pack = DelayPack <=> Delayed(revision) BY <1>2, <3>1, DelayFollowsPins
    <3> QED BY <1>11, <1>15, <3>2
  <2>4. ASSUME NEW r \in RunIds' PROVE (runs[r].pack = DelayPack <=> Delayed(runs[r].rev))'
    <3>1. PICK rev : rev = runs'[r].rev OBVIOUS
    <3>2. Delayed(rev)' <=> Delayed(rev) BY <2>1
    <3>3. runs'[r].pack = DelayPack <=> Delayed(rev) BY <1>14, <2>2, <2>3, <3>1
    <3> QED BY <3>1, <3>2, <3>3
  <2> QED BY <2>4 DEF DelayExact
<1>26. IntakeIsEmpty' BY <1>7 DEF IntakeIsEmpty
<1>27. WorkPinned' BY <1>6 DEF WorkPinned
<1>28. Records'
  BY <1>17, <1>18, <1>19, <1>20, <1>21, <1>22, <1>24, <1>25 DEF Records
<1> QED BY <1>16, <1>26, <1>27, <1>28 DEF RevisionInv

LEMMA NextRevision == RevisionInv /\ [Next]_vars => RevisionInv'
<1> SUFFICES ASSUME RevisionInv, [Next]_vars PROVE RevisionInv' OBVIOUS
<1>1. ASSUME NEW op \in Operations, NEW pack \in 1 .. packs \cup {DelayPack}, CreateTask(op, pack)
      PROVE  RevisionInv'
  BY <1>1, CreateTaskKeeps
<1>2. CASE PlanCase BY <1>2, PlanCaseKeeps
<1>3. CASE DropTask BY <1>3, DropTaskKeeps
<1>4. ASSUME NEW action \in ReviewActions, ReviewRun(action) PROVE RevisionInv'
  BY <1>4, ReviewRunKeeps
<1>5. CASE Decide BY <1>5, DecideKeeps
<1>6. CASE Promote BY <1>6, PromoteKeeps
<1>7. ASSUME NEW p \in Proposals, ConfirmFact(p[1], p[2]) PROVE RevisionInv'
  BY <1>7, ConfirmFactKeeps
<1>8. CASE UNCHANGED vars
  <2>1. UNCHANGED caseVars /\ UNCHANGED <<prefs, results, work>>
    BY <1>8 DEF vars, revisionVars
  <2>2. CaseTypeOK' BY <2>1 DEF caseVars, RevisionInv, TypeOK, CaseTypeOK
  <2> QED BY <2>1, <2>2, CaseStepKeeps DEF caseVars
<1> QED BY <1>1, <1>2, <1>3, <1>4, <1>5, <1>6, <1>7, <1>8 DEF Next

LEMMA RevisionInvariant == Spec => []RevisionInv
<1> QED BY InitRevision, NextRevision, PTL DEF Spec

-----------------------------------------------------------------------------
(*                               The theorems                              *)

\* The rows of a Case and of its plans have their types.
THEOREM RevisionTypesCorrect == Spec => []TypeOK
<1>1. RevisionInv => TypeOK BY DEF RevisionInv
<1> QED BY <1>1, RevisionInvariant, PTL

LEMMA Justified == RevisionInv => RunsJustified
<1> SUFFICES ASSUME RevisionInv, NEW r \in RunIds
             PROVE  LET p == prefs[runs[r].rev]
                        wanted == /\ "australia" \in p.countries
                                  /\ Priced(runs[r].rev)
                                  /\ Affordable(p.budget, PriceOf(p.intake))
                    IN runs[r].state = IF wanted THEN "review_required" ELSE "blocked"
  BY DEF RunsJustified
<1>1. PICK rev : rev = runs[r].rev OBVIOUS
<1>2. PICK p : p = prefs[rev] OBVIOUS
<1>3. rev \in 1 .. revision /\ rev \in Revisions
  <2>1. rev \in 1 .. revision BY <1>1, RunRevision
  <2>2. revision \in Revisions BY DEF RevisionInv, TypeOK, CaseTypeOK
  <2> QED BY <2>1, <2>2, MaxRevisionAssumption DEF Revisions
<1>4. p.budget \in BudgetRows
  <2>1. p \in Preferences BY <1>2, <1>3 DEF RevisionInv, TypeOK
  <2> QED BY <2>1 DEF Preferences
<1>5. runs[r].state = StateOn(PackOf(runs[r].pack), p)
  BY <1>1, <1>2 DEF RevisionInv, Records, Judged
<1>6. runs[r].pack = DelayPack <=> Delayed(rev)
  BY <1>1 DEF RevisionInv, Records, DelayExact
<1>7. PriceOf(p.intake) \in Nat BY DEF PriceOf
<1>8. Affordable(p.budget, PriceOf(p.intake)) <=>
        ~p.budget.refused /\ WithinBudget(p.budget, PriceOf(p.intake))
  BY <1>4, <1>7, AffordableIsWithin
<1>9. Priced(rev) <=> p.intake = "2027-02" \/ Delayed(rev)
  BY <1>2 DEF Priced, Delayed
<1>10. Recommends(PackOf(runs[r].pack), p) <=>
         /\ "australia" \in p.countries
         /\ Priced(rev)
         /\ Affordable(p.budget, PriceOf(p.intake))
  <2>1. CASE Delayed(rev)
    <3>1. p.intake = "2028-02" BY <1>2, <2>1 DEF Delayed
    <3>2. PackOf(runs[r].pack).intake = "2028-02" /\ PackOf(runs[r].pack).total = PriceOf(p.intake)
      BY <1>6, <2>1, <3>1 DEF PackOf, Packs, PriceOf
    <3> QED BY <1>8, <1>9, <2>1, <3>1, <3>2 DEF Recommends
  <2>2. CASE ~Delayed(rev)
    <3>1. PackOf(runs[r].pack).intake = "2027-02" /\ PackOf(runs[r].pack).total = 3055
      BY <1>6, <2>2 DEF PackOf, Packs
    <3>2. p.intake = "2027-02" => PriceOf(p.intake) = 3055 BY DEF PriceOf
    <3> QED BY <1>8, <1>9, <2>2, <3>1, <3>2 DEF Recommends
  <2> QED BY <2>1, <2>2
<1> QED BY <1>1, <1>2, <1>5, <1>10 DEF StateOn

\* A run goes to the advisor exactly when its revision wants Australia, in an
\* intake there is evidence for, at a price its budget covers: along every
\* lineage the pack a task pins is the one that prices the intake.
THEOREM RunsJustifiedAlways == Spec => []RunsJustified
<1> QED BY Justified, RevisionInvariant, PTL

LEMMA Explained == RevisionInv => ComparisonExplained
<1> SUFFICES ASSUME RevisionInv, NEW r \in RunIds, runs[r].supersedes # NoRun
             PROVE  LET rev == runs[r].rev
                        old == prefs[rev - 1].countries
                        new == prefs[rev].countries
                        delta == Comparison(r)
                    IN /\ runs[r].rev = runs[runs[r].supersedes].rev + 1
                       /\ Cardinality(ChangedFacts(rev)) <= 1
                       /\ prefs[rev].japanRisk = prefs[rev - 1].japanRisk
                       /\ \A c \in DOMAIN delta :
                             /\ delta[c] = "added" <=> c \in new \ old
                             /\ delta[c] = "removed" <=> c \in old \ new
                             /\ delta[c] = "changed" =>
                                  c = "australia" /\ ChangedFacts(rev) \cap {"intake", "budget"} # {}
  BY DEF ComparisonExplained
<1>1. PICK rev : rev = runs[r].rev OBVIOUS
<1>2. PICK sup : sup = runs[r].supersedes OBVIOUS
<1>3. PICK p : p = prefs[rev] OBVIOUS
<1>4. PICK q : q = prefs[rev - 1] OBVIOUS
<1>5. rev \in 1 .. revision /\ rev \in Revisions
  <2>1. rev \in 1 .. revision BY <1>1, RunRevision
  <2>2. revision \in Revisions BY DEF RevisionInv, TypeOK, CaseTypeOK
  <2> QED BY <2>1, <2>2, MaxRevisionAssumption DEF Revisions
<1>6. sup # NoRun /\ sup = lineage[rev]
  BY <1>1, <1>2 DEF RevisionInv, Records, RunsOfRevisions
<1>7. rev \in 2 .. revision /\ sup \in RunIds /\ runs[sup].rev = rev - 1
  BY <1>5, <1>6 DEF RevisionInv, Records, LineageKept
<1>8. rev = runs[sup].rev + 1 BY <1>5, <1>7
<1>9. p.japanRisk = q.japanRisk
  BY <1>3, <1>4, <1>5, <1>6 DEF RevisionInv, Records, OneFactRevised
<1>10. PICK key \in PlanningFacts : \A k \in PlanningFacts \ {key} : p[k] = q[k]
  BY <1>3, <1>4, <1>5, <1>6 DEF RevisionInv, Records, OneFactRevised
<1>11. Cardinality(ChangedFacts(rev)) <= 1
  <2>1. ChangedFacts(rev) \in SUBSET {key} BY <1>3, <1>4, <1>10 DEF ChangedFacts
  <2>2. IsFiniteSet({key}) /\ Cardinality({key}) = 1 BY FS_Singleton
  <2> QED BY <2>1, <2>2, FS_Subset
<1>12. /\ results[r] = RoutesOn(PackOf(runs[r].pack), p)
       /\ results[sup] = RoutesOn(PackOf(runs[sup].pack), q)
  BY <1>1, <1>3, <1>4, <1>7 DEF RevisionInv, Records, Judged
<1>13. p.intake = q.intake => runs[r].pack = runs[sup].pack
  <2>1. PinsLineage(rev, sup, runs[r].pack)
    BY <1>1, <1>2 DEF RevisionInv, Records, RunsPinned
  <2> QED BY <1>3, <1>4, <1>6, <1>7, <2>1 DEF PinsLineage, SuccessorPack, IntakeChanged
<1>14. DOMAIN results[r] = p.countries /\ DOMAIN results[sup] = q.countries
  BY <1>12 DEF RoutesOn
<1>15. ASSUME NEW c \in p.countries \cap q.countries, results[sup][c] # results[r][c]
       PROVE  c = "australia" /\ ChangedFacts(rev) \cap {"intake", "budget"} # {}
  <2>1. results[r][c] = IF c = "australia" THEN AustraliaOn(PackOf(runs[r].pack), p)
                        ELSE IF c = "japan" THEN JapanOn(p) ELSE MalaysiaOn
    BY <1>12 DEF RoutesOn
  <2>2. results[sup][c] = IF c = "australia" THEN AustraliaOn(PackOf(runs[sup].pack), q)
                          ELSE IF c = "japan" THEN JapanOn(q) ELSE MalaysiaOn
    BY <1>12 DEF RoutesOn
  <2>3. JapanOn(p) = JapanOn(q) BY <1>9 DEF JapanOn
  <2>4. c = "australia" BY <1>15, <2>1, <2>2, <2>3
  <2>5. p.intake = q.intake /\ p.budget = q.budget =>
          AustraliaOn(PackOf(runs[r].pack), p) = AustraliaOn(PackOf(runs[sup].pack), q)
    BY <1>13 DEF AustraliaOn
  <2>6. p.intake # q.intake \/ p.budget # q.budget BY <1>15, <2>1, <2>2, <2>4, <2>5
  <2> QED BY <1>3, <1>4, <2>4, <2>6 DEF ChangedFacts, PlanningFacts
<1>16. Comparison(r) = [c \in q.countries \cup p.countries |-> Delta(results[sup], results[r], c)]
  BY <1>2, <1>14 DEF Comparison
<1>17. ASSUME NEW c \in q.countries \cup p.countries
       PROVE  /\ Comparison(r)[c] = "added" <=> c \in p.countries \ q.countries
              /\ Comparison(r)[c] = "removed" <=> c \in q.countries \ p.countries
              /\ Comparison(r)[c] = "changed" =>
                   c = "australia" /\ ChangedFacts(rev) \cap {"intake", "budget"} # {}
  <2>1. Comparison(r)[c] = Delta(results[sup], results[r], c) BY <1>16
  <2>2. Delta(results[sup], results[r], c) =
          IF c \notin q.countries THEN "added"
          ELSE IF c \notin p.countries THEN "removed"
          ELSE IF results[sup][c] = results[r][c] THEN "unchanged" ELSE "changed"
    BY <1>14 DEF Delta
  <2>3. c \in p.countries /\ c \in q.countries /\ Comparison(r)[c] = "changed" =>
          results[sup][c] # results[r][c]
    BY <2>1, <2>2
  <2>4. Comparison(r)[c] = "added" <=> c \in p.countries \ q.countries BY <2>1, <2>2
  <2>5. Comparison(r)[c] = "removed" <=> c \in q.countries \ p.countries BY <2>1, <2>2
  <2>6. Comparison(r)[c] = "changed" => c \in p.countries /\ c \in q.countries BY <2>1, <2>2
  <2> QED BY <1>15, <2>3, <2>4, <2>5, <2>6
<1>18. DOMAIN Comparison(r) = q.countries \cup p.countries BY <1>16
<1> QED BY <1>1, <1>2, <1>3, <1>4, <1>8, <1>9, <1>11, <1>17, <1>18

\* What changed in a plan is explained by the one fact that changed.
THEOREM ComparisonExplainedAlways == Spec => []ComparisonExplained
<1> QED BY Explained, RevisionInvariant, PTL

-----------------------------------------------------------------------------
(*                    One tab, its cookie and its commands                 *)
(* What the tab holds at each place of a job: the role it is about, the    *)
(* keys its command has saved, and whose cookie the csrf token fits.       *)

(* Types                                                                    *)
TabRoles == {"none", "advisor"} \cup Participants
Phases == {"task_ready", "active_task", "terminal_task_failure", "review_required",
           "revision_requested", "revision_fact_pending", "replan_required",
           "revision_task_active", "revision_review_required", "family_review",
           "plan_ready"}
Doings == {"none", "connect", "switch", "recover", "refresh", "unwatched", "submit"}
Early == {"check", "revoke", "bootstrap", "mint"}
Places == Early \cup {"none", "status", "detail", "apply", "authority", "send"} \cup Proposal
Asks == Commands \cup {"none", "proposal"}

JourneyCases == [phase : Phases \ {"revision_fact_pending"}, rev : Nat, round : Nat,
                 open : [Kinds -> Nat], log : Nat]
Sessions == [role : TabRoles, live : BOOLEAN, rival : BOOLEAN]
Subjects == Kinds \cup {"none"}
SavedKinds == [op : Commands, round : Nat, who : TabRoles, about : Subjects, key : Nat]
Stores == [role : TabRoles, fits : BOOLEAN, pending : TabRoles, task : Nat, cursor : Nat,
           keys : SUBSET SavedKinds, retry : BOOLEAN]
Screens == [is : {"start", "show", "switch", "failed"}, phase : Phases \cup TabRoles,
            round : Nat, about : Subjects]
Jobs == [do : Doings, at : Places, op : Asks, target : TabRoles, then : {"none", "proposal"},
         round : Nat, about : Subjects, seen : Phases \cup {"none"}, task : Nat, boot : BOOLEAN, tries : Nat]
Streams == [is : {"off", "cut", "open", "refused"}, sent : Nat, max : Nat,
            closing : BOOLEAN, cursor : Nat, wake : BOOLEAN]
Requests == [op : Commands, key : Nat, round : Nat, about : Subjects, as : TabRoles, by : TabRoles]
CommandRecords == [op : Commands, key : Nat, by : TabRoles, as : TabRoles]

TabTypes == /\ jar \in Sessions /\ store \in Stores /\ view \in Screens
            /\ job \in Jobs /\ again \in Jobs

(* What a job is about, and the keys its command has saved.                 *)
JobShape(j) ==
    /\ j.do = "none" => j = NoJob
    /\ j.do \in {"connect", "refresh"} => j.target = "advisor"
    /\ j.do \in {"connect", "refresh", "unwatched"} => j.op = "none"
    /\ j.at = "apply" => j.do = "refresh"
    /\ j.at = "check" => j.do = "switch"
    /\ j.do = "switch" => j.then = "proposal" \/ j.op = "none"
    /\ j.do = "submit" => j.op # "none"
    /\ j.about # "none" => j.op \in Verdicts \cup {"proposal"}
    /\ j.op = "proposal" => j.target \in Participants
    /\ j.then = "proposal" => j.do = "switch" /\ j.op = "proposal"
    /\ j.at = "send" => j.do \in {"submit", "recover"}
    /\ j.at \in Proposal \cup {"authority"} => j.do = "submit" /\ j.op = "proposal"

Binds(s, op, j) == \E k \in s.keys : /\ k.op = op /\ k.round = j.round
                                       /\ k.who = j.target /\ k.about = j.about
CommandBound(s, j) ==
    /\ j.do = "submit" \/ j.then = "proposal" => \A op \in Sent(j.op) : Binds(s, op, j)
    /\ j.at = "send" => j.op \in Commands /\ Binds(s, j.op, j)
OneRetryKey(s) == \A k, l \in s.keys : k.op = "retry-task" /\ l.op = "retry-task" =>
                                         k = l /\ k.about = "none"

(* The role the tab acts for.                                               *)
RoleKept ==
    /\ job.do \in {"submit", "recover", "refresh", "unwatched"} =>
           job.target = store.role /\ job.at \notin Early /\ store.pending = "none"
    /\ job.do = "switch" /\ job.at \notin Early => job.target = store.role
    /\ view.is = "show" /\ view.phase \in ActivePhases =>
           store.role = "advisor" /\ job.do \in {"none", "refresh"}
    /\ view.is = "show" /\ job.do = "none" => store.pending = "none"
    /\ view.is = "switch" => view.phase \in TabRoles

(* What the reconnect button repeats.                                       *)
Repeats ==
    /\ again.do \in {"none", "switch", "submit"}
    /\ again.do = "submit" /\ again.op # "proposal" =>
           again.target = store.role /\ store.pending = "none" /\ job.do # "switch"
    /\ job.do = "submit" \/ job.then = "proposal" => again.do = "none" \/ again.op = job.op
    /\ job.do = "recover" => again.do = "none"
    /\ view.is = "start" \/ job.do = "connect" => again.do # "submit"

CookieFits ==
    /\ store.fits /\ jar.live => jar.role = store.role
    /\ job.do = "connect" /\ job.at \in {"status", "detail"} =>
           ~store.fits /\ (jar.live /\ ~jar.rival => jar.role = "advisor")

RetryBound ==
    store.retry =>
        /\ store.pending = "none"
        /\ \E k \in store.keys : k.op = "retry-task" /\ k.who = store.role
        /\ \/ job.op = "retry-task" /\ job.do \in {"submit", "recover"}
           \/ /\ job = NoJob /\ view.is = "failed"
              /\ again.do = "none" \/ again.op = "retry-task"

TabInv ==
    /\ TabTypes
    /\ JobShape(job) /\ JobShape(again)
    /\ CommandBound(store, job) /\ CommandBound(store, again) /\ OneRetryKey(store)
    /\ RoleKept /\ Repeats /\ CookieFits /\ RetryBound

JarLess == jar' \in Sessions /\ (jar'.live => jar' = jar)

(* The records the tab starts its jobs from are what they are typed to be.  *)
LEMMA StartingRecords ==
    /\ NoJob \in Jobs /\ NoStore \in Stores /\ NoSession \in Sessions /\ NoStream \in Streams
    /\ NoJob.do = "none" /\ NoJob.at = "none" /\ NoJob.op = "none" /\ NoJob.then = "none"
    /\ NoJob.about = "none"
    /\ NoStore.keys = {} /\ NoStore.retry = FALSE /\ NoStore.fits = FALSE
    /\ NoStore.pending = "none" /\ NoStore.role = "none" /\ NoSession.live = FALSE
    /\ JobShape(NoJob) /\ \A s : CommandBound(s, NoJob)
BY DEF NoJob, NoStore, NoSession, NoStream, Jobs, Stores, Sessions, Streams, TabRoles, Doings, Places, Early,
       Asks, Phases, Subjects, JobShape, CommandBound, Participants, Proposal

LEMMA FailExpired ==
    ASSUME TabInv, JarLess, ShowFailure(NoStore), again' = NoJob \/ (again' = again /\ again.do = "none")
    PROVE TabInv' /\ store'.keys \subseteq store.keys
<1>1. /\ store' = NoStore /\ job' = NoJob /\ again' = NoJob
      /\ view'.is = "failed" /\ view' \in Screens
  BY DEF ShowFailure, Screen, Screens, Subjects, TabRoles, TabInv, JobShape
<1>2. TabTypes' /\ JobShape(job)' /\ JobShape(again)' /\ CommandBound(store, job)'
         /\ CommandBound(store, again)' /\ OneRetryKey(store)'
  BY <1>1, StartingRecords DEF TabTypes, JarLess, OneRetryKey
<1>3. RoleKept' /\ Repeats' /\ CookieFits' /\ RetryBound'
  BY <1>1, StartingRecords DEF RoleKept, Repeats, CookieFits, RetryBound
<1> QED BY <1>1, <1>2, <1>3, StartingRecords DEF TabInv

(* The failure that keeps everything for a repetition.                      *)
LEMMA FailShown ==
    ASSUME TabInv, JarLess, ShowFailure(store), again' \in {again, NoJob},
           job.do = "switch" => ~Rotated
    PROVE TabInv' /\ store'.keys \subseteq store.keys
<1>1. /\ store' = store /\ job' = NoJob /\ again' \in {again, NoJob}
      /\ view'.is = "failed" /\ view' \in Screens
  BY DEF ShowFailure, Screen, Screens, Subjects, TabRoles
<1>2. TabTypes' /\ JobShape(job)' /\ JobShape(again)' /\ CommandBound(store, job)'
         /\ CommandBound(store, again)' /\ OneRetryKey(store)'
  BY <1>1, StartingRecords DEF TabTypes, JarLess, TabInv, OneRetryKey, CommandBound, Binds
<1>3. RoleKept' /\ CookieFits'
  BY <1>1, StartingRecords DEF RoleKept, CookieFits, TabInv, JarLess
<1>4. Repeats'
  BY <1>1, StartingRecords DEF Repeats, TabInv
<1>5. RetryBound'
  BY <1>1, StartingRecords DEF RetryBound, TabInv, Repeats, RoleKept
<1> QED BY <1>1, <1>2, <1>3, <1>4, <1>5 DEF TabInv

LEMMA RecoveryStarts ==
    ASSUME NEW s \in Stores, OneRetryKey(s),
           s.retry => s.pending = "none" /\ \E k \in s.keys : k.op = "retry-task" /\ k.who = s.role
    PROVE LET j == Recovery(s) IN
          /\ j \in Jobs /\ JobShape(j) /\ CommandBound(s, j) /\ j.do # "none" /\ j.then = "none"
          /\ s.pending = "none" => j.do \in {"connect", "recover"}
          /\ j.do \in {"connect", "switch", "recover"}
          /\ j.do = "connect" => s = NoStore /\ j.at = "bootstrap"
          /\ j.do = "recover" => j.target = s.role /\ s.pending = "none" /\ j.at \notin Early
          /\ j.do = "recover" /\ s.retry => j.op = "retry-task"
          /\ j.do = "switch" /\ j.at \notin Early => j.target = s.role
<1> DEFINE j == Recovery(s)
<1>1. CASE s = NoStore
  <2>1. j = [NoJob EXCEPT !.do = "connect", !.at = "bootstrap", !.target = "advisor"]
    BY <1>1, StartingRecords DEF Recovery
  <2>2. /\ j.do = "connect" /\ j.at = "bootstrap" /\ j.target = "advisor"
        /\ j.op = "none" /\ j.then = "none" /\ j.about = "none"
    BY <2>1 DEF NoJob
  <2>3. "connect" \in Doings /\ "bootstrap" \in Places /\ "advisor" \in TabRoles
    BY DEF Doings, Places, Early, TabRoles
  <2>4. j \in Jobs
    BY <2>1, <2>3, StartingRecords DEF Jobs
  <2>5. JobShape(j) /\ CommandBound(s, j)
    BY <2>2 DEF JobShape, CommandBound, Proposal
  <2> QED BY <1>1, <2>2, <2>4, <2>5 DEF Early
<1>2. CASE s # NoStore /\ s.pending # "none"
  <2>1. j = [[NoJob EXCEPT !.target = s.pending] EXCEPT !.do = "switch", !.at = "check"]
            \/ j = [[NoJob EXCEPT !.target = s.pending] EXCEPT !.do = "switch", !.at = "revoke"]
    BY <1>2 DEF Recovery, Switch, SwitchFrom, NoJob
  <2>2. s.pending \in TabRoles
    BY DEF Stores
  <2>3. PICK at \in {"check", "revoke"} :
            j = [do |-> "switch", at |-> at, op |-> "none", target |-> s.pending, then |-> "none",
                 round |-> 0, about |-> "none", seen |-> "none", task |-> 0, boot |-> FALSE, tries |-> 0]
    BY <2>1 DEF NoJob
  <2>4. /\ j.do = "switch" /\ j.at \in {"check", "revoke"} /\ j.op = "none" /\ j.then = "none"
        /\ j.target = s.pending /\ j.about = "none"
    BY <2>3
  <2>5. j \in Jobs
    BY <2>2, <2>3 DEF Jobs, Subjects, Doings, Places, Early, Asks
  <2> QED BY <2>4, <2>5, <1>2 DEF Early, JobShape, CommandBound, Proposal
<1>3. CASE s # NoStore /\ s.pending = "none" /\ s.retry
  <2>1. PICK k \in s.keys : k.op = "retry-task" /\ k.who = s.role
    BY <1>3
  <2>2. (CHOOSE l \in s.keys : l.op = "retry-task") = k
    BY <2>1 DEF OneRetryKey
  <2>3. j = [NoJob EXCEPT !.do = "recover", !.at = "send", !.op = "retry-task", !.target = s.role,
                !.round = k.round]
    BY <1>3, <2>2 DEF Recovery
  <2>4. k.round \in Nat /\ s.role \in TabRoles
    BY <2>1 DEF Stores, SavedKinds
  <2>5. /\ j \in Jobs /\ j.do = "recover" /\ j.at = "send" /\ j.op = "retry-task"
        /\ j.target = s.role /\ j.round = k.round /\ j.then = "none"
        /\ j.about = "none"
    <3>1. j = [do |-> "recover", at |-> "send", op |-> "retry-task", target |-> s.role, then |-> "none",
                 round |-> k.round, about |-> "none", seen |-> "none", task |-> 0, boot |-> FALSE, tries |-> 0]
      BY <2>3 DEF NoJob
    <3> QED BY <3>1, <2>4 DEF Jobs, Subjects, Doings, Places, Asks, Commands
  <2>6. CommandBound(s, j)
    <3>1. k.about = "none"
      BY <2>1 DEF OneRetryKey
    <3> QED BY <2>1, <2>5, <3>1 DEF CommandBound, Binds, Commands
  <2> QED BY <2>5, <2>6, <1>3 DEF JobShape, Early, Proposal
<1>4. CASE s # NoStore /\ s.pending = "none" /\ ~s.retry
  <2>1. j = [NoJob EXCEPT !.do = "recover", !.at = "status", !.target = s.role]
    BY <1>4 DEF Recovery
  <2>2. s.role \in TabRoles
    BY DEF Stores
  <2>3. j = [do |-> "recover", at |-> "status", op |-> "none", target |-> s.role, then |-> "none",
             round |-> 0, about |-> "none", seen |-> "none", task |-> 0, boot |-> FALSE, tries |-> 0]
    BY <2>1 DEF NoJob
  <2>4. /\ j.do = "recover" /\ j.at = "status" /\ j.op = "none" /\ j.then = "none" /\ j.target = s.role
        /\ j.about = "none"
    BY <2>3
  <2>5. j \in Jobs
    BY <2>2, <2>3 DEF Jobs, Subjects, Doings, Places, Asks
  <2> QED BY <2>4, <2>5, <1>4 DEF Early, JobShape, CommandBound, Proposal
<1> QED BY <1>1, <1>2, <1>3, <1>4 DEF Stores

(* A stale command drops its key, and the tab reads what there is.          *)
LEMMA FailStale ==
    ASSUME TabInv, JarLess, job.do = "submit",
           Recover([Without(store, job.op) EXCEPT !.retry = @ /\ job.op # "retry-task"])
    PROVE TabInv' /\ store'.keys \subseteq store.keys
<1> DEFINE s == [Without(store, job.op) EXCEPT !.retry = @ /\ job.op # "retry-task"]
<1>1. /\ s \in Stores /\ s.keys \subseteq store.keys /\ s.retry = FALSE
      /\ s.pending = "none" /\ s.role = store.role /\ s.fits = store.fits
  <2>1. /\ store \in Stores /\ store.pending = "none"
        /\ store.retry => job.op = "retry-task"
    BY StartingRecords DEF TabInv, TabTypes, RoleKept, RetryBound
  <2>2. s = [store EXCEPT !.keys = {k \in store.keys : k.op \notin Slot(job.op)},
                          !.retry = store.retry /\ job.op # "retry-task"]
    BY <2>1 DEF Without, Stores
  <2>3. {k \in store.keys : k.op \notin Slot(job.op)} \in SUBSET SavedKinds
    BY <2>1 DEF Stores
  <2>4. (store.retry /\ job.op # "retry-task") = FALSE
    BY <2>1 DEF Stores
  <2> QED BY <2>1, <2>2, <2>3, <2>4 DEF Stores
<1>2. OneRetryKey(s)
  BY <1>1 DEF OneRetryKey, TabInv
<1>3. store' = s /\ job' = Recovery(s) /\ view' = view
  BY DEF Recover
<1>4. /\ job' \in Jobs /\ JobShape(job') /\ CommandBound(s, job') /\ job'.do \in {"connect", "recover"}
      /\ job'.do = "connect" => job'.at = "bootstrap"
      /\ job'.do = "recover" => job'.target = s.role /\ job'.at \notin Early
  BY <1>1, <1>2, <1>3, RecoveryStarts
<1>5. again' = NoJob
  BY <1>3, <1>4 DEF Recover
<1>6. ~(view.is = "show" /\ view.phase \in ActivePhases)
  BY DEF TabInv, RoleKept
<1>7. TabTypes' /\ JobShape(job)' /\ JobShape(again)' /\ CommandBound(store, job)'
         /\ CommandBound(store, again)' /\ OneRetryKey(store)'
  BY <1>1, <1>2, <1>3, <1>4, <1>5, StartingRecords DEF TabTypes, JarLess, TabInv
<1>8. RoleKept' /\ Repeats' /\ CookieFits' /\ RetryBound'
  BY <1>1, <1>3, <1>4, <1>5, <1>6, StartingRecords DEF RoleKept, Repeats, CookieFits, RetryBound, TabInv, JarLess
<1> QED BY <1>1, <1>3, <1>7, <1>8 DEF TabInv

Rereading(t) == [NoJob EXCEPT !.do = "unwatched", !.at = "status", !.target = t]
LEMMA RereadJob ==
    ASSUME NEW t \in TabRoles
    PROVE  /\ Rereading(t) \in Jobs /\ Rereading(t).do = "unwatched"
           /\ Rereading(t).at = "status" /\ Rereading(t).op = "none"
           /\ Rereading(t).target = t /\ Rereading(t).then = "none"
           /\ Rereading(t).about = "none"
<1> DEFINE j == Rereading(t)
<1>0. j = [NoJob EXCEPT !.do = "unwatched", !.at = "status", !.target = t]
  BY DEF Rereading
<1>1. j = [do |-> "unwatched", at |-> "status", op |-> "none", target |-> t, then |-> "none",
           round |-> 0, about |-> "none", seen |-> "none", task |-> 0, boot |-> FALSE, tries |-> 0]
  BY <1>0 DEF NoJob
<1>2. j \in Jobs
  BY <1>1 DEF Jobs, Subjects, Doings, Places, Asks
<1> QED BY <1>1, <1>2

LEMMA FailReread ==
    ASSUME TabInv, JarLess, job.do = "recover",
           store' = [Without(store, "retry-task") EXCEPT !.retry = FALSE],
           job' = Rereading(store.role),
           UNCHANGED <<view, again>>
    PROVE TabInv' /\ store'.keys \subseteq store.keys
<1>1. /\ store \in Stores /\ store.pending = "none" /\ again.do = "none"
      /\ ~(view.is = "show" /\ view.phase \in ActivePhases) /\ store.role \in TabRoles
  BY DEF TabInv, TabTypes, RoleKept, Repeats, Stores
<1>2. /\ store' \in Stores /\ store'.keys \subseteq store.keys /\ store'.retry = FALSE
      /\ store'.pending = "none" /\ store'.role = store.role /\ store'.fits = store.fits
  <2>1. store' = [store EXCEPT !.keys = {k \in store.keys : k.op \notin Slot("retry-task")}, !.retry = FALSE]
    BY <1>1 DEF Without, Stores
  <2>2. {k \in store.keys : k.op \notin Slot("retry-task")} \in SUBSET SavedKinds
    BY <1>1 DEF Stores
  <2> QED BY <2>1, <2>2, <1>1 DEF Stores
<1>4. /\ job' \in Jobs /\ job'.do = "unwatched" /\ job'.at = "status" /\ job'.op = "none"
      /\ job'.target = store.role /\ job'.then = "none" /\ job'.about = "none"
  BY <1>1, RereadJob
<1>5. again' = NoJob
  BY <1>1 DEF TabInv, JobShape
<1>6. TabTypes' /\ JobShape(job)' /\ JobShape(again)' /\ CommandBound(store, job)'
         /\ CommandBound(store, again)' /\ OneRetryKey(store)'
  BY <1>1, <1>2, <1>4, <1>5, StartingRecords DEF TabTypes, JarLess, TabInv, JobShape, CommandBound,
     OneRetryKey, Proposal
<1>7. RoleKept' /\ Repeats' /\ CookieFits' /\ RetryBound'
  BY <1>1, <1>2, <1>4, <1>5, StartingRecords DEF RoleKept, Repeats, CookieFits, RetryBound, TabInv, JarLess, Early
<1> QED BY <1>2, <1>6, <1>7 DEF TabInv

LEMMA FailUnseen ==
    ASSUME TabInv, JarLess, job.do = "unwatched", job' = NoJob, UNCHANGED <<store, view, again>>
    PROVE TabInv' /\ store'.keys \subseteq store.keys
<1>1. TabTypes' /\ JobShape(job)' /\ JobShape(again)' /\ CommandBound(store, job)'
         /\ CommandBound(store, again)' /\ OneRetryKey(store)'
  BY StartingRecords DEF TabTypes, JarLess, TabInv, CommandBound, Binds, OneRetryKey
<1>2. RoleKept' /\ Repeats' /\ CookieFits' /\ RetryBound'
  BY StartingRecords DEF RoleKept, Repeats, CookieFits, RetryBound, TabInv, JarLess
<1> QED BY <1>1, <1>2 DEF TabInv

LEMMA FailRotated ==
    ASSUME TabInv, JarLess, job.do = "switch", Rotated, view' = Screen("failed", "none"),
           job' = [job EXCEPT !.do = "submit", !.at = "authority", !.then = "none"],
           UNCHANGED <<store, again>>
    PROVE TabInv' /\ store'.keys \subseteq store.keys
<1>1. /\ job' \in Jobs /\ job'.do = "submit" /\ job'.at = "authority" /\ job'.then = "none"
      /\ job'.op = job.op /\ job'.target = job.target /\ job'.round = job.round /\ job'.about = job.about
  BY DEF TabInv, TabTypes, Jobs, Doings, Places
<1>2. view' \in Screens /\ view'.is = "failed"
  BY DEF Screen, Screens, Subjects, TabRoles
<1>3. /\ job.op = "proposal" /\ store.role = job.target /\ store.pending = "none"
      /\ again.do = "submit" => again.op = "proposal"
  BY DEF Rotated, TabInv, JobShape, Repeats
<1>4. CommandBound(store, job)'
  BY <1>1, <1>3 DEF CommandBound, Binds, Rotated, TabInv
<1>5. TabTypes' /\ JobShape(job)' /\ JobShape(again)' /\ CommandBound(store, again)' /\ OneRetryKey(store)'
  BY <1>1, <1>2, <1>3 DEF TabTypes, JarLess, TabInv, JobShape, CommandBound, Binds, OneRetryKey, Proposal
<1>6. RoleKept' /\ CookieFits' /\ RetryBound'
  BY <1>1, <1>2, <1>3, StartingRecords DEF RoleKept, CookieFits, RetryBound, TabInv, JarLess, Early
<1>7. Repeats'
  BY <1>1, <1>2, <1>3 DEF Repeats, TabInv, JobShape, TabTypes, Jobs, Doings
<1> QED BY <1>4, <1>5, <1>6, <1>7 DEF TabInv

(* Whatever a failure is, and whatever it took of the cookie.               *)
LEMMA FailKeeps ==
    ASSUME NEW code, TabInv, JarLess, Fail(code)
    PROVE TabInv' /\ store'.keys \subseteq store.keys
<1>1. CASE job.do = "submit" /\ code = "expired"
  BY <1>1, FailExpired DEF Fail
<1>2. CASE job.do = "submit" /\ code = "stale"
  BY <1>2, FailStale DEF Fail
<1>3. CASE job.do = "recover" /\ code = "expired"
  <2>1. ShowFailure(NoStore) /\ again' = again
    BY <1>3 DEF Fail
  <2>2. again.do = "none"
    BY <1>3 DEF TabInv, Repeats
  <2> QED BY <2>1, <2>2, FailExpired
<1>4. CASE job.do = "recover" /\ code = "stale"
  BY <1>4, FailReread DEF Fail, Rereading
<1>5. CASE job.do = "unwatched"
  BY <1>5, FailUnseen DEF Fail
<1>6. CASE job.do = "switch" /\ Rotated
  BY <1>6, FailRotated DEF Fail
<1>7. CASE /\ ~(job.do \in {"submit", "recover"} /\ code \in {"expired", "stale"})
           /\ job.do # "unwatched" /\ ~(job.do = "switch" /\ Rotated)
  <2>1. ShowFailure(store) /\ again' \in {again, NoJob}
    BY <1>7 DEF Fail
  <2> QED BY <2>1, <1>7, FailShown
<1> QED BY <1>1, <1>2, <1>3, <1>4, <1>5, <1>6, <1>7

(* Sessions: revoke, bootstrap, mint.                                       *)
LEMMA EarlyJobs ==
    ASSUME TabInv, job.at \in Early
    PROVE job.do \in {"connect", "switch"} /\ ~store.retry
          /\ ~(view.is = "show" /\ view.phase \in ActivePhases)
<1>1. job.do \in {"connect", "switch"}
  BY StartingRecords DEF TabInv, TabTypes, Jobs, Doings, RoleKept, JobShape, Early
<1>2. ~store.retry
  BY <1>1, StartingRecords DEF TabInv, RetryBound
<1> QED BY <1>1, <1>2 DEF TabInv, RoleKept

LEMMA RevokeKeeps ==
    ASSUME TabInv, Revoke
    PROVE TabInv' /\ store'.keys = store.keys
<1>1. /\ job.at = "revoke" /\ job' = [job EXCEPT !.at = "bootstrap"]
      /\ store' = store /\ view' = view /\ again' = again
      /\ jar' = jar \/ jar' = NoSession
  BY DEF Revoke, At, GoTo, TabQuiet
<1>2. /\ job' \in Jobs /\ job'.at = "bootstrap" /\ job'.do = job.do /\ job'.op = job.op
      /\ job'.target = job.target /\ job'.round = job.round /\ job'.about = job.about /\ job'.then = job.then
  BY <1>1 DEF TabInv, TabTypes, Jobs, Places, Early
<1>3. job.do \in {"connect", "switch"}
  BY <1>1, EarlyJobs DEF Early
<1>4. TabTypes' /\ OneRetryKey(store)' /\ JarLess
  BY <1>1, <1>2, StartingRecords DEF TabTypes, TabInv, OneRetryKey, JarLess
<1>5. JobShape(job)' /\ JobShape(again)' /\ CommandBound(store, job)' /\ CommandBound(store, again)'
  BY <1>1, <1>2, <1>3 DEF TabInv, JobShape, CommandBound, Binds, Proposal
<1>6. RoleKept' /\ Repeats'
  BY <1>1, <1>2, <1>3 DEF TabInv, RoleKept, Repeats, Early
<1>7. CookieFits' /\ RetryBound'
  BY <1>1, <1>2, <1>3, <1>4, StartingRecords DEF TabInv, CookieFits, RetryBound, JarLess
<1> QED BY <1>1, <1>4, <1>5, <1>6, <1>7 DEF TabInv

LEMMA BootstrapKeeps ==
    ASSUME TabInv, Bootstrap
    PROVE TabInv' /\ store'.keys \subseteq store.keys
<1>1. CASE jar # NoSession
  BY <1>1, FailKeeps, StartingRecords DEF Bootstrap, JarLess
<1>2. CASE jar = NoSession
  <2>1. /\ job.at = "bootstrap" /\ job' = [job EXCEPT !.at = "mint", !.boot = TRUE]
        /\ store' = store /\ view' = view /\ again' = again /\ jar' = jar
    BY <1>2 DEF Bootstrap, At, TabQuiet
  <2>2. /\ job' \in Jobs /\ job'.at = "mint" /\ job'.do = job.do /\ job'.op = job.op
        /\ job'.target = job.target /\ job'.round = job.round /\ job'.about = job.about /\ job'.then = job.then
    BY <2>1 DEF TabInv, TabTypes, Jobs, Places, Early
  <2>3. job.do \in {"connect", "switch"}
    BY <2>1, EarlyJobs DEF Early
  <2>4. TabTypes' /\ OneRetryKey(store)'
    BY <2>1, <2>2 DEF TabTypes, TabInv, OneRetryKey
  <2>5. JobShape(job)' /\ JobShape(again)' /\ CommandBound(store, job)' /\ CommandBound(store, again)'
    BY <2>1, <2>2, <2>3 DEF TabInv, JobShape, CommandBound, Binds, Proposal
  <2>6. RoleKept' /\ Repeats'
    BY <2>1, <2>2, <2>3 DEF TabInv, RoleKept, Repeats, Early
  <2>7. CookieFits' /\ RetryBound'
    BY <2>1, <2>2, <2>3, StartingRecords DEF TabInv, CookieFits, RetryBound
  <2> QED BY <2>1, <2>4, <2>5, <2>6, <2>7 DEF TabInv
<1> QED BY <1>1, <1>2

LEMMA MintKeeps ==
    ASSUME TabInv, Mint
    PROVE TabInv' /\ store'.keys \subseteq store.keys
<1>1. CASE jar # NoSession
  <2>1. Fail("expired") /\ jar' \in {jar, NoSession}
    BY <1>1 DEF Mint
  <2> QED BY <2>1, FailKeeps, StartingRecords DEF JarLess, TabInv, TabTypes
<1>2. CASE jar = NoSession /\ ~job.boot
  <2>1. Fail("transport") /\ jar' = jar
    BY <1>2 DEF Mint
  <2> QED BY <2>1, FailKeeps DEF JarLess, TabInv, TabTypes
<1>3. CASE jar = NoSession /\ job.boot
  <2>1. /\ job.at = "mint" /\ jar' = Minted /\ job' = [job EXCEPT !.at = "status"]
        /\ view' = view /\ again' = again
    BY <1>3 DEF Mint, At, GoTo
  <2>2. job.do \in {"connect", "switch"} /\ ~store.retry /\ ~(view.is = "show" /\ view.phase \in ActivePhases)
    BY <2>1, EarlyJobs DEF Early
  <2>3. /\ job' \in Jobs /\ job'.at = "status" /\ job'.do = job.do /\ job'.op = job.op
        /\ job'.target = job.target /\ job'.round = job.round /\ job'.about = job.about /\ job'.then = job.then
    BY <2>1 DEF TabInv, TabTypes, Jobs, Places
  <2>4. /\ jar' \in Sessions /\ jar'.role = job.target /\ jar'.live = TRUE /\ jar'.rival = FALSE
    BY <2>1 DEF Minted, Sessions, TabInv, TabTypes, Jobs
  <2>5. /\ store' \in Stores /\ store'.keys = store.keys /\ store'.retry = FALSE
        /\ IF job.do = "connect" THEN store'.fits = FALSE /\ store'.role = store.role
                                      /\ store'.pending = store.pending
           ELSE store'.role = job.target /\ store'.pending = "none"
    <3>1. store \in Stores /\ job.target \in TabRoles /\ store.retry = FALSE
      BY <2>2 DEF TabInv, TabTypes, Jobs, Stores
    <3>2. CASE job.do = "connect"
      <4>1. store' = [store EXCEPT !.fits = FALSE]
        BY <1>3, <3>2 DEF Mint
      <4> QED BY <4>1, <3>1, <3>2 DEF Stores
    <3>3. CASE job.do # "connect"
      <4>1. store' = [store EXCEPT !.role = job.target, !.fits = TRUE, !.pending = "none",
                          !.task = IF job.target = "advisor" THEN store.task ELSE 0,
                          !.cursor = IF job.target = "advisor" THEN store.cursor ELSE 0]
        BY <1>3, <3>1, <3>3 DEF Mint, Stores
      <4>2. "none" \in TabRoles
        BY DEF TabRoles
      <4> QED BY <4>1, <4>2, <3>1, <3>3 DEF Stores
    <3> QED BY <3>2, <3>3
  <2>6. TabTypes' /\ OneRetryKey(store)'
    BY <2>1, <2>3, <2>4, <2>5 DEF TabTypes, TabInv, OneRetryKey
  <2>7. JobShape(job)' /\ JobShape(again)' /\ CommandBound(store, job)' /\ CommandBound(store, again)'
    BY <2>1, <2>2, <2>3, <2>5 DEF TabInv, JobShape, CommandBound, Binds, Proposal
  <2>8. RoleKept' /\ Repeats' /\ RetryBound'
    BY <2>1, <2>2, <2>3, <2>5 DEF TabInv, RoleKept, Repeats, RetryBound
  <2>9. CookieFits'
    BY <2>2, <2>3, <2>4, <2>5 DEF TabInv, CookieFits, JobShape
  <2> QED BY <2>5, <2>6, <2>7, <2>8, <2>9 DEF TabInv
<1> QED BY <1>1, <1>2, <1>3 DEF TabInv, TabTypes, Jobs

(* Reads: a role is checked, a status, a detail, an authority.              *)
LEMMA ReadRefusedKeeps ==
    ASSUME TabInv, ReadRefused
    PROVE TabInv' /\ store'.keys \subseteq store.keys
BY FailKeeps, StartingRecords DEF ReadRefused, JarLess

LEMMA SameJarFails ==
    ASSUME NEW code, TabInv, Fail(code), UNCHANGED jar
    PROVE TabInv' /\ store'.keys \subseteq store.keys
BY FailKeeps DEF JarLess, TabInv, TabTypes

LEMMA CheckRoleKeeps ==
    ASSUME TabInv, CheckRole
    PROVE TabInv' /\ store'.keys \subseteq store.keys
<1>1. CASE ~SignedOn
  BY <1>1, ReadRefusedKeeps DEF CheckRole
<1>2. CASE SignedOn /\ Fail("transport") /\ UNCHANGED jar
  BY <1>2, SameJarFails
<1>3. CASE /\ SignedOn /\ UNCHANGED jar
           /\ store' = [store EXCEPT !.pending = job.target, !.retry = FALSE]
           /\ GoTo("revoke") /\ UNCHANGED <<view, again, stream>>
  <2>1. job.at = "check" /\ job' = [job EXCEPT !.at = "revoke"] /\ view' = view /\ again' = again /\ jar' = jar
    BY <1>3 DEF CheckRole, At, GoTo
  <2>2. job.do = "switch" /\ ~(view.is = "show" /\ view.phase \in ActivePhases)
    BY <2>1, EarlyJobs DEF Early, TabInv, JobShape
  <2>3. /\ job' \in Jobs /\ job'.at = "revoke" /\ job'.do = job.do /\ job'.op = job.op
        /\ job'.target = job.target /\ job'.round = job.round /\ job'.about = job.about /\ job'.then = job.then
    BY <2>1 DEF TabInv, TabTypes, Jobs, Places, Early
  <2>4. /\ store' \in Stores /\ store'.keys = store.keys /\ store'.retry = FALSE
        /\ store'.role = store.role /\ store'.fits = store.fits
    BY <1>3 DEF TabInv, TabTypes, Stores, Jobs
  <2>5. TabTypes' /\ OneRetryKey(store)'
    BY <2>1, <2>3, <2>4 DEF TabTypes, TabInv, OneRetryKey
  <2>6. JobShape(job)' /\ JobShape(again)' /\ CommandBound(store, job)' /\ CommandBound(store, again)'
    BY <2>1, <2>2, <2>3, <2>4 DEF TabInv, JobShape, CommandBound, Binds, Proposal
  <2>7. RoleKept' /\ RetryBound' /\ CookieFits'
    BY <2>1, <2>2, <2>3, <2>4 DEF TabInv, RoleKept, RetryBound, CookieFits, Early
  <2>8. Repeats'
    BY <2>1, <2>2, <2>3, <2>4 DEF TabInv, Repeats
  <2> QED BY <2>4, <2>5, <2>6, <2>7, <2>8 DEF TabInv
<1> QED BY <1>1, <1>2, <1>3 DEF CheckRole

LEMMA AuthorityKeeps ==
    ASSUME TabInv, Authority
    PROVE TabInv' /\ store'.keys \subseteq store.keys
<1>1. CASE ~SignedOn
  BY <1>1, ReadRefusedKeeps DEF Authority
<1>2. CASE (Fail("stale") \/ Fail("transport")) /\ UNCHANGED jar
  BY <1>2, SameJarFails
<1>3. CASE GoTo("message") /\ TabQuiet /\ UNCHANGED jar
  <2>1. /\ job.at = "authority" /\ job' = [job EXCEPT !.at = "message"]
        /\ UNCHANGED <<store, view, again, jar>>
    BY <1>3 DEF Authority, At, GoTo, TabQuiet
  <2>2. /\ job' \in Jobs /\ job'.at = "message" /\ job'.do = job.do /\ job'.op = job.op
        /\ job'.target = job.target /\ job'.round = job.round /\ job'.about = job.about /\ job'.then = job.then
    BY <2>1 DEF TabInv, TabTypes, Jobs, Places, Early, Proposal
  <2>3. job.do = "submit" /\ job.op = "proposal"
    BY <2>1 DEF TabInv, JobShape
  <2>4. TabTypes' /\ OneRetryKey(store)'
    BY <2>1, <2>2 DEF TabTypes, TabInv, OneRetryKey
  <2>5. JobShape(job)' /\ JobShape(again)' /\ CommandBound(store, job)' /\ CommandBound(store, again)'
    BY <2>1, <2>2, <2>3 DEF TabInv, JobShape, CommandBound, Binds, Proposal
  <2>6. RoleKept' /\ RetryBound'
    BY <2>1, <2>2, <2>3, StartingRecords DEF TabInv, RoleKept, RetryBound, Early
  <2>7. Repeats' /\ CookieFits'
    BY <2>1, <2>2, <2>3 DEF TabInv, Repeats, CookieFits
  <2> QED BY <2>1, <2>4, <2>5, <2>6, <2>7 DEF TabInv
<1>4. \/ ~SignedOn
      \/ (Fail("stale") \/ Fail("transport")) /\ UNCHANGED jar
      \/ GoTo("message") /\ TabQuiet /\ UNCHANGED jar
  BY DEF Authority
<1> QED BY <1>1, <1>2, <1>3, <1>4

LEMMA PhaseTyped == ASSUME case \in JourneyCases PROVE Phase \in Phases /\ case.round \in Nat /\ OnlyPending \in Subjects
<1>1. OnlyPending \in Subjects
  BY DEF OnlyPending, Subjects
<1>2. Phase \in Phases /\ case.round \in Nat
  BY DEF JourneyCases, Phase, Phases
<1> QED BY <1>1, <1>2

LEMMA ActiveRoleTyped == ASSUME NEW p, NEW r PROVE ActiveRole(p, r) \in TabRoles \ {"none"}
BY DEF ActiveRole, TabRoles, Participants

LEMMA ReadStatusKeeps ==
    ASSUME TabInv, ReadStatus, case \in JourneyCases
    PROVE TabInv' /\ store'.keys \subseteq store.keys
<1> DEFINE role == ActiveRole(Phase, jar.role)
           base == IF store.role = job.target THEN store ELSE NoStore
<1>1. CASE ~SignedOn
  BY <1>1, ReadRefusedKeeps DEF ReadStatus
<1>2. CASE Fail("transport") /\ UNCHANGED jar
  BY <1>2, SameJarFails
<1>3. CASE /\ job' = [job EXCEPT !.at = "detail", !.seen = Phase, !.task = case.round]
           /\ TabQuiet /\ UNCHANGED jar
  <2>1. job.at = "status" /\ UNCHANGED <<store, view, again, jar>>
    BY <1>3 DEF ReadStatus, At, TabQuiet
  <2>2. /\ job' \in Jobs /\ job'.at = "detail" /\ job'.do = job.do /\ job'.op = job.op
        /\ job'.target = job.target /\ job'.round = job.round /\ job'.about = job.about /\ job'.then = job.then
    BY <1>3, PhaseTyped DEF TabInv, TabTypes, Jobs, Places
  <2>3. job.do # "none"
    BY <2>1, StartingRecords DEF TabInv, JobShape
  <2>4. TabTypes' /\ OneRetryKey(store)'
    BY <2>1, <2>2 DEF TabTypes, TabInv, OneRetryKey
  <2>5. JobShape(job)' /\ JobShape(again)' /\ CommandBound(store, job)' /\ CommandBound(store, again)'
    BY <2>1, <2>2, <2>3 DEF TabInv, JobShape, CommandBound, Binds, Proposal
  <2>6. RoleKept' /\ RetryBound'
    BY <2>1, <2>2, <2>3, StartingRecords DEF TabInv, RoleKept, RetryBound, Early
  <2>7. Repeats' /\ CookieFits'
    BY <2>1, <2>2, <2>3 DEF TabInv, Repeats, CookieFits
  <2> QED BY <2>1, <2>4, <2>5, <2>6, <2>7 DEF TabInv
<1>4. CASE /\ job.at = "status"
           /\ store' = IF QuietSwitch THEN store
                       ELSE [base EXCEPT !.role = job.target, !.pending = role, !.retry = FALSE, !.fits = Fits]
           /\ job' = NoJob /\ UNCHANGED jar
           /\ IF job.do = "switch" THEN view' = Screen("failed", "none") /\ UNCHANGED again
              ELSE view' = Screen("switch", role) /\ again' = NoJob
  <2>1. view' \in Screens /\ view'.is \in {"failed", "switch"} /\ (job.do = "switch" => view'.is = "failed")
        /\ (view'.is = "switch" => view'.phase \in TabRoles)
    BY <1>4, ActiveRoleTyped DEF Screen, Screens, Subjects, TabRoles
  <2>2. /\ job' = NoJob /\ jar' = jar /\ (job.do # "switch" => again' = NoJob)
        /\ job.do = "switch" => again' = again /\ job.target = store.role
    BY <1>4 DEF TabInv, RoleKept, Early
  <2>3. CASE QuietSwitch
    <3>1. store' = store /\ job.do = "submit" /\ job.op # "retry-task"
      BY <1>4, <2>3 DEF QuietSwitch
    <3>2. ~store.retry
      BY <3>1, StartingRecords DEF TabInv, RetryBound
    <3>3. TabTypes' /\ OneRetryKey(store)'
      BY <2>1, <2>2, <3>1, StartingRecords DEF TabTypes, TabInv, OneRetryKey
    <3>4. JobShape(job)' /\ JobShape(again)' /\ CommandBound(store, job)' /\ CommandBound(store, again)'
      BY <2>2, <3>1, StartingRecords DEF TabInv
    <3>5. RoleKept' /\ RetryBound' /\ Repeats' /\ CookieFits'
      BY <2>1, <2>2, <3>1, <3>2, StartingRecords DEF TabInv, RoleKept, RetryBound, Repeats, CookieFits
    <3> QED BY <3>1, <3>3, <3>4, <3>5 DEF TabInv
  <2>4. CASE ~QuietSwitch
    <3>1. store' = [base EXCEPT !.role = job.target, !.pending = role, !.retry = FALSE, !.fits = Fits]
      BY <1>4, <2>4
    <3>2. base \in Stores /\ job.target \in TabRoles /\ role \in TabRoles /\ Fits \in BOOLEAN
      BY StartingRecords, ActiveRoleTyped DEF TabInv, TabTypes, Jobs, Sessions, Fits, Stores
    <3>3. /\ store' \in Stores /\ store'.keys = base.keys /\ store'.retry = FALSE
          /\ store'.role = job.target /\ store'.fits = Fits
      BY <3>1, <3>2 DEF Stores
    <3>4. base.keys \subseteq store.keys /\ (job.do = "switch" => base = store)
      BY <2>2, StartingRecords
    <3>5. TabTypes' /\ OneRetryKey(store)'
      BY <2>1, <2>2, <3>3, <3>4, StartingRecords DEF TabTypes, TabInv, OneRetryKey
    <3>6. JobShape(job)' /\ JobShape(again)' /\ CommandBound(store, job)'
      BY <2>2, StartingRecords DEF TabInv
    <3>7. CommandBound(store, again)'
      BY <2>2, <3>3, <3>4, StartingRecords DEF TabInv, CommandBound, Binds
    <3>8. RoleKept' /\ RetryBound'
      BY <2>1, <2>2, <3>3, StartingRecords DEF TabInv, RoleKept, RetryBound
    <3>9. Repeats'
      BY <2>1, <2>2, <3>3, <3>4, StartingRecords DEF TabInv, Repeats
    <3>10. CookieFits'
      <4>1. ASSUME Fits, jar.live PROVE jar.role = job.target
        <5>1. CASE store.fits
          <6>1. jar.role = store.role
            BY <4>1, <5>1 DEF TabInv, CookieFits
          <6>2. job.do # "connect"
            BY <5>1, <1>4 DEF TabInv, CookieFits
          <6>3. job.do # "none"
            BY <1>4, StartingRecords DEF TabInv, JobShape
          <6> QED BY <6>1, <6>2, <6>3, <1>4 DEF TabInv, TabTypes, Jobs, Doings, RoleKept, Early
        <5>2. CASE job.do = "connect" /\ ~jar.rival
          BY <5>2, <4>1, <1>4 DEF TabInv, CookieFits, JobShape
        <5> QED BY <4>1, <5>1, <5>2 DEF Fits
      <4> QED BY <4>1, <2>2, <3>3, StartingRecords DEF CookieFits
    <3> QED BY <3>3, <3>4, <3>5, <3>6, <3>7, <3>8, <3>9, <3>10 DEF TabInv
  <2> QED BY <2>3, <2>4
<1>5. \/ ~SignedOn
      \/ Fail("transport") /\ UNCHANGED jar
      \/ /\ job' = [job EXCEPT !.at = "detail", !.seen = Phase, !.task = case.round]
         /\ TabQuiet /\ UNCHANGED jar
      \/ /\ job.at = "status"
         /\ store' = IF QuietSwitch THEN store
                     ELSE [base EXCEPT !.role = job.target, !.pending = role, !.retry = FALSE, !.fits = Fits]
         /\ job' = NoJob /\ UNCHANGED jar
         /\ IF job.do = "switch" THEN view' = Screen("failed", "none") /\ UNCHANGED again
            ELSE view' = Screen("switch", role) /\ again' = NoJob
  BY DEF ReadStatus, At
<1> QED BY <1>1, <1>2, <1>3, <1>4, <1>5

(* What a load leaves: the role it was made for, nothing pending, no retry. *)
LEMMA MetadataTells ==
    ASSUME TabInv, job.at \in {"detail", "apply"}
    PROVE /\ Metadata \in Stores /\ Metadata.keys = store.keys /\ Metadata.role = job.target
          /\ Metadata.pending = "none" /\ Metadata.retry = FALSE /\ Metadata.fits = Fits
          /\ job.do # "none"
          /\ job.do # "connect" => job.target = store.role
          /\ Fits /\ jar.live => jar.role = job.target
<1>1. job.do # "none" /\ (job.do # "connect" => job.target = store.role)
  BY StartingRecords DEF TabInv, JobShape, RoleKept, TabTypes, Jobs, Doings, Early
<1>2. store.retry => job.op = "retry-task"
  BY <1>1, StartingRecords DEF TabInv, RetryBound
<1>3. Fits /\ jar.live => jar.role = job.target
  BY <1>1 DEF TabInv, CookieFits, Fits, JobShape
<1>4. /\ store \in Stores /\ job.target \in TabRoles /\ job.task \in Nat /\ Fits \in BOOLEAN
      /\ "none" \in TabRoles
  BY DEF TabInv, TabTypes, Jobs, Stores, Sessions, Fits, TabRoles
<1>5. (store.retry /\ job.op # "retry-task") = FALSE
  BY <1>2, <1>4 DEF Stores
<1> DEFINE task == IF TaskOnShow THEN job.task ELSE 0
           cursor == IF task # 0 /\ store.task = task THEN store.cursor ELSE 0
<1>6. task \in Nat /\ cursor \in Nat
  BY <1>4 DEF Stores
<1>7. Metadata = [store EXCEPT !.role = job.target, !.pending = "none", !.task = task,
                      !.fits = Fits, !.cursor = cursor, !.retry = FALSE]
  BY <1>4, <1>5 DEF Metadata, Stores
<1> QED BY <1>1, <1>3, <1>4, <1>6, <1>7 DEF Stores

LEMMA DisplayTyped ==
    ASSUME TabInv, case \in JourneyCases
    PROVE Display \in Screens /\ Display.is = "show" /\ Display.phase = job.seen
<1>1. OnlyPending \in Subjects
  BY PhaseTyped
<1>2. Display = [is |-> "show", phase |-> job.seen, round |-> job.task, about |-> OnlyPending]
  BY DEF Display
<1>3. job.seen \in Phases \cup {"none"} /\ job.task \in Nat
  BY DEF TabInv, TabTypes, Jobs
<1> QED BY <1>1, <1>2, <1>3 DEF Screens, TabRoles

LEMMA ActiveShownToAdvisor ==
    ASSUME TabInv, Consistent, job.seen \in ActivePhases
    PROVE job.target = "advisor"
BY DEF Consistent, Readable, ActivePhases

LEMMA LoadedKeeps ==
    ASSUME TabInv, Loaded, Consistent, job.at = "detail", job.do # "refresh", UNCHANGED jar, case \in JourneyCases
    PROVE TabInv' /\ store'.keys \subseteq store.keys
<1>1. /\ store' = Metadata /\ view' = Display /\ jar' = jar
  BY DEF Loaded
<1>2. /\ view' \in Screens /\ view'.is = "show" /\ view'.phase = job.seen
  BY <1>1, DisplayTyped
<1>3. /\ store' \in Stores /\ store'.keys = store.keys /\ store'.role = job.target
      /\ store'.pending = "none" /\ store'.retry = FALSE /\ store'.fits = Fits
      /\ job.do # "none" /\ (job.do # "connect" => job.target = store.role)
      /\ Fits /\ jar.live => jar.role = job.target
  BY <1>1, MetadataTells
<1>4. RetryBound' /\ OneRetryKey(store)'
  BY <1>3 DEF RetryBound, TabInv, OneRetryKey
<1>5. CASE job.then = "none"
  <2>1. job' = NoJob /\ (again' = NoJob \/ (again' = again /\ job.do \notin {"switch", "submit"}))
    BY <1>5 DEF Loaded
  <2>2. TabTypes' /\ JobShape(job)' /\ JobShape(again)' /\ CommandBound(store, job)' /\ CommandBound(store, again)'
    BY <1>1, <1>2, <1>3, <2>1, StartingRecords DEF TabTypes, TabInv, CommandBound, Binds
  <2>3. RoleKept'
    BY <1>2, <1>3, <2>1, ActiveShownToAdvisor, StartingRecords DEF RoleKept
  <2>4. Repeats'
    BY <1>2, <1>3, <2>1, StartingRecords DEF Repeats, TabInv
  <2>5. CookieFits'
    BY <1>1, <1>3, <2>1, StartingRecords DEF CookieFits
  <2> QED BY <1>3, <1>4, <2>2, <2>3, <2>4, <2>5 DEF TabInv
<1>6. CASE job.then # "none"
  <2>1. /\ job' = [job EXCEPT !.do = "submit", !.at = "authority", !.then = "none"] /\ again' = again
    BY <1>6 DEF Loaded
  <2>2. /\ job.then = "proposal" /\ job.do = "switch" /\ job.op = "proposal"
    BY <1>6 DEF TabInv, TabTypes, Jobs, JobShape
  <2>3. /\ job' \in Jobs /\ job'.do = "submit" /\ job'.at = "authority" /\ job'.then = "none"
        /\ job'.op = job.op /\ job'.target = job.target /\ job'.round = job.round /\ job'.about = job.about
    BY <2>1 DEF TabInv, TabTypes, Jobs, Doings, Places
  <2>4. TabTypes' /\ JobShape(job)' /\ JobShape(again)' /\ CommandBound(store, again)'
    BY <1>1, <1>2, <1>3, <2>1, <2>2, <2>3 DEF TabTypes, TabInv, CommandBound, Binds, JobShape, Proposal
  <2>5. CommandBound(store, job)'
    BY <1>3, <2>2, <2>3 DEF TabInv, CommandBound, Binds
  <2>6. RoleKept'
    <3>1. job.seen \notin ActivePhases
      BY <2>2, ActiveShownToAdvisor DEF TabInv, JobShape, Participants
    <3> QED BY <1>2, <1>3, <2>3, <3>1 DEF RoleKept, Early
  <2>7. Repeats' /\ CookieFits'
    BY <1>1, <1>2, <1>3, <2>1, <2>2, <2>3 DEF Repeats, CookieFits, TabInv
  <2> QED BY <1>3, <1>4, <2>4, <2>5, <2>6, <2>7 DEF TabInv
<1> QED BY <1>5, <1>6

LEMMA ReadDetailKeeps ==
    ASSUME TabInv, ReadDetail, case \in JourneyCases
    PROVE TabInv' /\ store'.keys \subseteq store.keys
<1>1. CASE ~SignedOn
  BY <1>1, ReadRefusedKeeps DEF ReadDetail
<1>2. CASE Fail("transport") /\ UNCHANGED jar
  BY <1>2, SameJarFails
<1>3. CASE Consistent /\ Loaded /\ UNCHANGED jar
  BY <1>3, LoadedKeeps DEF ReadDetail, At
<1> QED BY <1>1, <1>2, <1>3 DEF ReadDetail

LEMMA ReadRefreshedKeeps ==
    ASSUME TabInv, ReadRefreshed
    PROVE TabInv' /\ store'.keys \subseteq store.keys
<1>1. CASE ~SignedOn
  BY <1>1, ReadRefusedKeeps DEF ReadRefreshed
<1>2. CASE Fail("transport") /\ UNCHANGED jar
  BY <1>2, SameJarFails
<1>3. CASE /\ \/ job' = [job EXCEPT !.at = "apply"]
              \/ job' = [job EXCEPT !.at = "status", !.tries = @ + 1]
           /\ TabQuiet /\ UNCHANGED jar
  <2>1. job.do = "refresh" /\ UNCHANGED <<store, view, again, jar>>
    BY <1>3 DEF ReadRefreshed, TabQuiet
  <2>2. /\ job' \in Jobs /\ job'.at \in {"apply", "status"} /\ job'.do = "refresh" /\ job'.op = job.op
        /\ job'.target = job.target /\ job'.round = job.round /\ job'.about = job.about /\ job'.then = job.then
    <3>1. CASE job' = [job EXCEPT !.at = "apply"]
      BY <3>1, <2>1 DEF TabInv, TabTypes, Jobs, Places
    <3>2. CASE job' = [job EXCEPT !.at = "status", !.tries = @ + 1]
      <4>1. job \in Jobs /\ job.tries \in Nat /\ job.tries + 1 \in Nat
        BY DEF TabInv, TabTypes, Jobs
      <4>2. PICK n \in Nat : job' = [job EXCEPT !.at = "status", !.tries = n]
        BY <3>2, <4>1
      <4>3. "status" \in Places
        BY DEF Places
      <4> QED BY <4>1, <4>2, <4>3, <2>1 DEF Jobs
    <3> QED BY <1>3, <3>1, <3>2
  <2>3. TabTypes' /\ OneRetryKey(store)'
    BY <2>1, <2>2 DEF TabTypes, TabInv, OneRetryKey
  <2>4. JobShape(job)' /\ JobShape(again)' /\ CommandBound(store, job)' /\ CommandBound(store, again)'
    BY <2>1, <2>2 DEF TabInv, JobShape, CommandBound, Binds, Proposal
  <2>5. RoleKept' /\ RetryBound'
    BY <2>1, <2>2, StartingRecords DEF TabInv, RoleKept, RetryBound, Early
  <2>6. Repeats' /\ CookieFits'
    BY <2>1, <2>2 DEF TabInv, Repeats, CookieFits
  <2> QED BY <2>1, <2>3, <2>4, <2>5, <2>6 DEF TabInv
<1>4. \/ ~SignedOn
      \/ Fail("transport") /\ UNCHANGED jar
      \/ /\ \/ job' = [job EXCEPT !.at = "apply"]
            \/ job' = [job EXCEPT !.at = "status", !.tries = @ + 1]
         /\ TabQuiet /\ UNCHANGED jar
  BY DEF ReadRefreshed, GoTo
<1> QED BY <1>1, <1>2, <1>3, <1>4

LEMMA RefreshJobs ==
    /\ Refresh \in Jobs /\ Refresh.do = "refresh" /\ Refresh.at = "status" /\ Refresh.op = "none"
    /\ Refresh.target = "advisor" /\ Refresh.then = "none" /\ Refresh.about = "none"
    /\ [Refresh EXCEPT !.do = "unwatched"] \in Jobs
    /\ [Refresh EXCEPT !.do = "unwatched"].do = "unwatched"
    /\ [Refresh EXCEPT !.do = "unwatched"].at = "status"
    /\ [Refresh EXCEPT !.do = "unwatched"].op = "none"
    /\ [Refresh EXCEPT !.do = "unwatched"].target = "advisor"
    /\ [Refresh EXCEPT !.do = "unwatched"].then = "none"
    /\ [Refresh EXCEPT !.do = "unwatched"].about = "none"
<1>1. Refresh = [do |-> "refresh", at |-> "status", op |-> "none", target |-> "advisor", then |-> "none",
                 round |-> 0, about |-> "none", seen |-> "none", task |-> 0, boot |-> FALSE, tries |-> 0]
  <2>1. Refresh = [NoJob EXCEPT !.do = "refresh", !.at = "status", !.target = "advisor"]
    BY DEF Refresh
  <2> QED BY <2>1 DEF NoJob
<1>2. Refresh \in Jobs
  BY <1>1 DEF Jobs, Subjects, Doings, Places, Asks, TabRoles
<1> QED BY <1>1, <1>2 DEF Jobs, Doings

LEMMA RefreshedKeeps ==
    ASSUME TabInv, Refreshed, case \in JourneyCases, stream \in Streams
    PROVE TabInv' /\ store'.keys \subseteq store.keys
<1>1. /\ job.at = "apply" /\ job.do = "refresh" /\ job.target = "advisor" /\ jar' = jar /\ again' = again
      /\ view' = Display
  BY DEF Refreshed, At, TabInv, JobShape
<1>2. /\ view' \in Screens /\ view'.is = "show" /\ view'.phase = job.seen
  BY <1>1, DisplayTyped
<1>3. /\ Metadata \in Stores /\ Metadata.keys = store.keys /\ Metadata.role = "advisor"
      /\ Metadata.pending = "none" /\ Metadata.retry = FALSE /\ Metadata.fits = Fits
      /\ store.role = "advisor"
      /\ Fits /\ jar.live => jar.role = "advisor"
  BY <1>1, MetadataTells
<1>4. /\ store' \in Stores /\ store'.keys = store.keys /\ store'.role = "advisor"
      /\ store'.pending = "none" /\ store'.retry = FALSE /\ store'.fits = Fits
  <2>1. store' = [Metadata EXCEPT !.cursor = IF Metadata.cursor > stream.cursor THEN Metadata.cursor
                                             ELSE stream.cursor]
    BY <1>3 DEF Refreshed, Stores
  <2>2. Metadata.cursor \in Nat /\ stream.cursor \in Nat
    BY <1>3 DEF Stores, Streams
  <2> QED BY <1>3, <2>1, <2>2 DEF Stores
<1>5. \/ job' = Refresh
      \/ job' = NoJob
      \/ job' = [Refresh EXCEPT !.do = "unwatched"] /\ job.seen \notin ActivePhases
  BY DEF Refreshed
<1>6. job'.do \in {"none", "refresh", "unwatched"} /\ job'.op = "none" /\ job'.then = "none"
  BY <1>5, RefreshJobs, StartingRecords
<1>7. TabTypes' /\ OneRetryKey(store)'
  BY <1>1, <1>2, <1>4, <1>5, RefreshJobs, StartingRecords DEF TabTypes, TabInv, OneRetryKey
<1>8. JobShape(job)' /\ CommandBound(store, job)'
  BY <1>5, RefreshJobs, StartingRecords DEF JobShape, CommandBound, Proposal
<1>9. JobShape(again)' /\ CommandBound(store, again)'
  BY <1>1, <1>4 DEF TabInv, CommandBound, Binds
<1>10. RoleKept' /\ RetryBound'
  BY <1>1, <1>2, <1>4, <1>5, RefreshJobs, StartingRecords DEF RoleKept, RetryBound, Early
<1>11. Repeats'
  BY <1>1, <1>2, <1>3, <1>4, <1>6 DEF Repeats, TabInv
<1>12. CookieFits'
  BY <1>1, <1>3, <1>4, <1>6 DEF CookieFits
<1> QED BY <1>4, <1>7, <1>8, <1>9, <1>10, <1>11, <1>12 DEF TabInv

(* Commands: how the tab goes on from a sent one.                           *)
LEMMA SentKeeps ==
    ASSUME TabInv, AtSend, UNCHANGED <<jar, store, view>>,
           \/ again' = again /\ GoTo(IF job.at = "message" THEN "candidate" ELSE "status")
           \/ again' = NoJob /\ GoTo("status")
    PROVE TabInv' /\ store'.keys \subseteq store.keys
<1>1. /\ job.do \in {"submit", "recover"}
      /\ job.at = "message" => job.do = "submit" /\ job.op = "proposal"
  BY DEF AtSend, TabInv, JobShape, Proposal
<1>2. /\ job' \in Jobs /\ job'.do = job.do /\ job'.op = job.op
      /\ job'.target = job.target /\ job'.round = job.round /\ job'.about = job.about /\ job'.then = job.then
      /\ \/ job'.at = "status"
         \/ job'.at = "candidate" /\ job.at = "message"
  BY DEF GoTo, TabInv, TabTypes, Jobs, Places, Proposal
<1>3. TabTypes' /\ OneRetryKey(store)'
  BY <1>2, StartingRecords DEF TabTypes, TabInv, OneRetryKey
<1>4. JobShape(job)' /\ JobShape(again)' /\ CommandBound(store, job)' /\ CommandBound(store, again)'
  BY <1>1, <1>2, StartingRecords DEF TabInv, JobShape, CommandBound, Binds, Proposal
<1>5. RoleKept' /\ RetryBound'
  BY <1>1, <1>2, StartingRecords DEF TabInv, RoleKept, RetryBound, Early
<1>6. Repeats' /\ CookieFits'
  BY <1>1, <1>2, StartingRecords DEF TabInv, Repeats, CookieFits
<1> QED BY <1>3, <1>4, <1>5, <1>6 DEF TabInv

LEMMA SendKeepsTab ==
    ASSUME TabInv, Send
    PROVE TabInv' /\ store'.keys \subseteq store.keys
<1>1. AtSend /\ jar' = jar
  BY DEF Send
<1>2. CASE Fail("expired") \/ Fail("transport") \/ Fail("stale") \/ Fail("unavailable")
  BY <1>1, <1>2, SameJarFails
<1>3. CASE Answered
  BY <1>1, <1>3, SentKeeps DEF Answered, TabQuiet
<1>4. CASE GoTo("status") /\ again' = NoJob /\ UNCHANGED <<store, view, stream>>
  BY <1>1, <1>4, SentKeeps
<1> QED BY <1>2, <1>3, <1>4 DEF Send

(* A page that starts over from what sessionStorage holds.                  *)
LEMMA RestartKeeps ==
    ASSUME NEW s \in Stores, Restart(s), JarLess \/ jar' \in Sessions, OneRetryKey(s),
           s.retry => s.pending = "none" /\ \E k \in s.keys : k.op = "retry-task" /\ k.who = s.role,
           s.fits /\ jar'.live => jar'.role = s.role
    PROVE TabInv' /\ store' = s
<1>1. store' = s /\ view' = Screen("start", "none")
  BY DEF Restart
<1>2. view' \in Screens /\ view'.is = "start"
  BY <1>1 DEF Screen, Screens, Subjects, TabRoles
<1>3. CASE s = NoStore
  <2>1. job' = NoJob /\ again' = NoJob
    BY <1>3 DEF Restart
  <2>2. TabTypes' /\ JobShape(job)' /\ JobShape(again)' /\ CommandBound(store, job)'
           /\ CommandBound(store, again)' /\ OneRetryKey(store)'
    BY <1>1, <1>2, <2>1, StartingRecords DEF TabTypes, JarLess
  <2>3. RoleKept' /\ Repeats' /\ CookieFits' /\ RetryBound'
    BY <1>1, <1>2, <1>3, <2>1, StartingRecords DEF RoleKept, Repeats, CookieFits, RetryBound
  <2> QED BY <1>1, <2>2, <2>3 DEF TabInv
<1>4. CASE s # NoStore
  <2> DEFINE j == Recovery(s)
  <2>1. job' = j /\ again' = IF j.do = "switch" THEN j ELSE NoJob
    BY <1>4 DEF Restart
  <2>2. /\ j \in Jobs /\ JobShape(j) /\ CommandBound(s, j) /\ j.do # "none" /\ j.then = "none"
        /\ j.do \in {"connect", "switch", "recover"}
        /\ j.do # "connect"
        /\ j.do = "recover" => j.target = s.role /\ s.pending = "none" /\ j.at \notin Early
        /\ j.do = "recover" /\ s.retry => j.op = "retry-task"
        /\ j.do = "switch" /\ j.at \notin Early => j.target = s.role
        /\ s.pending = "none" => j.do \in {"connect", "recover"}
    BY <1>4, RecoveryStarts
  <2> HIDE DEF j
  <2>3. TabTypes' /\ JobShape(job)' /\ JobShape(again)' /\ CommandBound(store, job)'
           /\ CommandBound(store, again)' /\ OneRetryKey(store)'
    BY <1>1, <1>2, <2>1, <2>2, StartingRecords DEF TabTypes, JarLess
  <2>4. RoleKept' /\ Repeats' /\ CookieFits' /\ RetryBound'
    BY <1>1, <1>2, <2>1, <2>2, StartingRecords DEF RoleKept, Repeats, CookieFits, RetryBound
  <2> QED BY <1>1, <2>3, <2>4 DEF TabInv
<1> QED BY <1>3, <1>4

LEMMA ReloadKeepsTab ==
    ASSUME TabInv, Reload
    PROVE TabInv' /\ store' = store
<1>1. Restart(store) /\ jar' = jar
  BY DEF Reload
<1>2. store \in Stores /\ jar' \in Sessions /\ OneRetryKey(store)
  BY <1>1 DEF TabInv, TabTypes
<1>3. store.retry => store.pending = "none" /\ \E k \in store.keys : k.op = "retry-task" /\ k.who = store.role
  BY DEF TabInv, RetryBound
<1>4. store.fits /\ jar'.live => jar'.role = store.role
  BY <1>1 DEF TabInv, CookieFits
<1> QED BY <1>1, <1>2, <1>3, <1>4, RestartKeeps

LEMMA GoneKeepsTab ==
    ASSUME TabInv, GoneAfterMint
    PROVE TabInv' /\ store'.keys = store.keys
<1> DEFINE s == [store EXCEPT !.fits = FALSE]
<1>1. Restart(s) /\ jar' = Minted /\ job.at = "mint"
  BY DEF GoneAfterMint, At
<1>2. ~store.retry
  BY <1>1, EarlyJobs DEF Early
<1>3. s \in Stores /\ s.keys = store.keys /\ s.retry = store.retry /\ s.fits = FALSE
  BY DEF TabInv, TabTypes, Stores
<1>4. jar' \in Sessions
  BY <1>1 DEF Minted, Sessions, TabInv, TabTypes, Jobs
<1>5. OneRetryKey(s)
  BY <1>3 DEF TabInv, OneRetryKey
<1> HIDE DEF s
<1> QED BY <1>1, <1>2, <1>3, <1>4, <1>5, RestartKeeps

(* What the person does.                                                    *)
LEMMA ConnectKeeps ==
    ASSUME TabInv, Connect
    PROVE TabInv' /\ store' = store
<1>1. /\ job = NoJob /\ view.is = "start" /\ job' = Recovery(NoStore)
      /\ UNCHANGED <<store, view, again, jar>>
  BY DEF Connect, Idle, TabQuiet
<1>2. OneRetryKey(NoStore)
  BY StartingRecords DEF OneRetryKey
<1>3. /\ job' \in Jobs /\ JobShape(job') /\ CommandBound(NoStore, job') /\ job'.then = "none"
      /\ job'.do = "connect" /\ job'.at = "bootstrap"
  <2>1. Recovery(NoStore) = [NoJob EXCEPT !.do = "connect", !.at = "bootstrap", !.target = "advisor"]
    BY StartingRecords DEF Recovery
  <2>2. Recovery(NoStore) = [do |-> "connect", at |-> "bootstrap", op |-> "none", target |-> "advisor",
              then |-> "none", round |-> 0, about |-> "none", seen |-> "none", task |-> 0, boot |-> FALSE, tries |-> 0]
    BY <2>1 DEF NoJob
  <2>3. Recovery(NoStore).do = "connect" /\ Recovery(NoStore).at = "bootstrap"
    BY <2>2
  <2> QED BY <1>1, <1>2, <2>3, RecoveryStarts, StartingRecords
<1>4. ~store.retry
  BY <1>1, StartingRecords DEF TabInv, RetryBound
<1>5. TabTypes' /\ OneRetryKey(store)'
  BY <1>1, <1>3 DEF TabTypes, TabInv, OneRetryKey
<1>6. JobShape(job)' /\ JobShape(again)' /\ CommandBound(store, job)' /\ CommandBound(store, again)'
  BY <1>1, <1>3 DEF TabInv, CommandBound, Binds
<1>7. RoleKept' /\ Repeats' /\ CookieFits' /\ RetryBound'
  BY <1>1, <1>3, <1>4 DEF TabInv, RoleKept, Repeats, CookieFits, RetryBound
<1> QED BY <1>1, <1>5, <1>6, <1>7 DEF TabInv

LEMMA SwitchStarts ==
    ASSUME NEW s \in Stores, NEW j \in Jobs,
           \/ j.op = "none" /\ j.then = "none" /\ j.about = "none"
           \/ /\ j.op = "proposal" /\ j.then = "proposal" /\ j.target \in Participants
              /\ \A op \in Sent(j.op) : Binds(s, op, j)
    PROVE LET u == SwitchFrom(s, j) IN
          /\ u \in Jobs /\ JobShape(u) /\ CommandBound(s, u)
          /\ u.do = "switch" /\ u.op = j.op /\ u.then = j.then /\ u.target = j.target
          /\ u.at \in {"status", "check", "revoke"}
          /\ u.at = "status" => s.role = j.target
<1> DEFINE u == SwitchFrom(s, j)
<1>1. PICK at \in {"status", "check", "revoke"} :
          /\ u = [j EXCEPT !.do = "switch", !.at = at]
          /\ at = "status" => s.role = j.target
  BY DEF SwitchFrom
<1>2. "switch" \in Doings /\ at \in Places
  BY DEF Doings, Places, Early
<1> HIDE DEF u
<1>3. /\ u \in Jobs /\ u.do = "switch" /\ u.at = at /\ u.op = j.op /\ u.then = j.then
      /\ u.target = j.target /\ u.round = j.round /\ u.about = j.about
  BY <1>1, <1>2 DEF Jobs
<1>4. JobShape(u)
  BY <1>1, <1>3 DEF JobShape, Proposal
<1>5. CommandBound(s, u)
  BY <1>1, <1>3 DEF CommandBound, Binds
<1> QED BY <1>1, <1>3, <1>4, <1>5 DEF u

ToRole(role) == [NoJob EXCEPT !.target = role]
LEMMA ToRoleTells ==
    ASSUME NEW role \in TabRoles
    PROVE  /\ ToRole(role) \in Jobs /\ ToRole(role).op = "none" /\ ToRole(role).then = "none"
           /\ ToRole(role).target = role /\ ToRole(role).about = "none"
<1>1. ToRole(role) = [NoJob EXCEPT !.target = role]
  BY DEF ToRole
<1>2. ToRole(role) = [do |-> "none", at |-> "none", op |-> "none", target |-> role, then |-> "none",
                      round |-> 0, about |-> "none", seen |-> "none", task |-> 0, boot |-> FALSE, tries |-> 0]
  BY <1>1 DEF NoJob
<1> QED BY <1>2 DEF Jobs, Subjects, Doings, Places, Asks

(* Rotate, and prepareRevisionFact.                                         *)
LEMMA BeginSwitchKeeps ==
    ASSUME TabInv, NEW role \in TabRoles, job = NoJob, Begin(Switch(store, role)), UNCHANGED jar,
           ~(view.is = "show" /\ view.phase \in ActivePhases), view.is \in {"switch", "show"}
    PROVE TabInv' /\ store' = store
<1> DEFINE u == SwitchFrom(store, ToRole(role))
<1>1. job' = u /\ again' = u /\ UNCHANGED <<store, view, jar>>
  BY DEF Begin, Switch, ToRole
<1>2. /\ u \in Jobs /\ JobShape(u) /\ CommandBound(store, u)
      /\ u.do = "switch" /\ u.op = "none" /\ u.then = "none"
      /\ u.at = "status" => store.role = u.target
      /\ u.at \in {"status", "check", "revoke"}
  BY ToRoleTells, SwitchStarts DEF TabInv, TabTypes
<1> HIDE DEF u
<1>3. ~store.retry
  BY StartingRecords DEF TabInv, RetryBound
<1>4. TabTypes' /\ OneRetryKey(store)'
  BY <1>1, <1>2 DEF TabTypes, TabInv, OneRetryKey
<1>5. JobShape(job)' /\ JobShape(again)' /\ CommandBound(store, job)' /\ CommandBound(store, again)'
  BY <1>1, <1>2
<1>6. RoleKept' /\ Repeats' /\ CookieFits' /\ RetryBound'
  BY <1>1, <1>2, <1>3 DEF TabInv, RoleKept, Repeats, CookieFits, RetryBound, Early
<1> QED BY <1>1, <1>4, <1>5, <1>6 DEF TabInv

LEMMA RotateKeeps ==
    ASSUME TabInv, Rotate
    PROVE TabInv' /\ store' = store
<1>1. /\ job = NoJob /\ jar' = jar /\ view.is = "switch"
      /\ Begin(Switch(store, view.phase))
  BY DEF Rotate, Idle
<1> QED BY <1>1, BeginSwitchKeeps DEF TabInv, RoleKept

LEMMA PrepareKeeps ==
    ASSUME TabInv, Prepare
    PROVE TabInv' /\ store' = store
<1>1. job = NoJob /\ jar' = jar
  BY DEF Prepare, Idle
<1>2. view.is = "show" /\ view.phase = "revision_requested"
  BY DEF Prepare, TabInv, TabTypes, Screens
<1>3. PICK role \in Participants : Begin(Switch(store, role))
  BY DEF Prepare
<1>4. role \in TabRoles
  BY DEF TabRoles
<1> QED BY <1>1, <1>2, <1>3, <1>4, BeginSwitchKeeps DEF ActivePhases

(* A command begins: its keys are saved, and it is sent or a role changes.  *)
LEMMA SentCommands ==
    ASSUME NEW op \in Commands \cup {"proposal"}
    PROVE /\ Sent(op) \subseteq Commands /\ Sent(op) \subseteq Slot(op)
          /\ op # "proposal" => Sent(op) = {op}
          /\ op = "proposal" => Sent(op) = Proposal
          /\ "retry-task" \in Sent(op) => op = "retry-task"
BY DEF Sent, Slot, Commands, Proposal, Verdicts

LEMMA KeyTells ==
    ASSUME store \in Stores, asked \in [Commands -> Nat], NEW j \in Jobs, NEW op \in Commands
    PROVE /\ KeyOf(op, j) \in Nat
          /\ IF SavedKeys(op, j) = {} THEN KeyOf(op, j) = asked[op]
             ELSE \E k \in store.keys : k.op = op /\ k.key = KeyOf(op, j)
          /\ Binds(store, op, j) => SavedKeys(op, j) # {}
<1>1. SavedKeys(op, j) \subseteq store.keys /\ \A k \in SavedKeys(op, j) : k.op = op
  BY DEF SavedKeys
<1>2. CASE SavedKeys(op, j) = {}
  BY <1>2 DEF KeyOf, Binds, SavedKeys
<1>3. CASE SavedKeys(op, j) # {}
  <2>1. PICK k \in SavedKeys(op, j) : KeyOf(op, j) = k.key
    BY <1>3 DEF KeyOf
  <2> QED BY <1>1, <1>3, <2>1 DEF Stores, SavedKinds
<1> QED BY <1>2, <1>3

NewKey(op, j) == [op |-> op, round |-> j.round, who |-> j.target, about |-> j.about, key |-> KeyOf(op, j)]

LEMMA BindingTells ==
    ASSUME store \in Stores, asked \in [Commands -> Nat], NEW j \in Jobs,
           j.op \in Commands \cup {"proposal"}, JobShape(j), OneRetryKey(store)
    PROVE LET b == Binding(j) IN
          /\ b \in Stores /\ b.role = store.role /\ b.fits = store.fits /\ b.pending = store.pending
          /\ b.retry = (store.retry \/ j.op = "retry-task")
          /\ OneRetryKey(b)
          /\ \A op \in Sent(j.op) : Binds(b, op, j)
          /\ b.keys = {k \in store.keys : k.op \notin Slot(j.op)} \cup {NewKey(op, j) : op \in Sent(j.op)}
<1> DEFINE kept == {k \in store.keys : k.op \notin Slot(j.op)}
           new == {NewKey(op, j) : op \in Sent(j.op)}
           retry == store.retry \/ j.op = "retry-task"
           b == Binding(j)
<1>1. \A op \in Sent(j.op) : NewKey(op, j) \in SavedKinds
  <2> SUFFICES ASSUME NEW op \in Sent(j.op) PROVE NewKey(op, j) \in SavedKinds
    OBVIOUS
  <2>1. op \in Commands
    BY SentCommands
  <2>2. KeyOf(op, j) \in Nat
    BY <2>1, KeyTells
  <2> QED BY <2>1, <2>2 DEF NewKey, SavedKinds, Jobs
<1>2. kept \cup new \in SUBSET SavedKinds /\ retry \in BOOLEAN
  BY <1>1 DEF Stores
<1>3. b = [store EXCEPT !.keys = kept \cup new, !.retry = retry]
  <2>1. Without(store, j.op) = [store EXCEPT !.keys = kept]
    BY DEF Without, Stores
  <2>2. new = {[op |-> op, round |-> j.round, who |-> j.target, about |-> j.about, key |-> KeyOf(op, j)] : op \in Sent(j.op)}
    BY DEF NewKey
  <2>3. Without(store, j.op).keys = kept /\ Without(store, j.op).retry = store.retry
    BY <2>1 DEF Stores
  <2>4. b = [Without(store, j.op) EXCEPT !.keys = kept \cup new, !.retry = retry]
    BY <2>2, <2>3 DEF Binding
  <2> QED BY <2>1, <2>4 DEF Stores
<1> HIDE DEF b, kept, new, retry
<1>4. /\ b \in Stores /\ b.role = store.role /\ b.fits = store.fits /\ b.pending = store.pending
      /\ b.retry = retry /\ b.keys = kept \cup new
  BY <1>2, <1>3 DEF Stores
<1>5. OneRetryKey(b)
  <2> SUFFICES ASSUME NEW k \in b.keys, NEW l \in b.keys, k.op = "retry-task", l.op = "retry-task"
               PROVE k = l /\ k.about = "none"
    BY DEF OneRetryKey
  <2>1. \A x \in new : \E op \in Sent(j.op) : x = NewKey(op, j) /\ x.op = op
    BY DEF new, NewKey
  <2>2. CASE j.op = "retry-task"
    <3>1. "retry-task" \in Slot(j.op) /\ Sent(j.op) = {j.op}
      BY <2>2, SentCommands DEF Slot, Sent
    <3>2. k \in new /\ l \in new
      BY <1>4, <3>1 DEF kept
    <3>3. j.about = "none"
      BY <2>2 DEF JobShape, Verdicts
    <3> QED BY <2>1, <3>1, <3>2, <3>3 DEF NewKey
  <2>3. CASE j.op # "retry-task"
    <3>1. "retry-task" \notin Sent(j.op)
      BY <2>3, SentCommands
    <3>2. k \in kept /\ l \in kept
      BY <1>4, <2>1, <3>1
    <3> QED BY <3>2 DEF kept, OneRetryKey
  <2> QED BY <2>2, <2>3
<1>6. \A op \in Sent(j.op) : Binds(b, op, j)
  <2> SUFFICES ASSUME NEW op \in Sent(j.op) PROVE Binds(b, op, j)
    OBVIOUS
  <2>1. NewKey(op, j) \in b.keys
    BY <1>4 DEF new
  <2>2. NewKey(op, j).op = op /\ NewKey(op, j).round = j.round /\ NewKey(op, j).who = j.target
        /\ NewKey(op, j).about = j.about
    BY DEF NewKey
  <2> QED BY <2>1, <2>2 DEF Binds
<1> QED BY <1>4, <1>5, <1>6 DEF b, kept, new, retry

LEMMA BeginCommandKeeps ==
    ASSUME TabInv, asked \in [Commands -> Nat], NEW j \in Jobs, BeginCommand(j), UNCHANGED <<jar, view>>,
           JobShape(j), j.do = "submit", j.at = "send" => j.op \in Commands, j.op \in Commands \cup {"proposal"},
           j.op # "proposal" => j.target = store.role /\ store.pending = "none",
           store.retry => j.op = "retry-task",
           view.is \in {"show", "failed"}, ~(view.is = "show" /\ view.phase \in ActivePhases)
    PROVE TabInv' /\ store' = Binding(j)
<1>1. /\ store' = Binding(j) /\ again' = j /\ jar' = jar /\ view' = view
  BY DEF BeginCommand
<1>2. store \in Stores /\ OneRetryKey(store) /\ j.then = "none"
  BY DEF TabInv, TabTypes, JobShape, Jobs
<1>3. /\ store' \in Stores /\ store'.role = store.role /\ store'.fits = store.fits
      /\ store'.pending = store.pending /\ store'.retry = (store.retry \/ j.op = "retry-task")
      /\ OneRetryKey(store')
      /\ \A op \in Sent(j.op) : Binds(store', op, j)
  BY <1>1, <1>2, BindingTells
<1>4. CommandBound(store', j)
  <2>1. j.op \in Commands => j.op \in Sent(j.op)
    BY SentCommands DEF Commands
  <2> QED BY <1>2, <1>3, <2>1 DEF CommandBound
<1>5. /\ job' \in Jobs /\ JobShape(job') /\ CommandBound(store', job')
      /\ job'.op = j.op /\ job'.target = j.target
      /\ \/ job'.do = "submit" /\ job'.at \in {"send", "authority"} /\ j.target = store.role
            /\ store.pending = "none"
         \/ job'.do = "switch" /\ job'.then = "proposal" /\ j.op = "proposal"
            /\ (job'.at \notin Early => store.role = j.target)
  <2>1. CASE j.op # "proposal"
    <3>1. job' = [j EXCEPT !.at = "send"]
      BY <2>1 DEF BeginCommand
    <3>2. /\ job' \in Jobs /\ job'.do = "submit" /\ job'.at = "send" /\ job'.op = j.op
          /\ job'.target = j.target /\ job'.round = j.round /\ job'.about = j.about /\ job'.then = j.then
      BY <3>1 DEF Jobs, Places
    <3>3. j.op \in Commands /\ j.op \in Sent(j.op)
      BY <2>1, SentCommands DEF Commands
    <3>4. Binds(store', j.op, job')
      BY <1>3, <3>2, <3>3 DEF Binds
    <3>5. JobShape(job')
      BY <1>2, <2>1, <3>2 DEF JobShape, Proposal
    <3>6. CommandBound(store', job')
      BY <1>3, <3>2, <3>3, <3>4 DEF CommandBound, Binds
    <3> QED BY <2>1, <3>2, <3>5, <3>6
  <2>2. CASE j.op = "proposal" /\ store.role = j.target /\ store.pending = "none"
    <3>1. job' = [j EXCEPT !.at = "authority"]
      BY <2>2 DEF BeginCommand
    <3>2. /\ job' \in Jobs /\ job'.do = "submit" /\ job'.at = "authority" /\ job'.op = j.op
          /\ job'.target = j.target /\ job'.round = j.round /\ job'.about = j.about /\ job'.then = j.then
      BY <3>1 DEF Jobs, Places
    <3>3. JobShape(job')
      BY <1>2, <2>2, <3>2 DEF JobShape, Proposal
    <3>4. CommandBound(store', job')
      BY <1>3, <2>2, <3>2 DEF CommandBound, Binds
    <3> QED BY <2>2, <3>2, <3>3, <3>4
  <2>3. CASE j.op = "proposal" /\ ~(store.role = j.target /\ store.pending = "none")
    <3> DEFINE t == [j EXCEPT !.then = "proposal"]
               u == SwitchFrom(store, t)
    <3>1. job' = u
      BY <2>3 DEF BeginCommand
    <3>2. /\ t \in Jobs /\ t.op = "proposal" /\ t.then = "proposal" /\ t.target = j.target
          /\ t.round = j.round /\ t.about = j.about
      BY <2>3 DEF Jobs
    <3>3. j.target \in Participants
      BY <2>3 DEF JobShape
    <3> HIDE DEF t
    <3>4. \A op \in Sent(t.op) : Binds(store', op, t)
      BY <1>3, <2>3, <3>2 DEF Binds
    <3>5. /\ SwitchFrom(store', t) = u
      BY <1>3 DEF SwitchFrom
    <3>6. /\ u \in Jobs /\ JobShape(u) /\ CommandBound(store', u)
          /\ u.do = "switch" /\ u.op = t.op /\ u.then = t.then /\ u.target = t.target
          /\ u.at \in {"status", "check", "revoke"}
          /\ u.at = "status" => store'.role = t.target
      BY <1>3, <3>2, <3>3, <3>4, <3>5, SwitchStarts
    <3> HIDE DEF u
    <3> QED BY <1>3, <2>3, <3>1, <3>2, <3>6 DEF Early
  <2> QED BY <2>1, <2>2, <2>3
<1>6. TabTypes' /\ JobShape(job)' /\ JobShape(again)' /\ CommandBound(store, job)'
         /\ CommandBound(store, again)' /\ OneRetryKey(store)'
  BY <1>1, <1>3, <1>4, <1>5 DEF TabTypes, TabInv
<1>7. RoleKept' /\ Repeats'
  BY <1>1, <1>3, <1>5 DEF TabInv, RoleKept, Repeats, Early
<1>8. CookieFits'
  BY <1>1, <1>3, <1>5 DEF TabInv, CookieFits
<1>9. RetryBound'
  <2> SUFFICES ASSUME store'.retry PROVE
          /\ store'.pending = "none"
          /\ \E k \in store'.keys : k.op = "retry-task" /\ k.who = store'.role
          /\ job'.op = "retry-task" /\ job'.do = "submit"
    BY DEF RetryBound
  <2>1. j.op = "retry-task"
    BY <1>3
  <2>2. "retry-task" \in Sent(j.op)
    BY <2>1 DEF Sent
  <2> QED BY <1>3, <1>5, <2>1, <2>2 DEF Binds
<1> QED BY <1>1, <1>6, <1>7, <1>8, <1>9 DEF TabInv

SubmitJob(op, who, round, about) ==
    [NoJob EXCEPT !.do = "submit", !.op = op, !.target = who, !.round = round, !.about = about]
LEMMA SubmitJobTells ==
    ASSUME NEW op \in Asks, NEW who \in TabRoles, NEW round \in Nat, NEW about \in Subjects
    PROVE  LET j == SubmitJob(op, who, round, about) IN
           /\ j \in Jobs /\ j.do = "submit" /\ j.at = "none" /\ j.op = op
           /\ j.target = who /\ j.then = "none" /\ j.about = about
<1> DEFINE j == SubmitJob(op, who, round, about)
<1>0. j = [NoJob EXCEPT !.do = "submit", !.op = op, !.target = who, !.round = round, !.about = about]
  BY DEF SubmitJob
<1>1. j = [do |-> "submit", at |-> "none", op |-> op, target |-> who, then |-> "none",
           round |-> round, about |-> about, seen |-> "none", task |-> 0, boot |-> FALSE, tries |-> 0]
  BY <1>0 DEF NoJob
<1>2. "submit" \in Doings /\ "none" \in Places
  BY DEF Doings, Places
<1>3. j \in Jobs
  BY <1>1, <1>2 DEF Jobs
<1> QED BY <1>1, <1>3

LEMMA SubmissionTells ==
    ASSUME TabInv, NEW op \in Commands \cup {"proposal"}, NEW kind \in Kinds
    PROVE  LET j == Submission(op, kind) IN
           /\ j \in Jobs /\ JobShape(j) /\ j.do = "submit" /\ j.at = "none" /\ j.op = op
           /\ j.then = "none"
           /\ op # "proposal" => j.target = store.role
<1> DEFINE about == IF op \in Verdicts THEN view.about ELSE "none"
           j == Submission(op, kind)
<1>1. op \in Asks /\ view.round \in Nat /\ view.about \in Subjects /\ store.role \in TabRoles
  BY DEF TabInv, TabTypes, Screens, Stores, Asks
<1>2. CASE op = "proposal"
  <2> DEFINE who == ParticipantFor(kind)
  <2>1. who \in Participants /\ kind \in Subjects
    BY DEF ParticipantFor, Participants, Subjects
  <2>2. j = SubmitJob(op, who, 0, kind)
    <3>1. NoJob = [NoJob EXCEPT !.round = 0]
      BY DEF NoJob
    <3> QED BY <1>2, <3>1 DEF Submission, SubmitJob, NoJob
  <2> HIDE DEF who
  <2>3. who \in TabRoles /\ 0 \in Nat
    BY <2>1 DEF TabRoles
  <2>4. /\ j \in Jobs /\ j.do = "submit" /\ j.at = "none" /\ j.op = op
        /\ j.target = who /\ j.then = "none"
    BY <1>1, <2>1, <2>2, <2>3, SubmitJobTells
  <2> HIDE DEF j
  <2>5. j.op = "proposal" /\ j.target \in Participants
    BY <1>2, <2>1, <2>4
  <2>6. JobShape(j)
    BY <2>4, <2>5 DEF JobShape, Proposal
  <2> QED BY <1>2, <2>4, <2>6 DEF j
<1>3. CASE op # "proposal"
  <2>1. j = SubmitJob(op, store.role, view.round, about)
    BY <1>3 DEF Submission, SubmitJob
  <2>2. about \in Subjects /\ (about # "none" => op \in Verdicts)
    BY <1>1 DEF Subjects
  <2> HIDE DEF about
  <2>3. /\ j \in Jobs /\ j.do = "submit" /\ j.at = "none" /\ j.op = op
        /\ j.target = store.role /\ j.then = "none" /\ j.about = about
    BY <1>1, <2>1, <2>2, SubmitJobTells
  <2>4. op # "none"
    BY <1>3 DEF Commands
  <2> HIDE DEF j
  <2>5. JobShape(j)
    BY <1>3, <2>2, <2>3, <2>4 DEF JobShape, Proposal
  <2> QED BY <1>3, <2>3, <2>5 DEF j
<1> QED BY <1>2, <1>3

LEMMA SubmitKeepsTab ==
    ASSUME TabInv, Submit, asked \in [Commands -> Nat]
    PROVE /\ TabInv'
          /\ \E op \in Asks \ {"none"}, j \in Jobs :
                /\ store' = Binding(j) /\ j.op = op /\ JobShape(j)
                /\ asked' = [o \in Commands |-> IF o \in Sent(op) /\ SavedKeys(o, j) = {}
                                                THEN asked[o] + 1 ELSE asked[o]]
<1>1. /\ job = NoJob /\ view.is = "show" /\ UNCHANGED <<jar, view>>
  BY DEF Submit, Idle
<1>2. PICK op \in Offered(view.phase), kind \in Kinds :
          LET j == Submission(op, kind) IN
          /\ asked' = [o \in Commands |-> IF o \in Sent(op) /\ SavedKeys(o, j) = {}
                                          THEN asked[o] + 1 ELSE asked[o]]
          /\ BeginCommand(j)
  BY DEF Submit
<1> DEFINE j == Submission(op, kind)
<1>3. op \in Commands \cup {"proposal"} /\ view.phase \notin ActivePhases
  BY DEF Offered, Commands, ActivePhases, Verdicts
<1>4. /\ asked' = [o \in Commands |-> IF o \in Sent(op) /\ SavedKeys(o, j) = {}
                                          THEN asked[o] + 1 ELSE asked[o]]
      /\ BeginCommand(j)
  BY <1>2
<1>6. op \in Asks
  BY <1>3 DEF Asks
<1>7. /\ j \in Jobs /\ JobShape(j) /\ j.do = "submit" /\ j.at = "none" /\ j.op = op
      /\ j.then = "none" /\ (op # "proposal" => j.target = store.role)
  BY <1>3, SubmissionTells
<1> HIDE DEF j
<1>9. store.pending = "none" /\ ~store.retry
  BY <1>1, StartingRecords DEF TabInv, RoleKept, RetryBound
<1>10. TabInv' /\ store' = Binding(j)
  BY <1>1, <1>3, <1>4, <1>7, <1>9, BeginCommandKeeps
<1>11. op \in Asks \ {"none"}
  BY <1>3, <1>6 DEF Commands
<1> QED BY <1>4, <1>7, <1>10, <1>11

LEMMA RetryKeepsTab ==
    ASSUME TabInv, Retry, asked \in [Commands -> Nat]
    PROVE /\ TabInv'
          /\ \/ store' = store
             \/ again.do = "submit" /\ store' = Binding(again)
<1>1. job = NoJob /\ view.is = "failed" /\ UNCHANGED <<jar, view>>
  BY DEF Retry, Idle
<1>2. again \in Jobs /\ JobShape(again) /\ CommandBound(store, again) /\ store \in Stores
      /\ OneRetryKey(store)
  BY DEF TabInv, TabTypes
<1>3. store.retry => again.do = "none" \/ again.op = "retry-task"
  BY <1>1, StartingRecords DEF TabInv, RetryBound
<1>4. CASE again.do = "submit"
  <2>1. BeginCommand(again)
    BY <1>4 DEF Retry
  <2>2. again.op \in Commands \cup {"proposal"}
    BY <1>2, <1>4 DEF JobShape, Jobs, Asks
  <2>3. again.op # "proposal" => again.target = store.role /\ store.pending = "none"
    BY <1>4 DEF TabInv, Repeats
  <2>4. again.at = "send" => again.op \in Commands
    BY <1>2 DEF CommandBound
  <2> QED BY <1>1, <1>2, <1>3, <1>4, <2>1, <2>2, <2>3, <2>4, BeginCommandKeeps
<1>5. CASE again.do = "switch"
  <2> DEFINE u == SwitchFrom(store, again)
  <2>1. job' = u /\ UNCHANGED <<store, again>>
    BY <1>5 DEF Retry
  <2>2. /\ u \in Jobs /\ JobShape(u) /\ CommandBound(store, u)
        /\ u.do = "switch" /\ u.op = again.op /\ u.then = again.then /\ u.target = again.target
        /\ u.at \in {"status", "check", "revoke"}
        /\ u.at = "status" => store.role = again.target
    <3>1. \/ again.op = "none" /\ again.then = "none" /\ again.about = "none"
          \/ /\ again.op = "proposal" /\ again.then = "proposal" /\ again.target \in Participants
             /\ \A op \in Sent(again.op) : Binds(store, op, again)
      BY <1>2, <1>5 DEF JobShape, CommandBound, Jobs, Verdicts
    <3> QED BY <1>2, <3>1, SwitchStarts
  <2> HIDE DEF u
  <2>3. ~store.retry
    BY <1>2, <1>3, <1>5 DEF JobShape
  <2>4. TabTypes' /\ OneRetryKey(store)' /\ JobShape(job)' /\ JobShape(again)'
           /\ CommandBound(store, job)' /\ CommandBound(store, again)'
    BY <1>1, <1>2, <2>1, <2>2 DEF TabTypes, TabInv, OneRetryKey
  <2>5. RoleKept' /\ Repeats' /\ CookieFits' /\ RetryBound'
    BY <1>1, <1>5, <2>1, <2>2, <2>3 DEF TabInv, RoleKept, Repeats, CookieFits, RetryBound, Early
  <2> QED BY <2>1, <2>4, <2>5 DEF TabInv
<1>6. CASE again.do = "none"
  <2> DEFINE u == Recovery(store)
  <2>1. job' = u /\ store' = store /\ again' = IF u.do = "switch" THEN u ELSE again
    BY <1>6 DEF Retry
  <2>2. /\ u \in Jobs /\ JobShape(u) /\ CommandBound(store, u) /\ u.do # "none" /\ u.then = "none"
        /\ u.do \in {"connect", "switch", "recover"}
        /\ u.do = "connect" => u.at = "bootstrap" /\ store = NoStore
        /\ u.do = "recover" => u.target = store.role /\ store.pending = "none" /\ u.at \notin Early
        /\ u.do = "recover" /\ store.retry => u.op = "retry-task"
        /\ u.do = "switch" /\ u.at \notin Early => u.target = store.role
        /\ store.pending = "none" => u.do \in {"connect", "recover"}
    BY <1>2, RecoveryStarts DEF TabInv, RetryBound
  <2> HIDE DEF u
  <2>3. TabTypes' /\ OneRetryKey(store)' /\ JobShape(job)' /\ JobShape(again)'
           /\ CommandBound(store, job)' /\ CommandBound(store, again)'
    BY <1>1, <1>2, <2>1, <2>2 DEF TabTypes, TabInv, OneRetryKey
  <2>4. RoleKept' /\ CookieFits'
    BY <1>1, <2>1, <2>2 DEF TabInv, RoleKept, CookieFits, Early
  <2>5. Repeats' /\ RetryBound'
    BY <1>1, <1>6, <2>1, <2>2, StartingRecords DEF TabInv, Repeats, RetryBound
  <2> QED BY <2>1, <2>3, <2>4, <2>5 DEF TabInv
<1> QED BY <1>4, <1>5, <1>6 DEF TabInv, Repeats

(* The stream of the task on display, and the cookie taken by others.       *)
LEMMA DeliverKeepsTab ==
    ASSUME TabInv, DeliverEvent
    PROVE TabInv' /\ store' = store
<1>1. /\ UNCHANGED <<jar, store, view, again>>
      /\ view.is = "show" /\ view.phase \in ActivePhases
      /\ job' = job \/ (job = NoJob /\ job' = Refresh)
  BY DEF DeliverEvent, Streaming
<1>2. CASE job' = job
  BY <1>1, <1>2 DEF TabInv, TabTypes, RoleKept, Repeats, CookieFits, RetryBound, OneRetryKey, CommandBound, Binds
<1>3. CASE job = NoJob /\ job' = Refresh
  <2>1. store.pending = "none" /\ store.role = "advisor" /\ ~store.retry
    BY <1>1, <1>3, StartingRecords DEF TabInv, RoleKept, RetryBound
  <2>2. TabTypes' /\ OneRetryKey(store)'
    BY <1>1, <1>3, RefreshJobs DEF TabTypes, TabInv, OneRetryKey
  <2>3. JobShape(job)' /\ JobShape(again)' /\ CommandBound(store, job)' /\ CommandBound(store, again)'
    BY <1>1, <1>3, RefreshJobs DEF TabInv, CommandBound, Binds, JobShape, Proposal
  <2>4. RoleKept' /\ Repeats' /\ CookieFits' /\ RetryBound'
    BY <1>1, <1>3, <2>1, RefreshJobs DEF TabInv, RoleKept, Repeats, CookieFits, RetryBound, Early
  <2> QED BY <1>1, <2>2, <2>3, <2>4 DEF TabInv
<1> QED BY <1>1, <1>2, <1>3

LEMMA UnbootedJob == ASSUME NEW j \in Jobs, j.boot = FALSE PROVE [j EXCEPT !.boot = FALSE] = j
BY DEF Jobs

LEMMA RivalKeepsTab ==
    ASSUME TabInv, Rival
    PROVE TabInv' /\ store'.keys = store.keys
<1>0. /\ view' = view /\ again' = again
      /\ store' = [store EXCEPT !.fits = FALSE] /\ job' = [job EXCEPT !.boot = FALSE]
      /\ \/ jar' = NoSession
         \/ \E role \in TabRoles : jar' = [role |-> role, live |-> TRUE, rival |-> TRUE]
  BY DEF Rival, TabRoles
<1>1. jar' \in Sessions /\ (jar'.live => jar'.rival)
  <2>1. CASE jar' = NoSession
    BY <2>1, StartingRecords
  <2>2. ASSUME NEW role \in TabRoles, jar' = [role |-> role, live |-> TRUE, rival |-> TRUE]
        PROVE  jar' \in Sessions /\ jar'.rival
    BY <2>2 DEF Sessions
  <2> QED BY <1>0, <2>1, <2>2
<1>2. /\ store' \in Stores /\ store'.keys = store.keys /\ store'.fits = FALSE /\ store'.role = store.role
      /\ store'.pending = store.pending /\ store'.retry = store.retry
  BY <1>0 DEF TabInv, TabTypes, Stores
<1>3. /\ job' \in Jobs /\ job'.do = job.do /\ job'.at = job.at /\ job'.op = job.op
      /\ job'.target = job.target /\ job'.round = job.round /\ job'.about = job.about /\ job'.then = job.then
  BY <1>0 DEF TabInv, TabTypes, Jobs
<1>4. job = NoJob => job' = NoJob
  <2>1. NoJob.boot = FALSE
    BY DEF NoJob
  <2> QED BY <1>0, <2>1, StartingRecords, UnbootedJob
<1>5. TabTypes' /\ OneRetryKey(store)'
  BY <1>0, <1>1, <1>2, <1>3 DEF TabTypes, TabInv, OneRetryKey
<1>6. JobShape(job)' /\ JobShape(again)' /\ CommandBound(store, job)' /\ CommandBound(store, again)'
  BY <1>0, <1>1, <1>2, <1>3, <1>4 DEF TabInv, CommandBound, Binds, JobShape
<1>7. RoleKept' /\ Repeats' /\ CookieFits'
  BY <1>0, <1>1, <1>2, <1>3 DEF TabInv, RoleKept, Repeats, CookieFits
<1>8. RetryBound'
  BY <1>0, <1>1, <1>2, <1>3, <1>4 DEF TabInv, RetryBound
<1> QED BY <1>2, <1>5, <1>6, <1>7, <1>8 DEF TabInv

LEMMA ExpireKeepsTab ==
    ASSUME TabInv, UNCHANGED <<store, view, job, again>>, jar' = [jar EXCEPT !.live = FALSE]
    PROVE TabInv'
<1>1. jar' \in Sessions /\ jar'.live = FALSE
  BY DEF TabInv, TabTypes, Sessions
<1> QED BY <1>1 DEF TabInv, TabTypes, RoleKept, Repeats, CookieFits, RetryBound, OneRetryKey, CommandBound, Binds

LEMMA QuietKeepsTab ==
    ASSUME TabInv, UNCHANGED <<jar, store, view, job, again>>
    PROVE TabInv'
BY DEF TabInv, TabTypes, RoleKept, Repeats, CookieFits, RetryBound, OneRetryKey, CommandBound, Binds

(* The server's side: what is committed, and under which key.               *)
SessionTypes == /\ case \in JourneyCases /\ stream \in Streams /\ asked \in [Commands -> Nat]
                /\ late \subseteq Requests /\ records \subseteq CommandRecords
KeysAsked ==
    /\ \A k \in store.keys : k.key < asked[k.op]
    /\ \A q \in late \cup records : q.key < asked[q.op] /\ q.by = q.as
RecordsDiffer == \A r, q \in records : r.op = q.op /\ r.key = q.key => r = q
JourneyInv == TabInv /\ SessionTypes /\ KeysAsked /\ RecordsDiffer

LEMMA StartsTyped ==
    ASSUME NEW session \in Sessions, StartsWith(session)
    PROVE  JourneyInv
<1>1. /\ store = NoStore /\ job = NoJob /\ again = NoJob /\ jar = session
      /\ view = Screen("start", "none") /\ records = {} /\ late = {} /\ stream = NoStream
  BY DEF StartsWith
<1>2. view \in Screens /\ view.is = "start"
  BY <1>1 DEF Screen, Screens, Subjects, TabRoles
<1>3. TabInv
  BY <1>1, <1>2, StartingRecords DEF TabInv, TabTypes, RoleKept, Repeats, CookieFits, RetryBound, OneRetryKey
<1>4. case \in JourneyCases /\ asked \in [Commands -> Nat]
  BY DEF StartsWith, JourneyCases, Phases
<1> QED BY <1>1, <1>3, <1>4, StartingRecords DEF JourneyInv, SessionTypes, KeysAsked, RecordsDiffer

LEMMA TaskTyped ==
    ASSUME case \in JourneyCases
    PROVE  NewTask \in JourneyCases /\ [NewTask EXCEPT !.round = @ + 1] \in JourneyCases
<1> DEFINE p == IF case.rev = 1 THEN "active_task" ELSE "revision_task_active"
           n == NewTask
<1>1. p \in Phases \ {"revision_fact_pending"}
  BY DEF Phases
<1>2. n = [case EXCEPT !.log = 1, !.phase = p]
  BY DEF NewTask
<1> HIDE DEF p, n
<1>3. n \in JourneyCases
  BY <1>1, <1>2 DEF JourneyCases
<1>4. [n EXCEPT !.round = @ + 1] \in JourneyCases
  BY <1>3 DEF JourneyCases
<1> QED BY <1>3, <1>4 DEF n

LEMMA AfterTyped ==
    ASSUME case \in JourneyCases, NEW q \in Requests, Current(q)
    PROVE  After(q) \in JourneyCases
<1>1. q.op \in Commands
  BY DEF Requests
<1>2. CASE q.op \in {"create-task", "retry-task"}
  BY <1>2, TaskTyped DEF After
<1>3. CASE q.op = "request-revision"
  BY <1>3 DEF After, JourneyCases, Phases
<1>4. CASE q.op = "new-review"
  BY <1>4 DEF After, JourneyCases, Phases
<1>5. CASE q.op = "message"
  BY <1>5 DEF After
<1>6. CASE q.op = "candidate"
  <2>1. After(q) = [case EXCEPT !.open = [case.open EXCEPT ![q.about] = case.open[q.about] + 1]]
    BY <1>6 DEF After, JourneyCases
  <2>2. [case.open EXCEPT ![q.about] = case.open[q.about] + 1] \in [Kinds -> Nat]
    <3>1. case.open \in [Kinds -> Nat]
      BY DEF JourneyCases
    <3>2. \A k \in Kinds : case.open[k] + 1 \in Nat
      BY <3>1
    <3> QED BY <3>1, <3>2
  <2> QED BY <2>1, <2>2 DEF JourneyCases
<1>7. CASE q.op = "confirm"
  <2> DEFINE none == [k \in Kinds |-> 0]
             c == After(q)
  <2>0. none \in [Kinds -> Nat]
    OBVIOUS
  <2> HIDE DEF none
  <2>1. c = [case EXCEPT !.phase = "replan_required", !.rev = 2, !.round = case.round + 1, !.open = none]
    BY <1>7 DEF After, none
  <2>2. "replan_required" \in Phases \ {"revision_fact_pending"} /\ case.round + 1 \in Nat
    BY DEF Phases, JourneyCases
  <2> HIDE DEF c
  <2>5. c \in JourneyCases
    BY <2>0, <2>1, <2>2 DEF JourneyCases
  <2> QED BY <2>5 DEF c
<1>8. CASE q.op = "reject"
  <2>1. q.about \in Kinds /\ case.open[q.about] > 0
    BY <1>8 DEF Current, Verdicts, Proposal
  <2> DEFINE open == [case.open EXCEPT ![q.about] = case.open[q.about] - 1]
  <2>2. open \in [Kinds -> Nat]
    BY <2>1 DEF JourneyCases
  <2>3. After(q) = [case EXCEPT !.round = case.round + 1, !.open = open]
    BY <1>8 DEF After, JourneyCases
  <2>4. case.round + 1 \in Nat
    BY DEF JourneyCases
  <2> HIDE DEF open
  <2> QED BY <2>2, <2>3, <2>4 DEF JourneyCases
<1>9. CASE q.op = "family-decision"
  BY <1>9 DEF After, JourneyCases, Phases
<1> QED BY <1>1, <1>2, <1>3, <1>4, <1>5, <1>6, <1>7, <1>8, <1>9 DEF Commands

(* A request carries a key the person asked for, and the role of the tab.   *)
LEMMA RequestBound ==
    ASSUME JourneyInv, AtSend, Authorised
    PROVE  Request \in Requests /\ Request.key < asked[Request.op] /\ Request.by = Request.as
<1> DEFINE op == IF job.at = "send" THEN job.op ELSE job.at
<1>1. job \in Jobs /\ store \in Stores /\ jar \in Sessions /\ asked \in [Commands -> Nat]
      /\ JobShape(job) /\ CommandBound(store, job)
  BY DEF JourneyInv, TabInv, TabTypes, SessionTypes
<1>2. op \in Commands /\ Binds(store, op, job)
  <2>1. CASE job.at = "send"
    BY <1>1, <2>1 DEF CommandBound
  <2>2. CASE job.at \in Proposal
    <3>1. job.do = "submit" /\ job.op = "proposal"
      BY <1>1, <2>2 DEF JobShape
    <3>2. job.at \in Sent(job.op) /\ op = job.at
      BY <2>2, <3>1 DEF Sent, Proposal
    <3> QED BY <1>1, <2>2, <3>1, <3>2 DEF CommandBound, Commands, Proposal
  <2> QED BY <2>1, <2>2 DEF AtSend
<1> HIDE DEF op
<1>3. PICK k \in store.keys : k.op = op /\ k.key = KeyOf(op, job)
  BY <1>1, <1>2, KeyTells
<1>4. KeyOf(op, job) \in Nat /\ KeyOf(op, job) < asked[op]
  BY <1>1, <1>2, <1>3, KeyTells DEF JourneyInv, KeysAsked
<1>5. jar.role = store.role
  BY DEF JourneyInv, TabInv, CookieFits, Authorised, SignedOn
<1>6. Request = [op |-> op, key |-> KeyOf(op, job), round |-> job.round, about |-> job.about,
               as |-> store.role, by |-> jar.role]
  BY DEF Request, op
<1> QED BY <1>1, <1>2, <1>4, <1>5, <1>6 DEF Requests, Jobs, Stores, Sessions

(* Nothing is committed but what the tab asked for and nobody has recorded. *)
Underway == late \cup (IF AtSend /\ Authorised THEN {Request} ELSE {})
LEMMA ServerKeeps ==
    ASSUME JourneyInv, asked' = asked, store'.keys \subseteq store.keys, late' \subseteq Underway,
           stream' \in Streams,
           \/ ServerQuiet
           \/ \E q \in Underway : Accepted(q) /\ Commit(q)
    PROVE  SessionTypes' /\ KeysAsked' /\ RecordsDiffer'
<1>1. \A q \in Underway : q \in Requests /\ q.key < asked[q.op] /\ q.by = q.as
  BY RequestBound DEF Underway, JourneyInv, SessionTypes, KeysAsked
<1>2. CASE ServerQuiet
  BY <1>1, <1>2 DEF ServerQuiet, JourneyInv, SessionTypes, KeysAsked, RecordsDiffer
<1>3. ASSUME NEW q \in Underway, Accepted(q), Commit(q)
      PROVE  SessionTypes' /\ KeysAsked' /\ RecordsDiffer'
  <2> DEFINE r == [op |-> q.op, key |-> q.key, by |-> q.by, as |-> q.as]
  <2>1. case' = After(q) /\ records' = records \cup {r}
    BY <1>3 DEF Commit
  <2>2. case' \in JourneyCases
    BY <1>1, <1>3, <2>1, AfterTyped DEF Accepted, JourneyInv, SessionTypes
  <2>3. r \in CommandRecords /\ r.op = q.op /\ r.key = q.key /\ r.by = q.by /\ r.as = q.as
    BY <1>1 DEF CommandRecords, Requests
  <2> HIDE DEF r
  <2>4. \A x \in records : ~(x.op = r.op /\ x.key = r.key)
    BY <1>3, <2>3 DEF Accepted, Known
  <2>5. SessionTypes'
    BY <1>1, <2>1, <2>2, <2>3 DEF JourneyInv, SessionTypes
  <2>6. KeysAsked'
    BY <1>1, <2>1, <2>3 DEF JourneyInv, KeysAsked
  <2>7. RecordsDiffer'
    BY <2>1, <2>4 DEF JourneyInv, RecordsDiffer
  <2> QED BY <2>5, <2>6, <2>7
<1> QED BY <1>2, <1>3

(* Saving a command counts what is asked for the first time.                *)
LEMMA BindingKeeps ==
    ASSUME JourneyInv, NEW j \in Jobs, j.op \in Commands \cup {"proposal"}, JobShape(j),
           store' = Binding(j),
           ServerQuiet, UNCHANGED <<late, stream>>,
           \/ asked' = [o \in Commands |-> IF o \in Sent(j.op) /\ SavedKeys(o, j) = {}
                                           THEN asked[o] + 1 ELSE asked[o]]
           \/ asked' = asked /\ \A o \in Sent(j.op) : Binds(store, o, j)
    PROVE  SessionTypes' /\ KeysAsked' /\ RecordsDiffer'
<1>1. store \in Stores /\ asked \in [Commands -> Nat] /\ OneRetryKey(store)
  BY DEF JourneyInv, TabInv, TabTypes, SessionTypes
<1>2. /\ asked' \in [Commands -> Nat]
      /\ \A o \in Commands : asked[o] <= asked'[o]
  BY <1>1
<1>3. \A o \in Sent(j.op) : o \in Commands /\ KeyOf(o, j) \in Nat /\ KeyOf(o, j) < asked'[o]
  <2> SUFFICES ASSUME NEW o \in Sent(j.op)
               PROVE  o \in Commands /\ KeyOf(o, j) \in Nat /\ KeyOf(o, j) < asked'[o]
    OBVIOUS
  <2>1. o \in Commands
    BY SentCommands
  <2>2. CASE SavedKeys(o, j) = {}
    <3>1. KeyOf(o, j) = asked[o] /\ ~Binds(store, o, j)
      BY <1>1, <2>1, <2>2, KeyTells
    <3> QED BY <1>1, <2>1, <2>2, <3>1
  <2>3. CASE SavedKeys(o, j) # {}
    <3>1. PICK k \in store.keys : k.op = o /\ k.key = KeyOf(o, j)
      BY <1>1, <2>1, <2>3, KeyTells
    <3>2. KeyOf(o, j) < asked[o] /\ KeyOf(o, j) \in Nat
      BY <1>1, <2>1, <3>1, KeyTells DEF JourneyInv, KeysAsked
    <3> QED BY <1>1, <1>2, <2>1, <3>2
  <2> QED BY <2>2, <2>3
<1>4. store'.keys = {k \in store.keys : k.op \notin Slot(j.op)} \cup {NewKey(op, j) : op \in Sent(j.op)}
  BY <1>1, BindingTells
<1>5. \A q \in late \cup records : q.op \in Commands /\ q.key \in Nat /\ q.key < asked'[q.op] /\ q.by = q.as
  BY <1>1, <1>2 DEF JourneyInv, KeysAsked, SessionTypes, Requests, CommandRecords
<1>6. \A k \in store'.keys : k.key < asked'[k.op]
  <2>1. \A k \in store.keys : k.op \in Commands /\ k.key \in Nat /\ k.key < asked'[k.op]
    BY <1>1, <1>2 DEF JourneyInv, KeysAsked, Stores, SavedKinds
  <2>2. \A o \in Sent(j.op) : NewKey(o, j).key < asked'[NewKey(o, j).op]
    BY <1>3 DEF NewKey
  <2> QED BY <1>4, <2>1, <2>2
<1> QED BY <1>2, <1>5, <1>6 DEF JourneyInv, SessionTypes, KeysAsked, RecordsDiffer, ServerQuiet

(* The stream of a failing, restarting or loading page.                     *)
LEMMA FollowTyped == ASSUME NEW s \in Stores PROVE Follow(s) \in Streams
<1>1. Follow(s) = NoStream \/ Follow(s) = [NoStream EXCEPT !.is = "cut", !.cursor = s.cursor, !.sent = s.cursor]
  BY DEF Follow
<1>2. s.cursor \in Nat
  BY DEF Stores
<1> QED BY <1>1, <1>2, StartingRecords DEF Streams

LEMMA FailStream == ASSUME NEW code, Fail(code) PROVE stream' \in {stream, NoStream}
BY DEF Fail, ShowFailure

LEMMA QuietStreams ==
    ASSUME JourneyInv, stream' \in {stream, NoStream}
    PROVE  stream' \in Streams
BY StartingRecords DEF JourneyInv, SessionTypes

(* One lemma per kind of step.                                              *)
LEMMA TabStepKeeps ==
    ASSUME JourneyInv, TabStep
    PROVE  JourneyInv'
<1>0. TabInv /\ case \in JourneyCases /\ stream \in Streams /\ store \in Stores
  BY DEF JourneyInv, SessionTypes, TabInv, TabTypes
<1>1. TabInv' /\ store'.keys \subseteq store.keys
  BY <1>0, RevokeKeeps, BootstrapKeeps, MintKeeps, CheckRoleKeeps, ReadStatusKeeps, ReadDetailKeeps,
     ReadRefreshedKeeps, RefreshedKeeps, AuthorityKeeps, SendKeepsTab DEF TabStep
<1>2. late' = late /\ asked' = asked
  BY DEF TabStep, Revoke, Bootstrap, Mint, CheckRole, ReadStatus, ReadDetail, ReadRefreshed,
     Refreshed, Authority, Send
<1>3. stream' \in Streams
  <2>1. CASE \E code : Fail(code)
    BY <2>1, FailStream, QuietStreams
  <2>2. CASE ~\E code : Fail(code)
    <3>1. ASSUME ReadDetail PROVE stream' \in Streams
      <4>1. Loaded /\ job.at = "detail"
        BY <2>2, <3>1 DEF ReadDetail, ReadRefused, At
      <4>2. Metadata \in Stores
        BY <1>0, <4>1, MetadataTells
      <4> QED BY <4>1, <4>2, FollowTyped DEF Loaded
    <3>2. ASSUME Refreshed PROVE stream' \in Streams
      BY <1>0, <3>2, StartingRecords DEF Refreshed, Streams
    <3>3. CASE Revoke \/ Bootstrap \/ Mint \/ CheckRole
      BY <1>0, <2>2, <3>3 DEF Revoke, Bootstrap, Mint, CheckRole, TabQuiet, ReadRefused
    <3>4. CASE ReadStatus
      BY <1>0, <2>2, <3>4, StartingRecords DEF ReadStatus, TabQuiet, ReadRefused
    <3>5. CASE ReadRefreshed \/ Authority \/ Send
      BY <1>0, <2>2, <3>5 DEF ReadRefreshed, Authority, Send, TabQuiet, ReadRefused, Answered
    <3> QED BY <3>1, <3>2, <3>3, <3>4, <3>5 DEF TabStep
  <2> QED BY <2>1, <2>2
<1>4. ServerQuiet \/ \E q \in Underway : Accepted(q) /\ Commit(q)
  <2>1. CASE Send
    <3>1. ServerQuiet \/ (AtSend /\ Authorised /\ Accepted(Request) /\ Commit(Request))
      BY <2>1 DEF Send
    <3> QED BY <3>1 DEF Underway
  <2>2. CASE ~Send
    BY <2>2 DEF TabStep, Revoke, Bootstrap, Mint, CheckRole, ReadStatus, ReadDetail, ReadRefreshed,
       Refreshed, Authority
  <2> QED BY <2>1, <2>2
<1>5. late' \subseteq Underway
  BY <1>2 DEF Underway
<1> QED BY <1>1, <1>2, <1>3, <1>4, <1>5, ServerKeeps DEF JourneyInv

LEMMA StreamStepKeeps ==
    ASSUME JourneyInv, StreamStep
    PROVE  JourneyInv'
<1>0. TabInv /\ case \in JourneyCases /\ stream \in Streams /\ store \in Stores
  BY DEF JourneyInv, SessionTypes, TabInv, TabTypes
<1>1. /\ UNCHANGED <<case, jar, records, late, store, view, again, asked>>
      /\ DeliverEvent \/ job' = job
  BY DEF StreamStep, OpenStream, NextPage, EndStream, DeliverEvent
<1>2. TabInv'
  BY <1>0, <1>1, DeliverKeepsTab, QuietKeepsTab
<1>3. stream' \in Streams
  <2>1. \A s \in Streams : ReadPage(s) \in Streams
    BY <1>0 DEF ReadPage, Streams, JourneyCases, Working
  <2>2. [stream EXCEPT !.sent = stream.cursor] \in Streams
    BY <1>0 DEF Streams
  <2>3. CASE OpenStream
    BY <1>0, <2>1, <2>2, <2>3 DEF OpenStream, Streams
  <2>4. CASE NextPage
    BY <1>0, <2>1, <2>4 DEF NextPage
  <2>5. CASE EndStream
    BY <1>0, <2>5 DEF EndStream, Streams
  <2>6. CASE DeliverEvent
    <3>1. Pending \in BOOLEAN /\ stream.sent + 1 \in Nat
      BY <1>0 DEF Pending, Streams
    <3>2. stream' = [stream EXCEPT !.sent = stream.sent + 1, !.cursor = stream.sent + 1, !.wake = Pending]
      BY <2>6 DEF DeliverEvent
    <3> QED BY <1>0, <3>1, <3>2 DEF Streams
  <2> QED BY <2>3, <2>4, <2>5, <2>6 DEF StreamStep
<1>4. store'.keys \subseteq store.keys /\ late' \subseteq Underway /\ ServerQuiet /\ asked' = asked
  BY <1>1 DEF ServerQuiet, Underway
<1> QED BY <1>2, <1>3, <1>4, ServerKeeps DEF JourneyInv

LEMMA ClickKeeps ==
    ASSUME JourneyInv, Click
    PROVE  JourneyInv'
<1>0. TabInv /\ asked \in [Commands -> Nat] /\ store \in Stores /\ again \in Jobs
  BY DEF JourneyInv, SessionTypes, TabInv, TabTypes
<1>1. ServerQuiet /\ late' = late /\ stream' = stream
  BY DEF Click, Connect, Rotate, Submit, Retry, Idle, TabQuiet, Begin
<1>2. late' \subseteq Underway /\ stream' \in Streams
  BY <1>1 DEF Underway, JourneyInv, SessionTypes
<1>3. CASE Connect
  <2>1. asked' = asked /\ TabInv' /\ store' = store
    BY <1>0, <1>3, ConnectKeeps DEF Connect
  <2> QED BY <1>1, <1>2, <2>1, ServerKeeps DEF JourneyInv
<1>4. CASE Rotate
  <2>1. asked' = asked /\ TabInv' /\ store' = store
    BY <1>0, <1>4, RotateKeeps DEF Rotate, Begin
  <2> QED BY <1>1, <1>2, <2>1, ServerKeeps DEF JourneyInv
<1>5. CASE Submit
  <2>1. TabInv'
    BY <1>0, <1>5, SubmitKeepsTab
  <2>2. PICK op \in Asks \ {"none"}, j \in Jobs :
                /\ store' = Binding(j) /\ j.op = op /\ JobShape(j)
                /\ asked' = [o \in Commands |-> IF o \in Sent(op) /\ SavedKeys(o, j) = {}
                                                THEN asked[o] + 1 ELSE asked[o]]
    BY <1>0, <1>5, SubmitKeepsTab
  <2>3. j.op \in Commands \cup {"proposal"}
    BY <2>2 DEF Asks
  <2>4. asked' = [o \in Commands |-> IF o \in Sent(j.op) /\ SavedKeys(o, j) = {}
                                     THEN asked[o] + 1 ELSE asked[o]]
    BY <2>2
  <2> QED BY <1>1, <2>1, <2>2, <2>3, <2>4, BindingKeeps DEF JourneyInv
<1>6. CASE Retry
  <2>1. asked' = asked /\ TabInv'
    BY <1>0, <1>6, RetryKeepsTab DEF Retry
  <2>2. CASE store' = store
    BY <1>1, <1>2, <2>1, <2>2, ServerKeeps DEF JourneyInv
  <2>3. CASE again.do = "submit" /\ store' = Binding(again)
    <3>1. \A o \in Sent(again.op) : Binds(store, o, again)
      BY <1>0, <2>3 DEF TabInv, CommandBound
    <3>2. again.op \in Commands \cup {"proposal"}
      BY <1>0, <2>3 DEF TabInv, JobShape, Jobs, Asks
    <3>3. again \in Jobs /\ JobShape(again)
      BY <1>0 DEF TabInv, TabTypes
    <3> QED BY <1>1, <2>1, <2>3, <3>1, <3>2, <3>3, BindingKeeps DEF JourneyInv
  <2> QED BY <1>0, <1>6, <2>2, <2>3, RetryKeepsTab
<1> QED BY <1>3, <1>4, <1>5, <1>6 DEF Click

LEMMA ReloadKeeps ==
    ASSUME JourneyInv, Reload
    PROVE  JourneyInv'
<1>1. TabInv' /\ store' = store
  BY ReloadKeepsTab DEF JourneyInv
<1>2. /\ stream' \in Streams /\ ServerQuiet /\ asked' = asked
  BY StartingRecords DEF Reload, Restart
<1>3. late' \subseteq Underway
  BY DEF Reload, Underway
<1> QED BY <1>1, <1>2, <1>3, ServerKeeps DEF JourneyInv

LEMMA WorkerKeeps ==
    ASSUME JourneyInv, Progress \/ Settle
    PROVE  JourneyInv'
<1>1. UNCHANGED <<jar, records, late, store, view, job, again, stream, asked>>
  BY DEF Progress, Settle
<1>2. TabInv'
  BY <1>1, QuietKeepsTab DEF JourneyInv
<1>3. case' \in JourneyCases
  <2>1. case \in JourneyCases /\ case.log + 1 \in Nat
    BY DEF JourneyInv, SessionTypes, JourneyCases
  <2>2. CASE Progress
    BY <2>1, <2>2 DEF Progress, JourneyCases
  <2>3. ASSUME Settle PROVE case' \in JourneyCases
    <3>1. \E p \in {"review_required", "revision_review_required", "terminal_task_failure"} :
              case' = [case EXCEPT !.log = @ + 1, !.phase = p]
      BY <2>3 DEF Settle
    <3> QED BY <2>1, <3>1 DEF JourneyCases, Phases
  <2> QED BY <2>2, <2>3
<1> QED BY <1>1, <1>2, <1>3 DEF JourneyInv, SessionTypes, KeysAsked, RecordsDiffer

LEMMA FaultKeeps ==
    ASSUME JourneyInv, Fault
    PROVE  JourneyInv'
<1>0. TabInv /\ case \in JourneyCases /\ stream \in Streams /\ store \in Stores /\ jar \in Sessions
  BY DEF JourneyInv, SessionTypes, TabInv, TabTypes
<1>1. CASE LoseRequest
  <2>1. TabInv' /\ store'.keys \subseteq store.keys
    BY <1>0, <1>1, SameJarFails DEF LoseRequest
  <2>2. stream' \in Streams
    BY <1>1, FailStream, QuietStreams DEF LoseRequest
  <2>3. ServerQuiet /\ asked' = asked /\ late' \subseteq Underway
    BY <1>1 DEF LoseRequest, Underway
  <2> QED BY <2>1, <2>2, <2>3, ServerKeeps DEF JourneyInv
<1>2. CASE LoseAnswer
  <2>1. JarLess
    BY <1>0, <1>2 DEF LoseAnswer, JarLess, Sessions
  <2>2. TabInv' /\ store'.keys \subseteq store.keys
    BY <1>0, <1>2, <2>1, FailKeeps DEF LoseAnswer
  <2>3. stream' \in Streams
    BY <1>2, FailStream, QuietStreams DEF LoseAnswer
  <2>4. asked' = asked /\ late' \subseteq Underway
    BY <1>2 DEF LoseAnswer, Underway
  <2>5. ServerQuiet \/ \E q \in Underway : Accepted(q) /\ Commit(q)
    BY <1>2 DEF LoseAnswer, Underway
  <2> QED BY <2>2, <2>3, <2>4, <2>5, ServerKeeps DEF JourneyInv
<1>3. CASE GoneAfterMint
  <2>1. TabInv' /\ store'.keys \subseteq store.keys
    BY <1>0, <1>3, GoneKeepsTab
  <2>2. stream' \in Streams /\ ServerQuiet /\ asked' = asked /\ late' \subseteq Underway
    BY <1>3, StartingRecords DEF GoneAfterMint, Restart, Underway
  <2> QED BY <2>1, <2>2, ServerKeeps DEF JourneyInv
<1>4. CASE Rival
  <2>1. TabInv' /\ store'.keys \subseteq store.keys
    BY <1>0, <1>4, RivalKeepsTab
  <2>2. stream' \in Streams /\ ServerQuiet /\ asked' = asked /\ late' \subseteq Underway
    BY <1>0, <1>4 DEF Rival, Underway, ServerQuiet
  <2> QED BY <2>1, <2>2, ServerKeeps DEF JourneyInv
<1>5. CASE BreakStream
  <2>1. UNCHANGED <<case, jar, records, late, store, view, job, again, asked>>
    BY <1>5 DEF BreakStream
  <2>2. TabInv'
    BY <1>0, <2>1, QuietKeepsTab
  <2>3. stream' \in Streams
    BY <1>0, <1>5 DEF BreakStream, Streams
  <2> QED BY <2>1, <2>2, <2>3, ServerKeeps DEF JourneyInv, ServerQuiet, Underway
<1>6. CASE Expire
  <2>1. /\ UNCHANGED <<case, records, late, store, view, job, again, stream, asked>>
        /\ jar' = [jar EXCEPT !.live = FALSE]
    BY <1>6 DEF Expire
  <2>2. TabInv'
    BY <1>0, <2>1, ExpireKeepsTab
  <2> QED BY <1>0, <2>1, <2>2, ServerKeeps DEF JourneyInv, ServerQuiet, Underway
<1>7. CASE Prepare
  <2>1. TabInv' /\ store' = store
    BY <1>0, <1>7, PrepareKeeps
  <2>2. stream' \in Streams /\ ServerQuiet /\ asked' = asked /\ late' \subseteq Underway
    BY <1>0, <1>7 DEF Prepare, Begin, Idle, Underway
  <2> QED BY <2>1, <2>2, ServerKeeps DEF JourneyInv
<1>8. CASE ServeLate
  <2>1. UNCHANGED <<jar, store, view, job, again, stream, asked>>
    BY <1>8 DEF ServeLate
  <2>2. TabInv'
    BY <1>0, <2>1, QuietKeepsTab
  <2>3. late' \subseteq Underway /\ (ServerQuiet \/ \E q \in Underway : Accepted(q) /\ Commit(q))
    BY <1>8 DEF ServeLate, Underway
  <2> QED BY <1>0, <2>1, <2>2, <2>3, ServerKeeps DEF JourneyInv
<1> QED BY <1>1, <1>2, <1>3, <1>4, <1>5, <1>6, <1>7, <1>8 DEF Fault

LEMMA JourneyStepKeeps ==
    ASSUME JourneyInv, [JourneyNext]_journeyVars
    PROVE  JourneyInv'
<1>1. CASE UNCHANGED journeyVars
  <2>1. UNCHANGED <<case, jar, records, late, store, view, job, again, stream, asked>>
    BY <1>1 DEF journeyVars
  <2> QED BY <2>1, QuietKeepsTab DEF JourneyInv, SessionTypes, KeysAsked, RecordsDiffer
<1> QED BY <1>1, TabStepKeeps, StreamStepKeeps, ClickKeeps, ReloadKeeps, WorkerKeeps, FaultKeeps DEF JourneyNext

(* Distinct records of a command carry distinct keys the person asked for.  *)
LEMMA InitialSegment ==
    ASSUME NEW n \in Nat
    PROVE  IsFiniteSet(0 .. (n - 1)) /\ Cardinality(0 .. (n - 1)) = n
<1>1. 0 \in Int /\ n - 1 \in Int
  OBVIOUS
<1>2. /\ IsFiniteSet(0 .. (n - 1))
      /\ Cardinality(0 .. (n - 1)) = IF 0 > n - 1 THEN 0 ELSE (n - 1) - 0 + 1
  BY <1>1, FS_Interval
<1> QED BY <1>2

LEMMA CommittedAsAsked ==
    ASSUME JourneyInv
    PROVE  ActsAsMeant
<1>1. \A r \in records : r.by = r.as
  BY DEF JourneyInv, KeysAsked
<1>2. ASSUME NEW op \in Commands
      PROVE  Cardinality({r \in records : r.op = op}) <= asked[op]
  <2> DEFINE S == {r \in records : r.op = op}
             T == 0 .. (asked[op] - 1)
             f == [r \in S |-> r.key]
  <2>1. asked[op] \in Nat
    BY DEF JourneyInv, SessionTypes
  <2>2. \A r \in S : r.key \in Nat /\ r.key < asked[op]
    BY DEF JourneyInv, SessionTypes, KeysAsked, CommandRecords
  <2>3. \A r, q \in S : r.key = q.key => r = q
    BY DEF JourneyInv, RecordsDiffer
  <2>4. f \in Injection(S, T)
    BY <2>1, <2>2, <2>3 DEF Injection, IsInjective
  <2>5. IsFiniteSet(T) /\ Cardinality(T) = asked[op]
    BY <2>1, InitialSegment
  <2> HIDE DEF S, T, f
  <2>6. Cardinality(S) <= Cardinality(T)
    BY <2>4, <2>5, FS_Injection
  <2> QED BY <2>5, <2>6 DEF S
<1> QED BY <1>1, <1>2 DEF ActsAsMeant

(* On the page of the plan alone: no command is committed more often than   *)
(* the person asked, and none is signed by another role than the tab        *)
(* acted for.                                                               *)
THEOREM JourneyActsAsMeant == JourneySpec => []ActsAsMeant
<1>1. JourneyInit => JourneyInv
  BY StartsTyped, StartingRecords DEF JourneyInit
<1>2. JourneyInv /\ [JourneyNext]_journeyVars => JourneyInv'
  BY JourneyStepKeeps
<1>3. JourneyInv => ActsAsMeant
  BY CommittedAsAsked
<1> QED BY <1>1, <1>2, <1>3, PTL DEF JourneySpec

(* The page before the plan: it leaves the journey of the other page alone, *)
(* and hands a Case over only under the advisor's cookie.                   *)
BookShape(b) == "fits" \in DOMAIN b /\ b.fits \in BOOLEAN
CallShape(c) == "at" \in DOMAIN c
FirstPage ==
    page = "collaboration" =>
        /\ store = NoStore /\ job = NoJob /\ again = NoJob /\ view = Screen("start", "none")
        /\ records = {} /\ late = {}
        /\ call.at = "leave" /\ book.fits /\ jar.live => jar.role = "advisor"
BudgetShape == /\ BookShape(book) /\ CallShape(call) /\ CallShape(redo) /\ redo.at # "leave"
               /\ page \in {"collaboration", "demo"}
TabJourneyInv == JourneyInv /\ FirstPage /\ BudgetShape

LEMMA BlankShapes ==
    /\ BookShape(NoBook) /\ BookShape(ParentBook) /\ BookShape(LeftJourney)
    /\ CallShape(NoCall) /\ NoCall.at = "none"
    /\ \A do, at : LET c == [NoCall EXCEPT !.do = do, !.at = at] IN CallShape(c) /\ c.at = at
BY DEF BookShape, CallShape, NoBook, ParentBook, LeftJourney, NoCall

LEMMA BudgetStarts == BudgetInit => TabJourneyInv
<1> SUFFICES ASSUME BudgetInit PROVE TabJourneyInv
  OBVIOUS
<1>1. \E session \in Sessions : StartsWith(session)
  <2>1. [role |-> "advisor", live |-> TRUE, rival |-> FALSE] \in Sessions
    BY DEF Sessions, TabRoles
  <2> QED BY <2>1, StartingRecords DEF BudgetInit, JourneyInit
<1>2. JourneyInv
  BY <1>1, StartsTyped
<1>3. FirstPage
  BY <1>1, BlankShapes DEF FirstPage, StartsWith, BudgetInit
<1>4. BudgetShape
  BY BlankShapes DEF BudgetShape, BudgetInit
<1> QED BY <1>2, <1>3, <1>4 DEF TabJourneyInv

(* Where only the cookie changes and the plan page has not begun.           *)
LEMMA BudgetLeavesJourney ==
    ASSUME TabJourneyInv, page = "collaboration", page' = page, UNCHANGED demoPageVars, jar' \in Sessions,
           call'.at = "leave" /\ book'.fits /\ jar'.live => jar'.role = "advisor"
    PROVE  JourneyInv' /\ FirstPage'
<1>1. UNCHANGED <<case, records, late, store, view, job, again, stream, asked>>
  BY DEF demoPageVars
<1>2. store = NoStore /\ job = NoJob /\ again = NoJob /\ view = Screen("start", "none")
  BY DEF TabJourneyInv, FirstPage
<1>3. view.is = "start"
  BY <1>2 DEF Screen
<1>4. TabInv'
  BY <1>1, <1>2, <1>3, StartingRecords DEF TabJourneyInv, JourneyInv, TabInv, TabTypes, RoleKept, Repeats,
     CookieFits, RetryBound, OneRetryKey, CommandBound, Binds
<1>5. SessionTypes' /\ KeysAsked' /\ RecordsDiffer'
  BY <1>1 DEF TabJourneyInv, JourneyInv, SessionTypes, KeysAsked, RecordsDiffer
<1>6. FirstPage'
  BY <1>1, <1>2 DEF TabJourneyInv, FirstPage
<1> QED BY <1>4, <1>5, <1>6 DEF JourneyInv

(* A call that has ended, waits for something else, or starts.              *)
CallMoves == CallShape(call') /\ call'.at # "leave"
RedoMoves == CallShape(redo') /\ redo'.at # "leave"
BookMoves == BookShape(book')
SessionMoves == jar' \in Sessions
BudgetMoves == CallMoves /\ RedoMoves /\ BookMoves /\ SessionMoves

LEMMA SaveShape == ASSUME NEW b, BookShape(b), Save(b) PROVE BookMoves
BY BlankShapes DEF Save, BookMoves

LEMMA EditedBooks ==
    ASSUME NEW b, BookShape(b)
    PROVE  /\ \A x : BookShape([b EXCEPT !.phase = x])
           /\ \A x : BookShape([b EXCEPT !.intent = x])
           /\ \A x : BookShape([b EXCEPT !.keys = x])
           /\ \A x, y : BookShape([b EXCEPT !.role = x, !.phase = y])
           /\ \A x, y : BookShape([b EXCEPT !.msg = x, !.phase = y])
           /\ \A x, y : BookShape([b EXCEPT !.msg = x, !.intent = y])
           /\ \A x, y, z : BookShape([b EXCEPT !.phase = x, !.keys = y, !.msg = z])
           /\ \A x, y, z, u : BookShape([b EXCEPT !.role = x, !.phase = y, !.cand = z, !.keys = u])
BY DEF BookShape

LEMMA KeyedBooks ==
    ASSUME NEW b, BookShape(b), NEW op, NEW phase
    PROVE  BookShape(Unkeyed(b, op)) /\ BookShape(Bound(b, op, phase)) /\ BookShape(Adopted(b))
BY EditedBooks DEF BookShape, Unkeyed, Bound, Adopted

LEMMA GoesToMoves == ASSUME CallShape(call), NEW step, step # "leave", GoesTo(step) PROVE CallMoves
BY DEF CallShape, GoesTo, CallMoves

LEMMA BrokenMoves == ASSUME BudgetShape, Broken \/ SessionLost PROVE CallMoves /\ RedoMoves /\ BookMoves
BY BlankShapes DEF Broken, SessionLost, Done, CallMoves, RedoMoves, BookMoves, BudgetShape

LEMMA ResumeMoves == ASSUME NEW b, NEW conflict, Resume(b, conflict) PROVE CallMoves
<1>1. CASE b = NoBook
  BY <1>1 DEF Resume, CallMoves, CallShape, NoCall
<1>2. CASE b # NoBook
  BY <1>2, BlankShapes DEF Resume, CallMoves, CallShape, NoCall
<1> QED BY <1>1, <1>2

(* Reading the thread.                                                      *)
LEMMA SameSession == ASSUME jar \in Sessions PROVE /\ Reads => SessionMoves
                                                   /\ ReadLost => SessionMoves
                                                   /\ jar' = jar => SessionMoves
BY StartingRecords DEF Reads, ReadLost, SessionMoves

LEMMA SettledMoves ==
    ASSUME NEW b, NEW f, BookShape(b), Settled(b, f)
    PROVE  CallMoves /\ RedoMoves /\ BookMoves
BY SaveShape, BlankShapes DEF Settled, Done, CallMoves, RedoMoves

LEMMA OfferMoves ==
    ASSUME NEW op, NEW f, BudgetShape, op # "leave", Offer(op, f)
    PROVE  CallMoves /\ RedoMoves /\ BookMoves
<1>1. redo' = [NoCall EXCEPT !.do = "resend", !.at = op] /\ call' = NoCall /\ book' = book
  BY DEF Offer, Done
<1>2. "at" \in DOMAIN redo' /\ redo'.at = op
  BY <1>1 DEF NoCall
<1> QED BY <1>1, <1>2, BlankShapes DEF CallMoves, RedoMoves, BookMoves, CallShape, BudgetShape

LEMMA QuietMoves == ASSUME BudgetShape PROVE /\ UNCHANGED redo => RedoMoves
                                             /\ UNCHANGED book => BookMoves
                                             /\ Done => CallMoves
                                             /\ redo' = NoCall => RedoMoves
BY BlankShapes DEF BudgetShape, RedoMoves, BookMoves, CallMoves, Done

LEMMA NotedMoves == ASSUME BudgetShape, NEW cand, call' = Noted(cand) PROVE CallMoves
BY DEF BudgetShape, Noted, CallMoves, CallShape

LEMMA ReadConnectedMoves == ASSUME BudgetShape, jar \in Sessions, ReadConnected PROVE BudgetMoves
<1>1. SessionMoves
  BY SameSession DEF ReadConnected
<1>2. CASE Broken \/ SessionLost
  BY <1>1, <1>2, BrokenMoves DEF BudgetMoves
<1>3. CASE /\ ToThread(Adopted(book))
           /\ redo' = IF call.do = "recover" THEN NoCall ELSE redo
  <2>1. BookShape(Adopted(book))
    BY KeyedBooks DEF BudgetShape
  <2> DEFINE b == Adopted(book)
             msg == IF b.intent = "none" THEN 0 ELSE MessageFor(b.msg, b.intent)
  <2>2. BookShape([b EXCEPT !.phase = "thread_ready", !.keys = NoKeys, !.msg = msg])
    BY <2>1, EditedBooks DEF BookShape
  <2>3. Save([b EXCEPT !.phase = "thread_ready", !.keys = NoKeys, !.msg = msg]) /\ Done
    BY <1>3 DEF ToThread
  <2> QED BY <1>1, <1>3, <2>2, <2>3, SaveShape, QuietMoves DEF BudgetMoves
<1> QED BY <1>2, <1>3 DEF ReadConnected, ReadLost

LEMMA RecoverAsParentMoves ==
    ASSUME BudgetShape, NEW b, BookShape(b), RecoverAsParent(b)
    PROVE  CallMoves /\ RedoMoves /\ BookMoves
<1> DEFINE msg == MessageFor(b.msg, b.intent)
           matches == IF msg = 0 THEN {} ELSE OwnMatches(b.intent)
           cand == IF matches = {} THEN 0 ELSE CHOOSE c \in matches : TRUE
           f(phase) == ParentContext(phase, cand, b.intent)
           b1 == [Unkeyed(b, "append") EXCEPT !.msg = msg, !.phase = "thread_ready"]
           b2 == [Unkeyed(b, "propose") EXCEPT !.phase = "proposal_pending"]
           b3 == Unkeyed(b, "propose")
<1>1. \/ Done /\ UNCHANGED <<book, redo>>
      \/ Settled(b1, f("thread_ready"))
      \/ Settled(b2, f("proposal_pending"))
      \/ Settled(b3, Failed(f("thread_ready")))
      \/ Offer("append", f("message_submitting"))
      \/ Offer("propose", f("thread_ready"))
  BY DEF RecoverAsParent
<1>2. BookShape(b1) /\ BookShape(b2) /\ BookShape(b3)
  BY KeyedBooks, EditedBooks
<1> HIDE DEF msg, matches, cand, f, b1, b2, b3
<1> QED BY <1>1, <1>2, SettledMoves, OfferMoves, QuietMoves

LEMMA RecoverSwitchMoves ==
    ASSUME BudgetShape, NEW b, BookShape(b), RecoverSwitch(b)
    PROVE  CallMoves /\ RedoMoves /\ BookMoves
<1> DEFINE b1 == [Unkeyed(b, "propose") EXCEPT !.role = "parent", !.phase = "proposal_pending"]
           f1 == ParentContext("proposal_pending", TheOwn(b.intent), b.intent)
<1>1. \/ Settled(b1, f1)
      \/ (\E c : call' = Noted(c)) /\ UNCHANGED <<book, redo>>
      \/ book' = NoBook /\ redo' = NoCall /\ Done
      \/ Done /\ UNCHANGED <<book, redo>>
  BY DEF RecoverSwitch
<1>2. BookShape(b1)
  BY KeyedBooks, EditedBooks
<1>3. book' = NoBook => BookMoves
  BY BlankShapes DEF BookMoves
<1> HIDE DEF b1, f1
<1> QED BY <1>1, <1>2, <1>3, SettledMoves, QuietMoves, NotedMoves

LEMMA ReadRecoveredMoves == ASSUME BudgetShape, jar \in Sessions, ReadRecovered PROVE BudgetMoves
<1>1. SessionMoves
  BY SameSession DEF ReadRecovered
<1>2. CASE Broken \/ SessionLost
  BY <1>1, <1>2, BrokenMoves DEF BudgetMoves
<1> DEFINE b == Adopted(book)
<1>3. BookShape(b)
  BY KeyedBooks DEF BudgetShape
<1>4. CASE RecoverSwitch(b) \/ RecoverAsParent(b)
  BY <1>1, <1>3, <1>4, RecoverSwitchMoves, RecoverAsParentMoves DEF BudgetMoves
<1>5. CASE RecoverAsAdvisor(b)
  <2>1. ((\E c : call' = Noted(c)) \/ Done) /\ UNCHANGED <<book, redo>>
    BY <1>5 DEF RecoverAsAdvisor
  <2> QED BY <1>1, <2>1, QuietMoves, NotedMoves DEF BudgetMoves
<1> QED BY <1>2, <1>4, <1>5 DEF ReadRecovered, ReadLost

LEMMA RecoverFromLedgerMoves ==
    ASSUME BudgetShape, RecoverFromLedger
    PROVE  CallMoves /\ RedoMoves /\ BookMoves
<1> DEFINE b1 == Unkeyed([book EXCEPT !.phase = "replan_required"], "verify")
           b2 == Unkeyed([book EXCEPT !.phase = "advisor_reviewing"], "verify")
<1>1. BookShape(b1) /\ BookShape(b2)
  BY KeyedBooks, EditedBooks DEF BudgetShape
<1>2. \/ Done /\ UNCHANGED <<book, redo>>
      \/ \E f : Settled(b1, f) \/ Settled(b2, f)
      \/ Broken
      \/ \E f : Offer("verify", f)
  BY DEF RecoverFromLedger
<1> HIDE DEF b1, b2
<1> QED BY <1>1, <1>2, SettledMoves, OfferMoves, QuietMoves, BrokenMoves

LEMMA ReviewFromLedgerMoves ==
    ASSUME BudgetShape, ReviewFromLedger
    PROVE  CallMoves /\ RedoMoves /\ BookMoves
<1> DEFINE b(c) == [book EXCEPT !.role = "advisor", !.phase = "advisor_reviewing", !.cand = c, !.keys = NoKeys]
<1>1. \/ \E c : Save(b(c)) /\ Done /\ (UNCHANGED redo \/ redo' = NoCall)
      \/ Broken
  BY DEF ReviewFromLedger, Reviewing
<1>2. \A c : BookShape(b(c))
  BY DEF BudgetShape, BookShape
<1> HIDE DEF b
<1> QED BY <1>1, <1>2, SaveShape, QuietMoves, BrokenMoves

LEMMA ReadLedgerMoves == ASSUME BudgetShape, jar \in Sessions, ReadLedger PROVE BudgetMoves
<1>1. SessionMoves
  BY SameSession, StartingRecords DEF ReadLedger, SessionMoves
<1> QED BY <1>1, RecoverFromLedgerMoves, ReviewFromLedgerMoves, BrokenMoves DEF ReadLedger, ReadLost, BudgetMoves

LEMMA ReadSwitchedMoves == ASSUME BudgetShape, jar \in Sessions, ReadSwitched PROVE BudgetMoves
<1>1. SessionMoves
  BY SameSession DEF ReadSwitched
<1>2. \/ Broken \/ SessionLost
      \/ (\E c : call' = Noted(c)) /\ UNCHANGED <<book, redo>>
  BY DEF ReadSwitched, ReadLost
<1> QED BY <1>1, <1>2, BrokenMoves, QuietMoves, NotedMoves DEF BudgetMoves

(* Sessions.                                                                *)
LEMMA RevokeSessionMoves == ASSUME BudgetShape, jar \in Sessions, RevokeSession PROVE BudgetMoves
<1>1. SessionMoves
  BY StartingRecords DEF RevokeSession, SessionMoves
<1>2. CASE SessionLost
  BY <1>1, <1>2, BrokenMoves DEF BudgetMoves
<1>3. CASE GoesTo("bootstrap") /\ UNCHANGED <<book, form, redo>>
  BY <1>1, <1>3, GoesToMoves, QuietMoves DEF BudgetMoves, BudgetShape
<1>4. CASE /\ book' = NoBook /\ UNCHANGED redo
           /\ call' = [NoCall EXCEPT !.do = "connect", !.at = "bootstrap"]
  <2>1. CallMoves
    BY <1>4 DEF CallMoves, CallShape, NoCall
  <2>2. BookMoves
    BY <1>4, BlankShapes DEF BookMoves
  <2> QED BY <1>1, <1>4, <2>1, <2>2, QuietMoves DEF BudgetMoves
<1> QED BY <1>2, <1>3, <1>4 DEF RevokeSession

LEMMA BootstrapSessionMoves == ASSUME BudgetShape, jar \in Sessions, BootstrapSession PROVE BudgetMoves
<1>1. SessionMoves
  BY StartingRecords DEF BootstrapSession, SessionMoves
<1>2. CASE Broken
  BY <1>1, <1>2, BrokenMoves DEF BudgetMoves
<1>3. CASE call' = [call EXCEPT !.at = "mint", !.boot = TRUE] /\ UNCHANGED <<jar, book, form, redo>>
  <2>1. CallMoves
    BY <1>3 DEF BudgetShape, CallMoves, CallShape
  <2> QED BY <1>1, <1>3, <2>1, QuietMoves DEF BudgetMoves
<1> QED BY <1>2, <1>3 DEF BootstrapSession

LEMMA SignOnTyped == SignOn \in Sessions
BY DEF SignOn, NextRole, Sessions, TabRoles, Participants

LEMMA MintSessionMoves == ASSUME BudgetShape, jar \in Sessions, MintSession PROVE BudgetMoves
<1>1. CASE jar # NoSession
  BY <1>1, BrokenMoves, StartingRecords DEF MintSession, BudgetMoves, SessionMoves
<1>2. CASE jar = NoSession /\ ~call.boot
  BY <1>2, BrokenMoves, SameSession DEF MintSession, BudgetMoves
<1>3. CASE jar = NoSession /\ call.boot
  <2>1. /\ jar' = SignOn /\ GoesTo("read") /\ UNCHANGED <<form, redo>>
        /\ book' = ParentBook \/ book' = [book EXCEPT !.role = "advisor", !.fits = TRUE]
    BY <1>3 DEF MintSession
  <2>2. BookMoves
    BY <2>1, BlankShapes DEF BookMoves, BudgetShape, BookShape
  <2> QED BY <2>1, <2>2, GoesToMoves, QuietMoves, SignOnTyped DEF BudgetMoves, BudgetShape, SessionMoves
<1> QED BY <1>1, <1>2, <1>3

(* Commands, and the hand-over.                                             *)
LEMMA PostAnsweredMoves ==
    ASSUME BudgetShape, PostAnswered
    PROVE  CallMoves /\ RedoMoves /\ BookMoves
<1>1. CASE call.do = "resend"
  BY <1>1, ResumeMoves, QuietMoves DEF PostAnswered
<1>2. CASE call.do # "resend"
  BY <1>2, GoesToMoves, QuietMoves DEF PostAnswered, BudgetShape
<1> QED BY <1>1, <1>2

LEMMA SendPostMoves == ASSUME BudgetShape, jar \in Sessions, SendPost PROVE BudgetMoves
<1>1. SessionMoves
  BY SameSession DEF SendPost
<1>2. CASE SessionLost
  BY <1>1, <1>2, BrokenMoves DEF BudgetMoves
<1>3. CASE PostAnswered
  BY <1>1, <1>3, PostAnsweredMoves DEF BudgetMoves
<1>4. CASE Resume(book, TRUE) /\ UNCHANGED <<talk, book, redo>>
  BY <1>1, <1>4, ResumeMoves, QuietMoves DEF BudgetMoves
<1> QED BY <1>2, <1>3, <1>4 DEF SendPost

LEMMA RereadMoves ==
    ASSUME BudgetShape, jar \in Sessions, AppendRead \/ ProposalRead \/ ConfirmRead \/ ConfirmProved
    PROVE  BudgetMoves
<1>1. SessionMoves
  BY SameSession DEF AppendRead, ProposalRead, ConfirmRead, ConfirmProved
<1>2. CASE Broken \/ SessionLost
  BY <1>1, <1>2, BrokenMoves DEF BudgetMoves
<1>3. ASSUME NEW b, BookShape(b), Save(b), Done, redo' = NoCall
      PROVE  BudgetMoves
  BY <1>1, <1>3, SaveShape, QuietMoves DEF BudgetMoves
<1>4. ASSUME AppendRead PROVE BudgetMoves
  <2>1. CASE SessionLost
    BY <1>2, <2>1
  <2>2. CASE ~SessionLost
    <3> DEFINE id == (CHOOSE k \in Served([op |-> "append", key |-> book.keys["append"]]) : TRUE).id
    <3>1. Save([book EXCEPT !.phase = "thread_ready", !.msg = id]) /\ Done /\ redo' = NoCall
      BY <1>4, <2>2 DEF AppendRead, ReadLost
    <3>2. BookShape([book EXCEPT !.phase = "thread_ready", !.msg = id])
      BY DEF BudgetShape, BookShape
    <3> HIDE DEF id
    <3> QED BY <1>3, <3>1, <3>2
  <2> QED BY <2>1, <2>2
<1>5. ASSUME ProposalRead PROVE BudgetMoves
  <2>1. CASE Broken \/ SessionLost
    BY <1>2, <2>1
  <2>2. CASE ~(Broken \/ SessionLost)
    <3>1. Save([book EXCEPT !.phase = "proposal_pending"]) /\ Done /\ redo' = NoCall
      BY <1>5, <2>2 DEF ProposalRead, ReadLost
    <3>2. BookShape([book EXCEPT !.phase = "proposal_pending"])
      BY DEF BudgetShape, BookShape
    <3> QED BY <1>3, <3>1, <3>2
  <2> QED BY <2>1, <2>2
<1>6. ASSUME ConfirmRead PROVE BudgetMoves
  <2>1. CASE Broken \/ SessionLost
    BY <1>2, <2>1
  <2>2. CASE call' = Noted(book.cand) /\ UNCHANGED <<book, redo>>
    BY <1>1, <2>2, NotedMoves, QuietMoves DEF BudgetMoves
  <2> QED BY <1>6, <2>1, <2>2 DEF ConfirmRead, ReadLost
<1>7. ASSUME ConfirmProved PROVE BudgetMoves
  <2>1. CASE Broken \/ SessionLost
    BY <1>2, <2>1
  <2>2. CASE ~(Broken \/ SessionLost)
    <3> DEFINE b == Unkeyed([book EXCEPT !.phase = "replan_required"], "verify")
    <3>1. Save(b) /\ Done /\ redo' = NoCall
      BY <1>7, <2>2 DEF ConfirmProved, ReadLost
    <3>2. BookShape(b)
      BY KeyedBooks, EditedBooks DEF BudgetShape
    <3> QED BY <1>3, <3>1, <3>2
  <2> QED BY <2>1, <2>2
<1> QED BY <1>4, <1>5, <1>6, <1>7

LEMMA ConfirmCheckedMoves == ASSUME BudgetShape, jar \in Sessions, ConfirmChecked PROVE BudgetMoves
<1>1. SessionMoves
  BY SameSession DEF ConfirmChecked
<1>2. CASE Broken \/ SessionLost
  BY <1>1, <1>2, BrokenMoves DEF BudgetMoves
<1>3. CASE ~(Broken \/ SessionLost)
  <2>1. /\ redo' = [NoCall EXCEPT !.do = "confirm", !.at = "verify"] /\ GoesTo("verify")
        /\ Save(Bound(book, "verify", "confirmation_submitting"))
    BY <1>3 DEF ConfirmChecked, ReadLost
  <2>2. RedoMoves
    BY <2>1 DEF RedoMoves, CallShape, NoCall
  <2> QED BY <1>1, <2>1, <2>2, SaveShape, KeyedBooks, GoesToMoves DEF BudgetMoves, BudgetShape
<1> QED BY <1>2, <1>3

LEMMA HandoffReadMoves == ASSUME BudgetShape, jar \in Sessions, HandoffRead PROVE BudgetMoves
<1>1. SessionMoves
  BY SameSession DEF HandoffRead
<1>2. CASE SessionLost
  BY <1>1, <1>2, BrokenMoves DEF BudgetMoves
<1>3. CASE \E code : HandoffRefused(code)
  BY <1>1, <1>3, QuietMoves DEF HandoffRefused, BudgetMoves
<1>4. CASE GoesTo("authority") /\ UNCHANGED <<book, form, redo>>
  BY <1>1, <1>4, GoesToMoves, QuietMoves DEF BudgetMoves, BudgetShape
<1> QED BY <1>2, <1>3, <1>4 DEF HandoffRead, ReadLost

(* The Case is left to the other page under the advisor's own cookie.       *)
LEMMA HandoffAuthorityMoves ==
    ASSUME BudgetShape, jar \in Sessions, HandoffAuthority
    PROVE  /\ CallShape(call') /\ RedoMoves /\ BookMoves /\ SessionMoves
           /\ call'.at = "leave" => jar'.role = "advisor"
<1>1. SessionMoves
  BY SameSession DEF HandoffAuthority
<1>2. CASE SessionLost
  BY <1>1, <1>2, BrokenMoves DEF CallMoves
<1>3. CASE \E code : HandoffRefused(code)
  BY <1>1, <1>3, QuietMoves DEF HandoffRefused, CallMoves
<1>4. CASE /\ Reads /\ jar.role = "advisor" /\ UNCHANGED <<book, form, redo>>
           /\ call' = [call EXCEPT !.at = "leave", !.phase = case.phase]
  BY <1>1, <1>4, QuietMoves DEF CallShape, BudgetShape, Reads
<1> QED BY <1>2, <1>3, <1>4 DEF HandoffAuthority, ReadLost

LEMMA HandOverKeeps ==
    ASSUME TabJourneyInv, HandOver
    PROVE  TabJourneyInv'
<1>1. /\ page = "collaboration" /\ call.at = "leave" /\ page' = "demo" /\ Restart(Converted)
      /\ call' = NoCall /\ redo' = NoCall /\ book' = NoBook
      /\ UNCHANGED <<case, jar, records, late, asked, faults>>
  BY DEF HandOver, Awaits
<1>2. /\ case \in JourneyCases /\ jar \in Sessions /\ book.fits \in BOOLEAN
      /\ book.fits /\ jar.live => jar.role = "advisor"
      /\ records = {} /\ late = {} /\ asked \in [Commands -> Nat]
  BY <1>1 DEF TabJourneyInv, JourneyInv, TabInv, TabTypes, SessionTypes, FirstPage, BudgetShape, BookShape
<1> DEFINE s == Converted
           task == IF call.phase = "task_ready" THEN 0 ELSE case.round
<1>3. task \in Nat
  BY <1>2 DEF JourneyCases
<1>4. s = [NoStore EXCEPT !.role = "advisor", !.fits = book.fits, !.task = task]
  BY DEF Converted
<1> HIDE DEF s, task
<1>5. s = [role |-> "advisor", fits |-> book.fits, pending |-> "none", task |-> task,
           cursor |-> 0, keys |-> {}, retry |-> FALSE]
  BY <1>4 DEF NoStore
<1>6. /\ s \in Stores /\ s.keys = {} /\ s.retry = FALSE /\ s.fits = book.fits /\ s.role = "advisor"
  BY <1>2, <1>3, <1>5 DEF Stores, TabRoles
<1>7. Restart(s)
  BY <1>1 DEF s
<1>8. TabInv' /\ store' = s
  BY <1>1, <1>2, <1>6, <1>7, RestartKeeps DEF OneRetryKey
<1>9. stream' \in Streams
  BY <1>7, StartingRecords DEF Restart
<1>10. JourneyInv'
  BY <1>1, <1>2, <1>6, <1>8, <1>9 DEF JourneyInv, SessionTypes, KeysAsked, RecordsDiffer
<1> QED BY <1>1, <1>10, BlankShapes DEF TabJourneyInv, FirstPage, BudgetShape

(* What the person does.                                                    *)
LEMMA StartMoves == ASSUME NEW do, NEW at, at # "leave", Start(do, at)
                    PROVE  CallMoves /\ (redo' = call' => RedoMoves)
<1>1. "at" \in DOMAIN call' /\ call'.at = at
  BY DEF Start, NoCall
<1> QED BY <1>1 DEF CallMoves, RedoMoves, CallShape

LEMMA BudgetClickMoves == ASSUME BudgetShape, jar \in Sessions, BudgetClick PROVE BudgetMoves /\ page = "collaboration"
<1>1. SessionMoves /\ page = "collaboration"
  BY SameSession DEF BudgetClick, ConnectParent, EndConflictingJourney, AppendBudget, ProposeBudget,
     SwitchToAdvisor, ConfirmCandidate, ContinueToPlanning, RetryBudget, Resting
<1>2. CASE ConnectParent \/ EndConflictingJourney \/ ConfirmCandidate
  <2>1. UNCHANGED <<book, redo>> /\ \E do, at : at # "leave" /\ Start(do, at)
    BY <1>2 DEF ConnectParent, EndConflictingJourney, ConfirmCandidate
  <2> QED BY <1>1, <2>1, StartMoves, QuietMoves DEF BudgetMoves
<1>3. CASE AppendBudget
  <2>1. PICK value \in Amounts :
          Save(Bound(IF book.intent = "none" THEN [book EXCEPT !.intent = value] ELSE book,
                     "append", "message_submitting"))
    BY <1>3 DEF AppendBudget
  <2>2. BookMoves
    BY <2>1, SaveShape, KeyedBooks, EditedBooks DEF BudgetShape
  <2>3. CallMoves /\ RedoMoves
    BY <1>3, StartMoves DEF AppendBudget
  <2> QED BY <1>1, <2>2, <2>3 DEF BudgetMoves
<1>4. CASE ProposeBudget
  <2>1. BookMoves
    BY <1>4, SaveShape, KeyedBooks DEF BudgetShape, ProposeBudget
  <2>2. CallMoves /\ RedoMoves
    BY <1>4, StartMoves DEF ProposeBudget
  <2> QED BY <1>1, <2>1, <2>2 DEF BudgetMoves
<1>5. CASE SwitchToAdvisor
  <2>1. BookShape([book EXCEPT !.phase = "switching_to_advisor"])
    BY DEF BudgetShape, BookShape
  <2>2. BookMoves
    BY <1>5, <2>1, SaveShape DEF SwitchToAdvisor
  <2>3. CallMoves /\ RedoMoves
    BY <1>5, StartMoves, QuietMoves DEF SwitchToAdvisor
  <2> QED BY <1>1, <2>2, <2>3 DEF BudgetMoves
<1>6. CASE ContinueToPlanning
  <2>1. CallMoves /\ RedoMoves /\ BookMoves
    BY <1>6, StartMoves, QuietMoves DEF ContinueToPlanning
  <2> QED BY <1>1, <2>1 DEF BudgetMoves
<1>7. CASE RetryBudget
  <2>1. RedoMoves
    BY <1>7, QuietMoves DEF RetryBudget
  <2>2. CallMoves
    <3>1. CASE call' = redo
      BY <3>1 DEF CallMoves, BudgetShape
    <3>2. CASE Resume(book, FALSE)
      BY <3>2, ResumeMoves
    <3> QED BY <1>7, <3>1, <3>2 DEF RetryBudget
  <2>3. BookMoves
    <3>1. UNCHANGED book \/ \E op, phase : Save(Bound(book, op, phase))
      BY <1>7 DEF RetryBudget
    <3> QED BY <3>1, SaveShape, KeyedBooks, QuietMoves DEF BudgetShape
  <2> QED BY <1>1, <2>1, <2>2, <2>3 DEF BudgetMoves
<1> QED BY <1>2, <1>3, <1>4, <1>5, <1>6, <1>7 DEF BudgetClick

(* Faults, and what others do.                                              *)
LEMMA ReopenMoves == ASSUME NEW b, BookShape(b), Reopen(b) PROVE CallMoves /\ RedoMoves /\ BookMoves
<1>1. CallMoves
  BY BlankShapes DEF Reopen, CallMoves, CallShape, NoCall
<1> QED BY <1>1, BlankShapes DEF Reopen, RedoMoves, BookMoves

LEMMA BudgetFaultMoves ==
    ASSUME BudgetShape, jar \in Sessions, LosePost \/ LosePostAnswer \/ GoneAfterSignOn \/ ReloadBudget
    PROVE  BudgetMoves /\ page = "collaboration"
<1>1. CASE LosePost
  BY <1>1, BrokenMoves, SameSession DEF LosePost, BudgetMoves
<1>2. CASE LosePostAnswer
  <2>1. SessionMoves
    BY <1>2 DEF LosePostAnswer, SessionMoves, Sessions
  <2> QED BY <1>2, <2>1, BrokenMoves DEF LosePostAnswer, BudgetMoves
<1>3. CASE GoneAfterSignOn
  <2>1. BookShape([book EXCEPT !.fits = FALSE])
    BY DEF BudgetShape, BookShape
  <2> QED BY <1>3, <2>1, ReopenMoves, SignOnTyped DEF GoneAfterSignOn, Awaits, BudgetMoves, SessionMoves
<1>4. CASE ReloadBudget
  BY <1>4, ReopenMoves, SameSession DEF ReloadBudget, BudgetMoves, BudgetShape
<1> QED BY <1>1, <1>2, <1>3, <1>4

LEMMA BudgetMovesKeep ==
    ASSUME TabJourneyInv, page = "collaboration", page' = page, UNCHANGED demoPageVars,
           CallShape(call'), RedoMoves, BookMoves, SessionMoves,
           call'.at = "leave" /\ book'.fits /\ jar'.live => jar'.role = "advisor"
    PROVE  TabJourneyInv'
<1>1. JourneyInv' /\ FirstPage'
  BY BudgetLeavesJourney DEF SessionMoves
<1>2. BudgetShape'
  BY DEF RedoMoves, BookMoves, BudgetShape, TabJourneyInv
<1> QED BY <1>1, <1>2 DEF TabJourneyInv

(* On the page of the plan only the journey goes on.                        *)
LEMMA DemoKeeps ==
    ASSUME TabJourneyInv, JourneyInv', page' = page, page = "demo", UNCHANGED <<book, call, redo>>
    PROVE  TabJourneyInv'
BY DEF TabJourneyInv, FirstPage, BudgetShape

LEMMA OthersKeep ==
    ASSUME TabJourneyInv, Others
    PROVE  TabJourneyInv'
<1>0. TabInv /\ jar \in Sessions /\ store \in Stores
  BY DEF TabJourneyInv, JourneyInv, TabInv, TabTypes
<1>1. JourneyInv'
  BY FaultKeeps DEF Others, Fault, TabJourneyInv
<1>2. CASE Expire /\ UNCHANGED page /\ UNCHANGED pageVars
  <2>1. /\ UNCHANGED <<page, book, call, redo, records, late, store, view, job, again>>
        /\ jar' = [jar EXCEPT !.live = FALSE]
    BY <1>2 DEF Expire, pageVars
  <2>2. jar'.live = FALSE
    BY <1>0, <2>1 DEF Sessions
  <2> QED BY <1>1, <2>1, <2>2 DEF TabJourneyInv, FirstPage, BudgetShape
<1>3. CASE /\ Rival /\ UNCHANGED <<page, talk, posts, form, redo, typed>>
           /\ IF page = "demo" THEN UNCHANGED <<book, call>>
              ELSE book' = [book EXCEPT !.fits = FALSE] /\ call' = [call EXCEPT !.boot = FALSE]
  <2>1. CASE page = "demo"
    BY <1>1, <1>3, <2>1 DEF TabJourneyInv, FirstPage, BudgetShape
  <2>2. CASE page = "collaboration"
    <3>1. store = NoStore /\ job = NoJob /\ again = NoJob /\ view = Screen("start", "none")
          /\ records = {} /\ late = {}
      BY <2>2 DEF TabJourneyInv, FirstPage
    <3>2. /\ store' = [store EXCEPT !.fits = FALSE] /\ job' = [job EXCEPT !.boot = FALSE]
          /\ UNCHANGED <<records, late, view, again>>
      BY <1>3 DEF Rival
    <3>3. NoJob.boot = FALSE
      BY DEF NoJob
    <3>4. job' = NoJob
      BY <3>1, <3>2, <3>3, UnbootedJob, StartingRecords
    <3>5. \A s \in Stores : s.fits = FALSE => [s EXCEPT !.fits = FALSE] = s
      BY DEF Stores
    <3>6. store' = NoStore
      BY <3>1, <3>2, <3>5, StartingRecords
    <3>7. "fits" \in DOMAIN book' /\ book'.fits = FALSE /\ "at" \in DOMAIN call'
      BY <1>3, <2>2 DEF TabJourneyInv, BudgetShape, BookShape, CallShape
    <3>8. FirstPage'
      BY <3>1, <3>2, <3>4, <3>6, <3>7 DEF FirstPage
    <3>9. BudgetShape'
      BY <1>3, <3>7 DEF TabJourneyInv, BudgetShape, BookShape, CallShape
    <3> QED BY <1>1, <3>8, <3>9 DEF TabJourneyInv
  <2> QED BY <2>1, <2>2 DEF TabJourneyInv, BudgetShape
<1> QED BY <1>2, <1>3 DEF Others

LEMMA TabStepsKeep ==
    ASSUME TabJourneyInv, [TabNext]_allVars
    PROVE  TabJourneyInv'
<1>0. JourneyInv /\ BudgetShape /\ jar \in Sessions
  BY DEF TabJourneyInv, JourneyInv, TabInv, TabTypes
<1>1. CASE UNCHANGED allVars
  <2>1. UNCHANGED <<page, book, call, redo>> /\ UNCHANGED <<case, jar, records, late, store, view, job, again, stream, asked>>
    BY <1>1 DEF allVars, journeyVars, pageVars
  <2>2. JourneyInv'
    BY <1>0, <2>1, QuietKeepsTab DEF JourneyInv, SessionTypes, KeysAsked, RecordsDiffer
  <2> QED BY <2>1, <2>2 DEF TabJourneyInv, FirstPage, BudgetShape
<1>2. CASE Serving
  <2>1. JourneyInv' /\ UNCHANGED <<page, book, call, redo>>
    BY <1>0, <1>2, WorkerKeeps DEF Serving, pageVars
  <2>2. UNCHANGED <<jar, records, late, store, view, job, again>>
    BY <1>2 DEF Serving, Progress, Settle
  <2> QED BY <2>1, <2>2 DEF TabJourneyInv, FirstPage, BudgetShape
<1>3. CASE \/ OnDemo(TabStep) \/ OnDemo(StreamStep) \/ OnDemo(Click) \/ OnDemo(Reload)
           \/ OnDemo(LoseRequest) \/ OnDemo(LoseAnswer) \/ OnDemo(GoneAfterMint)
           \/ OnDemo(BreakStream) \/ OnDemo(Prepare) \/ OnDemo(ServeLate)
  <2>1. page = "demo" /\ UNCHANGED <<page, book, call, redo>>
    BY <1>3 DEF OnDemo, pageVars
  <2>2. TabStep \/ StreamStep \/ Click \/ Reload \/ Fault
    BY <1>3 DEF OnDemo, Fault
  <2>3. JourneyInv'
    BY <1>0, <2>2, TabStepKeeps, StreamStepKeeps, ClickKeeps, ReloadKeeps, FaultKeeps
  <2> QED BY <2>1, <2>3, DemoKeeps
<1>4. CASE BudgetStep
  <2>1. CASE HandOver
    BY <2>1, HandOverKeeps
  <2>2. CASE ~HandOver
    <3>1. UNCHANGED demoPageVars /\ UNCHANGED <<page, typed, faults>>
      BY <1>4, <2>2 DEF BudgetStep
    <3>2. page = "collaboration"
      BY <1>4, <2>2 DEF BudgetStep, ReadConnected, ReadRecovered, ReadLedger, RevokeSession,
         BootstrapSession, MintSession, ReadSwitched, SendPost, AppendRead, ProposalRead, ConfirmChecked,
         ConfirmRead, ConfirmProved, HandoffRead, HandoffAuthority, Awaits
    <3>3. CASE HandoffAuthority
      BY <1>0, <3>1, <3>2, <3>3, HandoffAuthorityMoves, BudgetMovesKeep
    <3>4. CASE ~HandoffAuthority
      <4>1. BudgetMoves
        BY <1>0, <1>4, <2>2, <3>4, ReadConnectedMoves, ReadRecoveredMoves, ReadLedgerMoves, RevokeSessionMoves,
           BootstrapSessionMoves, MintSessionMoves, ReadSwitchedMoves, SendPostMoves, RereadMoves,
           ConfirmCheckedMoves, HandoffReadMoves DEF BudgetStep
      <4> QED BY <3>1, <3>2, <4>1, BudgetMovesKeep DEF BudgetMoves, CallMoves
    <3> QED BY <3>3, <3>4
  <2> QED BY <2>1, <2>2
<1>5. CASE BudgetClick \/ (ReloadBudget /\ UNCHANGED demoPageVars /\ UNCHANGED page)
           \/ ((LosePost \/ LosePostAnswer \/ GoneAfterSignOn) /\ UNCHANGED demoPageVars /\ UNCHANGED page)
  <2>1. UNCHANGED demoPageVars /\ page' = page
    BY <1>5 DEF BudgetClick
  <2>2. BudgetMoves /\ page = "collaboration"
    BY <1>0, <1>5, BudgetClickMoves, BudgetFaultMoves
  <2> QED BY <2>1, <2>2, BudgetMovesKeep DEF BudgetMoves, CallMoves
<1>6. CASE (ServePost \/ OthersWrite) /\ UNCHANGED demoPageVars /\ UNCHANGED page
  <2>1. page = "collaboration" /\ UNCHANGED <<jar, book, call, redo>>
    BY <1>6 DEF ServePost, OthersWrite
  <2>2. CallShape(call') /\ RedoMoves /\ BookMoves /\ SessionMoves
    BY <1>0, <2>1 DEF BudgetShape, RedoMoves, BookMoves, SessionMoves
  <2>3. call'.at = "leave" /\ book'.fits /\ jar'.live => jar'.role = "advisor"
    BY <2>1 DEF TabJourneyInv, FirstPage
  <2> QED BY <1>6, <2>1, <2>2, <2>3, BudgetMovesKeep
<1>7. CASE Others
  BY <1>7, OthersKeep
<1>8. CASE OthersStart /\ UNCHANGED page
  <2>1. /\ case' = NewTask /\ UNCHANGED <<page, book, call, redo>>
        /\ UNCHANGED <<jar, records, late, store, view, job, again, stream, asked>>
    BY <1>8 DEF OthersStart, pageVars
  <2>2. case' \in JourneyCases
    BY <1>0, <2>1, TaskTyped DEF JourneyInv, SessionTypes
  <2>3. TabInv'
    BY <1>0, <2>1, QuietKeepsTab DEF JourneyInv
  <2>4. JourneyInv'
    BY <1>0, <2>1, <2>2, <2>3 DEF JourneyInv, SessionTypes, KeysAsked, RecordsDiffer
  <2> QED BY <2>1, <2>4 DEF TabJourneyInv, FirstPage, BudgetShape
<1> QED BY <1>1, <1>2, <1>3, <1>4, <1>5, <1>6, <1>7, <1>8 DEF TabNext, Reloading, BudgetFault

(* Every command the tab commits, it was asked for, and it is signed by the *)
(* role the tab acted for: from either page, through the hand-over, for any *)
(* number of faults.                                                        *)
THEOREM TabActsAsMeant == TabSpec => []ActsAsMeant
<1>1. BudgetInit => TabJourneyInv
  BY BudgetStarts
<1>2. TabJourneyInv /\ [TabNext]_allVars => TabJourneyInv'
  BY TabStepsKeep
<1>3. TabJourneyInv => ActsAsMeant
  BY CommittedAsAsked DEF TabJourneyInv
<1> QED BY <1>1, <1>2, <1>3, PTL DEF TabSpec

-----------------------------------------------------------------------------
(*                The database between seed, migrations and people         *)
(* What a Case looks like is decided by what people did to it: that is what *)
(* the seed finds when it comes again, and what the guards of the           *)
(* downgrades protect.                                                      *)

(* A row, and what it may hold at a level of the schema.                    *)
RowFields == {"state", "revision", "thread", "talk", "offer", "chains", "runs", "task", "pin",
              "retried", "lineage", "executed"}
DbFields == {"cases", "principals", "packs", "activation", "research", "ok"}

IsDemoRow(r) == r = [field \in RowFields |-> r[field]]
IsDemo(d) ==
    /\ d = [field \in DbFields |-> d[field]]
    /\ d.cases = [c \in DemoCases |-> d.cases[c]]
    /\ \A c \in DemoCases : IsDemoRow(d.cases[c])
    /\ d.ok \in BOOLEAN

RowFlags(r) ==
    /\ r.retried \in BOOLEAN /\ r.executed \in BOOLEAN /\ r.lineage \in BOOLEAN
    /\ r.thread \in BOOLEAN /\ r.talk \in BOOLEAN /\ r.offer \in BOOLEAN
RowNumbers(r) == r.pin \in Nat /\ r.chains \in Nat /\ r.revision \in Nat /\ r.runs \in Nat
RowPlaced(r, level) ==
    /\ r.retried => level >= 16
    /\ r.executed => level >= 14
    /\ r.lineage => level >= 12
    /\ r.pin > 0 => level >= 8
    /\ Unpinned(r) => level < 8
    /\ r.thread \/ r.talk \/ r.offer \/ r.chains > 0 => level >= 7
RowFits(r, level) == RowFlags(r) /\ RowNumbers(r) /\ RowPlaced(r, level)

(* What of a Case the seed leaves as it finds it, and finds for ever.       *)
Lasting(c, r) ==
    /\ c = "default" => r.runs > 0
    /\ c \in Conversations => r.thread = TRUE
    /\ c \in {"stale", "expired"} => r.offer = TRUE
    /\ c = "stale" => r.revision # 1
    /\ c = "active" => r.task # "none"

(* What a Case looks like after people did these things to it.              *)
First(c) == IF c = "stale" THEN 2 ELSE 1
LikePlan(r, done) ==
    /\ r.state = "plan_ready" /\ r.revision = 1 /\ r.runs = 1 /\ r.task = "none"
    /\ r.executed <=> "work" \in done
LikeRevision(c, r, done) ==
    /\ done # {} => r.talk
    /\ done = {} =>
           /\ r.state = "advisor_review" /\ r.revision = 1 /\ r.thread /\ ~r.talk
           /\ r.chains = (IF c = "intake" THEN 1 ELSE 2)
           /\ r.runs = 1 /\ r.task = "waiting" /\ r.pin = 0 /\ ~r.lineage /\ ~r.retried
LikeOpening(c, r, done) ==
    /\ r.revision >= First(c)
    /\ "work" \notin done => r.state = "intake" /\ r.revision = First(c)
    /\ "work" \in done => r.state # "intake" \/ r.revision > First(c)
LikeActive(r, done) ==
    /\ r.state = "planning" /\ r.revision = 1 /\ r.task = "waiting" /\ r.runs = 0
    /\ r.pin \in {0, 1} /\ "work" \notin done
Looks(c, r, done) ==
    /\ Lasting(c, r)
    /\ c = "plan" => LikePlan(r, done)
    /\ c \in {"revision", "intake"} => LikeRevision(c, r, done)
    /\ c \in {"primary", "stale", "expired"} => LikeOpening(c, r, done)
    /\ c = "active" => LikeActive(r, done)

(* What the rest of the database holds for the Cases, and its level.        *)
Rooted(d) ==
    /\ Here(d, "default") => "basic" \in d.principals /\ "baseline" \in d.packs
    /\ Here(d, "plan") => "scenario" \in d.principals
    /\ Here(d, "intake") => "intake" \in d.packs
Shelved(d, level) ==
    /\ "intake" \in d.packs => level >= 17
    /\ "scenario" \in d.principals => level >= 15
    /\ "strict" \in d.research => level >= 11
    /\ "v0.1.6" \in d.research => level >= 10
    /\ d.activation \in Nat /\ (d.activation > 0 => level >= 8)
DatabaseInv ==
    /\ schema \in OldestSchema .. LatestSchema
    /\ IsDemo(db) /\ db.ok = TRUE /\ Rooted(db) /\ Shelved(db, schema)
    /\ touched \in [DemoCases -> SUBSET {"talk", "work"}]
    /\ \A c \in DemoCases :
          /\ ~Here(db, c) => touched[c] = {}
          /\ Here(db, c) => RowFits(db.cases[c], schema) /\ Looks(c, db.cases[c], touched[c])

(* What a step of the seed does: it adds Cases of S, and raises or not.     *)
Sown(d, e, S) ==
    /\ IsDemo(e)
    /\ e.ok => d.ok
    /\ d.principals \subseteq e.principals /\ d.packs \subseteq e.packs
    /\ e.research = d.research
    /\ \/ e.activation = d.activation
       \/ d.activation = 0 /\ e.activation = 1 /\ (e.ok => schema >= 8)
    /\ \A c \in DemoCases :
           /\ Here(d, c) => e.cases[c] = d.cases[c]
           /\ Here(e, c) /\ ~Here(d, c) =>
                  /\ c \in S /\ Looks(c, e.cases[c], {})
                  /\ e.ok => RowFits(e.cases[c], schema)
    /\ e.ok /\ "intake" \in e.packs => "intake" \in d.packs \/ schema >= 17
    /\ e.ok /\ "scenario" \in e.principals => "scenario" \in d.principals \/ schema >= 15

LEMMA SownTwice ==
  ASSUME NEW d, NEW e, NEW g, NEW S, Sown(d, e, S), Sown(e, g, S)
  PROVE  Sown(d, g, S)
<1>1. ASSUME NEW c \in DemoCases
      PROVE  /\ Here(d, c) => g.cases[c] = d.cases[c]
             /\ Here(g, c) /\ ~Here(d, c) =>
                    /\ c \in S /\ Looks(c, g.cases[c], {})
                    /\ g.ok => RowFits(g.cases[c], schema)
  BY DEF Sown, Here
<1>2. /\ IsDemo(g) /\ (g.ok => d.ok) /\ g.research = d.research
      /\ d.principals \subseteq g.principals /\ d.packs \subseteq g.packs
      /\ \/ g.activation = d.activation
         \/ d.activation = 0 /\ g.activation = 1 /\ (g.ok => schema >= 8)
      /\ g.ok /\ "intake" \in g.packs => "intake" \in d.packs \/ schema >= 17
      /\ g.ok /\ "scenario" \in g.principals => "scenario" \in d.principals \/ schema >= 15
  BY DEF Sown
<1> QED BY <1>1, <1>2 DEF Sown

LEMMA SownNothing ==
  ASSUME NEW d, IsDemo(d), NEW S
  PROVE  Sown(d, d, S)
  BY DEF Sown

(* A step of the seed that concerns one Case.                               *)
Edited(d, e, c) ==
    /\ IsDemo(e)
    /\ e.principals = d.principals /\ e.packs = d.packs
    /\ e.activation = d.activation /\ e.research = d.research
    /\ e.ok => d.ok
    /\ \A x \in DemoCases \ {c} : e.cases[x] = d.cases[x]

LEMMA EditedTwice ==
  ASSUME NEW d, NEW e, NEW g, NEW c, Edited(d, e, c), Edited(e, g, c)
  PROVE  Edited(d, g, c)
  BY DEF Edited

LEMMA EditedSows ==
  ASSUME NEW d, IsDemo(d), NEW e, NEW S, NEW c \in DemoCases, c \in S, Edited(d, e, c),
         Here(d, c) => e.cases[c] = d.cases[c],
         ~Here(d, c) => Looks(c, e.cases[c], {}) /\ (e.ok => RowFits(e.cases[c], schema))
  PROVE  Sown(d, e, S)
<1>1. ASSUME NEW x \in DemoCases
      PROVE  /\ Here(d, x) => e.cases[x] = d.cases[x]
             /\ Here(e, x) /\ ~Here(d, x) =>
                    /\ x \in S /\ Looks(x, e.cases[x], {})
                    /\ e.ok => RowFits(e.cases[x], schema)
  BY DEF Edited, Here
<1> QED BY <1>1 DEF Edited, Sown

LEMMA RequireEdits ==
  ASSUME NEW d, IsDemo(d), NEW holds, NEW e, e = Require(d, holds)
  PROVE  /\ \A c : Edited(d, e, c)
         /\ e.cases = d.cases /\ (e.ok <=> d.ok /\ holds)
  BY DEF Edited, Require, IsDemo, DbFields

LEMMA RequireSows ==
  ASSUME NEW d, IsDemo(d), NEW holds, NEW e, e = Require(d, holds), NEW S
  PROVE  Sown(d, e, S) /\ e.cases = d.cases /\ (e.ok <=> d.ok /\ holds)
<1>2. /\ IsDemo(e) /\ e.cases = d.cases /\ (e.ok <=> d.ok /\ holds)
      /\ e.principals = d.principals /\ e.packs = d.packs
      /\ e.activation = d.activation /\ e.research = d.research
  BY RequireEdits DEF Edited
<1> QED BY <1>2 DEF Sown, Here

(* One Case gets another row.                                               *)
Put(d, c, row) == [d EXCEPT !.cases[c] = row]

LEMMA PutEdits ==
  ASSUME NEW d, IsDemo(d), NEW c \in DemoCases, NEW row, IsDemoRow(row),
         NEW e, e = Put(d, c, row)
  PROVE  Edited(d, e, c) /\ (e.ok <=> d.ok) /\ e.cases[c] = row
  BY DEF Edited, IsDemo, DbFields, Put

SameTalk(r, n) == n.thread = r.thread /\ n.talk = r.talk /\ n.offer = r.offer /\ n.chains = r.chains
SameFlags(r, n) == n.retried = r.retried /\ n.lineage = r.lineage /\ n.executed = r.executed
SameTask(r, n) == n.task = r.task /\ n.pin = r.pin

RunRow(r) == [r EXCEPT !.runs = @ + 1, !.state = "advisor_review"]
StateRow(r, state) == [r EXCEPT !.state = state]
ThreadRow(r) == [r EXCEPT !.thread = TRUE]
OfferRow(r) == [r EXCEPT !.offer = TRUE]
ChainsRow(r, chains) == [r EXCEPT !.chains = chains]
TaskRow(r, task) == [r EXCEPT !.task = task]
PinRow(r, pin) == [r EXCEPT !.pin = pin]
RevisionRow(r, n) == [r EXCEPT !.revision = n]

LEMMA RunRowTells ==
  ASSUME NEW r, IsDemoRow(r), NEW n, n = RunRow(r)
  PROVE  /\ IsDemoRow(n) /\ SameTalk(r, n) /\ SameFlags(r, n) /\ SameTask(r, n)
         /\ n.revision = r.revision /\ n.runs = r.runs + 1 /\ n.state = "advisor_review"
  BY DEF RunRow, IsDemoRow, RowFields, SameTalk, SameFlags, SameTask
LEMMA StateRowTells ==
  ASSUME NEW r, IsDemoRow(r), NEW s, NEW n, n = StateRow(r, s)
  PROVE  /\ IsDemoRow(n) /\ SameTalk(r, n) /\ SameFlags(r, n) /\ SameTask(r, n)
         /\ n.revision = r.revision /\ n.runs = r.runs /\ n.state = s
  BY DEF StateRow, IsDemoRow, RowFields, SameTalk, SameFlags, SameTask
LEMMA ThreadRowTells ==
  ASSUME NEW r, IsDemoRow(r), NEW n, n = ThreadRow(r)
  PROVE  /\ IsDemoRow(n) /\ SameFlags(r, n) /\ SameTask(r, n)
         /\ n.thread = TRUE /\ n.talk = r.talk /\ n.offer = r.offer /\ n.chains = r.chains
         /\ n.revision = r.revision /\ n.runs = r.runs /\ n.state = r.state
  BY DEF ThreadRow, IsDemoRow, RowFields, SameFlags, SameTask
LEMMA ThreadRowSame ==
  ASSUME NEW r, IsDemoRow(r), r.thread = TRUE
  PROVE  ThreadRow(r) = r
  BY DEF ThreadRow, IsDemoRow, RowFields
LEMMA OfferRowTells ==
  ASSUME NEW r, IsDemoRow(r), NEW n, n = OfferRow(r)
  PROVE  /\ IsDemoRow(n) /\ SameFlags(r, n) /\ SameTask(r, n)
         /\ n.thread = r.thread /\ n.talk = r.talk /\ n.offer = TRUE /\ n.chains = r.chains
         /\ n.revision = r.revision /\ n.runs = r.runs /\ n.state = r.state
  BY DEF OfferRow, IsDemoRow, RowFields, SameFlags, SameTask
LEMMA OfferRowSame ==
  ASSUME NEW r, IsDemoRow(r), r.offer = TRUE
  PROVE  OfferRow(r) = r
  BY DEF OfferRow, IsDemoRow, RowFields
LEMMA ChainsRowTells ==
  ASSUME NEW r, IsDemoRow(r), NEW k, NEW n, n = ChainsRow(r, k)
  PROVE  /\ IsDemoRow(n) /\ SameFlags(r, n) /\ SameTask(r, n)
         /\ n.thread = r.thread /\ n.talk = r.talk /\ n.offer = r.offer /\ n.chains = k
         /\ n.revision = r.revision /\ n.runs = r.runs /\ n.state = r.state
  BY DEF ChainsRow, IsDemoRow, RowFields, SameFlags, SameTask
LEMMA TaskRowTells ==
  ASSUME NEW r, IsDemoRow(r), NEW t, NEW n, n = TaskRow(r, t)
  PROVE  /\ IsDemoRow(n) /\ SameFlags(r, n) /\ SameTalk(r, n)
         /\ n.task = t /\ n.pin = r.pin
         /\ n.revision = r.revision /\ n.runs = r.runs /\ n.state = r.state
  BY DEF TaskRow, IsDemoRow, RowFields, SameFlags, SameTalk
LEMMA PinRowTells ==
  ASSUME NEW r, IsDemoRow(r), NEW p, NEW n, n = PinRow(r, p)
  PROVE  /\ IsDemoRow(n) /\ SameFlags(r, n) /\ SameTalk(r, n)
         /\ n.task = r.task /\ n.pin = p
         /\ n.revision = r.revision /\ n.runs = r.runs /\ n.state = r.state
  BY DEF PinRow, IsDemoRow, RowFields, SameFlags, SameTalk
LEMMA RevisionRowTells ==
  ASSUME NEW r, IsDemoRow(r), NEW k, NEW n, n = RevisionRow(r, k)
  PROVE  /\ IsDemoRow(n) /\ SameFlags(r, n) /\ SameTalk(r, n) /\ SameTask(r, n)
         /\ n.revision = k /\ n.runs = r.runs /\ n.state = r.state
  BY DEF RevisionRow, IsDemoRow, RowFields, SameFlags, SameTalk, SameTask

(* A row as it is planted.                                                  *)
Unflagged(r) == r.talk = FALSE /\ r.retried = FALSE /\ r.lineage = FALSE /\ r.executed = FALSE
Bare(r) ==
    /\ Unflagged(r) /\ r.revision = 1 /\ r.runs = 0
    /\ r.thread = FALSE /\ r.offer = FALSE /\ r.chains = 0 /\ r.task = "none" /\ r.pin = 0

LEMMA PlantedTells ==
  ASSUME NEW d, IsDemo(d), NEW c \in DemoCases, NEW s, NEW e, e = Planted(d, c, s)
  PROVE  /\ Edited(d, e, c) /\ (e.ok <=> d.ok)
         /\ Here(d, c) => e.cases[c] = d.cases[c]
         /\ ~Here(d, c) => Bare(e.cases[c]) /\ e.cases[c].state = s
<1>1. CASE Here(d, c)
  BY <1>1 DEF Planted, Edited
<1>2. CASE ~Here(d, c)
  <2> DEFINE row == [NoDemoCase EXCEPT !.state = s, !.revision = 1]
  <2>1. IsDemoRow(row) /\ Bare(row) /\ row.state = s
    BY DEF IsDemoRow, NoDemoCase, RowFields, Bare, Unflagged
  <2>2. e = Put(d, c, row)
    BY <1>2 DEF Planted, Put
  <2> HIDE DEF row
  <2>3. Edited(d, e, c) /\ (e.ok <=> d.ok) /\ e.cases[c] = row
    BY <2>1, <2>2, PutEdits
  <2> QED BY <1>2, <2>1, <2>3
<1> QED BY <1>1, <1>2

LEMMA RowOf == ASSUME NEW d, IsDemo(d), NEW c \in DemoCases PROVE IsDemoRow(d.cases[c])
BY DEF IsDemo

LEMMA RunTells ==
  ASSUME NEW d, IsDemo(d), NEW c \in DemoCases, NEW e, e = RunAdded(d, c)
  PROVE  Edited(d, e, c) /\ (e.ok <=> d.ok) /\ e.cases[c] = RunRow(d.cases[c])
<1>1. PICK row : row = RunRow(d.cases[c])
  OBVIOUS
<1>2. e = Put(d, c, row)
  BY <1>1 DEF RunRow, RunAdded, IsDemo, DbFields, Put
<1>3. IsDemoRow(row)
  BY <1>1, RowOf, RunRowTells
<1> QED BY <1>1, <1>2, <1>3, PutEdits

LEMMA ThreadTells ==
  ASSUME NEW d, IsDemo(d), NEW c \in DemoCases, NEW e, e = SeedThread(d, c)
  PROVE  Edited(d, e, c) /\ (e.ok <=> d.ok) /\ e.cases[c] = ThreadRow(d.cases[c])
<1>1. PICK row : row = ThreadRow(d.cases[c])
  OBVIOUS
<1>2. e = Put(d, c, row)
  BY <1>1 DEF ThreadRow, SeedThread, IsDemo, DbFields, Put
<1>3. IsDemoRow(row)
  BY <1>1, RowOf, ThreadRowTells
<1>4. Edited(d, e, c) /\ (e.ok <=> d.ok) /\ e.cases[c] = row
  BY <1>2, <1>3, PutEdits
<1> QED BY <1>1, <1>4

(* A row as the seed writes it: nothing people do is in it.                 *)
Untouched(r) ==
    /\ RowNumbers(r) /\ Unflagged(r)
    /\ r.thread \in BOOLEAN /\ r.offer \in BOOLEAN
    /\ r.task # "queued"
    /\ r.pin > 0 => schema >= 8
    /\ r.thread \/ r.offer \/ r.chains > 0 => schema >= 7

LEMMA UntouchedFits ==
  ASSUME NEW r, Untouched(r)
  PROVE  RowFits(r, schema)
<1>1. RowFlags(r)
  BY DEF Untouched, RowFlags, Unflagged
<1>2. RowPlaced(r, schema)
  BY DEF Untouched, RowPlaced, Unpinned, Unflagged
<1> QED BY <1>1, <1>2 DEF Untouched, RowFits

(* Identity, Skills, the default and the connected Case.                    *)
LEMMA IdentitySows ==
  ASSUME NEW d, IsDemo(d), NEW scenario \in BOOLEAN, NEW e, e = SeedIdentity(d, scenario), NEW S
  PROVE  /\ Sown(d, e, S) /\ "basic" \in e.principals
         /\ scenario => "scenario" \in e.principals
<1>1. /\ e.cases = d.cases /\ IsDemo(e) /\ e.packs = d.packs /\ e.research = d.research
      /\ e.activation = d.activation
      /\ e.principals = d.principals \cup {"basic"} \cup (IF scenario THEN {"scenario"} ELSE {})
      /\ e.ok <=> d.ok /\ (scenario => schema >= 15)
  BY DEF SeedIdentity, Require, IsDemo, DbFields, HasScenarioKeys
<1> QED BY <1>1 DEF Sown, Here

LEMMA SkillsSow ==
  ASSUME NEW d, IsDemo(d), NEW e, e = SeedSkills(d), NEW S
  PROVE  Sown(d, e, S)
<1>1. /\ e.cases = d.cases /\ IsDemo(e) /\ e.packs = d.packs /\ e.research = d.research
      /\ e.activation = (IF d.activation = 0 THEN 1 ELSE d.activation)
      /\ e.principals = d.principals
      /\ e.ok => d.ok /\ schema >= 8
  BY DEF SeedSkills, Require, IsDemo, DbFields, HasCatalog
<1> QED BY <1>1 DEF Sown, Here

Packed(d, pack) == [d EXCEPT !.packs = @ \cup {pack}]

LEMMA PackTells ==
  ASSUME NEW d, IsDemo(d), NEW pack, NEW e, e = Packed(d, pack)
  PROVE  /\ IsDemo(e) /\ e.cases = d.cases /\ (e.ok <=> d.ok) /\ e.principals = d.principals
         /\ e.activation = d.activation /\ e.research = d.research
         /\ e.packs = d.packs \cup {pack}
  BY DEF Packed, IsDemo, DbFields

LEMMA PackSows ==
  ASSUME NEW d, IsDemo(d), NEW pack, pack # "intake", NEW e, e = Packed(d, pack), NEW S
  PROVE  Sown(d, e, S) /\ pack \in e.packs
<1>1. /\ IsDemo(e) /\ e.cases = d.cases /\ (e.ok <=> d.ok) /\ e.principals = d.principals
      /\ e.activation = d.activation /\ e.research = d.research
      /\ e.packs = d.packs \cup {pack}
  BY PackTells
<1> QED BY <1>1 DEF Sown, Here

LEMMA BareRuns ==
  ASSUME NEW r, IsDemoRow(r), Bare(r), NEW n, n = RunRow(r)
  PROVE  Untouched(n) /\ n.runs = 1
<1>1. /\ SameTalk(r, n) /\ SameFlags(r, n) /\ SameTask(r, n)
      /\ n.revision = r.revision /\ n.runs = r.runs + 1
  BY RunRowTells
<1>2. RowNumbers(n) /\ n.runs = 1
  BY <1>1 DEF Bare, RowNumbers, SameTalk, SameTask
<1>3. Unflagged(n)
  BY <1>1 DEF Bare, Unflagged, SameTalk, SameFlags
<1>4. n.thread \in BOOLEAN /\ n.offer \in BOOLEAN /\ n.task # "queued"
  BY <1>1 DEF Bare, SameTalk, SameTask
<1>5. ~(n.pin > 0) /\ ~(n.thread \/ n.offer \/ n.chains > 0)
  BY <1>1 DEF Bare, SameTalk, SameTask
<1> QED BY <1>2, <1>3, <1>4, <1>5 DEF Untouched

LEMMA DefaultSows ==
  ASSUME NEW d, IsDemo(d), NEW c, c = "default", Here(d, c) => d.cases[c].runs > 0,
         NEW e, e = SeedDefaultRun(SeedDefaultCase(d)), NEW S, c \in S
  PROVE  Sown(d, e, S) /\ "baseline" \in e.packs
<1>1. PICK s, pack : s = "planning" /\ pack = "baseline"
  OBVIOUS
<1>2. PICK p : p = Planted(d, c, s)
  OBVIOUS
<1>3. c \in DemoCases
  BY DEF DemoCases
<1>4. PICK q : q = Packed(p, pack)
  OBVIOUS
<1>5. e = IF q.cases[c].runs > 0 THEN q ELSE RunAdded(q, c)
  BY <1>1, <1>2, <1>4 DEF SeedDefaultCase, SeedDefaultRun, Packed
<1>6. /\ Edited(d, p, c) /\ (p.ok <=> d.ok)
      /\ Here(d, c) => p.cases[c] = d.cases[c]
      /\ ~Here(d, c) => Bare(p.cases[c]) /\ p.cases[c].state = s
  BY <1>2, <1>3, PlantedTells
<1>7. /\ IsDemo(q) /\ q.cases = p.cases /\ (q.ok <=> p.ok) /\ q.principals = p.principals
      /\ q.activation = p.activation /\ q.research = p.research
      /\ q.packs = p.packs \cup {pack}
  BY <1>4, <1>6, PackTells DEF Edited
<1>8. CASE Here(d, c)
  <2>1. e = q
    BY <1>5, <1>6, <1>7, <1>8
  <2>2. \A x \in DemoCases : q.cases[x] = d.cases[x]
    BY <1>6, <1>7, <1>8 DEF Edited
  <2> QED BY <1>1, <1>6, <1>7, <2>1, <2>2 DEF Sown, Here, Edited
<1>9. CASE ~Here(d, c)
  <2>1. e = RunAdded(q, c)
    BY <1>5, <1>6, <1>7, <1>9 DEF Bare
  <2>2. Edited(q, e, c) /\ (e.ok <=> q.ok) /\ e.cases[c] = RunRow(q.cases[c])
    BY <1>3, <1>7, <2>1, RunTells
  <2>3. PICK new : new = RunRow(q.cases[c])
    OBVIOUS
  <2>4. Untouched(new) /\ new.runs = 1
    BY <1>3, <1>6, <1>7, <1>9, <2>3, BareRuns, RowOf
  <2>5. Looks(c, new, {}) /\ RowFits(new, schema)
    BY <2>4, UntouchedFits DEF Looks, Lasting, Conversations
  <2>6. e.cases[c] = new /\ \A x \in DemoCases \ {c} : e.cases[x] = d.cases[x]
    BY <1>6, <1>7, <2>2, <2>3 DEF Edited
  <2>7. /\ IsDemo(e) /\ (e.ok <=> d.ok) /\ e.principals = d.principals /\ e.research = d.research
        /\ e.activation = d.activation /\ e.packs = d.packs \cup {pack}
    BY <1>6, <1>7, <2>2 DEF Edited
  <2> QED BY <1>1, <1>9, <2>5, <2>6, <2>7 DEF Sown, Here
<1> QED BY <1>8, <1>9

LEMMA BareUntouched ==
  ASSUME NEW r, Bare(r)
  PROVE  Untouched(r)
<1>1. RowNumbers(r) /\ Unflagged(r)
  BY DEF Bare, RowNumbers
<1>2. r.thread \in BOOLEAN /\ r.offer \in BOOLEAN /\ r.task # "queued"
  BY DEF Bare
<1>3. ~(r.pin > 0) /\ ~(r.thread \/ r.offer \/ r.chains > 0)
  BY DEF Bare
<1> QED BY <1>1, <1>2, <1>3 DEF Untouched

LEMMA TaskCaseSows ==
  ASSUME NEW d, IsDemo(d), NEW c, c = "connected", NEW e, e = SeedTaskCase(d), NEW S, c \in S
  PROVE  Sown(d, e, S)
<1>1. PICK s : s = "planning"
  OBVIOUS
<1>2. e = Planted(d, c, s) /\ c \in DemoCases
  BY <1>1 DEF SeedTaskCase, DemoCases
<1>3. /\ Edited(d, e, c) /\ (Here(d, c) => e.cases[c] = d.cases[c])
      /\ ~Here(d, c) => Bare(e.cases[c])
  BY <1>2, PlantedTells
<1>4. ~Here(d, c) => Looks(c, e.cases[c], {}) /\ RowFits(e.cases[c], schema)
  BY <1>3, BareUntouched, UntouchedFits DEF Looks, Lasting, Conversations
<1> QED BY <1>2, <1>3, <1>4, EditedSows

(* The plan execution Cases.                                                *)
LEMMA HandTells ==
  ASSUME NEW d, IsDemo(d), NEW c \in DemoCases, c = "plan", NEW from, NEW to,
         NEW e, e = Hand(d, from, to)
  PROVE  Edited(d, e, c) /\ e.cases[c] = StateRow(d.cases[c], to)
<1>1. PICK q : q = Require(d, d.cases[c].state = from)
  OBVIOUS
<1>2. Edited(d, q, c) /\ q.cases = d.cases
  BY <1>1, RequireEdits
<1>3. PICK row : row = StateRow(d.cases[c], to)
  OBVIOUS
<1>4. IsDemoRow(row)
  BY <1>3, StateRowTells, RowOf
<1>5. e = [q EXCEPT !.cases[c].state = to]
  BY <1>1 DEF Hand
<1>6. e = Put(q, c, row)
  BY <1>2, <1>3, <1>5 DEF IsDemo, DbFields, Edited, StateRow, Put
<1>7. Edited(q, e, c) /\ e.cases[c] = row
  BY <1>2, <1>4, <1>6, PutEdits DEF Edited
<1> QED BY <1>2, <1>3, <1>7, EditedTwice

LEMMA HandKeeps ==
  ASSUME NEW d, IsDemo(d), NEW p, NEW c \in DemoCases, c = "plan", NEW from, NEW to,
         NEW e, e = Hand(d, from, to), Edited(p, d, c), Untouched(d.cases[c])
  PROVE  /\ Edited(p, e, c) /\ Untouched(e.cases[c])
         /\ e.cases[c].runs = d.cases[c].runs /\ e.cases[c].revision = d.cases[c].revision
         /\ e.cases[c].task = d.cases[c].task /\ e.cases[c].state = to
<1>1. Edited(d, e, c) /\ e.cases[c] = StateRow(d.cases[c], to)
  BY HandTells
<1>2. PICK r, n : r = d.cases[c] /\ n = e.cases[c]
  OBVIOUS
<1>3. /\ SameTalk(r, n) /\ SameFlags(r, n) /\ SameTask(r, n)
      /\ n.revision = r.revision /\ n.runs = r.runs /\ n.state = to
  BY <1>1, <1>2, StateRowTells, RowOf
<1>4. Untouched(n)
  BY <1>2, <1>3 DEF Untouched, RowNumbers, Unflagged, SameTalk, SameFlags, SameTask
<1>5. Edited(p, e, c)
  BY <1>1, EditedTwice
<1> QED BY <1>2, <1>3, <1>4, <1>5 DEF SameTask

LEMMA PlanSows ==
  ASSUME NEW d, IsDemo(d), NEW c, c = "plan", NEW e, e = SeedPlan(d), NEW S, c \in S
  PROVE  Sown(d, e, S)
<1>1. c \in DemoCases
  BY DEF DemoCases
<1>2. CASE Here(d, c)
  <2>1. PICK holds : holds = ExactPlan(d)
    OBVIOUS
  <2>2. e = Require(d, holds)
    BY <1>2, <2>1 DEF SeedPlan
  <2> QED BY <2>2, RequireSows
<1>3. CASE ~Here(d, c)
  <2>1. PICK s : s = "planning"
    OBVIOUS
  <2>2. PICK p : p = Planted(d, c, s)
    OBVIOUS
  <2>3. PICK q : q = RunAdded(p, c)
    OBVIOUS
  <2>4. PICK a, f, k, y : a = "advisor_review" /\ f = "family_review" /\ k = "decided"
                          /\ y = "plan_ready"
    OBVIOUS
  <2>5. PICK h1 : h1 = Hand(q, a, f)
    OBVIOUS
  <2>6. PICK h2 : h2 = Hand(h1, f, k)
    OBVIOUS
  <2>7. PICK h3 : h3 = Hand(h2, k, y)
    OBVIOUS
  <2>8. ApprovedPlan(d) = q
    BY <2>1, <2>2, <2>3 DEF ApprovedPlan
  <2>9. HandedOver(q) = h3
    BY <2>4, <2>5, <2>6, <2>7 DEF HandedOver
  <2>10. PICK holds : holds = ExactPlan(h3)
    OBVIOUS
  <2>11. e = Require(h3, holds)
    BY <1>3, <2>8, <2>9, <2>10 DEF SeedPlan
  <2>12. Edited(d, p, c) /\ Bare(p.cases[c])
    BY <1>1, <1>3, <2>2, PlantedTells
  <2>13. Edited(p, q, c) /\ q.cases[c] = RunRow(p.cases[c])
    BY <1>1, <2>3, <2>12, RunTells DEF Edited
  <2>14. IsDemoRow(p.cases[c]) /\ IsDemo(q)
    BY <1>1, <2>12, <2>13, RowOf DEF Edited
  <2>15. Untouched(q.cases[c]) /\ q.cases[c].runs = 1
    BY <2>12, <2>13, <2>14, BareRuns
  <2>16. q.cases[c].revision = 1 /\ q.cases[c].task = "none"
    BY <2>12, <2>13, <2>14, RunRowTells DEF Bare, SameTask
  <2>17. Edited(d, q, c)
    BY <2>12, <2>13, EditedTwice
  <2>18. /\ Edited(d, h1, c) /\ Untouched(h1.cases[c]) /\ h1.cases[c].runs = 1
         /\ h1.cases[c].revision = 1 /\ h1.cases[c].task = "none"
    BY <1>1, <2>5, <2>14, <2>15, <2>16, <2>17, HandKeeps
  <2>19. /\ Edited(d, h2, c) /\ Untouched(h2.cases[c]) /\ h2.cases[c].runs = 1
         /\ h2.cases[c].revision = 1 /\ h2.cases[c].task = "none"
    <3>1. IsDemo(h1)
      BY <2>18 DEF Edited
    <3> QED BY <1>1, <2>6, <2>18, <3>1, HandKeeps
  <2>20. /\ Edited(d, h3, c) /\ Untouched(h3.cases[c]) /\ h3.cases[c].runs = 1
         /\ h3.cases[c].revision = 1 /\ h3.cases[c].task = "none" /\ h3.cases[c].state = y
    <3>1. IsDemo(h2)
      BY <2>19 DEF Edited
    <3> QED BY <1>1, <2>7, <2>19, <3>1, HandKeeps
  <2>21. Edited(h3, e, c) /\ e.cases = h3.cases
    BY <2>11, <2>20, RequireEdits DEF Edited
  <2>22. PICK r : r = e.cases[c]
    OBVIOUS
  <2>23. Edited(d, e, c)
    BY <2>20, <2>21, EditedTwice
  <2>24. RowFits(r, schema)
    BY <2>20, <2>21, <2>22, UntouchedFits
  <2>25. Looks(c, r, {})
    BY <2>4, <2>20, <2>21, <2>22 DEF Looks, LikePlan, Lasting, Conversations, Untouched, Unflagged
  <2> QED BY <1>1, <1>3, <2>22, <2>23, <2>24, <2>25, EditedSows
<1> QED BY <1>2, <1>3

(* The planning revision Cases.                                             *)
LEMMA CountriesTells ==
  ASSUME NEW d, IsDemo(d), NEW c \in DemoCases, c = "revision",
         d.cases[c].chains = 0, d.cases[c].talk = FALSE, NEW e, e = CountriesFact(d)
  PROVE  Edited(d, e, c) /\ e.cases[c] = ChainsRow(d.cases[c], 1) /\ (e.ok => schema >= 13)
<1>1. PICK row : row = ChainsRow(d.cases[c], 1)
  OBVIOUS
<1>2. PICK q : q = Put(d, c, row)
  OBVIOUS
<1>3. PICK holds : holds = (HasCountriesSeed /\ FactReady(q, c) /\ ExactFact(q, c))
  OBVIOUS
<1>4. q = [d EXCEPT !.cases[c].chains = 1]
  BY <1>1, <1>2 DEF Put, ChainsRow, IsDemo, DbFields
<1>5. ~(d.cases[c].chains > 0 \/ d.cases[c].talk)
  OBVIOUS
<1>6. e = Require(q, holds)
  BY <1>3, <1>4, <1>5 DEF CountriesFact
<1>7. IsDemoRow(row)
  BY <1>1, RowOf, ChainsRowTells
<1>8. Edited(d, q, c) /\ q.cases[c] = row
  BY <1>2, <1>7, PutEdits
<1>9. Edited(q, e, c) /\ e.cases = q.cases /\ (e.ok => holds)
  BY <1>6, <1>8, RequireEdits DEF Edited
<1>10. holds => schema >= 13
  BY <1>3 DEF HasCountriesSeed
<1> QED BY <1>1, <1>8, <1>9, <1>10, EditedTwice

LEMMA IntakeTells ==
  ASSUME NEW d, IsDemo(d), NEW c \in DemoCases, c = "intake",
         d.cases[c].chains = 0, d.cases[c].talk = FALSE, NEW e, e = IntakeFact(d)
  PROVE  Edited(d, e, c) /\ e.cases[c] = ChainsRow(d.cases[c], 1) /\ (e.ok => schema >= 17)
<1>1. PICK row : row = ChainsRow(d.cases[c], 1)
  OBVIOUS
<1>2. PICK q : q = Put(d, c, row)
  OBVIOUS
<1>3. PICK holds : holds = (HasIntake /\ IntakeReady(q) /\ ExactIntakeFact(q))
  OBVIOUS
<1>4. q = [d EXCEPT !.cases[c].chains = 1]
  BY <1>1, <1>2 DEF Put, ChainsRow, IsDemo, DbFields
<1>5. ~(d.cases[c].chains > 0 \/ d.cases[c].talk)
  OBVIOUS
<1>6. e = Require(q, holds)
  BY <1>3, <1>4, <1>5 DEF IntakeFact
<1>7. IsDemoRow(row)
  BY <1>1, RowOf, ChainsRowTells
<1>8. Edited(d, q, c) /\ q.cases[c] = row
  BY <1>2, <1>7, PutEdits
<1>9. Edited(q, e, c) /\ e.cases = q.cases /\ (e.ok => holds)
  BY <1>6, <1>8, RequireEdits DEF Edited
<1>10. holds => schema >= 17
  BY <1>3 DEF HasIntake
<1> QED BY <1>1, <1>8, <1>9, <1>10, EditedTwice

LEMMA BudgetTells ==
  ASSUME NEW d, IsDemo(d), NEW c \in DemoCases, c = "revision",
         d.cases[c].chains = 1, d.cases[c].talk = FALSE, NEW e, e = BudgetFact(d)
  PROVE  Edited(d, e, c) /\ e.cases[c] = ChainsRow(d.cases[c], 2) /\ (e.ok => schema >= 16)
<1>1. PICK row : row = ChainsRow(d.cases[c], 2)
  OBVIOUS
<1>2. PICK q : q = Put(d, c, row)
  OBVIOUS
<1>3. PICK holds : holds = (HasRetries /\ BudgetReady(q) /\ ExactBudgetFacts(q))
  OBVIOUS
<1>4. q = [d EXCEPT !.cases[c].chains = d.cases[c].chains + 1]
  <2>1. q = [d EXCEPT !.cases[c].chains = 2]
    BY <1>1, <1>2 DEF Put, ChainsRow, IsDemo, DbFields
  <2>2. d.cases[c].chains + 1 = 2
    OBVIOUS
  <2> QED BY <2>1, <2>2
<1>5. ~(d.cases[c].chains > 1 \/ d.cases[c].talk)
  OBVIOUS
<1>6. e = Require(q, holds)
  BY <1>3, <1>4, <1>5 DEF BudgetFact
<1>7. IsDemoRow(row)
  BY <1>1, RowOf, ChainsRowTells
<1>8. Edited(d, q, c) /\ q.cases[c] = row
  BY <1>2, <1>7, PutEdits
<1>9. Edited(q, e, c) /\ e.cases = q.cases /\ (e.ok => holds)
  BY <1>6, <1>8, RequireEdits DEF Edited
<1>10. holds => schema >= 16
  BY <1>3 DEF HasRetries
<1> QED BY <1>1, <1>8, <1>9, <1>10, EditedTwice

LEMMA ReviewedTells ==
  ASSUME NEW d, IsDemo(d), NEW c \in DemoCases, NEW w, w = "waiting", NEW e, e = ReviewedTask(d, c)
  PROVE  Edited(d, e, c) /\ e.cases[c] = PinRow(TaskRow(RunRow(d.cases[c]), w), 0)
<1>1. PICK q : q = RunAdded(d, c)
  OBVIOUS
<1>2. Edited(d, q, c) /\ q.cases[c] = RunRow(d.cases[c])
  BY <1>1, RunTells
<1>3. PICK row : row = PinRow(TaskRow(q.cases[c], w), 0)
  OBVIOUS
<1>4. IsDemoRow(q.cases[c]) /\ IsDemo(q)
  BY <1>2, RowOf DEF Edited
<1>5. IsDemoRow(row)
  BY <1>3, <1>4, TaskRowTells, PinRowTells
<1>6. e = [q EXCEPT !.cases[c].task = w, !.cases[c].pin = 0]
  BY <1>1 DEF ReviewedTask
<1>7. e = Put(q, c, row)
  BY <1>3, <1>4, <1>6 DEF IsDemo, DbFields, PinRow, TaskRow, Put
<1>8. Edited(q, e, c) /\ e.cases[c] = row
  BY <1>4, <1>5, <1>7, PutEdits
<1> QED BY <1>2, <1>3, <1>8, EditedTwice

(* The row that is built.                                                   *)
LEMMA BuiltRow ==
  ASSUME NEW c \in {"revision", "intake"}, NEW r, IsDemoRow(r), NEW w, w = "waiting",
         Unflagged(r), r.revision = 1, r.runs = 0, r.thread = TRUE, r.offer = FALSE,
         r.chains = IF c = "intake" THEN 1 ELSE 2,
         NEW n, n = PinRow(TaskRow(RunRow(r), w), 0)
  PROVE  /\ Looks(c, n, {})
         /\ schema >= 7 => RowFits(n, schema)
<1>1. PICK n1, n2 : n1 = RunRow(r) /\ n2 = TaskRow(n1, w)
  OBVIOUS
<1>2. /\ IsDemoRow(n1) /\ SameTalk(r, n1) /\ SameFlags(r, n1)
      /\ n1.revision = r.revision /\ n1.runs = r.runs + 1 /\ n1.state = "advisor_review"
  BY <1>1, RunRowTells
<1>3. /\ IsDemoRow(n2) /\ SameFlags(n1, n2) /\ SameTalk(n1, n2) /\ n2.task = w
      /\ n2.revision = n1.revision /\ n2.runs = n1.runs /\ n2.state = n1.state
  BY <1>1, <1>2, TaskRowTells
<1>4. /\ SameFlags(n2, n) /\ SameTalk(n2, n) /\ n.task = n2.task /\ n.pin = 0
      /\ n.revision = n2.revision /\ n.runs = n2.runs /\ n.state = n2.state
  BY <1>1, <1>3, PinRowTells
<1>5. Unflagged(n) /\ n.thread = TRUE /\ n.offer = FALSE /\ n.chains = r.chains
  BY <1>2, <1>3, <1>4 DEF SameFlags, SameTalk, Unflagged
<1>6. n.task = w /\ n.revision = 1 /\ n.runs = 1 /\ n.state = "advisor_review"
  BY <1>2, <1>3, <1>4
<1>7. LikeRevision(c, n, {})
  BY <1>4, <1>5, <1>6 DEF LikeRevision, Unflagged
<1>8. Looks(c, n, {})
  BY <1>7 DEF Looks, Lasting, Conversations
<1>9. RowNumbers(n)
  BY <1>4, <1>5, <1>6 DEF RowNumbers
<1>10. n.task # "queued" /\ ~(n.pin > 0)
  BY <1>4, <1>6
<1>11. n.thread \in BOOLEAN /\ n.offer \in BOOLEAN
  BY <1>5
<1>12. schema >= 7 => Untouched(n)
  BY <1>5, <1>9, <1>10, <1>11 DEF Untouched
<1> QED BY <1>8, <1>12, UntouchedFits

Started(r) == /\ IsDemoRow(r) /\ Unflagged(r) /\ r.revision = 1 /\ r.runs = 0
              /\ r.thread = TRUE /\ r.offer = FALSE

LEMMA StartedChains ==
  ASSUME NEW r, Started(r), NEW k, NEW n, n = ChainsRow(r, k)
  PROVE  Started(n) /\ n.chains = k
<1>1. /\ IsDemoRow(n) /\ SameFlags(r, n) /\ SameTask(r, n)
      /\ n.thread = r.thread /\ n.talk = r.talk /\ n.offer = r.offer /\ n.chains = k
      /\ n.revision = r.revision /\ n.runs = r.runs /\ n.state = r.state
  BY ChainsRowTells DEF Started
<1> QED BY <1>1 DEF Started, SameFlags, Unflagged

LEMMA FactsTell ==
  ASSUME schema \in Nat, NEW d, IsDemo(d), NEW c \in {"revision", "intake"}, Started(d.cases[c]),
         d.cases[c].chains = 0,
         NEW e, e = IF c = "intake" THEN IntakeFact(d) ELSE BudgetFact(CountriesFact(d))
  PROVE  /\ Edited(d, e, c) /\ Started(e.cases[c]) /\ (e.ok => schema >= 16)
         /\ e.cases[c].chains = IF c = "intake" THEN 1 ELSE 2
<1>1. c \in DemoCases /\ d.cases[c].talk = FALSE
  BY DEF DemoCases, Started, Unflagged
<1>2. CASE c = "intake"
  <2>1. Edited(d, e, c) /\ e.cases[c] = ChainsRow(d.cases[c], 1) /\ (e.ok => schema >= 17)
    BY <1>1, <1>2, IntakeTells
  <2>2. Started(e.cases[c]) /\ e.cases[c].chains = 1
    BY <2>1, StartedChains
  <2>3. schema >= 17 => schema >= 16
    BY <2>1
  <2> QED BY <1>2, <2>1, <2>2, <2>3
<1>3. CASE c = "revision"
  <2>1. PICK q : q = CountriesFact(d)
    OBVIOUS
  <2>2. e = BudgetFact(q)
    BY <1>3, <2>1
  <2>3. Edited(d, q, c) /\ q.cases[c] = ChainsRow(d.cases[c], 1)
    BY <1>1, <1>3, <2>1, CountriesTells
  <2>4. Started(q.cases[c]) /\ q.cases[c].chains = 1
    BY <2>3, StartedChains
  <2>5. IsDemo(q) /\ q.cases[c].talk = FALSE
    BY <2>3, <2>4 DEF Edited, Started, Unflagged
  <2>6. Edited(q, e, c) /\ e.cases[c] = ChainsRow(q.cases[c], 2) /\ (e.ok => schema >= 16)
    BY <1>1, <1>3, <2>2, <2>4, <2>5, BudgetTells
  <2>7. Started(e.cases[c]) /\ e.cases[c].chains = 2
    BY <2>4, <2>6, StartedChains
  <2>8. Edited(d, e, c)
    BY <2>3, <2>6, EditedTwice
  <2> QED BY <1>3, <2>6, <2>7, <2>8
<1> QED BY <1>2, <1>3

LEMMA BuiltTells ==
  ASSUME schema \in Nat, NEW d, IsDemo(d), NEW c \in {"revision", "intake"}, ~Here(d, c),
         NEW e, e = BuiltRevision(d, c)
  PROVE  Edited(d, e, c) /\ Looks(c, e.cases[c], {}) /\ (e.ok => RowFits(e.cases[c], schema))
<1>1. c \in DemoCases
  BY DEF DemoCases
<1>2. PICK s, w : s = "planning" /\ w = "waiting"
  OBVIOUS
<1>3. PICK p : p = Planted(d, c, s)
  OBVIOUS
<1>4. PICK t : t = SeedThread(p, c)
  OBVIOUS
<1>5. PICK k : k = IF c = "intake" THEN IntakeFact(t) ELSE BudgetFact(CountriesFact(t))
  OBVIOUS
<1>6. PICK holds : holds = (k.cases["default"].runs > 0 /\ k.cases[c].runs = 0)
  OBVIOUS
<1>7. PICK q : q = Require(k, holds)
  OBVIOUS
<1>8. e = ReviewedTask(q, c)
  BY <1>2, <1>3, <1>4, <1>5, <1>6, <1>7 DEF BuiltRevision, ClonedSnapshot
<1>9. Edited(d, p, c) /\ Bare(p.cases[c])
  BY <1>1, <1>3, PlantedTells
<1>10. IsDemo(p) /\ IsDemoRow(p.cases[c])
  BY <1>1, <1>9 DEF Edited, IsDemo
<1>11. Edited(p, t, c) /\ t.cases[c] = ThreadRow(p.cases[c])
  BY <1>1, <1>4, <1>10, ThreadTells
<1>12. PICK r, n : r = p.cases[c] /\ n = t.cases[c]
  OBVIOUS
<1>13. /\ IsDemoRow(n) /\ SameFlags(r, n) /\ n.thread = TRUE /\ n.talk = r.talk
       /\ n.offer = r.offer /\ n.chains = r.chains /\ n.revision = r.revision /\ n.runs = r.runs
  <2>1. n = ThreadRow(r) /\ IsDemoRow(r)
    BY <1>10, <1>11, <1>12
  <2> QED BY <2>1, ThreadRowTells
<1>14. Started(t.cases[c]) /\ t.cases[c].chains = 0
  BY <1>9, <1>12, <1>13 DEF Started, SameFlags, Bare, Unflagged
<1>15. IsDemo(t)
  BY <1>11 DEF Edited
<1>16. /\ Edited(t, k, c) /\ Started(k.cases[c]) /\ (k.ok => schema >= 16)
       /\ k.cases[c].chains = IF c = "intake" THEN 1 ELSE 2
  BY <1>5, <1>14, <1>15, FactsTell
<1>17. IsDemo(k)
  BY <1>16 DEF Edited
<1>18. Edited(k, q, c) /\ q.cases = k.cases /\ (q.ok => k.ok)
  BY <1>7, <1>17, RequireEdits
<1>19. IsDemo(q)
  BY <1>18 DEF Edited
<1>20. Edited(q, e, c) /\ e.cases[c] = PinRow(TaskRow(RunRow(q.cases[c]), w), 0)
  BY <1>1, <1>2, <1>8, <1>19, ReviewedTells
<1>21. Edited(d, e, c)
  BY <1>9, <1>11, <1>16, <1>18, <1>20, EditedTwice
<1>22. e.ok => schema >= 7
  <2>1. e.ok => schema >= 16
    BY <1>16, <1>18, <1>20 DEF Edited
  <2>2. schema >= 16 => schema >= 7
    OBVIOUS
  <2> QED BY <2>1, <2>2
<1>23. PICK x, y : x = q.cases[c] /\ y = e.cases[c]
  OBVIOUS
<1>24. /\ IsDemoRow(x) /\ Unflagged(x) /\ x.revision = 1 /\ x.runs = 0 /\ x.thread = TRUE
       /\ x.offer = FALSE /\ x.chains = IF c = "intake" THEN 1 ELSE 2
  BY <1>16, <1>18, <1>23 DEF Started
<1>25. y = PinRow(TaskRow(RunRow(x), w), 0)
  BY <1>20, <1>23
<1>26. Looks(c, y, {}) /\ (schema >= 7 => RowFits(y, schema))
  BY <1>2, <1>24, <1>25, BuiltRow
<1> QED BY <1>21, <1>22, <1>23, <1>26

LEMMA RevisionSows ==
  ASSUME schema \in Nat, NEW d, IsDemo(d), NEW c \in {"revision", "intake"}, NEW e, e = SeedRevision(d, c),
         NEW S, c \in S
  PROVE  Sown(d, e, S)
<1>1. c \in DemoCases
  BY DEF DemoCases
<1>2. CASE Here(d, c)
  <2>1. PICK holds : holds = ExactRevision(d, c)
    OBVIOUS
  <2>2. e = Require(d, holds)
    BY <1>2, <2>1 DEF SeedRevision
  <2> QED BY <2>2, RequireSows
<1>3. CASE ~Here(d, c)
  <2>1. e = BuiltRevision(d, c)
    BY <1>3 DEF SeedRevision
  <2>2. Edited(d, e, c) /\ Looks(c, e.cases[c], {}) /\ (e.ok => RowFits(e.cases[c], schema))
    BY <1>3, <2>1, BuiltTells
  <2> QED BY <1>1, <1>3, <2>2, EditedSows
<1> QED BY <1>2, <1>3

LEMMA SourceSows ==
  ASSUME NEW d, IsDemo(d), NEW e, e = SeedIntakeSource(d), NEW S
  PROVE  Sown(d, e, S) /\ "intake" \in e.packs
<1>1. PICK pack : pack = "intake"
  OBVIOUS
<1>2. PICK q : q = Packed(d, pack)
  OBVIOUS
<1>3. PICK holds : holds = ControlledSource(q)
  OBVIOUS
<1>4. e = Require(q, holds)
  BY <1>1, <1>2, <1>3 DEF SeedIntakeSource, Packed
<1>5. /\ IsDemo(q) /\ q.cases = d.cases /\ (q.ok <=> d.ok) /\ q.principals = d.principals
      /\ q.activation = d.activation /\ q.research = d.research
      /\ q.packs = d.packs \cup {pack}
  BY <1>2, PackTells
<1>6. /\ IsDemo(e) /\ e.cases = q.cases /\ (e.ok <=> q.ok /\ holds) /\ e.packs = q.packs
      /\ e.principals = q.principals /\ e.activation = q.activation /\ e.research = q.research
  BY <1>4, <1>5, RequireEdits DEF Edited
<1>7. holds => schema >= 17
  BY <1>3 DEF ControlledSource, HasIntake
<1> QED BY <1>1, <1>5, <1>6, <1>7 DEF Sown, Here

(* The conversations.                                                       *)
Opening(c) == IF c = "active" THEN "planning" ELSE "intake"
Opened(d, e, c) ==
    /\ Here(d, c) => e.cases[c] = d.cases[c]
    /\ ~Here(d, c) => Bare(e.cases[c]) /\ e.cases[c].state = Opening(c)
Within(d, e, C) ==
    /\ IsDemo(e)
    /\ e.principals = d.principals /\ e.packs = d.packs
    /\ e.activation = d.activation /\ e.research = d.research
    /\ e.ok => d.ok
    /\ \A x \in DemoCases \ C : e.cases[x] = d.cases[x]

LEMMA EditedWithin ==
  ASSUME NEW d, NEW e, NEW c, NEW C, c \in C, Edited(d, e, c)
  PROVE  Within(d, e, C)
  BY DEF Edited, Within

LEMMA WithinTwice ==
  ASSUME NEW d, NEW e, NEW g, NEW C, Within(d, e, C), Within(e, g, C)
  PROVE  Within(d, g, C)
  BY DEF Within

LEMMA OpenedKeeps ==
  ASSUME NEW d, NEW e, NEW c \in DemoCases, Opened(d, e, c), NEW g, NEW x, x # c, Edited(e, g, x)
  PROVE  Opened(d, g, c)
<1>1. g.cases[c] = e.cases[c]
  BY DEF Edited
<1> QED BY <1>1 DEF Opened

LEMMA PlantedOpens ==
  ASSUME NEW d, NEW q, IsDemo(q), NEW c \in DemoCases, q.cases[c] = d.cases[c],
         NEW s, s = Opening(c), NEW e, e = Planted(q, c, s)
  PROVE  Edited(q, e, c) /\ Opened(d, e, c)
<1>1. /\ Edited(q, e, c)
      /\ Here(q, c) => e.cases[c] = q.cases[c]
      /\ ~Here(q, c) => Bare(e.cases[c]) /\ e.cases[c].state = s
  BY PlantedTells
<1> QED BY <1>1 DEF Opened, Here

LEMMA ConversationsOpen ==
  ASSUME NEW d, IsDemo(d), NEW e, e = ConversationCases(d)
  PROVE  /\ Within(d, e, Conversations)
         /\ \A c \in Conversations : Opened(d, e, c)
<1>1. PICK c1, c2, c3, c4, o, s : /\ c1 = "primary" /\ c2 = "active" /\ c3 = "stale"
                                  /\ c4 = "expired" /\ o = "intake" /\ s = "planning"
  OBVIOUS
<1>2. /\ c1 \in DemoCases /\ c2 \in DemoCases /\ c3 \in DemoCases /\ c4 \in DemoCases
      /\ Conversations = {c1, c2, c3, c4}
      /\ c1 # c2 /\ c1 # c3 /\ c1 # c4 /\ c2 # c3 /\ c2 # c4 /\ c3 # c4
      /\ Opening(c1) = o /\ Opening(c2) = s /\ Opening(c3) = o /\ Opening(c4) = o
  BY <1>1 DEF DemoCases, Conversations, Opening
<1>3. PICK p1 : p1 = Planted(d, c1, o)
  OBVIOUS
<1>4. PICK p2 : p2 = Planted(p1, c2, s)
  OBVIOUS
<1>5. PICK p3 : p3 = Planted(p2, c3, o)
  OBVIOUS
<1>6. PICK p4 : p4 = Planted(p3, c4, o)
  OBVIOUS
<1>7. \E holds : e = Require(p4, holds)
  BY <1>1, <1>3, <1>4, <1>5, <1>6 DEF ConversationCases
<1>8. Edited(d, p1, c1) /\ Opened(d, p1, c1)
  BY <1>2, <1>3, PlantedOpens
<1>9. IsDemo(p1) /\ p1.cases[c2] = d.cases[c2] /\ p1.cases[c3] = d.cases[c3] /\ p1.cases[c4] = d.cases[c4]
  BY <1>2, <1>8 DEF Edited
<1>10. Edited(p1, p2, c2) /\ Opened(d, p2, c2)
  BY <1>2, <1>4, <1>9, PlantedOpens
<1>11. IsDemo(p2) /\ p2.cases[c3] = d.cases[c3] /\ p2.cases[c4] = d.cases[c4]
  BY <1>2, <1>9, <1>10 DEF Edited
<1>12. Edited(p2, p3, c3) /\ Opened(d, p3, c3)
  BY <1>2, <1>5, <1>11, PlantedOpens
<1>13. IsDemo(p3) /\ p3.cases[c4] = d.cases[c4]
  BY <1>2, <1>11, <1>12 DEF Edited
<1>14. Edited(p3, p4, c4) /\ Opened(d, p4, c4)
  BY <1>2, <1>6, <1>13, PlantedOpens
<1>15. Edited(p4, e, c4) /\ e.cases = p4.cases
  <2>1. IsDemo(p4)
    BY <1>14 DEF Edited
  <2>2. PICK holds : e = Require(p4, holds)
    BY <1>7
  <2> QED BY <2>1, <2>2, RequireEdits
<1>16. Within(d, e, Conversations)
  BY <1>2, <1>8, <1>10, <1>12, <1>14, <1>15, EditedWithin, WithinTwice
<1>17. Opened(d, e, c1)
  BY <1>2, <1>8, <1>10, <1>12, <1>14, <1>15, OpenedKeeps
<1>18. Opened(d, e, c2)
  BY <1>2, <1>10, <1>12, <1>14, <1>15, OpenedKeeps
<1>19. Opened(d, e, c3)
  BY <1>2, <1>12, <1>14, <1>15, OpenedKeeps
<1>20. Opened(d, e, c4)
  BY <1>14, <1>15 DEF Opened
<1> QED BY <1>2, <1>16, <1>17, <1>18, <1>19, <1>20

LEMMA OfferTells ==
  ASSUME NEW d, IsDemo(d), NEW c \in DemoCases, NEW e, e = SeedOffer(d, c)
  PROVE  Edited(d, e, c) /\ (e.ok <=> d.ok) /\ e.cases[c] = OfferRow(ThreadRow(d.cases[c]))
<1>1. PICK q : q = SeedThread(d, c)
  OBVIOUS
<1>2. Edited(d, q, c) /\ (q.ok <=> d.ok) /\ q.cases[c] = ThreadRow(d.cases[c])
  BY <1>1, ThreadTells
<1>3. IsDemo(q)
  BY <1>2 DEF Edited
<1>4. PICK row : row = OfferRow(q.cases[c])
  OBVIOUS
<1>5. e = [q EXCEPT !.cases[c].offer = TRUE]
  BY <1>1 DEF SeedOffer
<1>6. e = Put(q, c, row)
  BY <1>3, <1>4, <1>5 DEF IsDemo, DbFields, OfferRow, Put
<1>7. IsDemoRow(row)
  BY <1>3, <1>4, RowOf, OfferRowTells
<1>8. Edited(q, e, c) /\ (e.ok <=> q.ok) /\ e.cases[c] = row
  BY <1>3, <1>6, <1>7, PutEdits
<1> QED BY <1>2, <1>4, <1>8, EditedTwice

LEMMA PublishTells ==
  ASSUME NEW d, IsDemo(d), NEW c \in DemoCases, c = "stale", NEW e, e = PublishStale(d)
  PROVE  /\ Edited(d, e, c)
         /\ e.cases[c] = IF d.cases[c].revision # 1 THEN d.cases[c] ELSE RevisionRow(d.cases[c], 2)
<1>1. CASE d.cases[c].revision # 1
  <2>1. e = d
    BY <1>1 DEF PublishStale
  <2> QED BY <1>1, <2>1 DEF Edited
<1>2. CASE d.cases[c].revision = 1
  <2>1. PICK row : row = RevisionRow(d.cases[c], 2)
    OBVIOUS
  <2>2. e = [d EXCEPT !.cases[c].revision = 2]
    BY <1>2 DEF PublishStale
  <2>3. e = Put(d, c, row)
    BY <2>1, <2>2 DEF IsDemo, DbFields, RevisionRow, Put
  <2>4. IsDemoRow(row)
    BY <2>1, RowOf, RevisionRowTells
  <2>5. Edited(d, e, c) /\ e.cases[c] = row
    BY <2>3, <2>4, PutEdits
  <2> QED BY <1>2, <2>1, <2>5
<1> QED BY <1>1, <1>2

LEMMA ActiveTaskTells ==
  ASSUME NEW d, IsDemo(d), NEW c \in DemoCases, c = "active", NEW w, w = "waiting",
         NEW e, e = SeedActiveTask(d)
  PROVE  /\ Edited(d, e, c)
         /\ d.cases[c].task # "none" => e.cases[c] = d.cases[c]
         /\ d.cases[c].task = "none" => e.cases[c] = TaskRow(d.cases[c], w)
<1>1. PICK q : q = IF d.cases[c].task # "none" THEN d ELSE [d EXCEPT !.cases[c].task = w]
  OBVIOUS
<1>2. \E holds : e = Require(q, holds)
  BY <1>1 DEF SeedActiveTask
<1>3. /\ Edited(d, q, c)
      /\ d.cases[c].task # "none" => q.cases[c] = d.cases[c]
      /\ d.cases[c].task = "none" => q.cases[c] = TaskRow(d.cases[c], w)
  <2>1. CASE d.cases[c].task # "none"
    BY <1>1, <2>1 DEF Edited
  <2>2. CASE d.cases[c].task = "none"
    <3>1. PICK row : row = TaskRow(d.cases[c], w)
      OBVIOUS
    <3>2. q = [d EXCEPT !.cases[c].task = w]
      BY <1>1, <2>2
    <3>3. q = Put(d, c, row)
      BY <3>1, <3>2 DEF IsDemo, DbFields, TaskRow, Put
    <3>4. IsDemoRow(row)
      BY <3>1, RowOf, TaskRowTells
    <3>5. Edited(d, q, c) /\ q.cases[c] = row
      BY <3>3, <3>4, PutEdits
    <3> QED BY <2>2, <3>1, <3>5
  <2> QED BY <2>1, <2>2
<1>4. IsDemo(q)
  BY <1>3 DEF Edited
<1>5. Edited(q, e, c) /\ e.cases = q.cases
  <2>1. PICK holds : e = Require(q, holds)
    BY <1>2
  <2> QED BY <1>4, <2>1, RequireEdits
<1>6. Edited(d, e, c)
  BY <1>3, <1>5, EditedTwice
<1> QED BY <1>3, <1>5, <1>6

LEMMA PinnedTaskTells ==
  ASSUME NEW d, IsDemo(d), NEW c \in DemoCases, c = "active", NEW w, w = "waiting",
         NEW e, e = SeedPinnedTask(d)
  PROVE  /\ Edited(d, e, c)
         /\ d.cases[c].task # "none" => e.cases[c] = d.cases[c]
         /\ d.cases[c].task = "none" => e.cases[c] = PinRow(TaskRow(d.cases[c], w), 1)
<1>1. PICK q : q = IF d.cases[c].task # "none" THEN d
                   ELSE [d EXCEPT !.cases[c].task = w, !.cases[c].pin = 1]
  OBVIOUS
<1>2. \E holds : e = Require(q, holds)
  <2>1. q = IF d.cases["active"].task # "none" THEN d
            ELSE [d EXCEPT !.cases["active"].task = "waiting", !.cases["active"].pin = SeedPin(d)]
    BY <1>1 DEF SeedPin
  <2> QED BY <2>1 DEF SeedPinnedTask
<1>3. /\ Edited(d, q, c)
      /\ d.cases[c].task # "none" => q.cases[c] = d.cases[c]
      /\ d.cases[c].task = "none" => q.cases[c] = PinRow(TaskRow(d.cases[c], w), 1)
  <2>1. CASE d.cases[c].task # "none"
    BY <1>1, <2>1 DEF Edited
  <2>2. CASE d.cases[c].task = "none"
    <3>1. PICK row : row = PinRow(TaskRow(d.cases[c], w), 1)
      OBVIOUS
    <3>2. q = [d EXCEPT !.cases[c].task = w, !.cases[c].pin = 1]
      BY <1>1, <2>2
    <3>3. q = Put(d, c, row)
      BY <3>1, <3>2 DEF IsDemo, DbFields, TaskRow, PinRow, Put
    <3>4. IsDemoRow(row)
      BY <3>1, RowOf, TaskRowTells, PinRowTells
    <3>5. Edited(d, q, c) /\ q.cases[c] = row
      BY <3>3, <3>4, PutEdits
    <3> QED BY <2>2, <3>1, <3>5
  <2> QED BY <2>1, <2>2
<1>4. IsDemo(q)
  BY <1>3 DEF Edited
<1>5. Edited(q, e, c) /\ e.cases = q.cases
  <2>1. PICK holds : e = Require(q, holds)
    BY <1>2
  <2> QED BY <1>4, <2>1, RequireEdits
<1>6. Edited(d, e, c)
  BY <1>3, <1>5, EditedTwice
<1> QED BY <1>3, <1>5, <1>6

(* The task of the active Case: found, or made with or without a pin.       *)
WithTask(t, n) ==
    \/ t.task # "none" /\ n = t
    \/ t.task = "none" /\ n = TaskRow(t, "waiting")
    \/ t.task = "none" /\ schema >= 8 /\ n = PinRow(TaskRow(t, "waiting"), 1)

LEMMA ActiveTells ==
  ASSUME NEW d, IsDemo(d), NEW c \in DemoCases, c = "active", NEW skills, NEW e, e = SeedActive(d, skills)
  PROVE  Edited(d, e, c) /\ WithTask(ThreadRow(d.cases[c]), e.cases[c])
<1>1. PICK q : q = SeedThread(d, c)
  OBVIOUS
<1>2. Edited(d, q, c) /\ q.cases[c] = ThreadRow(d.cases[c])
  BY <1>1, ThreadTells
<1>3. IsDemo(q)
  BY <1>2 DEF Edited
<1>4. PICK w : w = "waiting"
  OBVIOUS
<1>5. Edited(q, e, c) /\ WithTask(q.cases[c], e.cases[c])
  <2>1. CASE ~HasCatalog
    <3>1. e = SeedActiveTask(q)
      BY <1>1, <2>1 DEF SeedActive
    <3> QED BY <1>3, <1>4, <3>1, ActiveTaskTells DEF WithTask
  <2>2. CASE HasCatalog /\ LegacyTask(d)
    <3>1. PICK p : p = SeedActiveTask(q)
      OBVIOUS
    <3>2. PICK holds : holds = (q.cases["active"].task # "none" => ExactLegacyTask(q))
      OBVIOUS
    <3>3. e = Require(p, holds)
      BY <1>1, <2>2, <3>1, <3>2 DEF SeedActive, WrappedActiveTask
    <3>4. Edited(q, p, c) /\ WithTask(q.cases[c], p.cases[c])
      BY <1>3, <1>4, <3>1, ActiveTaskTells DEF WithTask
    <3>5. IsDemo(p)
      BY <3>4 DEF Edited
    <3>6. Edited(p, e, c) /\ e.cases = p.cases
      BY <3>3, <3>5, RequireEdits
    <3>7. Edited(q, e, c)
      BY <3>4, <3>6, EditedTwice
    <3> QED BY <3>4, <3>6, <3>7
  <2>3. CASE HasCatalog /\ ~LegacyTask(d)
    <3>1. PICK p : p = SeedPinnedTask(q)
      OBVIOUS
    <3>2. e = Require(p, skills)
      BY <1>1, <2>3, <3>1 DEF SeedActive
    <3>3. /\ Edited(q, p, c)
          /\ q.cases[c].task # "none" => p.cases[c] = q.cases[c]
          /\ q.cases[c].task = "none" => p.cases[c] = PinRow(TaskRow(q.cases[c], w), 1)
      BY <1>3, <1>4, <3>1, PinnedTaskTells
    <3>4. WithTask(q.cases[c], p.cases[c])
      BY <1>4, <2>3, <3>3 DEF WithTask, HasCatalog
    <3>5. IsDemo(p)
      BY <3>3 DEF Edited
    <3>6. Edited(p, e, c) /\ e.cases = p.cases
      BY <3>2, <3>5, RequireEdits
    <3>7. Edited(q, e, c)
      BY <3>3, <3>6, EditedTwice
    <3> QED BY <3>4, <3>6, <3>7
  <2> QED BY <2>1, <2>2, <2>3
<1>6. Edited(d, e, c)
  BY <1>2, <1>5, EditedTwice
<1> QED BY <1>2, <1>5, <1>6

(* The rows the conversations end with.                                     *)
Ends(c, r, n) ==
    /\ c = "primary" => n = ThreadRow(r)
    /\ c = "active" => WithTask(ThreadRow(r), n)
    /\ c = "expired" => n = OfferRow(ThreadRow(r))
    /\ c = "stale" => LET o == OfferRow(ThreadRow(r)) IN
                      n = IF o.revision # 1 THEN o ELSE RevisionRow(o, 2)

LEMMA EndsLast ==
  ASSUME NEW c \in Conversations, NEW r, IsDemoRow(r), Lasting(c, r), NEW n, Ends(c, r, n)
  PROVE  n = r
<1>1. PICK t : t = ThreadRow(r)
  OBVIOUS
<1>2. t = r
  BY <1>1, ThreadRowSame DEF Lasting
<1>3. CASE c = "primary"
  BY <1>1, <1>2, <1>3 DEF Ends
<1>4. CASE c = "active"
  <2>1. r.task # "none" /\ WithTask(r, n)
    BY <1>1, <1>2, <1>4 DEF Ends, Lasting
  <2> QED BY <2>1 DEF WithTask
<1>5. PICK o : o = OfferRow(r)
  OBVIOUS
<1>6. c \in {"stale", "expired"} => o = r
  BY <1>5, OfferRowSame DEF Lasting
<1>7. CASE c = "expired"
  BY <1>1, <1>2, <1>5, <1>6, <1>7 DEF Ends
<1>8. CASE c = "stale"
  BY <1>1, <1>2, <1>5, <1>6, <1>8 DEF Ends, Lasting
<1> QED BY <1>3, <1>4, <1>7, <1>8 DEF Conversations

(* What each of them keeps of the planted row.                              *)
Grown(r, n) ==
    /\ IsDemoRow(n) /\ Unflagged(n) /\ n.runs = 0 /\ n.state = r.state
    /\ n.thread \in BOOLEAN /\ n.offer \in BOOLEAN /\ n.chains = 0
    /\ n.revision \in Nat /\ n.pin \in Nat /\ n.task # "queued"

LEMMA GrownFits ==
  ASSUME NEW r, NEW n, Grown(r, n), n.pin > 0 => schema >= 8, schema >= 7
  PROVE  RowFits(n, schema)
<1>1. RowNumbers(n)
  BY DEF Grown, RowNumbers
<1>2. Untouched(n)
  BY <1>1 DEF Untouched, Grown
<1> QED BY <1>2, UntouchedFits

LEMMA ThreadGrows ==
  ASSUME NEW r, IsDemoRow(r), Bare(r), NEW n, n = ThreadRow(r)
  PROVE  /\ Grown(r, n) /\ n.thread = TRUE /\ n.revision = 1 /\ n.task = "none" /\ n.pin = 0
<1>1. /\ IsDemoRow(n) /\ SameFlags(r, n) /\ SameTask(r, n)
      /\ n.thread = TRUE /\ n.talk = r.talk /\ n.offer = r.offer /\ n.chains = r.chains
      /\ n.revision = r.revision /\ n.runs = r.runs /\ n.state = r.state
  BY ThreadRowTells
<1>2. Unflagged(n)
  BY <1>1 DEF Bare, Unflagged, SameFlags
<1>3. n.task = "none" /\ n.pin = 0 /\ n.chains = 0 /\ n.runs = 0 /\ n.revision = 1
  BY <1>1 DEF Bare, SameTask
<1>4. n.thread \in BOOLEAN /\ n.offer \in BOOLEAN
  BY <1>1 DEF Bare
<1> QED BY <1>1, <1>2, <1>3, <1>4 DEF Grown

LEMMA OfferGrows ==
  ASSUME NEW r, NEW t, Grown(r, t), NEW n, n = OfferRow(t)
  PROVE  /\ Grown(r, n) /\ n.thread = t.thread /\ n.offer = TRUE /\ n.revision = t.revision
         /\ n.task = t.task /\ n.pin = t.pin
<1>1. /\ IsDemoRow(n) /\ SameFlags(t, n) /\ SameTask(t, n)
      /\ n.thread = t.thread /\ n.talk = t.talk /\ n.offer = TRUE /\ n.chains = t.chains
      /\ n.revision = t.revision /\ n.runs = t.runs /\ n.state = t.state
  <2>1. IsDemoRow(t)
    BY DEF Grown
  <2> QED BY <2>1, OfferRowTells
<1>2. Unflagged(n)
  BY <1>1 DEF Grown, Unflagged, SameFlags
<1>3. n.task = t.task /\ n.pin = t.pin
  BY <1>1 DEF SameTask
<1>4. n.thread \in BOOLEAN /\ n.offer \in BOOLEAN
  BY <1>1 DEF Grown
<1> QED BY <1>1, <1>2, <1>3, <1>4 DEF Grown

LEMMA RevisionGrows ==
  ASSUME NEW r, NEW t, Grown(r, t), NEW n, n = RevisionRow(t, 2)
  PROVE  /\ Grown(r, n) /\ n.thread = t.thread /\ n.offer = t.offer /\ n.revision = 2
         /\ n.pin = t.pin
<1>1. /\ IsDemoRow(n) /\ SameTalk(t, n) /\ SameFlags(t, n) /\ SameTask(t, n)
      /\ n.revision = 2 /\ n.runs = t.runs /\ n.state = t.state
  BY RevisionRowTells DEF Grown
<1>2. Unflagged(n)
  BY <1>1 DEF Grown, Unflagged, SameFlags, SameTalk
<1>3. n.task = t.task /\ n.pin = t.pin
  BY <1>1 DEF SameTask
<1>4. n.thread = t.thread /\ n.offer = t.offer /\ n.chains = t.chains
  BY <1>1 DEF SameTalk
<1> QED BY <1>1, <1>2, <1>3, <1>4 DEF Grown

LEMMA TaskGrows ==
  ASSUME NEW r, NEW t, Grown(r, t), t.revision = 1, t.pin = 0, t.task = "none", NEW n, WithTask(t, n)
  PROVE  /\ Grown(r, n) /\ n.thread = t.thread /\ n.revision = 1 /\ n.task = "waiting"
         /\ n.pin \in {0, 1} /\ (n.pin > 0 => schema >= 8)
<1>1. PICK w, k : w = "waiting" /\ k = TaskRow(t, w)
  OBVIOUS
<1>2. n = k \/ (schema >= 8 /\ n = PinRow(k, 1))
  BY <1>1 DEF WithTask
<1>3. /\ IsDemoRow(k) /\ SameFlags(t, k) /\ SameTalk(t, k)
      /\ k.task = w /\ k.pin = t.pin
      /\ k.revision = t.revision /\ k.runs = t.runs /\ k.state = t.state
  BY <1>1, TaskRowTells DEF Grown
<1>4. /\ Unflagged(k) /\ k.thread = t.thread /\ k.offer = t.offer /\ k.chains = t.chains
  BY <1>3 DEF Grown, Unflagged, SameTalk, SameFlags
<1>5. Grown(r, k)
  BY <1>1, <1>3, <1>4 DEF Grown
<1>6. CASE n = k
  BY <1>1, <1>3, <1>4, <1>5, <1>6
<1>7. CASE schema >= 8 /\ n = PinRow(k, 1)
  <2>1. /\ IsDemoRow(n) /\ SameFlags(k, n) /\ SameTalk(k, n)
        /\ n.task = k.task /\ n.pin = 1
        /\ n.revision = k.revision /\ n.runs = k.runs /\ n.state = k.state
    BY <1>3, <1>7, PinRowTells
  <2>2. /\ Unflagged(n) /\ n.thread = k.thread /\ n.offer = k.offer /\ n.chains = k.chains
    BY <1>4, <2>1 DEF Unflagged, SameTalk, SameFlags
  <2>3. Grown(r, n)
    BY <1>5, <2>1, <2>2 DEF Grown
  <2> QED BY <1>1, <1>3, <1>4, <1>7, <2>1, <2>2, <2>3
<1> QED BY <1>2, <1>6, <1>7

LEMMA EndsNew ==
  ASSUME NEW c \in Conversations, NEW r, IsDemoRow(r), Bare(r), r.state = Opening(c),
         NEW n, Ends(c, r, n)
  PROVE  Looks(c, n, {}) /\ (schema >= 7 => RowFits(n, schema))
<1>1. PICK t, o : t = ThreadRow(r) /\ o = OfferRow(t)
  OBVIOUS
<1>2. Grown(r, t) /\ t.thread = TRUE /\ t.revision = 1 /\ t.task = "none" /\ t.pin = 0
  BY <1>1, ThreadGrows
<1>3. Grown(r, o) /\ o.thread = TRUE /\ o.offer = TRUE /\ o.revision = 1 /\ o.pin = 0
  BY <1>1, <1>2, OfferGrows
<1>4. CASE c = "primary"
  <2>1. n = t
    BY <1>1, <1>4 DEF Ends
  <2>2. schema >= 7 => RowFits(n, schema)
    BY <1>2, <2>1, GrownFits
  <2>3. n.state = "intake"
    BY <1>2, <1>4, <2>1 DEF Grown, Opening
  <2> QED BY <1>2, <1>4, <2>1, <2>2, <2>3 DEF Looks, Lasting, LikeOpening, First
<1>5. CASE c = "active"
  <2>1. WithTask(t, n)
    BY <1>1, <1>5 DEF Ends
  <2>2. /\ Grown(r, n) /\ n.thread = t.thread /\ n.revision = 1 /\ n.task = "waiting"
        /\ n.pin \in {0, 1} /\ (n.pin > 0 => schema >= 8)
    BY <1>2, <2>1, TaskGrows
  <2>3. schema >= 7 => RowFits(n, schema)
    BY <2>2, GrownFits
  <2>4. n.state = "planning" /\ n.runs = 0
    BY <1>5, <2>2 DEF Grown, Opening
  <2> QED BY <1>2, <1>5, <2>2, <2>3, <2>4 DEF Looks, Lasting, LikeActive
<1>6. CASE c = "expired"
  <2>1. n = o
    BY <1>1, <1>6 DEF Ends
  <2>2. schema >= 7 => RowFits(n, schema)
    BY <1>3, <2>1, GrownFits
  <2>3. n.state = "intake"
    BY <1>3, <1>6, <2>1 DEF Grown, Opening
  <2> QED BY <1>3, <1>6, <2>1, <2>2, <2>3 DEF Looks, Lasting, LikeOpening, First
<1>7. CASE c = "stale"
  <2>1. n = RevisionRow(o, 2)
    BY <1>1, <1>3, <1>7 DEF Ends
  <2>2. Grown(r, n) /\ n.thread = TRUE /\ n.offer = TRUE /\ n.revision = 2 /\ n.pin = 0
    BY <1>3, <2>1, RevisionGrows
  <2>3. schema >= 7 => RowFits(n, schema)
    BY <2>2, GrownFits
  <2>4. n.state = "intake"
    BY <1>7, <2>2 DEF Grown, Opening
  <2> QED BY <1>7, <2>2, <2>3, <2>4 DEF Looks, Lasting, LikeOpening, First
<1> QED BY <1>4, <1>5, <1>6, <1>7 DEF Conversations

LEMMA CollaborationEnds ==
  ASSUME NEW d, IsDemo(d), NEW skills, NEW e, e = SeedCollaboration(d, skills),
         NEW q, q = ConversationCases(d)
  PROVE  /\ Within(d, e, Conversations) /\ (e.ok => schema >= 7)
         /\ \A c \in Conversations : Ends(c, q.cases[c], e.cases[c])
<1>1. PICK c1, c2, c3, c4 : c1 = "primary" /\ c2 = "active" /\ c3 = "stale" /\ c4 = "expired"
  OBVIOUS
<1>2. /\ c1 \in DemoCases /\ c2 \in DemoCases /\ c3 \in DemoCases /\ c4 \in DemoCases
      /\ Conversations = {c1, c2, c3, c4}
      /\ c1 # c2 /\ c1 # c3 /\ c1 # c4 /\ c2 # c3 /\ c2 # c4 /\ c3 # c4
  BY <1>1 DEF DemoCases, Conversations
<1>3. PICK p : p = SeedThread(q, c1)
  OBVIOUS
<1>4. PICK a : a = SeedActive(p, skills)
  OBVIOUS
<1>5. PICK s : s = SeedOffer(a, c3)
  OBVIOUS
<1>6. PICK x : x = SeedOffer(s, c4)
  OBVIOUS
<1>7. PICK g : g = PublishStale(x)
  OBVIOUS
<1>8. PICK holds : holds = (HasTalk /\ g.cases["default"] = d.cases["default"])
  OBVIOUS
<1>9. e = Require(g, holds)
  BY <1>1, <1>3, <1>4, <1>5, <1>6, <1>7, <1>8 DEF SeedCollaboration
<1>10. Within(d, q, Conversations)
  BY ConversationsOpen
<1>11. IsDemo(q)
  BY <1>10 DEF Within
<1>12. Edited(q, p, c1) /\ p.cases[c1] = ThreadRow(q.cases[c1])
  BY <1>2, <1>3, <1>11, ThreadTells
<1>13. IsDemo(p)
  BY <1>12 DEF Edited
<1>14. Edited(p, a, c2) /\ WithTask(ThreadRow(p.cases[c2]), a.cases[c2])
  BY <1>1, <1>2, <1>4, <1>13, ActiveTells
<1>15. IsDemo(a)
  BY <1>14 DEF Edited
<1>16. Edited(a, s, c3) /\ s.cases[c3] = OfferRow(ThreadRow(a.cases[c3]))
  BY <1>2, <1>5, <1>15, OfferTells
<1>17. IsDemo(s)
  BY <1>16 DEF Edited
<1>18. Edited(s, x, c4) /\ x.cases[c4] = OfferRow(ThreadRow(s.cases[c4]))
  BY <1>2, <1>6, <1>17, OfferTells
<1>19. IsDemo(x)
  BY <1>18 DEF Edited
<1>20. /\ Edited(x, g, c3)
       /\ g.cases[c3] = IF x.cases[c3].revision # 1 THEN x.cases[c3] ELSE RevisionRow(x.cases[c3], 2)
  BY <1>1, <1>2, <1>7, <1>19, PublishTells
<1>21. IsDemo(g)
  BY <1>20 DEF Edited
<1>22. Edited(g, e, c3) /\ e.cases = g.cases /\ (e.ok => holds)
  BY <1>9, <1>21, RequireEdits
<1>23. Within(d, e, Conversations)
  BY <1>2, <1>10, <1>12, <1>14, <1>16, <1>18, <1>20, <1>22, EditedWithin, WithinTwice
<1>24. e.ok => schema >= 7
  BY <1>8, <1>22 DEF HasTalk
<1>25. e.cases[c1] = p.cases[c1]
  BY <1>2, <1>14, <1>16, <1>18, <1>20, <1>22 DEF Edited
<1>26. e.cases[c2] = a.cases[c2] /\ p.cases[c2] = q.cases[c2]
  BY <1>2, <1>12, <1>16, <1>18, <1>20, <1>22 DEF Edited
<1>27. x.cases[c3] = s.cases[c3] /\ a.cases[c3] = q.cases[c3]
  BY <1>2, <1>12, <1>14, <1>18 DEF Edited
<1>28. e.cases[c4] = x.cases[c4] /\ s.cases[c4] = q.cases[c4]
  BY <1>2, <1>12, <1>14, <1>16, <1>20, <1>22 DEF Edited
<1>29. Ends(c1, q.cases[c1], e.cases[c1])
  BY <1>1, <1>12, <1>25 DEF Ends
<1>30. Ends(c2, q.cases[c2], e.cases[c2])
  BY <1>1, <1>14, <1>26 DEF Ends
<1>31. Ends(c3, q.cases[c3], e.cases[c3])
  BY <1>1, <1>16, <1>20, <1>22, <1>27 DEF Ends
<1>32. Ends(c4, q.cases[c4], e.cases[c4])
  BY <1>1, <1>18, <1>28 DEF Ends
<1> QED BY <1>2, <1>23, <1>24, <1>29, <1>30, <1>31, <1>32

LEMMA CollaborationSows ==
  ASSUME NEW d, IsDemo(d), \A c \in Conversations : Here(d, c) => Lasting(c, d.cases[c]),
         NEW skills, NEW e, e = SeedCollaboration(d, skills), NEW S, Conversations \subseteq S
  PROVE  Sown(d, e, S)
<1>1. PICK q : q = ConversationCases(d)
  OBVIOUS
<1>2. Within(d, q, Conversations) /\ \A c \in Conversations : Opened(d, q, c)
  BY <1>1, ConversationsOpen
<1>3. /\ Within(d, e, Conversations) /\ (e.ok => schema >= 7)
      /\ \A c \in Conversations : Ends(c, q.cases[c], e.cases[c])
  BY <1>1, CollaborationEnds
<1>4. ASSUME NEW c \in Conversations
      PROVE  /\ Here(d, c) => e.cases[c] = d.cases[c]
             /\ ~Here(d, c) => Looks(c, e.cases[c], {}) /\ (e.ok => RowFits(e.cases[c], schema))
  <2>1. c \in DemoCases
    BY DEF Conversations, DemoCases
  <2>2. IsDemoRow(q.cases[c])
    BY <1>2, <2>1 DEF Within, IsDemo
  <2>3. PICK r, n : r = q.cases[c] /\ n = e.cases[c]
    OBVIOUS
  <2>4. IsDemoRow(r) /\ Ends(c, r, n)
    BY <1>3, <2>2, <2>3
  <2>5. CASE Here(d, c)
    <3>1. r = d.cases[c] /\ Lasting(c, r)
      BY <1>2, <2>3, <2>5 DEF Opened
    <3>2. n = r
      BY <2>4, <3>1, EndsLast
    <3> QED BY <2>3, <2>5, <3>1, <3>2
  <2>6. CASE ~Here(d, c)
    <3>1. Bare(r) /\ r.state = Opening(c)
      BY <1>2, <2>3, <2>6 DEF Opened
    <3>2. Looks(c, n, {}) /\ (schema >= 7 => RowFits(n, schema))
      BY <2>4, <3>1, EndsNew
    <3> QED BY <1>3, <2>3, <2>6, <3>2
  <2> QED BY <2>5, <2>6
<1>5. ASSUME NEW x \in DemoCases
      PROVE  /\ Here(d, x) => e.cases[x] = d.cases[x]
             /\ Here(e, x) /\ ~Here(d, x) =>
                    /\ x \in S /\ Looks(x, e.cases[x], {})
                    /\ e.ok => RowFits(e.cases[x], schema)
  <2>1. CASE x \in Conversations
    BY <1>4, <2>1
  <2>2. CASE x \notin Conversations
    <3>1. e.cases[x] = d.cases[x]
      BY <1>3, <2>2 DEF Within
    <3> QED BY <3>1 DEF Here
  <2> QED BY <2>1, <2>2
<1> QED BY <1>3, <1>5 DEF Within, Sown

(* All parts.                                                               *)
Sows(f) == IF "planning" \notin f THEN {}
           ELSE {"default", "connected"} \cup (f \cap {"plan", "revision", "intake"}) \cup Conversations
Lasts(d) == \A c \in DemoCases : Here(d, c) => Lasting(c, d.cases[c])

LEMMA LastsOn ==
  ASSUME NEW d, NEW e, NEW S, Sown(d, e, S), Lasts(d)
  PROVE  Lasts(e) /\ IsDemo(e)
<1>1. ASSUME NEW c \in DemoCases, Here(e, c)
      PROVE  Lasting(c, e.cases[c])
  BY <1>1 DEF Sown, Lasts, Looks
<1> QED BY <1>1 DEF Lasts, Sown

SeedPlanning(f, d1) ==
    LET d2 == Part(f, "skills", SeedSkills(d1), d1)
        d3 == SeedTaskCase(SeedDefaultRun(SeedDefaultCase(d2)))
        d4 == Part(f, "plan", SeedPlan(d3), d3)
        d5 == Part(f, "revision", SeedRevision(d4, "revision"), d4)
        d6 == Part(f, "intake", SeedRevision(SeedIntakeSource(d5), "intake"), d5)
    IN Part(f, "collaboration", SeedCollaboration(d6, "skills" \in f), d6)

LEMMA PlanningSows ==
  ASSUME schema \in Nat, NEW d, IsDemo(d), Lasts(d), NEW f, "planning" \in f, NEW e, e = SeedPlanning(f, d)
  PROVE  /\ Sown(d, e, Sows(f)) /\ "baseline" \in e.packs
         /\ "intake" \in f => "intake" \in e.packs
<1>1. PICK S : S = Sows(f)
  OBVIOUS
<1>2. PICK c0, c1, c2, c3, c4 : /\ c0 = "default" /\ c1 = "connected" /\ c2 = "plan"
                                /\ c3 = "revision" /\ c4 = "intake"
  OBVIOUS
<1>3. /\ c0 \in S /\ c1 \in S /\ (c2 \in f => c2 \in S) /\ (c3 \in f => c3 \in S)
      /\ (c4 \in f => c4 \in S) /\ Conversations \subseteq S
  BY <1>1, <1>2 DEF Sows
<1>4. PICK d2 : d2 = Part(f, "skills", SeedSkills(d), d)
  OBVIOUS
<1>5. PICK g : g = SeedDefaultRun(SeedDefaultCase(d2))
  OBVIOUS
<1>6. PICK d3 : d3 = SeedTaskCase(g)
  OBVIOUS
<1>7. PICK d4 : d4 = Part(f, "plan", SeedPlan(d3), d3)
  OBVIOUS
<1>8. PICK d5 : d5 = Part(f, "revision", SeedRevision(d4, "revision"), d4)
  OBVIOUS
<1>9. PICK h : h = SeedIntakeSource(d5)
  OBVIOUS
<1>10. PICK d6 : d6 = Part(f, "intake", SeedRevision(h, "intake"), d5)
  OBVIOUS
<1>11. e = Part(f, "collaboration", SeedCollaboration(d6, "skills" \in f), d6)
  BY <1>4, <1>5, <1>6, <1>7, <1>8, <1>9, <1>10 DEF SeedPlanning
<1>12. Sown(d, d2, S)
  BY <1>4, SkillsSow, SownNothing DEF Part
<1>13. Lasts(d2) /\ IsDemo(d2)
  BY <1>12, LastsOn
<1>14. Sown(d2, g, S) /\ "baseline" \in g.packs
  <2>1. Here(d2, c0) => d2.cases[c0].runs > 0
    BY <1>2, <1>13 DEF Lasts, Lasting, DemoCases
  <2> QED BY <1>2, <1>3, <1>5, <1>13, <2>1, DefaultSows
<1>15. Lasts(g) /\ IsDemo(g)
  BY <1>13, <1>14, LastsOn
<1>16. Sown(g, d3, S)
  BY <1>2, <1>3, <1>6, <1>15, TaskCaseSows
<1>17. Lasts(d3) /\ IsDemo(d3)
  BY <1>15, <1>16, LastsOn
<1>18. Sown(d3, d4, S)
  <2>1. CASE c2 \in f
    <3>1. d4 = SeedPlan(d3)
      BY <1>2, <1>7, <2>1 DEF Part
    <3> QED BY <1>2, <1>3, <1>17, <2>1, <3>1, PlanSows
  <2>2. CASE c2 \notin f
    BY <1>2, <1>7, <1>17, <2>2, SownNothing DEF Part
  <2> QED BY <2>1, <2>2
<1>19. Lasts(d4) /\ IsDemo(d4)
  BY <1>17, <1>18, LastsOn
<1>20. Sown(d4, d5, S)
  <2>1. CASE c3 \in f
    <3>1. d5 = SeedRevision(d4, c3)
      BY <1>2, <1>8, <2>1 DEF Part
    <3>2. c3 \in {"revision", "intake"}
      BY <1>2
    <3> QED BY <1>3, <1>19, <2>1, <3>1, <3>2, RevisionSows
  <2>2. CASE c3 \notin f
    BY <1>2, <1>8, <1>19, <2>2, SownNothing DEF Part
  <2> QED BY <2>1, <2>2
<1>21. Lasts(d5) /\ IsDemo(d5)
  BY <1>19, <1>20, LastsOn
<1>22. Sown(d5, d6, S) /\ ("intake" \in f => "intake" \in d6.packs)
  <2>1. CASE c4 \in f
    <3>1. d6 = SeedRevision(h, c4)
      BY <1>2, <1>10, <2>1 DEF Part
    <3>2. c4 \in {"revision", "intake"}
      BY <1>2
    <3>3. Sown(d5, h, S) /\ "intake" \in h.packs
      BY <1>9, <1>21, SourceSows
    <3>4. IsDemo(h)
      BY <3>3 DEF Sown
    <3>5. Sown(h, d6, S)
      BY <1>3, <2>1, <3>1, <3>2, <3>4, RevisionSows
    <3>6. "intake" \in d6.packs
      BY <3>3, <3>5 DEF Sown
    <3> QED BY <3>3, <3>5, <3>6, SownTwice
  <2>2. CASE c4 \notin f
    BY <1>2, <1>10, <1>21, <2>2, SownNothing DEF Part
  <2> QED BY <2>1, <2>2
<1>23. Lasts(d6) /\ IsDemo(d6)
  BY <1>21, <1>22, LastsOn
<1>24. Sown(d6, e, S)
  <2>1. CASE "collaboration" \in f
    <3>1. PICK skills : skills = ("skills" \in f)
      OBVIOUS
    <3>2. e = SeedCollaboration(d6, skills)
      BY <1>11, <2>1, <3>1 DEF Part
    <3>3. \A c \in Conversations : Here(d6, c) => Lasting(c, d6.cases[c])
      BY <1>23 DEF Lasts, Conversations, DemoCases
    <3> QED BY <1>3, <1>23, <3>2, <3>3, CollaborationSows
  <2>2. CASE "collaboration" \notin f
    BY <1>11, <1>23, <2>2, SownNothing DEF Part
  <2> QED BY <2>1, <2>2
<1>25. Sown(d, g, S) /\ Sown(d, d3, S) /\ Sown(d, d4, S) /\ Sown(d, d5, S) /\ Sown(d, d6, S) /\ Sown(d, e, S)
  <2>1. Sown(d, g, S)
    BY <1>12, <1>14, SownTwice
  <2>2. Sown(d, d3, S)
    BY <1>16, <2>1, SownTwice
  <2>3. Sown(d, d4, S)
    BY <1>18, <2>2, SownTwice
  <2>4. Sown(d, d5, S)
    BY <1>20, <2>3, SownTwice
  <2>5. Sown(d, d6, S)
    BY <1>22, <2>4, SownTwice
  <2>6. Sown(d, e, S)
    BY <1>24, <2>5, SownTwice
  <2> QED BY <2>1, <2>2, <2>3, <2>4, <2>5, <2>6
<1>26. "baseline" \in e.packs
  <2>1. /\ g.packs \subseteq d3.packs /\ d3.packs \subseteq d4.packs /\ d4.packs \subseteq d5.packs
        /\ d5.packs \subseteq d6.packs /\ d6.packs \subseteq e.packs
    BY <1>16, <1>18, <1>20, <1>22, <1>24 DEF Sown
  <2> QED BY <1>14, <2>1
<1>27. "intake" \in f => "intake" \in e.packs
  BY <1>22, <1>24 DEF Sown
<1> QED BY <1>1, <1>25, <1>26, <1>27

LEMMA DemoSows ==
  ASSUME schema \in Nat, NEW d, IsDemo(d), Lasts(d), NEW f \in Seeds, NEW e, e = SeedDemo(f, d)
  PROVE  /\ Sown(d, e, Sows(f)) /\ "basic" \in e.principals
         /\ "plan" \in f => "scenario" \in e.principals
         /\ "planning" \in f => "baseline" \in e.packs
         /\ "intake" \in f => "planning" \in f /\ "intake" \in e.packs
<1>1. PICK S : S = Sows(f)
  OBVIOUS
<1>2. PICK holds : holds = ("intake" \in f => {"planning", "skills"} \subseteq f)
  OBVIOUS
<1>3. PICK d0 : d0 = Require(d, holds)
  OBVIOUS
<1>4. PICK scenario \in BOOLEAN : scenario <=> "plan" \in f
  OBVIOUS
<1>5. PICK d1 : d1 = SeedIdentity(d0, scenario)
  OBVIOUS
<1>6. SeedIdentity(d0, "plan" \in f) = d1
  <2>1. scenario = ("plan" \in f)
    BY <1>4
  <2> QED BY <1>5, <2>1
<1>7. e = IF "planning" \notin f THEN d1 ELSE SeedPlanning(f, d1)
  BY <1>2, <1>3, <1>6 DEF SeedDemo, SeedPlanning
<1>8. Sown(d, d0, S)
  BY <1>3, RequireSows
<1>9. Lasts(d0) /\ IsDemo(d0)
  BY <1>8, LastsOn
<1>10. /\ Sown(d0, d1, S) /\ "basic" \in d1.principals
       /\ scenario => "scenario" \in d1.principals
  BY <1>5, <1>9, IdentitySows
<1>11. Lasts(d1) /\ IsDemo(d1)
  BY <1>9, <1>10, LastsOn
<1>12. Sown(d, d1, S)
  BY <1>8, <1>10, SownTwice
<1>13. CASE "planning" \notin f
  <2>1. "intake" \notin f
    BY <1>13 DEF Seeds
  <2> QED BY <1>1, <1>4, <1>7, <1>10, <1>12, <1>13, <2>1
<1>14. CASE "planning" \in f
  <2>1. e = SeedPlanning(f, d1)
    BY <1>7, <1>14
  <2>2. /\ Sown(d1, e, S) /\ "baseline" \in e.packs
        /\ "intake" \in f => "intake" \in e.packs
    BY <1>1, <1>11, <1>14, <2>1, PlanningSows
  <2>3. d1.principals \subseteq e.principals
    BY <2>2 DEF Sown
  <2>4. Sown(d, e, S)
    BY <1>12, <2>2, SownTwice
  <2> QED BY <1>1, <1>4, <1>10, <1>14, <2>2, <2>3, <2>4
<1> QED BY <1>13, <1>14

LEMMA InvLasts ==
  ASSUME DatabaseInv
  PROVE  schema \in Nat /\ IsDemo(db) /\ Lasts(db) /\ db.ok = TRUE
<1>1. schema \in Nat /\ IsDemo(db) /\ db.ok = TRUE
  BY DEF DatabaseInv, OldestSchema, LatestSchema
<1>2. Lasts(db)
  BY DEF DatabaseInv, Lasts, Looks
<1> QED BY <1>1, <1>2

LEMMA RunSeedKeeps ==
  ASSUME DatabaseInv, NEW f \in Seeds, RunSeed(f)
  PROVE  DatabaseInv'
<1>1. PICK e : e = SeedDemo(f, db)
  OBVIOUS
<1>2. e.ok /\ db' = e /\ schema' = schema /\ touched' = touched
  BY <1>1 DEF RunSeed
<1>3. schema \in Nat /\ IsDemo(db) /\ Lasts(db)
  BY InvLasts
<1>4. /\ Sown(db, e, Sows(f)) /\ "basic" \in e.principals
      /\ "plan" \in f => "scenario" \in e.principals
      /\ "planning" \in f => "baseline" \in e.packs
      /\ "intake" \in f => "planning" \in f /\ "intake" \in e.packs
  BY <1>1, <1>3, DemoSows
<1>5. IsDemo(e) /\ e.ok = TRUE
  BY <1>2, <1>4 DEF Sown, IsDemo
<1>6. ASSUME NEW c \in DemoCases, Here(e, c), ~Here(db, c)
      PROVE  c \in Sows(f)
  BY <1>4, <1>6 DEF Sown
<1>7. db.principals \subseteq e.principals /\ db.packs \subseteq e.packs
  BY <1>4 DEF Sown
<1>8. Rooted(e)
  <2>1. "default" \in DemoCases /\ "plan" \in DemoCases /\ "intake" \in DemoCases
    BY DEF DemoCases
  <2>2. Here(e, "default") => "baseline" \in e.packs
    BY <1>4, <1>6, <1>7, <2>1 DEF Sows, DatabaseInv, Rooted
  <2>3. Here(e, "plan") => "scenario" \in e.principals
    BY <1>4, <1>6, <1>7, <2>1 DEF Sows, DatabaseInv, Rooted, Conversations
  <2>4. Here(e, "intake") => "intake" \in e.packs
    BY <1>4, <1>6, <1>7, <2>1 DEF Sows, DatabaseInv, Rooted, Conversations
  <2> QED BY <1>4, <2>2, <2>3, <2>4 DEF Rooted
<1>9. Shelved(e, schema)
  <2>1. e.activation \in Nat /\ (e.activation > 0 => schema >= 8)
    BY <1>2, <1>4 DEF Sown, DatabaseInv, Shelved
  <2>2. e.research = db.research
    BY <1>4 DEF Sown
  <2>3. /\ "intake" \in e.packs => schema >= 17
        /\ "scenario" \in e.principals => schema >= 15
    BY <1>2, <1>4 DEF Sown, DatabaseInv, Shelved
  <2> QED BY <2>1, <2>2, <2>3 DEF DatabaseInv, Shelved
<1>10. ASSUME NEW c \in DemoCases
       PROVE  /\ ~Here(e, c) => touched[c] = {}
              /\ Here(e, c) => RowFits(e.cases[c], schema) /\ Looks(c, e.cases[c], touched[c])
  <2>1. CASE Here(db, c)
    <3>1. e.cases[c] = db.cases[c]
      BY <1>4, <2>1 DEF Sown
    <3> QED BY <2>1, <3>1 DEF DatabaseInv, Here
  <2>2. CASE ~Here(db, c)
    <3>1. touched[c] = {}
      BY <2>2 DEF DatabaseInv
    <3>2. Here(e, c) => RowFits(e.cases[c], schema) /\ Looks(c, e.cases[c], {})
      BY <1>2, <1>4, <2>2 DEF Sown
    <3> QED BY <3>1, <3>2
  <2> QED BY <2>1, <2>2
<1>11. ASSUME NEW c \in DemoCases
       PROVE  /\ ~Here(db', c) => touched'[c] = {}
              /\ Here(db', c) => RowFits(db'.cases[c], schema') /\ Looks(c, db'.cases[c], touched'[c])
  BY <1>2, <1>10
<1>12. IsDemo(db') /\ db'.ok = TRUE /\ Rooted(db') /\ Shelved(db', schema')
  BY <1>2, <1>5, <1>8, <1>9
<1>13. schema' \in OldestSchema .. LatestSchema /\ touched' \in [DemoCases -> SUBSET {"talk", "work"}]
  BY <1>2 DEF DatabaseInv
<1> QED BY <1>11, <1>12, <1>13 DEF DatabaseInv

LEMMA NothingHere ==
  ASSUME NEW d, d = EmptyDatabase
  PROVE  IsDemo(d) /\ \A c \in DemoCases : ~Here(d, c)
<1>1. IsDemoRow(NoDemoCase) /\ NoDemoCase.state = "none"
  BY DEF IsDemoRow, NoDemoCase, RowFields
<1>2. d.cases = [c \in DemoCases |-> NoDemoCase] /\ d.ok = TRUE
  BY DEF EmptyDatabase
<1>3. d = [field \in DbFields |-> d[field]]
  BY DEF EmptyDatabase, DbFields
<1> QED BY <1>1, <1>2, <1>3 DEF IsDemo, Here

LEMMA DatabaseStarts == DemoInit => DatabaseInv
<1> SUFFICES ASSUME DemoInit PROVE DatabaseInv
  OBVIOUS
<1>1. IsDemo(db) /\ \A c \in DemoCases : ~Here(db, c)
  BY NothingHere DEF DemoInit
<1>2. /\ db.ok = TRUE /\ db.packs = {} /\ db.principals = {} /\ db.research = {} /\ db.activation = 0
      /\ touched = [c \in DemoCases |-> {}] /\ schema = 6
  BY DEF DemoInit, EmptyDatabase, OldestSchema
<1>3. Rooted(db)
  BY <1>1 DEF Rooted, DemoCases
<1>4. Shelved(db, schema)
  BY <1>2 DEF Shelved
<1>5. schema \in OldestSchema .. LatestSchema
  BY <1>2 DEF OldestSchema, LatestSchema
<1> QED BY <1>1, <1>2, <1>3, <1>4, <1>5 DEF DatabaseInv

(* Migrations up: only the task in flight without a pin changes.            *)
CancelRow(r) == [r EXCEPT !.task = "cancelled"]

LEMMA CancelTells ==
  ASSUME NEW r, IsDemoRow(r), NEW n, n = CancelRow(r)
  PROVE  /\ IsDemoRow(n) /\ SameFlags(r, n) /\ SameTalk(r, n)
         /\ n.task = "cancelled" /\ n.pin = r.pin
         /\ n.revision = r.revision /\ n.runs = r.runs /\ n.state = r.state
  BY DEF CancelRow, IsDemoRow, RowFields, SameFlags, SameTalk

LEMMA CancelKeeps ==
  ASSUME NEW c \in DemoCases, NEW r, IsDemoRow(r), NEW done, Unpinned(r), Looks(c, r, done), RowFits(r, 7),
         NEW n, n = CancelRow(r)
  PROVE  Looks(c, n, done) /\ RowFits(n, 8) /\ n.state = r.state
<1>1. /\ SameFlags(r, n) /\ SameTalk(r, n)
      /\ n.task = "cancelled" /\ n.pin = r.pin
      /\ n.revision = r.revision /\ n.runs = r.runs /\ n.state = r.state
  BY CancelTells
<1>2. r.task = "queued" /\ r.pin = 0
  BY DEF Unpinned
<1>3. /\ n.thread = r.thread /\ n.talk = r.talk /\ n.offer = r.offer /\ n.chains = r.chains
      /\ n.retried = r.retried /\ n.lineage = r.lineage /\ n.executed = r.executed
  BY <1>1 DEF SameTalk, SameFlags
<1>4. Lasting(c, n)
  BY <1>1, <1>3 DEF Looks, Lasting
<1>5. c # "plan" /\ c # "active"
  BY <1>2 DEF Looks, LikePlan, LikeActive
<1>6. c \in {"revision", "intake"} => LikeRevision(c, n, done)
  BY <1>1, <1>2, <1>3 DEF Looks, LikeRevision
<1>7. c \in {"primary", "stale", "expired"} => LikeOpening(c, n, done)
  BY <1>1 DEF Looks, LikeOpening
<1>8. RowFlags(n) /\ RowNumbers(n)
  <2>1. RowNumbers(n)
    BY <1>1, <1>3 DEF RowFits, RowNumbers
  <2>2. RowFlags(n)
    BY <1>3 DEF RowFits, RowFlags
  <2> QED BY <2>1, <2>2
<1>9. RowPlaced(n, 8)
  <2>1. RowPlaced(r, 7)
    BY DEF RowFits
  <2>2. ~Unpinned(n) /\ ~(n.pin > 0)
    BY <1>1, <1>2 DEF Unpinned
  <2>3. /\ n.retried => FALSE
        /\ n.executed => FALSE
        /\ n.lineage => FALSE
    BY <1>3, <2>1 DEF RowPlaced
  <2> QED BY <2>2, <2>3 DEF RowPlaced
<1> QED BY <1>1, <1>4, <1>5, <1>6, <1>7, <1>8, <1>9 DEF Looks, RowFits

LEMMA FitsAbove ==
  ASSUME NEW r, NEW level \in Nat, RowFits(r, level), ~(level + 1 = 8 /\ Unpinned(r))
  PROVE  RowFits(r, level + 1)
<1>1. RowPlaced(r, level + 1)
  <2>1. RowPlaced(r, level)
    BY DEF RowFits
  <2>2. Unpinned(r) => level + 1 < 8
    BY <2>1 DEF RowPlaced
  <2>3. /\ r.retried => level + 1 >= 16
        /\ r.executed => level + 1 >= 14
        /\ r.lineage => level + 1 >= 12
        /\ r.pin > 0 => level + 1 >= 8
        /\ r.thread \/ r.talk \/ r.offer \/ r.chains > 0 => level + 1 >= 7
    BY <2>1 DEF RowPlaced
  <2> QED BY <2>2, <2>3 DEF RowPlaced
<1> QED BY <1>1 DEF RowFits

LEMMA UpgradedTells ==
  ASSUME NEW d, IsDemo(d), NEW level, NEW e, e = Upgraded(d, level)
  PROVE  /\ IsDemo(e) /\ e.ok = d.ok /\ e.packs = d.packs /\ e.principals = d.principals
         /\ e.activation = d.activation /\ e.research = d.research
         /\ \A c \in DemoCases : e.cases[c] = RowAbove(d.cases[c], level)
<1>1. PICK rows : rows = [c \in DemoCases |-> RowAbove(d.cases[c], level)]
  OBVIOUS
<1>2. e = [d EXCEPT !.cases = rows]
  BY <1>1 DEF Upgraded
<1>3. /\ e = [field \in DbFields |-> e[field]] /\ e.cases = rows /\ e.ok = d.ok
      /\ e.packs = d.packs /\ e.principals = d.principals
      /\ e.activation = d.activation /\ e.research = d.research
  BY <1>2 DEF IsDemo, DbFields
<1>4. ASSUME NEW c \in DemoCases
      PROVE  e.cases[c] = RowAbove(d.cases[c], level) /\ IsDemoRow(e.cases[c])
  <2>1. e.cases[c] = RowAbove(d.cases[c], level)
    BY <1>1, <1>3
  <2>2. PICK r, n : r = d.cases[c] /\ n = e.cases[c]
    OBVIOUS
  <2>3. IsDemoRow(r)
    BY <2>2, RowOf
  <2>4. n = r \/ n = CancelRow(r)
    BY <2>1, <2>2 DEF RowAbove, CancelRow
  <2> QED BY <2>1, <2>2, <2>3, <2>4, CancelTells
<1>5. rows = [c \in DemoCases |-> rows[c]]
  BY <1>1
<1> QED BY <1>3, <1>4, <1>5 DEF IsDemo

LEMMA UpgradeKeeps ==
  ASSUME DatabaseInv, Upgrade
  PROVE  DatabaseInv'
<1>1. PICK level, e : level = schema /\ e = Upgraded(db, level + 1)
  OBVIOUS
<1>2. schema' = level + 1 /\ db' = e /\ touched' = touched /\ level < 17
  BY <1>1 DEF Upgrade, LatestSchema
<1>3. level \in 6 .. 17
  BY <1>1 DEF DatabaseInv, OldestSchema, LatestSchema
<1>4. IsDemo(db) /\ db.ok = TRUE
  BY DEF DatabaseInv
<1>5. /\ IsDemo(e) /\ e.ok = db.ok /\ e.packs = db.packs /\ e.principals = db.principals
      /\ e.activation = db.activation /\ e.research = db.research
      /\ \A c \in DemoCases : e.cases[c] = RowAbove(db.cases[c], level + 1)
  BY <1>1, <1>4, UpgradedTells
<1>6. ASSUME NEW c \in DemoCases
      PROVE  /\ Here(e, c) <=> Here(db, c)
             /\ ~Here(e, c) => touched[c] = {}
             /\ Here(e, c) => RowFits(e.cases[c], level + 1) /\ Looks(c, e.cases[c], touched[c])
  <2>1. PICK r, n : r = db.cases[c] /\ n = e.cases[c]
    OBVIOUS
  <2>2. IsDemoRow(r) /\ n = RowAbove(r, level + 1)
    BY <1>4, <1>5, <2>1, RowOf
  <2>3. n.state = r.state
    <3>1. n = r \/ n = CancelRow(r)
      BY <2>2 DEF RowAbove, CancelRow
    <3> QED BY <2>2, <3>1, CancelTells
  <2>4. Here(e, c) <=> Here(db, c)
    BY <2>1, <2>3 DEF Here
  <2>5. CASE Here(db, c)
    <3>1. RowFits(r, level) /\ Looks(c, r, touched[c])
      BY <1>1, <2>1, <2>5 DEF DatabaseInv
    <3>2. CASE level + 1 = 8 /\ Unpinned(r)
      <4>1. level = 7 /\ n = CancelRow(r)
        BY <1>3, <2>2, <3>2 DEF RowAbove, CancelRow
      <4>2. Looks(c, n, touched[c]) /\ RowFits(n, 8)
        BY <2>2, <3>1, <3>2, <4>1, CancelKeeps
      <4> QED BY <2>1, <2>4, <2>5, <3>2, <4>2
    <3>3. CASE ~(level + 1 = 8 /\ Unpinned(r))
      <4>1. n = r
        BY <2>2, <3>3 DEF RowAbove
      <4>2. RowFits(r, level + 1)
        BY <1>3, <3>1, <3>3, FitsAbove
      <4> QED BY <2>1, <2>4, <2>5, <3>1, <4>1, <4>2
    <3> QED BY <3>2, <3>3
  <2>6. CASE ~Here(db, c)
    BY <2>4, <2>6 DEF DatabaseInv
  <2> QED BY <2>4, <2>5, <2>6
<1>7. Rooted(e)
  BY <1>5, <1>6 DEF DatabaseInv, Rooted, DemoCases
<1>8. Shelved(e, level + 1)
  BY <1>1, <1>3, <1>5 DEF DatabaseInv, Shelved
<1>9. level + 1 \in OldestSchema .. LatestSchema
  BY <1>2, <1>3 DEF OldestSchema, LatestSchema
<1>10. ASSUME NEW c \in DemoCases
       PROVE  /\ ~Here(db', c) => touched'[c] = {}
              /\ Here(db', c) => RowFits(db'.cases[c], schema') /\ Looks(c, db'.cases[c], touched'[c])
  BY <1>2, <1>6
<1>11. /\ IsDemo(db') /\ db'.ok = TRUE /\ Rooted(db') /\ Shelved(db', schema')
       /\ schema' \in OldestSchema .. LatestSchema
  BY <1>2, <1>4, <1>5, <1>7, <1>8, <1>9
<1>12. touched' \in [DemoCases -> SUBSET {"talk", "work"}]
  BY <1>2 DEF DatabaseInv
<1> QED BY <1>10, <1>11, <1>12 DEF DatabaseInv

(* Migrations down: the guards leave every row of a Case as it was.         *)
LEMMA UnguardedSame ==
  ASSUME NEW d, NEW c \in DemoCases, Here(d, c), NEW level \in Nat, ~Guarded(d, level),
         NEW r, r = d.cases[c], IsDemoRow(r), RowFits(r, level)
  PROVE  RowBelow(r, level) = r
<1>1. r \in SeededRows(d)
  BY DEF SeededRows
<1>2. RowFlags(r) /\ r.pin \in Nat /\ r.chains \in Nat
  BY DEF RowFits, RowNumbers
<1>3. CASE level = 16
  <2>1. r.retried = FALSE
    BY <1>1, <1>2, <1>3 DEF Guarded, RetryHistory, RowFlags
  <2>2. WithoutRetries(r) = r
    BY <2>1 DEF WithoutRetries, IsDemoRow, RowFields
  <2> QED BY <1>3, <2>2 DEF RowBelow
<1>4. CASE level = 14
  <2>1. r.executed = FALSE
    BY <1>1, <1>2, <1>4 DEF Guarded, ExecutionHistory, RowFlags
  <2>2. WithoutExecutions(r) = r
    BY <2>1 DEF WithoutExecutions, IsDemoRow, RowFields
  <2> QED BY <1>4, <2>2 DEF RowBelow
<1>5. CASE level = 12
  <2>1. r.lineage = FALSE
    BY <1>1, <1>2, <1>5 DEF Guarded, LineageHistory, RowFlags
  <2>2. WithoutLineage(r) = r
    BY <2>1 DEF WithoutLineage, IsDemoRow, RowFields
  <2> QED BY <1>5, <2>2 DEF RowBelow
<1>6. CASE level = 8
  <2>1. ~(r.pin > 0)
    BY <1>1, <1>6 DEF Guarded, SkillHistory, PinHistory
  <2>2. r.pin = 0
    BY <1>2, <2>1
  <2>3. WithoutPins(r) = r
    BY <2>2 DEF WithoutPins, IsDemoRow, RowFields
  <2> QED BY <1>6, <2>3 DEF RowBelow
<1>7. CASE level = 7
  <2>1. ~(r.thread \/ r.talk \/ r.offer \/ r.chains > 0)
    BY <1>1, <1>7 DEF Guarded, TalkHistory
  <2>2. r.thread = FALSE /\ r.talk = FALSE /\ r.offer = FALSE
    BY <1>2, <2>1 DEF RowFlags
  <2>3. r.chains = 0
    BY <1>2, <2>1
  <2>4. WithoutTalk(r) = r
    BY <2>2, <2>3 DEF WithoutTalk, IsDemoRow, RowFields
  <2> QED BY <1>7, <2>4 DEF RowBelow
<1>8. CASE level \notin {16, 14, 12, 8, 7}
  BY <1>8 DEF RowBelow
<1> QED BY <1>3, <1>4, <1>5, <1>6, <1>7, <1>8

LEMMA FitsBelow ==
  ASSUME NEW d, NEW c \in DemoCases, Here(d, c), NEW level \in Nat, level >= 1, ~Guarded(d, level),
         NEW r, r = d.cases[c], RowFits(r, level)
  PROVE  RowFits(r, level - 1)
<1>1. r \in SeededRows(d)
  BY DEF SeededRows
<1>2. RowPlaced(r, level)
  BY DEF RowFits
<1>3. r.retried => level - 1 >= 16
  <2>1. r.retried => level # 16
    BY <1>1 DEF Guarded, RetryHistory
  <2>2. r.retried => level >= 16
    BY <1>2 DEF RowPlaced
  <2> QED BY <2>1, <2>2
<1>4. r.executed => level - 1 >= 14
  <2>1. r.executed => level # 14
    BY <1>1 DEF Guarded, ExecutionHistory
  <2>2. r.executed => level >= 14
    BY <1>2 DEF RowPlaced
  <2> QED BY <2>1, <2>2
<1>5. r.lineage => level - 1 >= 12
  <2>1. r.lineage => level # 12
    BY <1>1 DEF Guarded, LineageHistory
  <2>2. r.lineage => level >= 12
    BY <1>2 DEF RowPlaced
  <2> QED BY <2>1, <2>2
<1>6. r.pin > 0 => level - 1 >= 8
  <2>1. r.pin > 0 => level # 8
    BY <1>1 DEF Guarded, SkillHistory, PinHistory
  <2>2. r.pin > 0 => level >= 8
    BY <1>2 DEF RowPlaced
  <2> QED BY <2>1, <2>2
<1>7. r.thread \/ r.talk \/ r.offer \/ r.chains > 0 => level - 1 >= 7
  <2>1. r.thread \/ r.talk \/ r.offer \/ r.chains > 0 => level # 7
    BY <1>1 DEF Guarded, TalkHistory
  <2>2. r.thread \/ r.talk \/ r.offer \/ r.chains > 0 => level >= 7
    BY <1>2 DEF RowPlaced
  <2> QED BY <2>1, <2>2
<1>8. Unpinned(r) => level - 1 < 8
  BY <1>2 DEF RowPlaced
<1>9. RowPlaced(r, level - 1)
  BY <1>3, <1>4, <1>5, <1>6, <1>7, <1>8 DEF RowPlaced
<1> QED BY <1>9 DEF RowFits

LEMMA BelowTells ==
  ASSUME NEW r, IsDemoRow(r), NEW level
  PROVE  IsDemoRow(RowBelow(r, level)) /\ RowBelow(r, level).state = r.state
<1>1. /\ IsDemoRow(WithoutRetries(r)) /\ WithoutRetries(r).state = r.state
  BY DEF WithoutRetries, IsDemoRow, RowFields
<1>2. /\ IsDemoRow(WithoutExecutions(r)) /\ WithoutExecutions(r).state = r.state
  BY DEF WithoutExecutions, IsDemoRow, RowFields
<1>3. /\ IsDemoRow(WithoutLineage(r)) /\ WithoutLineage(r).state = r.state
  BY DEF WithoutLineage, IsDemoRow, RowFields
<1>4. /\ IsDemoRow(WithoutPins(r)) /\ WithoutPins(r).state = r.state
  BY DEF WithoutPins, IsDemoRow, RowFields
<1>5. /\ IsDemoRow(WithoutTalk(r)) /\ WithoutTalk(r).state = r.state
  BY DEF WithoutTalk, IsDemoRow, RowFields
<1> QED BY <1>1, <1>2, <1>3, <1>4, <1>5 DEF RowBelow

LEMMA DowngradedTells ==
  ASSUME NEW d, IsDemo(d), NEW level, NEW e, e = Downgraded(d, level)
  PROVE  /\ IsDemo(e) /\ e.ok = d.ok /\ e.packs = d.packs /\ e.principals = d.principals
         /\ e.activation = (IF level = 8 THEN 0 ELSE d.activation) /\ e.research = d.research
         /\ \A c \in DemoCases : e.cases[c] = RowBelow(d.cases[c], level)
<1>1. PICK rows, active : /\ rows = [c \in DemoCases |-> RowBelow(d.cases[c], level)]
                          /\ active = IF level = 8 THEN 0 ELSE d.activation
  OBVIOUS
<1>2. e = [d EXCEPT !.cases = rows, !.activation = active]
  <2>1. e = [d EXCEPT !.cases = rows, !.activation = IF level = 8 THEN 0 ELSE d.activation]
    BY <1>1 DEF Downgraded, IsDemo, DbFields
  <2> QED BY <1>1, <2>1
<1>3. /\ e = [field \in DbFields |-> e[field]] /\ e.cases = rows /\ e.ok = d.ok
      /\ e.packs = d.packs /\ e.principals = d.principals
      /\ e.activation = active /\ e.research = d.research
  BY <1>2 DEF IsDemo, DbFields
<1>4. ASSUME NEW c \in DemoCases
      PROVE  e.cases[c] = RowBelow(d.cases[c], level) /\ IsDemoRow(e.cases[c])
  <2>1. e.cases[c] = RowBelow(d.cases[c], level)
    BY <1>1, <1>3
  <2>2. IsDemoRow(d.cases[c])
    BY RowOf
  <2> QED BY <2>1, <2>2, BelowTells
<1>5. rows = [c \in DemoCases |-> rows[c]]
  BY <1>1
<1> QED BY <1>1, <1>3, <1>4, <1>5 DEF IsDemo

LEMMA DowngradeKeeps ==
  ASSUME DatabaseInv, Downgrade
  PROVE  /\ DatabaseInv' /\ db'.research = db.research
         /\ db.activation > 1 => db'.activation = db.activation
         /\ \A c \in DemoCases : Here(db, c) => db'.cases[c] = db.cases[c]
<1>1. PICK level, e : level = schema /\ e = Downgraded(db, level)
  OBVIOUS
<1>2. schema' = level - 1 /\ db' = e /\ touched' = touched /\ level > 6 /\ ~Guarded(db, level)
  BY <1>1 DEF Downgrade, OldestSchema
<1>3. level \in 7 .. 17
  BY <1>1, <1>2 DEF DatabaseInv, OldestSchema, LatestSchema
<1>4. IsDemo(db) /\ db.ok = TRUE
  BY DEF DatabaseInv
<1>5. /\ IsDemo(e) /\ e.ok = db.ok /\ e.packs = db.packs /\ e.principals = db.principals
      /\ e.activation = (IF level = 8 THEN 0 ELSE db.activation) /\ e.research = db.research
      /\ \A c \in DemoCases : e.cases[c] = RowBelow(db.cases[c], level)
  BY <1>1, <1>4, DowngradedTells
<1>6. ASSUME NEW c \in DemoCases
      PROVE  /\ Here(e, c) <=> Here(db, c)
             /\ ~Here(e, c) => touched[c] = {}
             /\ Here(e, c) => /\ RowFits(e.cases[c], level - 1) /\ Looks(c, e.cases[c], touched[c])
                              /\ e.cases[c] = db.cases[c]
  <2>1. PICK r, n : r = db.cases[c] /\ n = e.cases[c]
    OBVIOUS
  <2>2. IsDemoRow(r) /\ n = RowBelow(r, level)
    BY <1>4, <1>5, <2>1, RowOf
  <2>3. n.state = r.state
    BY <2>2, BelowTells
  <2>4. Here(e, c) <=> Here(db, c)
    BY <2>1, <2>3 DEF Here
  <2>5. CASE Here(db, c)
    <3>1. RowFits(r, level) /\ Looks(c, r, touched[c])
      BY <1>1, <2>1, <2>5 DEF DatabaseInv
    <3>2. n = r
      BY <1>2, <1>3, <2>1, <2>2, <2>5, <3>1, UnguardedSame
    <3>3. RowFits(r, level - 1)
      BY <1>2, <1>3, <2>1, <2>5, <3>1, FitsBelow
    <3> QED BY <2>1, <2>4, <2>5, <3>1, <3>2, <3>3
  <2>6. CASE ~Here(db, c)
    BY <2>4, <2>6 DEF DatabaseInv
  <2> QED BY <2>4, <2>5, <2>6
<1>7. Rooted(e)
  BY <1>5, <1>6 DEF DatabaseInv, Rooted, DemoCases
<1>8. Shelved(e, level - 1)
  <2>1. Shelved(db, level)
    BY <1>1 DEF DatabaseInv
  <2>2. "intake" \in e.packs => level - 1 >= 17
    <3>1. "intake" \in db.packs => level # 17 /\ level >= 17
      BY <1>2, <2>1 DEF Guarded, IntakeHistory, Shelved
    <3> QED BY <1>3, <1>5, <3>1
  <2>3. "scenario" \in e.principals => level - 1 >= 15
    <3>1. "scenario" \in db.principals => level # 15 /\ level >= 15
      BY <1>2, <2>1 DEF Guarded, ScenarioIdentity, Shelved
    <3> QED BY <1>3, <1>5, <3>1
  <2>4. "strict" \in e.research => level - 1 >= 11
    <3>1. "strict" \in db.research => level # 11 /\ level >= 11
      BY <1>2, <2>1 DEF Guarded, StrictHistory, Shelved
    <3> QED BY <1>3, <1>5, <3>1
  <2>5. "v0.1.6" \in e.research => level - 1 >= 10
    <3>1. "v0.1.6" \in db.research => level # 10 /\ level >= 10
      BY <1>2, <2>1 DEF Guarded, LiveHistory, Shelved
    <3> QED BY <1>3, <1>5, <3>1
  <2>6. e.activation \in Nat /\ (e.activation > 0 => level - 1 >= 8)
    BY <1>3, <1>5, <2>1 DEF Shelved
  <2> QED BY <2>2, <2>3, <2>4, <2>5, <2>6 DEF Shelved
<1>9. level - 1 \in OldestSchema .. LatestSchema
  BY <1>3 DEF OldestSchema, LatestSchema
<1>10. ASSUME NEW c \in DemoCases
       PROVE  /\ ~Here(db', c) => touched'[c] = {}
              /\ Here(db', c) => RowFits(db'.cases[c], schema') /\ Looks(c, db'.cases[c], touched'[c])
  BY <1>2, <1>6
<1>11. /\ IsDemo(db') /\ db'.ok = TRUE /\ Rooted(db') /\ Shelved(db', schema')
       /\ schema' \in OldestSchema .. LatestSchema
  BY <1>2, <1>4, <1>5, <1>7, <1>8, <1>9
<1>12. touched' \in [DemoCases -> SUBSET {"talk", "work"}]
  BY <1>2 DEF DatabaseInv
<1>13. DatabaseInv'
  BY <1>10, <1>11, <1>12 DEF DatabaseInv
<1>14. db.activation > 1 => level # 8
  BY <1>2 DEF Guarded, SkillHistory
<1> QED BY <1>2, <1>5, <1>6, <1>13, <1>14

(* What people do to a Case.                                                *)
LEMMA ActOnKeeps ==
  ASSUME DatabaseInv, NEW c \in DemoCases, NEW what \in {"talk", "work"}, NEW row, ActOn(c, what, row),
         IsDemoRow(row), RowFits(row, schema), row.state # "none", Looks(c, row, touched[c] \cup {what})
  PROVE  DatabaseInv'
<1>1. PICK e : e = Put(db, c, row)
  OBVIOUS
<1>2. db' = e /\ schema' = schema /\ Here(db, c) /\ touched' = [touched EXCEPT ![c] = @ \cup {what}]
  BY <1>1 DEF ActOn, Put
<1>3. IsDemo(db) /\ db.ok = TRUE
  BY DEF DatabaseInv
<1>4. Edited(db, e, c) /\ (e.ok <=> db.ok) /\ e.cases[c] = row
  BY <1>1, <1>3, PutEdits
<1>5. IsDemo(e) /\ e.ok = TRUE
  BY <1>3, <1>4 DEF Edited, IsDemo
<1>6. \A x \in DemoCases : Here(e, x) <=> Here(db, x)
  BY <1>2, <1>4 DEF Edited, Here
<1>7. Rooted(e) /\ Shelved(e, schema)
  BY <1>4, <1>6 DEF DatabaseInv, Rooted, Shelved, Edited, DemoCases
<1>8. /\ touched' \in [DemoCases -> SUBSET {"talk", "work"}]
      /\ touched'[c] = touched[c] \cup {what} /\ \A x \in DemoCases \ {c} : touched'[x] = touched[x]
  BY <1>2 DEF DatabaseInv
<1>9. ASSUME NEW x \in DemoCases
      PROVE  /\ ~Here(e, x) => touched'[x] = {}
             /\ Here(e, x) => RowFits(e.cases[x], schema) /\ Looks(x, e.cases[x], touched'[x])
  <2>1. CASE x = c
    BY <1>2, <1>4, <1>6, <1>8, <2>1
  <2>2. CASE x # c
    <3>1. e.cases[x] = db.cases[x] /\ touched'[x] = touched[x]
      BY <1>4, <1>8, <2>2 DEF Edited
    <3> QED BY <1>6, <3>1 DEF DatabaseInv
  <2> QED BY <2>1, <2>2
<1>10. ASSUME NEW x \in DemoCases
       PROVE  /\ ~Here(db', x) => touched'[x] = {}
              /\ Here(db', x) => RowFits(db'.cases[x], schema') /\ Looks(x, db'.cases[x], touched'[x])
  BY <1>2, <1>9
<1>11. IsDemo(db') /\ db'.ok = TRUE /\ Rooted(db') /\ Shelved(db', schema')
  BY <1>2, <1>5, <1>7
<1>12. schema' \in OldestSchema .. LatestSchema
  BY <1>2 DEF DatabaseInv
<1> QED BY <1>8, <1>10, <1>11, <1>12 DEF DatabaseInv

LEMMA ActOnFinds ==
  ASSUME DatabaseInv, NEW c \in DemoCases, NEW what, NEW row, ActOn(c, what, row),
         NEW r, r = db.cases[c]
  PROVE  /\ IsDemoRow(r) /\ RowFits(r, schema) /\ Looks(c, r, touched[c]) /\ r.state # "none"
         /\ schema \in 6 .. 17
<1>1. Here(db, c)
  BY DEF ActOn
<1> QED BY <1>1 DEF DatabaseInv, IsDemo, Here, OldestSchema, LatestSchema

LEMMA TalkKeeps ==
  ASSUME DatabaseInv, NEW c \in DemoCases, Talk(c)
  PROVE  DatabaseInv'
<1>1. PICK r, n, what : r = db.cases[c] /\ n = [r EXCEPT !.thread = TRUE, !.talk = TRUE] /\ what = "talk"
  OBVIOUS
<1>2. ActOn(c, what, n) /\ schema >= 7
  BY <1>1 DEF Talk, HasTalk
<1>3. /\ IsDemoRow(r) /\ RowFits(r, schema) /\ Looks(c, r, touched[c]) /\ r.state # "none"
      /\ schema \in 6 .. 17
  BY <1>1, <1>2, ActOnFinds
<1>4. /\ IsDemoRow(n) /\ SameFlags(r, n) /\ SameTask(r, n)
      /\ n.thread = TRUE /\ n.talk = TRUE /\ n.offer = r.offer /\ n.chains = r.chains
      /\ n.revision = r.revision /\ n.runs = r.runs /\ n.state = r.state
  BY <1>1, <1>3 DEF IsDemoRow, RowFields, SameFlags, SameTask
<1>5. PICK done : done = touched[c] \cup {what}
  OBVIOUS
<1>6. done # {} /\ ("work" \in done <=> "work" \in touched[c])
  BY <1>1, <1>5
<1>7. Looks(c, n, done)
  <2>1. Lasting(c, n)
    BY <1>3, <1>4 DEF Looks, Lasting, SameTask
  <2>2. c = "plan" => LikePlan(n, done)
    BY <1>3, <1>4, <1>6 DEF Looks, LikePlan, SameTask, SameFlags
  <2>3. c \in {"revision", "intake"} => LikeRevision(c, n, done)
    BY <1>4, <1>6 DEF LikeRevision
  <2>4. c \in {"primary", "stale", "expired"} => LikeOpening(c, n, done)
    BY <1>3, <1>4, <1>6 DEF Looks, LikeOpening
  <2>5. c = "active" => LikeActive(n, done)
    BY <1>3, <1>4, <1>6 DEF Looks, LikeActive, SameTask
  <2> QED BY <2>1, <2>2, <2>3, <2>4, <2>5 DEF Looks
<1>8. RowFits(n, schema)
  <2>1. RowFlags(n)
    BY <1>3, <1>4 DEF RowFits, RowFlags, SameFlags
  <2>2. RowNumbers(n)
    BY <1>3, <1>4 DEF RowFits, RowNumbers, SameTask
  <2>3. RowPlaced(n, schema)
    BY <1>2, <1>3, <1>4 DEF RowFits, RowPlaced, Unpinned, SameTask, SameFlags
  <2> QED BY <2>1, <2>2, <2>3 DEF RowFits
<1> QED BY <1>1, <1>2, <1>3, <1>4, <1>5, <1>7, <1>8, ActOnKeeps

(* Work on a Case.                                                          *)
Worked(c, r, n, more) ==
    /\ c # "active"
    /\ c = "default" => n.runs > 0
    /\ c \in Conversations => n.thread = TRUE
    /\ c \in {"stale", "expired"} => n.offer = TRUE
    /\ n.revision \in Nat /\ r.revision \in Nat /\ n.revision >= r.revision
    /\ c = "plan" => LikePlan(n, more)
    /\ c \in {"revision", "intake"} => n.talk
    /\ c \in {"primary", "stale", "expired"} => n.state # "intake" \/ n.revision > r.revision

LEMMA WorkLooks ==
  ASSUME NEW c \in DemoCases, NEW r, NEW n, NEW done, NEW more, more = done \cup {"work"},
         Looks(c, r, done), Worked(c, r, n, more)
  PROVE  Looks(c, n, more)
<1>1. more # {} /\ "work" \in more
  OBVIOUS
<1>2. c \in {"primary", "stale", "expired"} => r.revision >= First(c) /\ First(c) \in {1, 2}
  BY DEF Looks, LikeOpening, First
<1>3. c \in {"primary", "stale", "expired"} => LikeOpening(c, n, more)
  BY <1>1, <1>2 DEF LikeOpening, Worked
<1>4. c = "stale" => n.revision # 1
  BY <1>2 DEF First, Worked
<1>5. Lasting(c, n)
  BY <1>4 DEF Lasting, Worked
<1>6. c \in {"revision", "intake"} => LikeRevision(c, n, more)
  BY <1>1 DEF LikeRevision, Worked
<1> QED BY <1>3, <1>5, <1>6 DEF Looks, Worked

LEMMA SpokenTells ==
  ASSUME NEW r, IsDemoRow(r), NEW n, n = Spoken(r)
  PROVE  /\ IsDemoRow(n) /\ SameFlags(r, n) /\ SameTask(r, n)
         /\ n.thread = TRUE /\ n.talk = TRUE /\ n.offer = r.offer /\ n.chains = r.chains + 1
         /\ n.revision = r.revision + 1 /\ n.runs = r.runs /\ n.state = r.state
  BY DEF Spoken, IsDemoRow, RowFields, SameFlags, SameTask

LEMMA ConfirmKeeps ==
  ASSUME DatabaseInv, NEW c \in DemoCases, ConfirmDemoFact(c)
  PROVE  DatabaseInv'
<1>1. PICK r, n, what : r = db.cases[c] /\ n = Spoken(r) /\ what = "work"
  OBVIOUS
<1>2. /\ ActOn(c, what, n) /\ schema >= 7
      /\ r.state \in {"intake", "planning"} /\ r.task \notin {"queued", "waiting"}
  BY <1>1 DEF ConfirmDemoFact, HasTalk
<1>3. /\ IsDemoRow(r) /\ RowFits(r, schema) /\ Looks(c, r, touched[c]) /\ r.state # "none"
      /\ schema \in 6 .. 17
  BY <1>1, <1>2, ActOnFinds
<1>4. /\ IsDemoRow(n) /\ SameFlags(r, n) /\ SameTask(r, n)
      /\ n.thread = TRUE /\ n.talk = TRUE /\ n.offer = r.offer /\ n.chains = r.chains + 1
      /\ n.revision = r.revision + 1 /\ n.runs = r.runs /\ n.state = r.state
  BY <1>1, <1>3, SpokenTells
<1>5. RowNumbers(r)
  BY <1>3 DEF RowFits
<1>6. n.revision \in Nat /\ r.revision \in Nat /\ n.revision > r.revision
  BY <1>4, <1>5 DEF RowNumbers
<1>7. PICK more : more = touched[c] \cup {what}
  OBVIOUS
<1>8. Looks(c, n, more)
  <2>1. c # "active" /\ c # "plan"
    BY <1>2, <1>3 DEF Looks, LikeActive, LikePlan
  <2>2. /\ c = "default" => n.runs > 0
        /\ c \in {"stale", "expired"} => n.offer = TRUE
        /\ c \in Conversations => n.thread = TRUE
    BY <1>3, <1>4 DEF Looks, Lasting
  <2>3. c \in {"revision", "intake"} => n.talk
    BY <1>4
  <2>4. /\ n.revision >= r.revision
        /\ c \in {"primary", "stale", "expired"} => n.state # "intake" \/ n.revision > r.revision
    BY <1>6
  <2>5. Worked(c, r, n, more)
    BY <1>6, <2>1, <2>2, <2>3, <2>4 DEF Worked
  <2>6. more = touched[c] \cup {"work"}
    BY <1>1, <1>7
  <2> QED BY <1>3, <2>5, <2>6, WorkLooks
<1>9. RowFits(n, schema)
  <2>1. RowFlags(n)
    BY <1>3, <1>4 DEF RowFits, RowFlags, SameFlags
  <2>2. RowNumbers(n)
    BY <1>4, <1>5 DEF RowNumbers, SameTask
  <2>3. RowPlaced(n, schema)
    BY <1>2, <1>3, <1>4 DEF RowFits, RowPlaced, Unpinned, SameTask, SameFlags
  <2> QED BY <2>1, <2>2, <2>3 DEF RowFits
<1> QED BY <1>1, <1>2, <1>3, <1>4, <1>7, <1>8, <1>9, ActOnKeeps

LEMMA SendBackKeeps ==
  ASSUME DatabaseInv, NEW c \in DemoCases, SendBack(c)
  PROVE  DatabaseInv'
<1>1. PICK r, k, n, what : /\ r = db.cases[c] /\ k = Spoken(r) /\ what = "work"
                           /\ n = [k EXCEPT !.lineage = TRUE, !.state = "planning", !.task = "done"]
  OBVIOUS
<1>2. /\ ActOn(c, what, n) /\ schema >= 12 /\ r.state = "advisor_review"
  BY <1>1 DEF SendBack, HasLineage
<1>3. /\ IsDemoRow(r) /\ RowFits(r, schema) /\ Looks(c, r, touched[c]) /\ r.state # "none"
      /\ schema \in 6 .. 17
  BY <1>1, <1>2, ActOnFinds
<1>4. /\ IsDemoRow(k) /\ SameFlags(r, k) /\ SameTask(r, k)
      /\ k.thread = TRUE /\ k.talk = TRUE /\ k.offer = r.offer /\ k.chains = r.chains + 1
      /\ k.revision = r.revision + 1 /\ k.runs = r.runs /\ k.state = r.state
  BY <1>1, <1>3, SpokenTells
<1>5. /\ IsDemoRow(n) /\ n.retried = k.retried /\ n.executed = k.executed /\ n.lineage = TRUE
      /\ n.thread = k.thread /\ n.talk = k.talk /\ n.offer = k.offer /\ n.chains = k.chains
      /\ n.revision = k.revision /\ n.runs = k.runs /\ n.state = "planning"
      /\ n.task = "done" /\ n.pin = k.pin
  BY <1>1, <1>4 DEF IsDemoRow, RowFields
<1>6. RowNumbers(r)
  BY <1>3 DEF RowFits
<1>7. n.revision \in Nat /\ r.revision \in Nat /\ n.revision > r.revision
  BY <1>4, <1>5, <1>6 DEF RowNumbers
<1>8. PICK more : more = touched[c] \cup {what}
  OBVIOUS
<1>9. Looks(c, n, more)
  <2>1. c # "active" /\ c # "plan"
    BY <1>2, <1>3 DEF Looks, LikeActive, LikePlan
  <2>2. /\ c = "default" => n.runs > 0
        /\ c \in {"stale", "expired"} => n.offer = TRUE
        /\ c \in Conversations => n.thread = TRUE
    BY <1>3, <1>4, <1>5 DEF Looks, Lasting
  <2>3. c \in {"revision", "intake"} => n.talk
    BY <1>4, <1>5
  <2>4. /\ n.revision >= r.revision
        /\ c \in {"primary", "stale", "expired"} => n.state # "intake" \/ n.revision > r.revision
    BY <1>7
  <2>5. Worked(c, r, n, more)
    BY <1>7, <2>1, <2>2, <2>3, <2>4 DEF Worked
  <2>6. more = touched[c] \cup {"work"}
    BY <1>1, <1>8
  <2> QED BY <1>3, <2>5, <2>6, WorkLooks
<1>10. RowFits(n, schema)
  <2>1. RowFlags(n)
    BY <1>3, <1>4, <1>5 DEF RowFits, RowFlags, SameFlags
  <2>2. RowNumbers(n)
    BY <1>4, <1>5, <1>6 DEF RowNumbers, SameTask
  <2>3. RowPlaced(n, schema)
    BY <1>2, <1>3, <1>4, <1>5 DEF RowFits, RowPlaced, Unpinned, SameTask, SameFlags
  <2> QED BY <2>1, <2>2, <2>3 DEF RowFits
<1>11. n.state # "none"
  BY <1>5
<1> QED BY <1>1, <1>2, <1>5, <1>8, <1>9, <1>10, <1>11, ActOnKeeps

LEMMA SkillPinned ==
  ASSUME DatabaseInv, HasCatalog => db.activation > 0
  PROVE  /\ CurrentSkill \in Nat /\ (CurrentSkill > 0 => schema >= 8)
         /\ CurrentSkill = 0 => schema < 8
  BY DEF DatabaseInv, Shelved, CurrentSkill, HasCatalog, OldestSchema, LatestSchema

LEMMA PlanDemoCaseKeeps ==
  ASSUME DatabaseInv, NEW c \in DemoCases, NEW ends \in {"queued", "failed", "waiting"}, PlanDemoCase(c, ends)
  PROVE  DatabaseInv'
<1>1. PICK r, pin, what : r = db.cases[c] /\ what = "work"
                          /\ pin = (IF r.task = "queued" THEN r.pin ELSE CurrentSkill)
  OBVIOUS
<1>2. PICK k : k = [r EXCEPT !.pin = pin, !.task = ends]
  OBVIOUS
<1>3. PICK n : n = IF ends = "waiting" THEN [k EXCEPT !.runs = @ + 1, !.state = "advisor_review"]
                   ELSE [k EXCEPT !.state = "planning"]
  OBVIOUS
<1>4. PICK m : m = [r EXCEPT !.pin = IF r.task = "queued" THEN @ ELSE CurrentSkill, !.task = ends]
  OBVIOUS
<1>5. /\ r.state = "planning" \/ (HasExplicitStart /\ r.state = "intake")
      /\ r.task # "waiting"
      /\ r.task = "queued" => ends # "queued"
      /\ HasCatalog => db.activation > 0
      /\ ActOn(c, what, IF ends = "waiting" THEN [m EXCEPT !.runs = @ + 1, !.state = "advisor_review"]
                        ELSE [m EXCEPT !.state = "planning"])
  BY <1>1, <1>4 DEF PlanDemoCase
<1>6. /\ IsDemoRow(r) /\ RowFits(r, schema) /\ Looks(c, r, touched[c]) /\ r.state # "none"
      /\ schema \in 6 .. 17
  BY <1>1, <1>5, ActOnFinds
<1>7. m = k
  BY <1>1, <1>2, <1>4, <1>6 DEF IsDemoRow, RowFields
<1>8. ActOn(c, what, n)
  BY <1>3, <1>5, <1>7
<1>9. /\ IsDemoRow(k) /\ SameFlags(r, k) /\ SameTalk(r, k) /\ k.task = ends /\ k.pin = pin
      /\ k.revision = r.revision /\ k.runs = r.runs /\ k.state = r.state
  BY <1>2, <1>6 DEF IsDemoRow, RowFields, SameFlags, SameTalk
<1>10. /\ IsDemoRow(n) /\ SameFlags(k, n) /\ SameTalk(k, n) /\ n.task = ends /\ n.pin = pin
       /\ n.revision = k.revision /\ n.runs \in {k.runs, k.runs + 1}
       /\ n.state \in {"planning", "advisor_review"}
  BY <1>3, <1>9 DEF IsDemoRow, RowFields, SameFlags, SameTalk
<1>11. /\ n.thread = r.thread /\ n.talk = r.talk /\ n.offer = r.offer /\ n.chains = r.chains
       /\ n.retried = r.retried /\ n.lineage = r.lineage /\ n.executed = r.executed
  BY <1>9, <1>10 DEF SameFlags, SameTalk
<1>12. RowNumbers(r)
  BY <1>6 DEF RowFits
<1>13. /\ CurrentSkill \in Nat /\ (CurrentSkill > 0 => schema >= 8)
       /\ CurrentSkill = 0 => schema < 8
  BY <1>5, SkillPinned
<1>14. PICK more : more = touched[c] \cup {what}
  OBVIOUS
<1>15. Looks(c, n, more)
  <2>1. c # "active" /\ c # "plan"
    BY <1>5, <1>6 DEF Looks, LikeActive, LikePlan
  <2>2. /\ c = "default" => n.runs > 0
        /\ c \in {"stale", "expired"} => n.offer = TRUE
        /\ c \in Conversations => n.thread = TRUE
    BY <1>6, <1>9, <1>10, <1>11, <1>12 DEF Looks, Lasting, RowNumbers
  <2>3. c \in {"revision", "intake"} => n.talk
    BY <1>5, <1>6, <1>11 DEF Looks, LikeRevision
  <2>4. n.state # "intake" /\ n.revision \in Nat /\ r.revision \in Nat /\ n.revision >= r.revision
    BY <1>9, <1>10, <1>12 DEF RowNumbers
  <2>5. Worked(c, r, n, more)
    BY <1>1, <2>1, <2>2, <2>3, <2>4 DEF Worked
  <2>6. more = touched[c] \cup {"work"}
    BY <1>1, <1>14
  <2> QED BY <1>6, <2>5, <2>6, WorkLooks
<1>16. RowFits(n, schema)
  <2>1. RowFlags(n)
    BY <1>6, <1>11 DEF RowFits, RowFlags
  <2>2. RowNumbers(n)
    BY <1>1, <1>9, <1>10, <1>11, <1>12, <1>13 DEF RowNumbers
  <2>3. RowPlaced(r, schema)
    BY <1>6 DEF RowFits
  <2>4. n.pin > 0 => schema >= 8
    BY <1>1, <1>10, <1>13, <2>3 DEF RowPlaced
  <2>5. Unpinned(n) => schema < 8
    BY <1>1, <1>5, <1>10, <1>13 DEF Unpinned
  <2>6. RowPlaced(n, schema)
    BY <1>11, <2>3, <2>4, <2>5 DEF RowPlaced
  <2> QED BY <2>1, <2>2, <2>6 DEF RowFits
<1>17. n.state # "none"
  BY <1>10
<1> QED BY <1>1, <1>8, <1>10, <1>14, <1>15, <1>16, <1>17, ActOnKeeps

LEMMA RetryKeeps ==
  ASSUME DatabaseInv, NEW c \in DemoCases, RetryDemoTask(c)
  PROVE  DatabaseInv'
<1>1. PICK r, pin, what : r = db.cases[c] /\ what = "work" /\ pin = CurrentSkill
  OBVIOUS
<1>2. PICK n : n = [r EXCEPT !.task = "waiting", !.retried = TRUE, !.pin = pin, !.runs = @ + 1,
                             !.state = "advisor_review"]
  OBVIOUS
<1>3. ActOn(c, what, n) /\ schema >= 16 /\ r.task = "failed"
  BY <1>1, <1>2 DEF RetryDemoTask, HasRetries
<1>4. /\ IsDemoRow(r) /\ RowFits(r, schema) /\ Looks(c, r, touched[c]) /\ r.state # "none"
      /\ schema \in 6 .. 17
  BY <1>1, <1>3, ActOnFinds
<1>5. /\ IsDemoRow(n) /\ SameTalk(r, n) /\ n.task = "waiting" /\ n.pin = pin /\ n.retried = TRUE
      /\ n.lineage = r.lineage /\ n.executed = r.executed
      /\ n.revision = r.revision /\ n.runs = r.runs + 1 /\ n.state = "advisor_review"
  BY <1>2, <1>4 DEF IsDemoRow, RowFields, SameTalk
<1>6. /\ n.thread = r.thread /\ n.talk = r.talk /\ n.offer = r.offer /\ n.chains = r.chains
  BY <1>5 DEF SameTalk
<1>7. RowNumbers(r)
  BY <1>4 DEF RowFits
<1>8. pin \in Nat
  BY <1>1 DEF DatabaseInv, Shelved, CurrentSkill
<1>9. PICK more : more = touched[c] \cup {what}
  OBVIOUS
<1>10. Looks(c, n, more)
  <2>1. c # "active" /\ c # "plan"
    BY <1>3, <1>4 DEF Looks, LikeActive, LikePlan
  <2>2. /\ c = "default" => n.runs > 0
        /\ c \in {"stale", "expired"} => n.offer = TRUE
        /\ c \in Conversations => n.thread = TRUE
    BY <1>4, <1>5, <1>6, <1>7 DEF Looks, Lasting, RowNumbers
  <2>3. c \in {"revision", "intake"} => n.talk
    BY <1>3, <1>4, <1>6 DEF Looks, LikeRevision
  <2>4. n.state # "intake" /\ n.revision \in Nat /\ r.revision \in Nat /\ n.revision >= r.revision
    BY <1>5, <1>7 DEF RowNumbers
  <2>5. Worked(c, r, n, more)
    BY <1>1, <2>1, <2>2, <2>3, <2>4 DEF Worked
  <2>6. more = touched[c] \cup {"work"}
    BY <1>1, <1>9
  <2> QED BY <1>4, <2>5, <2>6, WorkLooks
<1>11. RowFits(n, schema)
  <2>1. RowFlags(n)
    BY <1>4, <1>5, <1>6 DEF RowFits, RowFlags
  <2>2. RowNumbers(n)
    BY <1>5, <1>6, <1>7, <1>8 DEF RowNumbers
  <2>3. RowPlaced(r, schema)
    BY <1>4 DEF RowFits
  <2>4. RowPlaced(n, schema)
    BY <1>3, <1>4, <1>5, <1>6, <2>3 DEF RowPlaced, Unpinned
  <2> QED BY <2>1, <2>2, <2>4 DEF RowFits
<1>12. n.state # "none"
  BY <1>5
<1> QED BY <1>1, <1>3, <1>5, <1>9, <1>10, <1>11, <1>12, ActOnKeeps

LEMMA StartPlanKeeps ==
  ASSUME DatabaseInv, NEW c \in DemoCases, StartDemoPlan(c)
  PROVE  DatabaseInv'
<1>1. PICK r, n, what : r = db.cases[c] /\ n = [r EXCEPT !.executed = TRUE] /\ what = "work"
  OBVIOUS
<1>2. ActOn(c, what, n) /\ schema >= 14 /\ r.state = "plan_ready"
  BY <1>1 DEF StartDemoPlan, HasExecutions
<1>3. /\ IsDemoRow(r) /\ RowFits(r, schema) /\ Looks(c, r, touched[c]) /\ r.state # "none"
      /\ schema \in 6 .. 17
  BY <1>1, <1>2, ActOnFinds
<1>4. /\ IsDemoRow(n) /\ SameTalk(r, n) /\ SameTask(r, n) /\ n.executed = TRUE
      /\ n.lineage = r.lineage /\ n.retried = r.retried
      /\ n.revision = r.revision /\ n.runs = r.runs /\ n.state = r.state
  BY <1>1, <1>3 DEF IsDemoRow, RowFields, SameTalk, SameTask
<1>5. /\ n.thread = r.thread /\ n.talk = r.talk /\ n.offer = r.offer /\ n.chains = r.chains
      /\ n.task = r.task /\ n.pin = r.pin
  BY <1>4 DEF SameTalk, SameTask
<1>6. RowNumbers(r)
  BY <1>3 DEF RowFits
<1>7. PICK more : more = touched[c] \cup {what}
  OBVIOUS
<1>8. Looks(c, n, more)
  <2>1. c # "active"
    BY <1>2, <1>3 DEF Looks, LikeActive
  <2>2. /\ c = "default" => n.runs > 0
        /\ c \in {"stale", "expired"} => n.offer = TRUE
        /\ c \in Conversations => n.thread = TRUE
    BY <1>3, <1>4, <1>5 DEF Looks, Lasting
  <2>3. c \in {"revision", "intake"} => n.talk
    BY <1>2, <1>3, <1>5 DEF Looks, LikeRevision
  <2>4. n.state # "intake" /\ n.revision \in Nat /\ r.revision \in Nat /\ n.revision >= r.revision
    BY <1>2, <1>4, <1>6 DEF RowNumbers
  <2>5. c = "plan" => LikePlan(n, more)
    BY <1>1, <1>3, <1>4, <1>5, <1>7 DEF Looks, LikePlan
  <2>6. Worked(c, r, n, more)
    BY <2>1, <2>2, <2>3, <2>4, <2>5 DEF Worked
  <2>7. more = touched[c] \cup {"work"}
    BY <1>1, <1>7
  <2> QED BY <1>3, <2>6, <2>7, WorkLooks
<1>9. RowFits(n, schema)
  <2>1. RowFlags(n)
    BY <1>3, <1>4, <1>5 DEF RowFits, RowFlags
  <2>2. RowNumbers(n)
    BY <1>4, <1>5, <1>6 DEF RowNumbers
  <2>3. RowPlaced(r, schema)
    BY <1>3 DEF RowFits
  <2>4. RowPlaced(n, schema)
    BY <1>2, <1>4, <1>5, <2>3 DEF RowPlaced, Unpinned
  <2> QED BY <2>1, <2>2, <2>4 DEF RowFits
<1> QED BY <1>1, <1>2, <1>3, <1>4, <1>7, <1>8, <1>9, ActOnKeeps

LEMMA PromoteDemoKeeps ==
  ASSUME DatabaseInv, PromoteDemoSkill
  PROVE  DatabaseInv'
<1>1. PICK e, next : next = db.activation + 1 /\ e = [db EXCEPT !.activation = next]
  OBVIOUS
<1>2. db' = e /\ schema' = schema /\ touched' = touched /\ schema >= 8
  BY <1>1 DEF PromoteDemoSkill, HasCatalog
<1>3. IsDemo(db) /\ db.ok = TRUE
  BY DEF DatabaseInv
<1>4. /\ IsDemo(e) /\ e.cases = db.cases /\ e.ok = db.ok /\ e.packs = db.packs
      /\ e.principals = db.principals /\ e.activation = next /\ e.research = db.research
  BY <1>1, <1>3 DEF IsDemo, DbFields
<1>5. next \in Nat
  BY <1>1 DEF DatabaseInv, Shelved
<1>6. Rooted(e) /\ Shelved(e, schema)
  BY <1>2, <1>4, <1>5 DEF DatabaseInv, Rooted, Shelved, Here
<1> QED BY <1>2, <1>3, <1>4, <1>6 DEF DatabaseInv, Here

LEMMA ImportKeeps ==
  ASSUME DatabaseInv, ImportDemoResearch
  PROVE  DatabaseInv'
<1>1. PICK e, kinds : kinds = db.research \cup {ImportedKind} /\ e = [db EXCEPT !.research = kinds]
  OBVIOUS
<1>2. db' = e /\ schema' = schema /\ touched' = touched
  BY <1>1 DEF ImportDemoResearch
<1>3. IsDemo(db) /\ db.ok = TRUE
  BY DEF DatabaseInv
<1>4. /\ IsDemo(e) /\ e.cases = db.cases /\ e.ok = db.ok /\ e.packs = db.packs
      /\ e.principals = db.principals /\ e.activation = db.activation /\ e.research = kinds
  BY <1>1, <1>3 DEF IsDemo, DbFields
<1>5. Rooted(e)
  BY <1>4 DEF DatabaseInv, Rooted, Here
<1>6. Shelved(e, schema)
  <2>1. "strict" \in kinds => schema >= 11
    BY <1>1 DEF DatabaseInv, Shelved, ImportedKind
  <2>2. "v0.1.6" \in kinds => schema >= 10
    BY <1>1 DEF DatabaseInv, Shelved, ImportedKind
  <2> QED BY <1>4, <2>1, <2>2 DEF DatabaseInv, Shelved
<1> QED BY <1>2, <1>3, <1>4, <1>5, <1>6 DEF DatabaseInv, Here

LEMMA PeopleKeep ==
  ASSUME DatabaseInv, People
  PROVE  DatabaseInv'
  BY TalkKeeps, ConfirmKeeps, SendBackKeeps, PlanDemoCaseKeeps, RetryKeeps, StartPlanKeeps, PromoteDemoKeeps,
     ImportKeeps DEF People

LEMMA DatabaseKept ==
  ASSUME DatabaseInv, [DemoNext]_demoVars
  PROVE  DatabaseInv'
<1>1. CASE UNCHANGED demoVars
  BY <1>1 DEF demoVars, DatabaseInv, Here
<1>2. CASE DemoNext
  BY <1>2, RunSeedKeeps, UpgradeKeeps, DowngradeKeeps, PeopleKeep DEF DemoNext
<1> QED BY <1>1, <1>2

(* Every Case looks as the seed and people left it, and fits its level.     *)
THEOREM DatabaseInvAlways == DemoSpec => []DatabaseInv
<1>1. DatabaseInv /\ [DemoNext]_demoVars => DatabaseInv'
  BY DatabaseKept
<1> QED BY <1>1, DatabaseStarts, PTL DEF DemoSpec

(* A seed repeated: every step finds what it would make.                    *)
Alike(e) ==
    /\ IsDemo(e) /\ e.cases = db.cases /\ e.packs = db.packs /\ e.principals = db.principals
    /\ e.activation = db.activation /\ e.research = db.research

LEMMA AlikeRequire ==
  ASSUME NEW d, Alike(d), NEW holds, NEW e, e = Require(d, holds)
  PROVE  Alike(e) /\ (e.ok <=> d.ok /\ holds)
<1>1. IsDemo(d)
  BY DEF Alike
<1>2. /\ \A c : Edited(d, e, c)
      /\ e.cases = d.cases /\ (e.ok <=> d.ok /\ holds)
  BY <1>1, RequireEdits
<1> QED BY <1>2 DEF Edited, Alike

LEMMA AlikeEdited ==
  ASSUME NEW d, Alike(d), NEW e, NEW c \in DemoCases, Edited(d, e, c), e.cases[c] = d.cases[c]
  PROVE  Alike(e)
<1>1. \A x \in DemoCases : e.cases[x] = d.cases[x]
  BY DEF Edited
<1>2. e.cases = d.cases
  BY <1>1 DEF Edited, Alike, IsDemo
<1> QED BY <1>2 DEF Edited, Alike

LEMMA AlikePacked ==
  ASSUME NEW d, Alike(d), NEW pack, pack \in d.packs, NEW e, e = Packed(d, pack)
  PROVE  Alike(e) /\ (e.ok <=> d.ok)
<1>1. IsDemo(d)
  BY DEF Alike
<1>2. /\ IsDemo(e) /\ e.cases = d.cases /\ (e.ok <=> d.ok) /\ e.principals = d.principals
      /\ e.activation = d.activation /\ e.research = d.research
      /\ e.packs = d.packs \cup {pack}
  BY <1>1, PackTells
<1>3. e.packs = d.packs
  BY <1>2
<1> QED BY <1>2, <1>3 DEF Alike

LEMMA AlikePlanted ==
  ASSUME NEW d, Alike(d), NEW c, Here(db, c), NEW s, NEW e, e = Planted(d, c, s)
  PROVE  e = d
  BY DEF Alike, Here, Planted

LEMMA AlikeThread ==
  ASSUME NEW d, Alike(d), NEW c \in DemoCases, db.cases[c].thread = TRUE, NEW e, e = SeedThread(d, c)
  PROVE  Alike(e) /\ (e.ok <=> d.ok)
<1>1. IsDemo(d) /\ d.cases[c].thread = TRUE
  BY DEF Alike
<1>2. IsDemoRow(d.cases[c])
  BY <1>1, RowOf
<1>3. Edited(d, e, c) /\ (e.ok <=> d.ok) /\ e.cases[c] = ThreadRow(d.cases[c])
  BY <1>1, ThreadTells
<1>4. e.cases[c] = d.cases[c]
  BY <1>1, <1>2, <1>3, ThreadRowSame
<1> QED BY <1>3, <1>4, AlikeEdited

LEMMA AlikeOffer ==
  ASSUME NEW d, Alike(d), NEW c \in DemoCases, db.cases[c].thread = TRUE, db.cases[c].offer = TRUE,
         NEW e, e = SeedOffer(d, c)
  PROVE  Alike(e) /\ (e.ok <=> d.ok)
<1>1. IsDemo(d) /\ d.cases[c].thread = TRUE /\ d.cases[c].offer = TRUE
  BY DEF Alike
<1>2. IsDemoRow(d.cases[c])
  BY <1>1, RowOf
<1>3. Edited(d, e, c) /\ (e.ok <=> d.ok) /\ e.cases[c] = OfferRow(ThreadRow(d.cases[c]))
  BY <1>1, OfferTells
<1>4. PICK r, t : r = d.cases[c] /\ t = ThreadRow(r)
  OBVIOUS
<1>5. t = r
  BY <1>1, <1>2, <1>4, ThreadRowSame
<1>6. PICK n : n = OfferRow(r)
  OBVIOUS
<1>7. n = r
  <2>1. IsDemoRow(r) /\ r.offer = TRUE
    BY <1>1, <1>2, <1>4
  <2> QED BY <1>6, <2>1, OfferRowSame
<1>8. e.cases[c] = d.cases[c]
  BY <1>3, <1>4, <1>5, <1>6, <1>7
<1> QED BY <1>3, <1>8, AlikeEdited

(* What the parts find; the parts that are asked for.                       *)

LEMMA AgainIdentity ==
  ASSUME NEW d, Alike(d), NEW scenario \in BOOLEAN, "basic" \in db.principals,
         scenario => "scenario" \in db.principals /\ schema >= 15,
         NEW e, e = SeedIdentity(d, scenario)
  PROVE  Alike(e) /\ (e.ok <=> d.ok)
<1>1. /\ e.cases = d.cases /\ IsDemo(e) /\ e.packs = d.packs /\ e.research = d.research
      /\ e.activation = d.activation
      /\ e.principals = d.principals \cup {"basic"} \cup (IF scenario THEN {"scenario"} ELSE {})
      /\ e.ok <=> d.ok /\ (scenario => schema >= 15)
  BY DEF SeedIdentity, Require, IsDemo, DbFields, HasScenarioKeys, Alike
<1>2. e.principals = d.principals
  BY <1>1 DEF Alike
<1> QED BY <1>1, <1>2 DEF Alike

LEMMA AgainSkills ==
  ASSUME NEW d, Alike(d), db.activation \in Nat, db.activation > 0, schema >= 8, NEW e, e = SeedSkills(d)
  PROVE  Alike(e) /\ (e.ok <=> d.ok)
<1>1. d.activation # 0
  BY DEF Alike
<1>2. /\ e.cases = d.cases /\ IsDemo(e) /\ e.packs = d.packs /\ e.research = d.research
      /\ e.activation = d.activation
      /\ e.principals = d.principals /\ (e.ok <=> d.ok)
  BY <1>1 DEF SeedSkills, Require, IsDemo, DbFields, HasCatalog, Alike
<1> QED BY <1>2 DEF Alike

LEMMA AgainDefault ==
  ASSUME NEW d, Alike(d), Here(db, "default"), db.cases["default"].runs > 0, Here(db, "connected"),
         "baseline" \in db.packs, NEW e, e = SeedTaskCase(SeedDefaultRun(SeedDefaultCase(d)))
  PROVE  Alike(e) /\ (e.ok <=> d.ok)
<1>1. PICK c, s, pack : c = "default" /\ s = "planning" /\ pack = "baseline"
  OBVIOUS
<1>2. PICK p : p = Planted(d, c, s)
  OBVIOUS
<1>3. p = d
  BY <1>1, <1>2, AlikePlanted
<1>4. PICK q : q = Packed(d, pack)
  OBVIOUS
<1>5. SeedDefaultCase(d) = q
  BY <1>1, <1>2, <1>3, <1>4 DEF SeedDefaultCase, Packed
<1>6. Alike(q) /\ (q.ok <=> d.ok)
  <2>1. pack \in d.packs
    BY <1>1 DEF Alike
  <2> QED BY <1>4, <2>1, AlikePacked
<1>7. SeedDefaultRun(q) = q
  BY <1>6 DEF Alike, SeedDefaultRun
<1>8. PICK x : x = "connected"
  OBVIOUS
<1>9. e = Planted(q, x, s)
  BY <1>1, <1>5, <1>7, <1>8 DEF SeedTaskCase
<1>10. e = q
  BY <1>6, <1>8, <1>9, AlikePlanted
<1> QED BY <1>6, <1>10

LEMMA AgainPlan ==
  ASSUME DatabaseInv, Here(db, "default"), Here(db, "plan"), schema >= 15,
         NEW d, Alike(d), NEW e, e = SeedPlan(d)
  PROVE  Alike(e) /\ (e.ok <=> d.ok /\ "work" \notin touched["plan"])
<1>1. PICK holds : holds = ExactPlan(d)
  OBVIOUS
<1>2. e = Require(d, holds)
  BY <1>1 DEF SeedPlan, Alike, Here
<1>3. Alike(e) /\ (e.ok <=> d.ok /\ holds)
  BY <1>2, AlikeRequire
<1>4. PICK c, r, done : c = "plan" /\ r = db.cases[c] /\ done = touched[c]
  OBVIOUS
<1>5. LikePlan(r, done)
  <2>1. c \in DemoCases /\ Here(db, c)
    BY <1>4 DEF DemoCases
  <2> QED BY <1>4, <2>1 DEF DatabaseInv, Looks
<1>6. db.cases["default"].runs > 0
  BY DEF DatabaseInv, Looks, Lasting, DemoCases
<1>7. HasExecutions
  BY DEF HasExecutions, DatabaseInv, OldestSchema, LatestSchema
<1>8. ExactPlan(d) <=> "work" \notin done
  BY <1>4, <1>5, <1>6, <1>7 DEF Alike, ExactPlan, ExactSnapshot, LikePlan
<1> QED BY <1>1, <1>3, <1>4, <1>8

LEMMA AgainRevision ==
  ASSUME DatabaseInv, Here(db, "default"), NEW c \in {"revision", "intake"}, Here(db, c), schema >= 16,
         NEW d, Alike(d), NEW e, e = SeedRevision(d, c)
  PROVE  Alike(e) /\ (e.ok <=> d.ok /\ touched[c] = {})
<1>1. PICK holds : holds = ExactRevision(d, c)
  OBVIOUS
<1>2. e = Require(d, holds)
  BY <1>1 DEF SeedRevision, Alike, Here
<1>3. Alike(e) /\ (e.ok <=> d.ok /\ holds)
  BY <1>2, AlikeRequire
<1>4. PICK r, done : r = db.cases[c] /\ done = touched[c] /\ r = d.cases[c]
  BY DEF Alike
<1>5. LikeRevision(c, r, done)
  <2>1. c \in DemoCases
    BY DEF DemoCases
  <2> QED BY <1>4, <2>1 DEF DatabaseInv, Looks
<1>6. d.cases["default"].runs > 0
  BY DEF DatabaseInv, Looks, Lasting, DemoCases, Alike
<1>7. HasLineage
  BY DEF HasLineage, DatabaseInv, OldestSchema, LatestSchema
<1>8. CASE done = {}
  <2>1. /\ r.state = "advisor_review" /\ r.revision = 1 /\ r.thread /\ ~r.talk
        /\ r.chains = (IF c = "intake" THEN 1 ELSE 2)
        /\ r.runs = 1 /\ r.task = "waiting" /\ r.pin = 0 /\ ~r.lineage /\ ~r.retried
    BY <1>5, <1>8 DEF LikeRevision
  <2>2. ExactCase(d, c) /\ ExactTask(d, c) /\ ExactSnapshot(d, c)
    BY <1>4, <1>6, <2>1 DEF ExactCase, ExactTask, ExactSnapshot
  <2>3. ExactConversation(d, c) /\ (c = "revision" => ExactBudget(d))
    BY <1>4, <2>1 DEF ExactConversation, ExactBudget
  <2>4. holds
    BY <1>1, <1>7, <2>2, <2>3 DEF ExactRevision
  <2> QED BY <1>3, <1>4, <1>8, <2>4
<1>9. CASE done # {}
  <2>1. r.talk
    BY <1>5, <1>9 DEF LikeRevision
  <2>2. ~holds
    BY <1>1, <1>4, <2>1 DEF ExactRevision, ExactConversation, ExactBudget
  <2> QED BY <1>3, <1>4, <1>9, <2>2
<1> QED BY <1>8, <1>9

LEMMA AgainSource ==
  ASSUME NEW d, Alike(d), "intake" \in db.packs, schema >= 17, NEW e, e = SeedIntakeSource(d)
  PROVE  Alike(e) /\ (e.ok <=> d.ok)
<1>1. PICK pack : pack = "intake"
  OBVIOUS
<1>2. PICK q : q = Packed(d, pack)
  OBVIOUS
<1>3. Alike(q) /\ (q.ok <=> d.ok)
  <2>1. pack \in d.packs
    BY <1>1 DEF Alike
  <2> QED BY <1>2, <2>1, AlikePacked
<1>4. PICK holds : holds = ControlledSource(q)
  OBVIOUS
<1>5. e = Require(q, holds)
  BY <1>1, <1>2, <1>4 DEF SeedIntakeSource, Packed
<1>6. holds
  BY <1>3, <1>4 DEF Alike, ControlledSource, HasIntake
<1> QED BY <1>3, <1>5, <1>6, AlikeRequire

LEMMA OpeningsSame ==
  ASSUME NEW d, IsDemo(d), NEW c1, NEW c2, NEW c3, NEW c4, NEW o, NEW s,
         c1 = "primary", c2 = "active", c3 = "stale", c4 = "expired", o = "intake", s = "planning",
         Here(d, c1), Here(d, c2), Here(d, c3), Here(d, c4)
  PROVE  Planted(Planted(Planted(Planted(d, c1, o), c2, s), c3, o), c4, o) = d
<1>1. Planted(d, c1, o) = d /\ Planted(d, c2, s) = d /\ Planted(d, c3, o) = d /\ Planted(d, c4, o) = d
  BY DEF Planted
<1> QED BY <1>1

LEMMA AgainConversations ==
  ASSUME DatabaseInv, \A c \in Conversations : Here(db, c),
         NEW d, Alike(d), NEW e, e = ConversationCases(d)
  PROVE  Alike(e) /\ (e.ok <=> d.ok /\ \A c \in Conversations : "work" \notin touched[c])
<1>1. PICK opening : opening = [primary |-> "intake", active |-> "planning",
                                stale |-> "intake", expired |-> "intake"]
  OBVIOUS
<1>2. PICK holds : holds = (\A c \in Conversations :
                     /\ d.cases[c].state = opening[c]
                     /\ d.cases[c].revision \in {1} \cup (IF c = "stale" THEN {2} ELSE {}))
  OBVIOUS
<1>3. e = Require(d, holds)
  <2>1. PICK c1, c2, c3, c4, o, s : /\ c1 = "primary" /\ c2 = "active" /\ c3 = "stale"
                                    /\ c4 = "expired" /\ o = "intake" /\ s = "planning"
    OBVIOUS
  <2>2. IsDemo(d) /\ Here(d, c1) /\ Here(d, c2) /\ Here(d, c3) /\ Here(d, c4)
    BY <2>1 DEF Alike, Here, Conversations
  <2>3. Planted(Planted(Planted(Planted(d, c1, o), c2, s), c3, o), c4, o) = d
    BY <2>1, <2>2, OpeningsSame
  <2> QED BY <1>1, <1>2, <2>1, <2>3 DEF ConversationCases
<1>4. Alike(e) /\ (e.ok <=> d.ok /\ holds)
  BY <1>3, AlikeRequire
<1>5. ASSUME NEW c \in Conversations
      PROVE  "work" \notin touched[c] <=>
                 /\ d.cases[c].state = opening[c]
                 /\ d.cases[c].revision \in {1} \cup (IF c = "stale" THEN {2} ELSE {})
  <2>1. PICK r, done : r = db.cases[c] /\ done = touched[c] /\ r = d.cases[c]
    BY DEF Alike
  <2>2. Looks(c, r, done) /\ RowNumbers(r)
    BY <2>1 DEF DatabaseInv, Conversations, DemoCases, RowFits
  <2>3. CASE c = "active"
    BY <1>1, <2>1, <2>2, <2>3 DEF Looks, LikeActive
  <2>4. CASE c \in {"primary", "expired"}
    <3>1. LikeOpening(c, r, done) /\ First(c) = 1
      BY <2>2, <2>4 DEF Looks, First
    <3>2. opening[c] = "intake"
      BY <1>1, <2>4
    <3> QED BY <2>1, <2>2, <2>4, <3>1, <3>2 DEF LikeOpening, RowNumbers
  <2>5. CASE c = "stale"
    <3>1. LikeOpening(c, r, done) /\ First(c) = 2
      BY <2>2, <2>5 DEF Looks, First
    <3>2. opening[c] = "intake"
      BY <1>1, <2>5
    <3> QED BY <2>1, <2>2, <2>5, <3>1, <3>2 DEF LikeOpening, RowNumbers
  <2> QED BY <2>3, <2>4, <2>5 DEF Conversations
<1>6. holds <=> \A c \in Conversations : "work" \notin touched[c]
  BY <1>2, <1>5
<1> QED BY <1>4, <1>6

LEMMA AgainActive ==
  ASSUME DatabaseInv, NEW c, c = "active", Here(db, c), "baseline" \in db.packs, NEW skills,
         db.cases[c].pin > 0 => skills /\ db.activation > 0,
         NEW d, Alike(d), NEW e, e = SeedActive(d, skills)
  PROVE  Alike(e) /\ (e.ok <=> d.ok)
<1>1. PICK r : r = db.cases[c]
  OBVIOUS
<1>2. c \in DemoCases /\ c \in Conversations
  BY DEF DemoCases, Conversations
<1>3. Lasting(c, r) /\ LikeActive(r, touched[c])
  BY <1>1, <1>2 DEF DatabaseInv, Looks
<1>4. PICK q : q = SeedThread(d, c)
  OBVIOUS
<1>5. r.thread = TRUE
  BY <1>2, <1>3 DEF Lasting
<1>6. Alike(q) /\ (q.ok <=> d.ok)
  BY <1>1, <1>2, <1>4, <1>5, AlikeThread
<1>7. /\ q.cases[c] = r /\ d.cases[c] = r /\ q.packs = db.packs /\ q.activation = db.activation
  BY <1>1, <1>6 DEF Alike
<1>8. /\ r.state = "planning" /\ r.revision = 1 /\ r.task = "waiting" /\ r.runs = 0 /\ r.pin \in {0, 1}
  BY <1>3 DEF LikeActive
<1>9. PICK first : first = SeedActiveTask(q)
  OBVIOUS
<1>10. Alike(first) /\ (first.ok <=> q.ok)
  <2>1. PICK holds : holds = (/\ q.cases[c].task = "waiting" /\ q.cases[c].runs = 0 /\ "baseline" \in q.packs)
    OBVIOUS
  <2>2. first = Require(q, holds)
    BY <1>7, <1>8, <1>9, <2>1 DEF SeedActiveTask
  <2>3. holds
    BY <1>7, <1>8, <2>1
  <2> QED BY <1>6, <2>2, <2>3, AlikeRequire
<1>11. CASE ~HasCatalog
  <2>1. e = first
    BY <1>4, <1>9, <1>11 DEF SeedActive
  <2> QED BY <1>6, <1>10, <2>1
<1>12. CASE HasCatalog /\ LegacyTask(d)
  <2>1. PICK holds : holds = (q.cases[c].task # "none" => ExactLegacyTask(q))
    OBVIOUS
  <2>2. e = Require(first, holds)
    BY <1>4, <1>9, <1>12, <2>1 DEF SeedActive, WrappedActiveTask
  <2>3. holds
    BY <1>7, <1>8, <1>12, <2>1 DEF LegacyTask, ExactLegacyTask
  <2> QED BY <1>6, <1>10, <2>2, <2>3, AlikeRequire
<1>13. CASE HasCatalog /\ ~LegacyTask(d)
  <2>1. r.pin = 1
    BY <1>7, <1>8, <1>13 DEF LegacyTask
  <2>2. skills /\ q.activation > 0
    BY <1>1, <1>7, <2>1
  <2>3. PICK p : p = SeedPinnedTask(q)
    OBVIOUS
  <2>4. PICK holds : holds = (/\ q.activation > 0
                              /\ q.cases[c].state = "planning" /\ q.cases[c].revision = 1 /\ q.cases[c].thread
                              /\ "baseline" \in q.packs
                              /\ q.cases[c].task = "waiting"
                              /\ q.cases[c].pin = SeedPin(q)
                              /\ q.cases[c].runs = 0)
    OBVIOUS
  <2>5. p = Require(q, holds)
    BY <1>7, <1>8, <2>3, <2>4 DEF SeedPinnedTask
  <2>6. holds
    BY <1>5, <1>7, <1>8, <2>1, <2>2, <2>4 DEF SeedPin
  <2>7. Alike(p) /\ (p.ok <=> q.ok)
    BY <1>6, <2>5, <2>6, AlikeRequire
  <2>8. e = Require(p, skills)
    BY <1>4, <1>13, <2>3 DEF SeedActive
  <2> QED BY <1>6, <2>2, <2>7, <2>8, AlikeRequire
<1> QED BY <1>11, <1>12, <1>13

LEMMA AgainCollaboration ==
  ASSUME DatabaseInv, \A c \in Conversations : Here(db, c), "baseline" \in db.packs, NEW skills,
         db.cases["active"].pin > 0 => skills /\ db.activation > 0, schema >= 7,
         NEW d, Alike(d), NEW e, e = SeedCollaboration(d, skills)
  PROVE  Alike(e) /\ (e.ok <=> d.ok /\ \A c \in Conversations : "work" \notin touched[c])
<1>1. PICK c1, c2, c3, c4 : c1 = "primary" /\ c2 = "active" /\ c3 = "stale" /\ c4 = "expired"
  OBVIOUS
<1>2. /\ c1 \in DemoCases /\ c2 \in DemoCases /\ c3 \in DemoCases /\ c4 \in DemoCases
      /\ c1 \in Conversations /\ c2 \in Conversations /\ c3 \in Conversations /\ c4 \in Conversations
  BY <1>1 DEF DemoCases, Conversations
<1>3. \A c \in Conversations : c \in DemoCases /\ Lasting(c, db.cases[c])
  BY DEF DatabaseInv, Looks, Conversations, DemoCases
<1>4. /\ \A c \in Conversations : db.cases[c].thread = TRUE
      /\ db.cases[c3].offer = TRUE /\ db.cases[c4].offer = TRUE /\ db.cases[c3].revision # 1
  BY <1>1, <1>2, <1>3 DEF Lasting
<1>5. PICK q : q = ConversationCases(d)
  OBVIOUS
<1>6. PICK p : p = SeedThread(q, c1)
  OBVIOUS
<1>7. PICK a : a = SeedActive(p, skills)
  OBVIOUS
<1>8. PICK s : s = SeedOffer(a, c3)
  OBVIOUS
<1>9. PICK x : x = SeedOffer(s, c4)
  OBVIOUS
<1>10. Alike(q) /\ (q.ok <=> d.ok /\ \A c \in Conversations : "work" \notin touched[c])
  BY <1>5, AgainConversations
<1>11. Alike(p) /\ (p.ok <=> q.ok)
  BY <1>2, <1>4, <1>6, <1>10, AlikeThread
<1>12. Alike(a) /\ (a.ok <=> p.ok)
  <2>1. Here(db, c2) /\ (db.cases[c2].pin > 0 => skills /\ db.activation > 0)
    BY <1>1, <1>2
  <2> QED BY <1>1, <1>7, <1>11, <2>1, AgainActive
<1>13. Alike(s) /\ (s.ok <=> a.ok)
  BY <1>2, <1>4, <1>8, <1>12, AlikeOffer
<1>14. Alike(x) /\ (x.ok <=> s.ok)
  BY <1>2, <1>4, <1>9, <1>13, AlikeOffer
<1>15. PublishStale(x) = x
  BY <1>1, <1>4, <1>14 DEF PublishStale, Alike
<1>16. PICK holds : holds = (HasTalk /\ x.cases["default"] = d.cases["default"])
  OBVIOUS
<1>17. e = Require(x, holds)
  BY <1>1, <1>5, <1>6, <1>7, <1>8, <1>9, <1>15, <1>16 DEF SeedCollaboration
<1>18. holds
  BY <1>14, <1>16 DEF HasTalk, Alike
<1>19. Alike(e) /\ (e.ok <=> x.ok)
  BY <1>14, <1>17, <1>18, AlikeRequire
<1> QED BY <1>10, <1>11, <1>12, <1>13, <1>14, <1>19

LEMMA AlikeSame ==
  ASSUME DatabaseInv, NEW e, Alike(e), e.ok
  PROVE  e = db
<1>1. e.ok = TRUE /\ db.ok = TRUE
  BY DEF Alike, IsDemo, DatabaseInv
<1>2. e = [field \in DbFields |-> e[field]] /\ db = [field \in DbFields |-> db[field]]
  BY DEF Alike, IsDemo, DatabaseInv
<1>3. \A field \in DbFields : e[field] = db[field]
  BY <1>1 DEF DbFields, Alike
<1> QED BY <1>2, <1>3

(* What a part asks for.                                                    *)
PartsAsk(f) ==
    /\ "plan" \in f => "work" \notin touched["plan"]
    /\ "revision" \in f => touched["revision"] = {}
    /\ "intake" \in f => touched["intake"] = {}
    /\ "collaboration" \in f => \A c \in Conversations : "work" \notin touched[c]

LEMMA UndisturbedAsk ==
  ASSUME DatabaseInv, NEW f \in Seeds
  PROVE  Undisturbed(f) <=> PartsAsk(f)
<1>1. \A c \in DemoCases : touched[c] \subseteq {"talk"} <=> "work" \notin touched[c]
  <2>1. \A c \in DemoCases : touched[c] \in SUBSET {"talk", "work"}
    BY DEF DatabaseInv
  <2> QED BY <2>1
<1>2. PICK c2, c3, c4 : c2 = "plan" /\ c3 = "revision" /\ c4 = "intake"
  OBVIOUS
<1>3. Asked(f) \ {"default", "connected"} =
        (f \cap {c2, c3, c4}) \cup (IF "collaboration" \in f THEN Conversations ELSE {})
  BY <1>2 DEF Asked, Conversations
<1>4. c2 \in DemoCases /\ \A c \in Conversations : c \in DemoCases /\ c \notin {"revision", "intake"}
  BY <1>2 DEF DemoCases, Conversations
<1>5. Undisturbed(f) <=> /\ c2 \in f => touched[c2] \subseteq {"talk"}
                         /\ c3 \in f => touched[c3] \subseteq {}
                         /\ c4 \in f => touched[c4] \subseteq {}
                         /\ "collaboration" \in f => \A c \in Conversations : touched[c] \subseteq {"talk"}
  BY <1>2, <1>3, <1>4 DEF Undisturbed
<1>6. "collaboration" \in f =>
          ((\A c \in Conversations : touched[c] \subseteq {"talk"}) <=>
           (\A c \in Conversations : "work" \notin touched[c]))
  BY <1>1, <1>4
<1>7. touched[c2] \subseteq {"talk"} <=> "work" \notin touched[c2]
  BY <1>1, <1>4
<1> QED BY <1>2, <1>5, <1>6, <1>7 DEF PartsAsk

LEMMA ServesTells ==
  ASSUME NEW f, Serves(f)
  PROVE  /\ "collaboration" \in f => schema >= 7
         /\ "skills" \in f => schema >= 8
         /\ "plan" \in f => schema >= 15
         /\ "revision" \in f => schema >= 16
         /\ "intake" \in f => schema >= 17
  BY DEF Serves, Level

LEMMA SeededTells ==
  ASSUME DatabaseInv, NEW f \in Seeds, SeededBefore(f)
  PROVE  /\ Here(db, "default") /\ Here(db, "connected") /\ db.cases["default"].runs > 0
         /\ "plan" \in f => Here(db, "plan") /\ "scenario" \in db.principals
         /\ "revision" \in f => Here(db, "revision")
         /\ "intake" \in f => Here(db, "intake") /\ "intake" \in db.packs
         /\ "collaboration" \in f => \A c \in Conversations : Here(db, c)
         /\ "basic" \in db.principals /\ "baseline" \in db.packs
<1>1. \A c \in Asked(f) : Here(db, c)
  BY DEF SeededBefore
<1>2. Here(db, "default") /\ Here(db, "connected")
  BY <1>1 DEF Asked
<1>3. /\ "plan" \in f => Here(db, "plan")
      /\ "revision" \in f => Here(db, "revision")
      /\ "intake" \in f => Here(db, "intake")
      /\ "collaboration" \in f => \A c \in Conversations : Here(db, c)
  BY <1>1 DEF Asked
<1>4. Rooted(db)
  BY DEF DatabaseInv
<1>5. db.cases["default"].runs > 0
  BY <1>2 DEF DatabaseInv, Looks, Lasting, DemoCases
<1> QED BY <1>2, <1>3, <1>4, <1>5 DEF Rooted

LEMMA AgainSeed ==
  ASSUME DatabaseInv, NEW f \in Seeds, SeededBefore(f), Serves(f), NEW e, e = SeedDemo(f, db)
  PROVE  Alike(e) /\ (e.ok <=> PartsAsk(f))
<1>1. PICK c3, c4 : c3 = "revision" /\ c4 = "intake"
  OBVIOUS
<1>2. PICK asks : asks = ("intake" \in f => {"planning", "skills"} \subseteq f)
  OBVIOUS
<1>3. PICK scenario \in BOOLEAN : scenario <=> "plan" \in f
  OBVIOUS
<1>4. PICK skills : skills = ("skills" \in f)
  OBVIOUS
<1>5. PICK d0 : d0 = Require(db, asks)
  OBVIOUS
<1>6. PICK d1 : d1 = SeedIdentity(d0, scenario)
  OBVIOUS
<1>7. PICK d2 : d2 = Part(f, "skills", SeedSkills(d1), d1)
  OBVIOUS
<1>8. PICK d3 : d3 = SeedTaskCase(SeedDefaultRun(SeedDefaultCase(d2)))
  OBVIOUS
<1>9. PICK d4 : d4 = Part(f, "plan", SeedPlan(d3), d3)
  OBVIOUS
<1>10. PICK d5 : d5 = Part(f, "revision", SeedRevision(d4, c3), d4)
  OBVIOUS
<1>11. PICK h : h = SeedIntakeSource(d5)
  OBVIOUS
<1>12. PICK d6 : d6 = Part(f, "intake", SeedRevision(h, c4), d5)
  OBVIOUS
<1>13. e = Part(f, "collaboration", SeedCollaboration(d6, skills), d6)
  <2>1. SeedIdentity(d0, "plan" \in f) = d1
    <3>1. scenario = ("plan" \in f)
      BY <1>3
    <3> QED BY <1>6, <3>1
  <2>2. "planning" \in f
    BY DEF SeededBefore
  <2> QED BY <1>1, <1>2, <1>4, <1>5, <1>7, <1>8, <1>9, <1>10, <1>11, <1>12, <2>1, <2>2 DEF SeedDemo
<1>14. /\ "collaboration" \in f => schema >= 7
       /\ "skills" \in f => schema >= 8
       /\ "plan" \in f => schema >= 15
       /\ "revision" \in f => schema >= 16
       /\ "intake" \in f => schema >= 17
  BY ServesTells
<1>15. /\ Here(db, "default") /\ Here(db, "connected") /\ db.cases["default"].runs > 0
       /\ "plan" \in f => Here(db, "plan") /\ "scenario" \in db.principals
       /\ "revision" \in f => Here(db, "revision")
       /\ "intake" \in f => Here(db, "intake") /\ "intake" \in db.packs
       /\ "collaboration" \in f => \A c \in Conversations : Here(db, c)
       /\ "basic" \in db.principals /\ "baseline" \in db.packs
  BY SeededTells
<1>16. /\ "skills" \in f => db.activation > 0
       /\ "intake" \in f => "skills" \in f /\ "planning" \in f
       /\ "collaboration" \in f /\ db.cases["active"].pin > 0 => "skills" \in f
       /\ db.activation \in Nat /\ schema \in Nat
  BY DEF SeededBefore, DatabaseInv, Shelved, OldestSchema, LatestSchema
<1>17. Alike(db) /\ db.ok
  BY DEF Alike, DatabaseInv
<1>18. Alike(d0) /\ d0.ok
  <2>1. asks
    BY <1>2, <1>16
  <2> QED BY <1>5, <1>17, <2>1, AlikeRequire
<1>19. Alike(d1) /\ d1.ok
  BY <1>3, <1>6, <1>14, <1>15, <1>18, AgainIdentity
<1>20. Alike(d2) /\ d2.ok
  BY <1>7, <1>14, <1>16, <1>19, AgainSkills DEF Part
<1>21. Alike(d3) /\ d3.ok
  BY <1>8, <1>15, <1>20, AgainDefault
<1>22. Alike(d4) /\ (d4.ok <=> ("plan" \in f => "work" \notin touched["plan"]))
  <2>1. CASE "plan" \in f
    <3>1. d4 = SeedPlan(d3)
      BY <1>9, <2>1 DEF Part
    <3> QED BY <1>14, <1>15, <1>21, <2>1, <3>1, AgainPlan
  <2>2. CASE "plan" \notin f
    BY <1>9, <1>21, <2>2 DEF Part
  <2> QED BY <2>1, <2>2
<1>23. Alike(d5) /\ (d5.ok <=> d4.ok /\ (c3 \in f => touched[c3] = {}))
  <2>1. CASE c3 \in f
    <3>1. d5 = SeedRevision(d4, c3) /\ Here(db, c3) /\ c3 \in {"revision", "intake"} /\ schema >= 16
      BY <1>1, <1>10, <1>14, <1>15, <2>1 DEF Part
    <3> QED BY <1>15, <1>22, <2>1, <3>1, AgainRevision
  <2>2. CASE c3 \notin f
    BY <1>1, <1>10, <1>22, <2>2 DEF Part
  <2> QED BY <2>1, <2>2
<1>24. Alike(d6) /\ (d6.ok <=> d5.ok /\ (c4 \in f => touched[c4] = {}))
  <2>1. CASE c4 \in f
    <3>1. d6 = SeedRevision(h, c4) /\ Here(db, c4) /\ c4 \in {"revision", "intake"}
      BY <1>1, <1>12, <1>15, <2>1 DEF Part
    <3>2. Alike(h) /\ (h.ok <=> d5.ok)
      BY <1>1, <1>11, <1>14, <1>15, <1>23, <2>1, AgainSource
    <3>3. schema >= 16
      BY <1>1, <1>14, <1>16, <2>1
    <3> QED BY <1>15, <2>1, <3>1, <3>2, <3>3, AgainRevision
  <2>2. CASE c4 \notin f
    BY <1>1, <1>12, <1>23, <2>2 DEF Part
  <2> QED BY <2>1, <2>2
<1>25. /\ Alike(e)
       /\ e.ok <=> d6.ok /\ ("collaboration" \in f => \A c \in Conversations : "work" \notin touched[c])
  <2>1. CASE "collaboration" \in f
    <3>1. e = SeedCollaboration(d6, skills)
      BY <1>13, <2>1 DEF Part
    <3>2. db.cases["active"].pin > 0 => skills /\ db.activation > 0
      BY <1>4, <1>16, <2>1
    <3> QED BY <1>14, <1>15, <1>24, <2>1, <3>1, <3>2, AgainCollaboration
  <2>2. CASE "collaboration" \notin f
    BY <1>13, <1>24, <2>2 DEF Part
  <2> QED BY <2>1, <2>2
<1> QED BY <1>1, <1>22, <1>23, <1>24, <1>25 DEF PartsAsk

LEMMA InvRepeats == DatabaseInv => SeedRepeatable
<1> SUFFICES ASSUME DatabaseInv, NEW f \in Seeds, SeededBefore(f), Serves(f)
             PROVE  LET twice == SeedDemo(f, db) IN
                    /\ twice.ok <=> Undisturbed(f)
                    /\ twice.ok => twice = db
  BY DEF SeedRepeatable
<1>1. PICK twice : twice = SeedDemo(f, db)
  OBVIOUS
<1>2. Alike(twice) /\ (twice.ok <=> PartsAsk(f))
  BY <1>1, AgainSeed
<1>3. Undisturbed(f) <=> PartsAsk(f)
  BY UndisturbedAsk
<1>4. twice.ok => twice = db
  BY <1>2, AlikeSame
<1> QED BY <1>1, <1>2, <1>3, <1>4

(* A seed that was run is accepted again, and changes nothing, exactly      *)
(* while nobody worked on the Cases it compares: for any number of seeds,   *)
(* migrations and acts of people in between.                                *)
THEOREM SeedRepeatableAlways == DemoSpec => []SeedRepeatable
<1> QED BY DatabaseInvAlways, InvRepeats, PTL

(* What people did.                                                         *)
LEMMA InvServes == DatabaseInv => SchemaServes
<1> SUFFICES ASSUME DatabaseInv PROVE SchemaServes
  OBVIOUS
<1>1. ASSUME NEW r \in SeededRows(db)
      PROVE  RowPlaced(r, schema)
  BY DEF SeededRows, DatabaseInv, RowFits
<1>2. schema \in 6 .. 17 /\ Shelved(db, schema) /\ Rooted(db)
  BY DEF DatabaseInv, OldestSchema, LatestSchema
<1>3. IntakeHistory(db) => schema = 17
  BY <1>2 DEF IntakeHistory, Rooted, Shelved
<1>4. /\ RetryHistory(db) => schema >= 16
      /\ ExecutionHistory(db) => schema >= 14
      /\ LineageHistory(db) => schema >= 12
      /\ PinHistory(db) => schema >= 8
      /\ (\E r \in SeededRows(db) : Unpinned(r)) => schema < 8
      /\ TalkHistory(db) => schema >= 7
  BY <1>1 DEF RetryHistory, ExecutionHistory, LineageHistory, PinHistory, TalkHistory, RowPlaced
<1>5. /\ ScenarioIdentity(db) => schema >= 15
      /\ StrictHistory(db) => schema >= 11
      /\ LiveHistory(db) => schema >= 10
      /\ db.activation > 1 => schema >= 8
  BY <1>2 DEF Shelved, ScenarioIdentity, StrictHistory, LiveHistory
<1> QED BY <1>3, <1>4, <1>5 DEF SchemaServes, SkillHistory

KeepsHistory ==
    /\ \A c \in DemoCases : touched[c] # {} =>
           \/ db'.cases[c] = db.cases[c]
           \/ /\ schema = 7 /\ schema' = 8 /\ Unpinned(db.cases[c])
              /\ db'.cases[c] = [db.cases[c] EXCEPT !.task = "cancelled"]
    /\ db.activation > 1 => db'.activation = db.activation
    /\ db.research \subseteq db'.research

LEMMA SeedHistory ==
  ASSUME DatabaseInv, NEW f \in Seeds, RunSeed(f)
  PROVE  KeepsHistory
<1>1. PICK e : e = SeedDemo(f, db)
  OBVIOUS
<1>2. db' = e
  BY <1>1 DEF RunSeed
<1>3. Sown(db, e, Sows(f))
  BY <1>1, InvLasts, DemoSows
<1>4. \A c \in DemoCases : touched[c] # {} => Here(db, c)
  BY DEF DatabaseInv
<1>5. \A c \in DemoCases : touched[c] # {} => e.cases[c] = db.cases[c]
  BY <1>3, <1>4 DEF Sown
<1>6. (db.activation > 1 => e.activation = db.activation) /\ e.research = db.research
  BY <1>3 DEF Sown
<1> QED BY <1>2, <1>5, <1>6 DEF KeepsHistory

LEMMA UpgradeHistory ==
  ASSUME DatabaseInv, Upgrade
  PROVE  KeepsHistory
<1>1. PICK level, e : level = schema + 1 /\ e = Upgraded(db, level)
  OBVIOUS
<1>2. db' = e /\ schema' = level
  BY <1>1 DEF Upgrade
<1>3. /\ e.activation = db.activation /\ e.research = db.research
      /\ \A c \in DemoCases : e.cases[c] = RowAbove(db.cases[c], level)
  BY <1>1, UpgradedTells DEF DatabaseInv
<1>4. level = 8 => schema = 7
  BY <1>1 DEF DatabaseInv, OldestSchema, LatestSchema
<1> QED BY <1>2, <1>3, <1>4 DEF KeepsHistory, RowAbove

LEMMA DowngradeHistory ==
  ASSUME DatabaseInv, Downgrade
  PROVE  KeepsHistory
<1>1. \A c \in DemoCases : touched[c] # {} => Here(db, c)
  BY DEF DatabaseInv
<1> QED BY <1>1, DowngradeKeeps DEF KeepsHistory

Counted == moves \in Nat

LEMMA ActsCount ==
  ASSUME Counted, People
  PROVE  moves' = moves + 1
  BY DEF People, Talk, ConfirmDemoFact, SendBack, PlanDemoCase, RetryDemoTask, StartDemoPlan,
         PromoteDemoSkill, ImportDemoResearch, ActOn

LEMMA MovesCounted ==
  ASSUME Counted, [DemoNext]_demoVars
  PROVE  Counted'
<1>1. CASE People
  BY <1>1, ActsCount DEF Counted
<1>2. CASE UNCHANGED moves
  BY <1>2 DEF Counted
<1> QED BY <1>1, <1>2 DEF DemoNext, demoVars, RunSeed, Upgrade, Downgrade

LEMMA StepKeepsHistory ==
  ASSUME DatabaseInv, Counted, [DemoNext]_demoVars, moves' = moves
  PROVE  KeepsHistory
<1>1. ~People
  BY ActsCount DEF Counted
<1>2. CASE UNCHANGED demoVars
  BY <1>2 DEF demoVars, KeepsHistory
<1>3. CASE DemoNext
  BY <1>1, <1>3, SeedHistory, UpgradeHistory, DowngradeHistory DEF DemoNext
<1> QED BY <1>2, <1>3

(* What people did is not undone by a seed or a migration, and no row is    *)
(* held at a migration that has no place for it.                            *)
THEOREM HistoryKeptAlways == DemoSpec => HistoryKept
<1>1. DemoInit => Counted
  BY DEF DemoInit, Counted
<1>2. Counted /\ [DemoNext]_demoVars => Counted'
  BY MovesCounted
<1>3. DemoSpec => []Counted
  BY <1>1, <1>2, PTL DEF DemoSpec
<1>4. DatabaseInv /\ Counted /\ [DemoNext]_demoVars => [moves' = moves => KeepsHistory]_demoVars
  BY StepKeepsHistory
<1>5. DemoSpec => [][moves' = moves => KeepsHistory]_demoVars
  BY <1>3, <1>4, DatabaseInvAlways, PTL DEF DemoSpec
<1>6. DemoSpec => []SchemaServes
  BY DatabaseInvAlways, InvServes, PTL
<1> QED BY <1>5, <1>6, PTL DEF HistoryKept, KeepsHistory

=============================================================================
