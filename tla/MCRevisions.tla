------------------------------ MODULE MCRevisions ------------------------------
(* Three questions, side by side and not mixed: PlanRevisions with budgets  *)
(* on both sides of every boundary (refused, too small, just enough for the *)
(* delayed intake, enough for the first one only, and the golden one),      *)
(* DemoDatabase, and SkillActivation with three versions, the second with   *)
(* one tool less than the seeded one, so that the third may replace the     *)
(* first and not the second.  A behaviour is one of one of the three.       *)
EXTENDS PlanRevisions, DemoDatabase, SkillActivation, TLC

Amount(preferred, ceiling, elasticity) ==
    [refused |-> FALSE, preferred |-> preferred, ceiling |-> ceiling,
     elasticity |-> elasticity]

MCBudgets == {GoldenBudget, RefusedBudget, Amount(1000, 4000, 2500),
              Amount(2720, 4000, 2000), Amount(2720, 4000, 1999), Amount(3055, 3055, 0)}
MCScopes == {Countries, {"australia"}, {"japan"}, {"australia", "malaysia"}}

(* Versions 1 and 2 are 1.0.0 and 1.0.1, whose evaluation is computed; the  *)
(* third, of a later release, is taken to pass.                             *)
MCPassing == {v \in Versions : v = 3 \/ SkillPasses(v)}
MCScope == [v \in Versions |-> IF v = 2 THEN {"planning"}
                                        ELSE {"planning", "evidence"}]
ServerSymmetry == Permutations(Servers)

SideVars == <<vars, demoVars, skillVars>>
SideInit == Init /\ DemoInit /\ SkillInit
SideNext ==
    \/ DemoInit /\ SkillInit /\ Next /\ UNCHANGED <<demoVars, skillVars>>
    \/ Init /\ SkillInit /\ DemoNext /\ UNCHANGED <<vars, skillVars>>
    \/ Init /\ DemoInit /\ SkillNext /\ UNCHANGED <<vars, demoVars>>
SideSpec == SideInit /\ [][SideNext]_SideVars
=============================================================================
