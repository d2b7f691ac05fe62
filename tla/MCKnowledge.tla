------------------------------ MODULE MCKnowledge ------------------------------
(* Two questions, side by side and not mixed: Knowledge, and Stages 2 to 4  *)
(* of the live closure, whose promotion is what an approval of research is  *)
(* outside the demo.  A behaviour is one of the one or one of the other.    *)
EXTENDS Knowledge, LiveClosure

KeyOrder == [k \in FactKeys |-> IF k = "family.budget" THEN 1 ELSE 2]

SideVars == <<vars, closureVars>>
SideInit == Init /\ ClosureInit
SideNext ==
    \/ ClosureInit /\ Next /\ UNCHANGED closureVars
    \/ Init /\ ClosureNext /\ UNCHANGED vars
SideSpec == SideInit /\ [][SideNext]_SideVars
=============================================================================
