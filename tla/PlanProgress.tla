----------------------------- MODULE PlanProgress -----------------------------
(***************************************************************************)
(* What the plan page promises a family and its advisor: the milestones of *)
(* an accepted plan are passed one after the other, each handed in by the  *)
(* family and passed by the advisor; a plan may stop for good instead.     *)
(* No versions, no keys, no rows.                                          *)
(***************************************************************************)
EXTENDS Naturals

CONSTANT Milestones

VARIABLES
    passed,   \* milestones passed so far
    turn      \* whose move it is

progressVars == <<passed, turn>>

Turns == {"nobody", "family", "advisor", "blocked", "stopped", "finished"}

Init == passed = 0 /\ turn = "nobody"

Begin == turn = "nobody" /\ turn' = "family" /\ UNCHANGED passed

HandIn == turn = "family" /\ turn' = "advisor" /\ UNCHANGED passed
ReportBlocker == turn = "family" /\ turn' = "blocked" /\ UNCHANGED passed
HandBack == turn = "advisor" /\ turn' = "family" /\ UNCHANGED passed

Pass ==
    /\ turn = "advisor"
    /\ passed' = passed + 1
    /\ turn' = IF passed' = Milestones THEN "finished" ELSE "family"

Stop == turn \in {"family", "advisor", "blocked"} /\ turn' = "stopped" /\ UNCHANGED passed

Next == Begin \/ HandIn \/ ReportBlocker \/ HandBack \/ Pass \/ Stop

Spec == Init /\ [][Next]_progressVars
=============================================================================
