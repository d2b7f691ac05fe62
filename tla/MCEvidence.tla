----------------------------- MODULE MCEvidence -----------------------------
(* Values of the constants of EvidenceLoop for TLC.                        *)
EXTENDS EvidenceProcedure

Case(dim, eligible, holds, duplicate, same, oracle) ==
  [dim |-> dim, eligible |-> eligible, holds |-> holds, duplicate |-> duplicate,
   same |-> same, oracle |-> oracle]
Gap       == [closed |-> TRUE,  novel |-> 1, duplicates |-> 0, conflicts |-> 0]
Repeats   == [closed |-> FALSE, novel |-> 0, duplicates |-> 1, conflicts |-> 0]
Disagrees == [closed |-> FALSE, novel |-> 0, duplicates |-> 0, conflicts |-> 1]

\* The dataset as its author means it.
Meant == << Case("program",  {"s1"}, {"s1"}, "none", FALSE, Gap),
            Case("timeline", {"s2"}, {"s2"}, "none", FALSE, Gap),
            Case("program",  {"s1"}, {"s1"}, "s1",   TRUE,  Repeats),
            Case("timeline", {"s2"}, {"s2"}, "none", FALSE, Disagrees) >>

\* The gap of the second positive is closed by nothing.
NotHeld == [Meant EXCEPT ![2].holds = {}]

SomeHoldouts == {Meant, NotHeld}

\* Every way two sources may hold the expected values, repeat the baseline or
\* contradict it, for cases of the expected kinds; the committed dataset (no
\* text holds the decoy's and the conflict's expected value) is one of them.
Variants(case) ==
  {[case EXCEPT !.eligible = {"s1", "s2"}, !.holds = held, !.duplicate = d, !.same = b] :
     held \in SUBSET {"s1", "s2"}, d \in {"none", "s1"}, b \in BOOLEAN}

AllSamples ==
  {<<[a EXCEPT !.dim = dim], b, c, d>> :
     dim \in {"program", "timeline"},
     a \in Variants(Meant[1]), b \in Variants(Meant[2]),
     c \in Variants(Meant[3]),
     d \in {x \in Variants(Meant[4]) : x.duplicate = "none"}}
=============================================================================
