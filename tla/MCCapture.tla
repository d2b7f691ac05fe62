----------------------------- MODULE MCCapture -----------------------------
(* Two attempt identifiers, runs of up to three state versions and a few    *)
(* faults for LiveCapture.                                                  *)
EXTENDS LiveCapture, TLC

CONSTANTS a1, a2
MCAttempts == {a1, a2}
Symmetry == Permutations(MCAttempts)
=============================================================================
