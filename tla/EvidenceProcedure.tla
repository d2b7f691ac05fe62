------------------------- MODULE EvidenceProcedure -------------------------
(***************************************************************************)
(* The evidence loop as its design lets people run it.  The scripts start  *)
(* evaluate on a revealed dataset as often as it is given; the design of   *)
(* 2026-07-31 (:350-353) makes the reveal one-shot and wants no retry on   *)
(* revealed holdouts.  So people go on giving every command, but evaluate  *)
(* only until it has begun once; who gives it again all the same is not    *)
(* kept from it, and nothing is expected of that.                          *)
(***************************************************************************)
EXTENDS EvidenceLoop

VARIABLE given   \* the first evaluation: "no", begun "alone" or "beside" another command

\* evaluate_evidence_loop.py begins on the revealed dataset.
Begins(t) == proc[t] = Idle /\ proc'[t].at = "check frozen"

Record ==
  given' = IF given = "no" /\ \E t \in Terminals : Begins(t)
             THEN IF \A t \in Terminals : proc[t] = Idle THEN "alone" ELSE "beside"
             ELSE given

ProcedureInit == Init /\ given = "no"

ProcedureNext == Next /\ Record

ProcedureSpec == ProcedureInit /\ [][ProcedureNext]_<<vars, given>>

\* Commands run to their end, and whoever wants the verdict gives each again
\* and again up to the first evaluation; an edit is committed or undone, a
\* useless run root replaced.
LiveSpec ==
  /\ ProcedureSpec
  /\ \A t \in Terminals : WF_vars(Step(t))
  /\ \A r \in RunRoots :
       /\ SF_vars(\E t \in Terminals :
                    \/ StartPrepare(t, r) \/ StartFreeze(t, r) \/ StartReveal(t, r)
                    \/ given = "no" /\ StartEvaluate(t, r)
                    \/ Verify(t, r))
       /\ WF_vars(Discard(r))
  /\ WF_vars(Commit \/ Restore)

\* The revealed dataset was used and no receipt of it can be verified: the
\* design retires it, whatever a further evaluation would say.
Retired == given # "no" /\ ~\E r \in RunRoots : Verifiable(r)

\* The loop ends in a verified verdict.  Only a fault, or an evaluation begun
\* while another command still ran, may instead use the dataset up for good,
\* as the run of the design's section 19.1 did; never neither of the two.
\* (evaluate_evidence_loop.py, main; its recovery text, "rerun the exact
\* documented command", is not counted on)
LoopConcludes ==
  \/ <>(verified.verdict # "none")
  \/ <>[](Retired /\ (faults > 0 \/ given = "beside"))
=============================================================================
