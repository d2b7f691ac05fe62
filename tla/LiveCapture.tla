---------------------------- MODULE LiveCapture ----------------------------
(***************************************************************************)
(* Stage 1 of the live closure (src/night_voyager/dra/live_controller.py,  *)
(* class DraLiveCaptureController, driven by the commands of               *)
(* scripts/verify_dra_live_closure.py): one run of the producer for one    *)
(* frozen intent, found again after a lost answer, a deadline, a kill or   *)
(* an interrupt from nothing but the receipts in a private directory.      *)
(*                                                                         *)
(* Every command is a process of its own, and the operator runs one at a   *)
(* time.  A command ends in the publication of one receipt: it reaches     *)
(* "publish" with the receipt pending.  Between any two steps it may be    *)
(* killed, or interrupted by a signal that main() turns into the removal   *)
(* of the artifact.  What the producer and the Night Voyager API do is     *)
(* external: a run per key, a candidate per key, answers that get lost.    *)
(***************************************************************************)
EXTENDS Naturals, FiniteSets

CONSTANTS Attempts,     \* attempt identifiers that freeze_intent may draw
          MaxVersion,   \* bound on the state version of a run
          MaxFaults     \* bound on kills, interrupts and lost answers

ASSUME BoundsAssumption == MaxVersion \in Nat \ {0} /\ MaxFaults \in Nat

VARIABLES receipts,     \* the receipt files, by name
          artifact,     \* is the artifact file there?
          residue,      \* has a kill left a .tmp- file behind?
          run,          \* the producer's run under each attempt's create key
          candidate,    \* what the API imported under the import key
          proc,         \* the command that runs
          faults        \* faults so far

vars == <<receipts, artifact, residue, run, candidate, proc, faults>>

NoReceipt == [is |-> "none"]
Names == {"intent", "preflight", "reconciliation", "poll", "inspection",
          "capture", "failure", "cleanup"}

Attempted(a)     == [is |-> "attempt", attempt |-> a]
Versioned(v)     == [is |-> "version", version |-> v]
Inspected(v, r)  == [is |-> "inspection", version |-> v, replay |-> r]
Captured(s)      == [is |-> "capture", cleanup |-> s]
Failed(code, c, s) ==
  [is |-> "failure", code |-> code, consumed |-> c, cleanup |-> s]
Cleaned(s)       == [is |-> "cleanup", cleanup |-> s]

Statuses == {"removed", "absent", "failed"}
Codes == {"request_identity_mismatch", "create_identity_conflict",
          "producer_unavailable", "reconciliation_failed", "run_poll_invalid",
          "terminal_state_invalid", "terminal_projection_invalid",
          "source_selection_invalid", "candidate_import_conflict",
          "cleanup_incomplete"}
Contents ==
  {NoReceipt} \cup {Attempted(a) : a \in Attempts}
    \cup {Versioned(v) : v \in 0 .. MaxVersion}
    \cup {Inspected(v, r) : v \in 0 .. MaxVersion, r \in BOOLEAN}
    \cup {Captured(s) : s \in Statuses}
    \cup {Cleaned(s) : s \in Statuses}
    \cup {Failed(code, c, s) : code \in Codes, c \in BOOLEAN, s \in Statuses}

Has(n)  == receipts[n] # NoReceipt
Absent  == [version |-> 0, status |-> "absent"]
Started(a) == run[a] # Absent
Idle    == [at |-> "idle"]
Frozen  == receipts["intent"].attempt

\* A command that replays or polls carries the answer to create_run.
At(place, r)       == [at |-> place, replay |-> r]
Creating(reconcile) == [at |-> "create", reconcile |-> reconcile]
Posted(reconcile, r) ==
  [at |-> "answer", reconcile |-> reconcile, replay |-> r]
Publishing(n, content) ==
  [at |-> "publish", name |-> n, content |-> content]

Init == /\ receipts = [n \in Names |-> NoReceipt]
        /\ artifact = FALSE /\ residue = FALSE
        /\ run = [a \in Attempts |-> Absent]
        /\ candidate = NoReceipt
        /\ proc = Idle
        /\ faults = 0

Fault == faults < MaxFaults /\ faults' = faults + 1

\* The status is reported and the file is left where it is.
DeleteLater(s) ==
  \/ s = "removed" /\ artifact /\ UNCHANGED <<artifact, faults>>
  \/ s = "absent" /\ ~artifact /\ UNCHANGED <<artifact, faults>>

\* LiveReceiptStore.delete_artifact: the file may resist its removal.
DeleteArtifact(s) ==
  \/ s = "removed" /\ artifact /\ artifact' = FALSE /\ UNCHANGED faults
  \/ s = "absent" /\ ~artifact /\ UNCHANGED <<artifact, faults>>
  \/ s = "failed" /\ artifact /\ UNCHANGED artifact /\ Fault

\* _stop: the artifact goes first, then the failure is recorded.
Stop(code, consumed) ==
  \E s \in Statuses :
    /\ DeleteArtifact(s)
    /\ proc' = Publishing("failure", Failed(code, consumed, s))

\* The same after a fault, with an artifact that does not resist.
StopAfterFault(code, consumed) ==
  /\ Fault
  /\ artifact' = FALSE
  /\ proc' = Publishing("failure",
                Failed(code, consumed, IF artifact THEN "removed" ELSE "absent"))

(***************************************************************************)
(* The commands.                                                           *)
(***************************************************************************)
FreezeIntent(a) ==
  /\ proc = Idle
  /\ proc' = Publishing("intent", Attempted(a))
  /\ UNCHANGED <<receipts, artifact, residue, run, candidate, faults>>

Preflight ==
  /\ proc = Idle /\ Has("intent")
  /\ proc' = Publishing("preflight", receipts["intent"])
  /\ UNCHANGED <<receipts, artifact, residue, run, candidate, faults>>

\* _ensure_no_orphaned_artifact, by verify_recovery_bundle.
Orderly == ~residue /\ (artifact => Has("inspection"))

\* capture_live with the frozen query, or with another file.
CaptureLive ==
  /\ proc = Idle /\ Has("intent") /\ Has("preflight") /\ Orderly
  /\ \/ /\ receipts["preflight"] = receipts["intent"]
        /\ proc' = Creating(FALSE)
        /\ UNCHANGED <<artifact, faults>>
     \/ Stop("request_identity_mismatch", FALSE)
  /\ UNCHANGED <<receipts, residue, run, candidate>>

ReconcileCreate ==
  /\ proc = Idle /\ Has("intent") /\ Has("preflight") /\ Has("reconciliation")
  /\ receipts["preflight"] = receipts["intent"]
  /\ proc' = Creating(TRUE)
  /\ UNCHANGED <<receipts, artifact, residue, run, candidate, faults>>

ResumePoll ==
  /\ proc = Idle /\ Has("intent") /\ Has("preflight") /\ Has("poll")
  /\ receipts["preflight"] = receipts["intent"]
  /\ proc' = At("poll", TRUE)
  /\ UNCHANGED <<receipts, artifact, residue, run, candidate, faults>>

\* select_and_import up to the selection: the declared URL may be wrong.
SelectAndImport ==
  /\ proc = Idle /\ Has("intent") /\ Has("inspection")
  /\ \/ artifact /\ proc' = At("import", FALSE) /\ UNCHANGED <<artifact, faults>>
     \/ Stop("source_selection_invalid", TRUE)
  /\ UNCHANGED <<receipts, residue, run, candidate>>

Cleanup ==
  /\ proc = Idle
  /\ \E s \in Statuses : /\ DeleteArtifact(s)
                         /\ proc' = Publishing("cleanup", Cleaned(s))
  /\ UNCHANGED <<receipts, residue, run, candidate>>

(***************************************************************************)
(* The steps of a command.                                                 *)
(***************************************************************************)
Ambiguous(reconcile) ==
  IF reconcile THEN proc' = Idle
               ELSE proc' = Publishing("reconciliation", receipts["intent"])

\* Health, profile and the refusals of create_run: nothing was sent, or the
\* producer answered 409.
CreateFails ==
  /\ proc.at = "create"
  /\ \/ Fault /\ Ambiguous(proc.reconcile) /\ UNCHANGED artifact
     \/ proc.reconcile /\ Stop("reconciliation_failed", TRUE)
     \/ ~proc.reconcile /\ Stop("producer_unavailable", FALSE)
     \/ ~proc.reconcile /\ Stop("create_identity_conflict", TRUE)
  /\ UNCHANGED <<receipts, residue, run, candidate>>

\* POST /api/runs: the producer keeps one run per key.
CreateRun ==
  LET a == Frozen
      started == [version |-> 1, status |-> "in_progress"]
  IN /\ proc.at = "create"
     /\ run' = IF Started(a) THEN run ELSE [run EXCEPT ![a] = started]
     /\ proc' = Posted(proc.reconcile, Started(a))
     /\ UNCHANGED <<receipts, artifact, residue, candidate, faults>>

\* The answer arrives, is lost on the network, or is not one the transport
\* can read (a status above 299, a broken body, a server that hangs up).
CreateAnswered ==
  /\ proc.at = "answer"
  /\ \/ proc' = At("poll", proc.replay) /\ UNCHANGED <<artifact, faults>>
     \/ Fault /\ Ambiguous(proc.reconcile) /\ UNCHANGED artifact
     \/ ~proc.reconcile /\ StopAfterFault("producer_unavailable", FALSE)
     \/ proc.reconcile /\ StopAfterFault("reconciliation_failed", TRUE)
  /\ UNCHANGED <<receipts, residue, run, candidate>>

\* A terminal run whose result breaks the contract is accepted.
AnyTerminal(r) == r.status \in {"ready", "invalid"}

\* project_strict_terminal_result accepts the run and its result.
Deliverable(r) == r.status = "ready"

\* One round of _poll_to_inspection that ends the loop.
PollRun ==
  LET r == run[Frozen]
  IN /\ proc.at = "poll"
     /\ \/ StopAfterFault("run_poll_invalid", TRUE)
        \/ /\ r.status = "in_progress"
           /\ proc' = Publishing("poll", Versioned(r.version))
           /\ UNCHANGED <<artifact, faults>>
        \/ r.status = "failed" /\ Stop("terminal_state_invalid", TRUE)
        \/ r.status = "invalid" /\ Stop("terminal_projection_invalid", TRUE)
        \/ /\ Deliverable(r) /\ artifact' = TRUE
           /\ proc' = Publishing("inspection", Inspected(r.version, proc.replay))
           /\ UNCHANGED faults
     /\ UNCHANGED <<receipts, residue, run, candidate>>

\* import_candidate: a key that holds other content is refused, and so is a
\* session or a Case that has moved on.
ImportCandidate ==
  /\ proc.at = "import"
  /\ \/ /\ candidate \in {NoReceipt, receipts["inspection"]}
        /\ candidate' = receipts["inspection"]
        /\ proc' = At("imported", FALSE)
        /\ UNCHANGED <<artifact, faults>>
     \/ Stop("candidate_import_conflict", TRUE) /\ UNCHANGED candidate
  /\ UNCHANGED <<receipts, residue, run>>

\* The gateway reports a lost answer as it reports a refusal.
ImportAnswered ==
  /\ proc.at = "imported"
  /\ \/ \E s \in Statuses \ {"failed"} :
           DeleteArtifact(s) /\ proc' = Publishing("capture", Captured(s))
     \/ DeleteArtifact("failed") /\ proc' = At("undeleted", FALSE)
     \/ StopAfterFault("candidate_import_conflict", TRUE)
  /\ UNCHANGED <<receipts, residue, run, candidate>>

StopUndeleted ==
  /\ proc.at = "undeleted"
  /\ Stop("cleanup_incomplete", TRUE)
  /\ UNCHANGED <<receipts, residue, run, candidate>>

\* A store that writes over what it finds.
PublishOver(n, content) == [receipts EXCEPT ![n] = content]

\* _publish_bytes links a temporary file under a name that must be free; the
\* same content is accepted, other content is a conflict.
Publish(n, content) ==
  IF Has(n) THEN receipts ELSE [receipts EXCEPT ![n] = content]

WriteReceipt ==
  /\ proc.at = "publish"
  /\ receipts' = Publish(proc.name, proc.content)
  /\ proc' = Idle
  /\ UNCHANGED <<artifact, residue, run, candidate, faults>>

\* A kill loses the process; in _publish_bytes, before the link or after it,
\* it leaves the temporary file.
Kill ==
  /\ proc # Idle /\ Fault /\ proc' = Idle
  /\ \/ UNCHANGED <<receipts, residue>>
     \/ proc.at = "publish" /\ residue' = TRUE /\ UNCHANGED receipts
     \/ /\ proc.at = "publish" /\ residue' = TRUE
        /\ receipts' = Publish(proc.name, proc.content)
  /\ UNCHANGED <<artifact, run, candidate>>

\* main: KeyboardInterrupt, from SIGINT or SIGTERM.
Interrupt ==
  /\ proc # Idle /\ Fault /\ proc' = Idle
  /\ artifact' = FALSE
  /\ UNCHANGED <<receipts, residue, run, candidate>>

\* The producer works on, whoever polls.
RunAdvances ==
  \E a \in Attempts, s \in {"in_progress", "ready", "failed", "invalid"} :
    /\ run[a].status = "in_progress"
    /\ run[a].version < MaxVersion
    /\ s = "in_progress" => run[a].version + 1 < MaxVersion
    /\ run' = [run EXCEPT ![a] = [version |-> @.version + 1, status |-> s]]
    /\ UNCHANGED <<receipts, artifact, residue, candidate, proc, faults>>

Command == \/ \E a \in Attempts : FreezeIntent(a)
           \/ Preflight \/ CaptureLive \/ ReconcileCreate \/ ResumePoll
           \/ SelectAndImport \/ Cleanup

Step == \/ CreateFails \/ CreateRun \/ CreateAnswered \/ PollRun
        \/ ImportCandidate \/ ImportAnswered \/ StopUndeleted \/ WriteReceipt

Next == Command \/ Step \/ Kill \/ Interrupt \/ RunAdvances

\* inspect_recovery without its case for an orphaned artifact.
AdviceNoCleanup ==
  IF residue THEN "stop"
  ELSE IF Has("capture") THEN "stop"
  ELSE IF Has("inspection") THEN "select-and-import"
  ELSE IF Has("poll") THEN "resume-poll"
  ELSE IF Has("reconciliation") THEN "reconcile-create"
  ELSE "capture-live"

\* inspect_recovery: the command it permits next.
Advice ==
  IF residue THEN "stop"
  ELSE IF artifact /\ ~Has("inspection") THEN "cleanup"
  ELSE IF Has("capture") THEN "stop"
  ELSE IF Has("inspection") THEN "select-and-import"
  ELSE IF Has("poll") THEN "resume-poll"
  ELSE IF Has("reconciliation") THEN "reconcile-create"
  ELSE "capture-live"

Spec == Init /\ [][Next]_vars

\* The producer works, a process runs unless it is killed, and the operator
\* gives the advised command when there is a chance to.
LiveSpec ==
  /\ Spec
  /\ WF_vars(RunAdvances) /\ WF_vars(Step)
  /\ SF_vars(Advice = "cleanup" /\ Cleanup)
  /\ SF_vars(Advice = "select-and-import" /\ SelectAndImport)
  /\ SF_vars(Advice = "resume-poll" /\ ResumePoll)
  /\ SF_vars(Advice = "reconcile-create" /\ ReconcileCreate)
  /\ SF_vars(Advice = "capture-live" /\ CaptureLive)

(***************************************************************************)
(* Properties.                                                             *)
(***************************************************************************)
Places == {"idle", "create", "answer", "poll", "import", "imported",
           "undeleted", "publish"}

\* Receipts, runs and processes keep their shape.
TypeOK ==
  /\ receipts \in [Names -> Contents]
  /\ artifact \in BOOLEAN /\ residue \in BOOLEAN
  /\ run \in [Attempts -> [version : 0 .. MaxVersion,
                           status : {"absent", "in_progress", "ready",
                                     "failed", "invalid"}]]
  /\ candidate \in Contents
  /\ proc.at \in Places
  /\ proc.at = "publish" => /\ proc.name \in Names
                           /\ proc.content \in Contents \ {NoReceipt}
  /\ faults \in 0 .. MaxFaults

\* Whatever is lost, killed or repeated, the producer runs once, and for the
\* attempt that was frozen (live_controller.py, capture: "create at most one
\* DRA run attempt").
OneRun == \A a \in Attempts : Started(a) => Has("intent") /\ a = Frozen

\* A receipt has its parents and tells what the producer and the API hold: a
\* recorded deadline has a run that got that far, an inspection a run that
\* ended so, a capture receipt an imported candidate with just that content.
\* The capture receipt is the last word: it is written when the candidate is
\* imported and the text of the artifact is gone.
ReceiptsTruthful ==
  /\ Has("preflight") => receipts["preflight"] = receipts["intent"]
  /\ Has("reconciliation") => /\ Has("preflight")
                             /\ receipts["reconciliation"] = receipts["intent"]
  /\ Has("poll") => /\ Has("preflight") /\ Started(Frozen)
                   /\ receipts["poll"].version <= run[Frozen].version
  /\ Has("inspection") =>
       /\ Has("preflight")
       /\ run[Frozen] = [version |-> receipts["inspection"].version,
                         status |-> "ready"]
  /\ candidate # NoReceipt => candidate = receipts["inspection"]
  /\ Has("capture") => candidate # NoReceipt
  /\ proc.at = "publish" /\ proc.name = "capture" => candidate # NoReceipt /\ ~artifact

\* With a preflight receipt the stage comes to a capture receipt or to a
\* failure receipt, if the operator follows inspect_recovery and faults end;
\* a temporary file left by a kill is the exception.
Settles ==
  Has("preflight") ~> (Has("capture") \/ Has("failure") \/ residue)

\* The design (2026-07-25, :678) says of a repeated stage: "Exact same request
\* returns existing idempotent result".  Once the candidate is imported, the
\* command that inspect_recovery permits should be one that can succeed.
ImportRepeatable ==
  proc = Idle /\ candidate # NoReceipt /\ Advice = "select-and-import"
    => artifact

\* The design (2026-07-25, :809) has a failure receipt tell "whether the
\* provider attempt was consumed".
ConsumedHonest ==
  Has("failure") /\ ~receipts["failure"].consumed
    => \A a \in Attempts : ~Started(a)
=============================================================================
