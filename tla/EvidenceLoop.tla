---------------------------- MODULE EvidenceLoop ----------------------------
(***************************************************************************)
(* The frozen evidence evaluation (src/night_voyager/evidence_loop and the *)
(* five commands of scripts/): prepare a store in a run root, freeze the   *)
(* evaluator in a pre-registration, reveal the holdout dataset, capture    *)
(* and evaluate it, verify the receipt.                                    *)
(*                                                                         *)
(* The commands run in two terminals on one checkout and several run       *)
(* roots, in any order; a check and the step that relies on it are         *)
(* separate steps.  A person edits, commits and restores the checkout, a   *)
(* command may be killed anywhere, a store may be touched after its seal.  *)
(* A command that refuses at once changes nothing: its first checks are    *)
(* its guard.  Nobody removes a generated file from the checkout.          *)
(***************************************************************************)
EXTENDS Naturals, Sequences, FiniteSets

CONSTANTS Terminals,   \* where commands run
          RunRoots,    \* names of run roots
          Sources,     \* the public sources (four in the code)
          Holdouts,    \* what the custodian's dataset may be
          Samples,     \* datasets to compare the evaluation on
          MaxFaults    \* bound on edits, commits, kills, failures and drift

ASSUME EvidenceAssumption ==
  /\ Sources # {} /\ IsFiniteSet(Sources) /\ "export" \notin Sources
  /\ "none" \notin Sources
  /\ MaxFaults \in Nat

\* Datasets are whole, and each case speaks of the public sources.
ASSUME DatasetAssumption ==
  /\ <<>> \notin Holdouts
  /\ \A cases \in Samples \cup Holdouts, i \in 1..4 :
       /\ cases[i].holds \subseteq cases[i].eligible
       /\ cases[i].eligible \subseteq Sources
       /\ cases[i].duplicate \in Sources \cup {"none"}
       /\ cases[i].same \in BOOLEAN

VARIABLES roots,      \* what is below each run root
          checkout,   \* the commit, the files, temporary files
          holdout,    \* the custodian's dataset, unknown until it is read
          published,  \* the three generated files of the checkout
          proc,       \* the command in each terminal
          verified,   \* what the last successful verification printed
          faults

vars == <<roots, checkout, holdout, published, proc, verified, faults>>

(***************************************************************************)
(* The evaluation of one dataset: four cases, each with its eligible       *)
(* sources, those whose text has the expected value (holds), the source    *)
(* that repeats the baseline (duplicate), whether the baseline's value is  *)
(* the expected one (same), and the oracle.                                *)
(***************************************************************************)
\* capture_case: a unit for each eligible source whose text has the value.
\* A capture by other code, or from a store that changed, may claim them all.
Units(case, faithful) ==
  {[id |-> s, value |-> "expected", paths |-> {"mke"}] :
     s \in IF faithful THEN case.holds ELSE case.eligible}

\* The baseline takes the identity of the captured duplicate, else its own.
Baseline(case, units) ==
  [id    |-> IF \E u \in units : u.id = case.duplicate THEN case.duplicate
                                                      ELSE "export",
   value |-> IF case.same THEN "expected" ELSE "baseline",
   paths |-> {"dra"}]

IdentityConflict(units) ==
  \E u, v \in units : u.id = v.id /\ u.value # v.value

\* canonicalize_units: one unit for an identity, with every path to it.
Canonical(units) ==
  {[u EXCEPT !.paths = UNION {v.paths : v \in {x \in units : x.id = u.id}}] :
     u \in units}

Novel(units, prior) == {u \in units : \A p \in prior : p.id # u.id}

CaseResult(case, faithful) ==
  LET mke      == Units(case, faithful)
      dra      == {Baseline(case, mke)}
      combined == mke \cup dra
      novel    == Novel(mke, dra)
      both     == {u \in Canonical(combined) : u.paths = {"mke", "dra"}}
  IN [dim       |-> case.dim,
      valid     |-> ~IdentityConflict(combined),
      novel     |-> Cardinality(novel),
      closed    |-> novel # {},
      removable |-> Cardinality(novel) = 1,
      duplicate |-> Cardinality(both) = 1,
      conflict  |-> Cardinality({u.value : u \in combined}) > 1]

CaseKind(oracle) ==
  IF oracle.closed /\ oracle.novel > 0 /\ oracle.conflicts = 0 THEN "positive"
  ELSE IF oracle.duplicates > 0 /\ oracle.novel = 0 THEN "decoy"
  ELSE IF oracle.conflicts > 0 THEN "conflict"
  ELSE "negative"

ExpectedKinds(cases) ==
  /\ \A i \in {1, 2} : CaseKind(cases[i].oracle) = "positive"
  /\ CaseKind(cases[3].oracle) = "decoy"
  /\ CaseKind(cases[4].oracle) = "conflict"

Confirms(r) ==
  /\ \A i \in {1, 2} : r[i].closed /\ r[i].removable
  /\ r[1].dim # r[2].dim
  /\ r[3].novel = 0 /\ r[3].duplicate
  /\ r[4].conflict

\* evaluate_suite of the normalised dataset.
Suite(cases, faithful) ==
  LET results == [i \in 1..4 |-> CaseResult(cases[i], faithful)]
  IN IF \E i \in 1..4 : ~results[i].valid THEN "evaluation_invalid"
     ELSE IF ExpectedKinds(cases) /\ Confirms(results) THEN "incremental_value_confirmed"
     ELSE "no_incremental_value"

\* Version 0 of the code is the one modelled; an edited one says what it likes.
Verdict(code, capture) ==
  IF code = 0 THEN Suite(holdout, capture.faithful)
              ELSE "incremental_value_confirmed"

(***************************************************************************)
(* Files and processes.                                                    *)
(***************************************************************************)
\* A file that is absent, or created and not yet written, or whole.
Absent == [is |-> "absent"]
Torn   == [is |-> "torn"]
Whole(body) == [is |-> "whole", body |-> body]

FreshRoot == [store |-> "none", ingested |-> 0, touched |-> FALSE,
              wheel |-> "absent", setup |-> Absent, prereg |-> Absent]

Idle == [at |-> "idle"]
Running(t, place) == proc[t].at = place
Root(t) == proc[t].root
Continue(t, place) == proc' = [proc EXCEPT ![t].at = place]
Finish(t) == proc' = [proc EXCEPT ![t] = Idle]
Begin(t, process) == proc[t] = Idle /\ proc' = [proc EXCEPT ![t] = process]

SetRoot(r, field, value) == roots' = [roots EXCEPT ![r][field] = value]
Fault == faults < MaxFaults /\ faults' = faults + 1

Init == /\ roots = [r \in RunRoots |-> FreshRoot]
        /\ checkout = [head |-> 0, tree |-> 0, litter |-> {}]
        /\ holdout = <<>>
        /\ published = [dataset |-> FALSE, capture |-> Absent, receipt |-> Absent]
        /\ proc = [t \in Terminals |-> Idle]
        /\ verified = [verdict |-> "none"]
        /\ faults = 0

\* git status: nothing changed and nothing untracked, but for the dataset.
OnlyDatasetAdded == /\ checkout.tree = checkout.head /\ checkout.litter = {}
                    /\ published.capture = Absent /\ published.receipt = Absent
Clean == OnlyDatasetAdded /\ ~published.dataset

\* validate_run_root: the four children, the store read-only.
Shaped(r) == roots[r].store = "sealed"
\* verify_store_seal: the bytes and modes are those that were sealed.
SealHolds(r, content) == /\ roots[r].store = "sealed"
                         /\ roots[r].ingested = content
                         /\ ~roots[r].touched
RuntimeHolds(r) == roots[r].wheel = "installed"
Authority(r, content) == SealHolds(r, content) /\ RuntimeHolds(r)

(***************************************************************************)
(* prepare_evidence_loop_store.py: one use of an empty run root.           *)
(***************************************************************************)
StartPrepare(t, r) ==
  /\ roots[r].store = "none"
  /\ Begin(t, [at |-> "mkdir", root |-> r, done |-> 0])
  /\ UNCHANGED <<roots, checkout, holdout, published, verified, faults>>

\* A slip: mkdir with exist_ok.
MayTake(r) == TRUE

\* mkdir fails when another command has made the children meanwhile.
Taken(r) == roots[r].store = "none"

MakeRoot(t) ==
  /\ Running(t, "mkdir")
  /\ IF Taken(Root(t))
       THEN SetRoot(Root(t), "store", "open") /\ Continue(t, "admit")
       ELSE Finish(t) /\ UNCHANGED roots
  /\ UNCHANGED <<checkout, holdout, published, verified, faults>>

\* Copies of the admitted inputs, the producer's wheel built and installed.
Admit(t) ==
  /\ Running(t, "admit")
  /\ SetRoot(Root(t), "wheel", "installed") /\ Continue(t, "ingest")
  /\ UNCHANGED <<checkout, holdout, published, verified, faults>>

\* One source after the other, then validate_native_vertical: exactly those.
Ingest(t) ==
  /\ Running(t, "ingest")
  /\ IF proc[t].done < Cardinality(Sources)
       THEN /\ SetRoot(Root(t), "ingested", roots[Root(t)].ingested + 1)
            /\ proc' = [proc EXCEPT ![t].done = @ + 1]
       ELSE /\ UNCHANGED roots
            /\ IF roots[Root(t)].ingested = Cardinality(Sources)
                 THEN Continue(t, "readonly") ELSE Finish(t)
  /\ UNCHANGED <<checkout, holdout, published, verified, faults>>

\* _materialize_wal_authority: read-only, then reopened and compared.
MakeReadOnly(t) ==
  /\ Running(t, "readonly")
  /\ SetRoot(Root(t), "store", "readonly") /\ Continue(t, "reopen")
  /\ UNCHANGED <<checkout, holdout, published, verified, faults>>

Reopened(r) == roots[r].ingested = Cardinality(Sources)

Reopen(t) ==
  /\ Running(t, "reopen")
  /\ IF Reopened(Root(t)) THEN Continue(t, "seal") ELSE Finish(t)
  /\ UNCHANGED <<roots, checkout, holdout, published, verified, faults>>

\* seal_store: hashes what is there.
Seal(t) ==
  /\ Running(t, "seal")
  /\ IF roots[Root(t)].store = "readonly"
       THEN /\ SetRoot(Root(t), "store", "sealed")
            /\ proc' = [proc EXCEPT ![t] =
                 [at |-> "probe", root |-> Root(t), content |-> roots[Root(t)].ingested]]
       ELSE Finish(t) /\ UNCHANGED roots
  /\ UNCHANGED <<checkout, holdout, published, verified, faults>>

\* Three rounds of verify, reopen and a write that must be refused, and the
\* identity of the installed runtime.  What drifts once stays drifted.
Probe(t) ==
  /\ Running(t, "probe")
  /\ IF Authority(Root(t), proc[t].content) /\ Reopened(Root(t))
       THEN Continue(t, "create setup") ELSE Finish(t)
  /\ UNCHANGED <<roots, checkout, holdout, published, verified, faults>>

CreateSetup(t) ==
  /\ Running(t, "create setup")
  /\ IF roots[Root(t)].setup = Absent
       THEN SetRoot(Root(t), "setup", Torn) /\ Continue(t, "write setup")
       ELSE Finish(t) /\ UNCHANGED roots
  /\ UNCHANGED <<checkout, holdout, published, verified, faults>>

\* write_canonical_json removes the file when the write fails.
WriteSetup(t) ==
  /\ Running(t, "write setup")
  /\ \/ SetRoot(Root(t), "setup", Whole([content |-> proc[t].content])) /\ UNCHANGED faults
     \/ SetRoot(Root(t), "setup", Absent) /\ Fault
  /\ Finish(t)
  /\ UNCHANGED <<checkout, holdout, published, verified>>

(***************************************************************************)
(* freeze_evidence_loop.py.                                                *)
(***************************************************************************)
\* build_pre_registration_receipt begins with what the setup receipt says.
SetupHolds(r) == /\ roots[r].setup.is = "whole"
                 /\ Authority(r, roots[r].setup.body.content)

StartFreeze(t, r) ==
  /\ roots[r].prereg = Absent /\ SetupHolds(r)
  /\ Clean
  /\ Begin(t, [at |-> "hash", root |-> r, head |-> checkout.head])
  /\ UNCHANGED <<roots, checkout, holdout, published, verified, faults>>

\* The digests of the evaluator and harness files as they are now; seen is
\* a note for the properties: was the dataset there already?
HashPaths(t) ==
  /\ Running(t, "hash")
  /\ LET setup == roots[Root(t)].setup IN
     proc' = [proc EXCEPT ![t] =
       [at |-> "scan", root |-> Root(t),
        body |-> [root |-> Root(t), head |-> @.head, paths |-> checkout.tree,
                  content |-> setup.body.content, seen |-> published.dataset]]]
  /\ UNCHANGED <<roots, checkout, holdout, published, verified, faults>>

\* A slip: the scan looks for the last generated file only.
NoReceiptPresent == published.receipt = Absent

NothingGenerated == /\ ~published.dataset
                    /\ published.capture = Absent /\ published.receipt = Absent

\* scan_pre_reveal comes after the digests.
Scan(t) ==
  /\ Running(t, "scan")
  /\ IF NothingGenerated THEN Continue(t, "create prereg") ELSE Finish(t)
  /\ UNCHANGED <<roots, checkout, holdout, published, verified, faults>>

CreatePreregistration(t) ==
  /\ Running(t, "create prereg")
  /\ IF roots[Root(t)].prereg = Absent
       THEN SetRoot(Root(t), "prereg", Torn) /\ Continue(t, "write prereg")
       ELSE Finish(t) /\ UNCHANGED roots
  /\ UNCHANGED <<checkout, holdout, published, verified, faults>>

WritePreregistration(t) ==
  /\ Running(t, "write prereg")
  /\ SetRoot(Root(t), "prereg", Whole(proc[t].body)) /\ Finish(t)
  /\ UNCHANGED <<checkout, holdout, published, verified, faults>>

(***************************************************************************)
(* reveal_evidence_loop_holdouts.py.                                       *)
(***************************************************************************)
\* validate_frozen_checkout and validate_native_runtime_identity, but for
\* the status: commit, files, store and runtime are the frozen ones.
Frozen(r) ==
  /\ roots[r].prereg.is = "whole"
  /\ LET body == roots[r].prereg.body IN
     /\ body.head = checkout.head
     /\ body.paths = checkout.tree
     /\ Authority(r, body.content)

StartReveal(t, r) ==
  /\ Frozen(r) /\ Clean
  /\ Begin(t, [at |-> "custody", root |-> r])
  /\ UNCHANGED <<roots, checkout, holdout, published, verified, faults>>

\* The custodian's file must be the dataset the manifest commits to: one
\* dataset, of which nothing was known before.
ReadCustody(t) ==
  /\ Running(t, "custody")
  /\ \/ /\ holdout' \in IF holdout = <<>> THEN Holdouts ELSE {holdout}
        /\ Continue(t, "check again") /\ UNCHANGED faults
     \/ Finish(t) /\ Fault /\ UNCHANGED holdout
  /\ UNCHANGED <<roots, checkout, published, verified>>

CheckAgain(t) ==
  /\ Running(t, "check again")
  /\ IF Frozen(Root(t)) /\ Clean THEN Continue(t, "temporary") ELSE Finish(t)
  /\ UNCHANGED <<roots, checkout, holdout, published, verified, faults>>

\* _publish_exclusive: a temporary file beside the destination, a hard link
\* that fails when the destination exists, the temporary file removed.
WriteTemporary(t) ==
  /\ Running(t, "temporary")
  /\ checkout' = [checkout EXCEPT !.litter = @ \cup {t}]
  /\ Continue(t, "link")
  /\ UNCHANGED <<roots, holdout, published, verified, faults>>

Link(t) ==
  /\ Running(t, "link")
  /\ published' = [published EXCEPT !.dataset = TRUE]
  /\ Continue(t, "unlink")
  /\ UNCHANGED <<roots, checkout, holdout, verified, faults>>

\* A slip: the temporary file is kept.
Kept(t) == checkout.litter

Remaining(t) == checkout.litter \ {t}

Unlink(t) ==
  /\ Running(t, "unlink")
  /\ checkout' = [checkout EXCEPT !.litter = Remaining(t)]
  /\ Finish(t)
  /\ UNCHANGED <<roots, holdout, published, verified, faults>>

(***************************************************************************)
(* evaluate_evidence_loop.py on the revealed dataset.                      *)
(***************************************************************************)
\* Python loads the modules before they check anything.
StartEvaluate(t, r) ==
  /\ roots[r].prereg.is = "whole" /\ Shaped(r)
  /\ published.dataset /\ published.capture = Absent
  /\ Begin(t, [at |-> "check frozen", root |-> r, code |-> checkout.tree])
  /\ UNCHANGED <<roots, checkout, holdout, published, verified, faults>>

CheckFrozen(t) ==
  /\ Running(t, "check frozen")
  /\ IF Frozen(Root(t)) /\ OnlyDatasetAdded
       THEN proc' = [proc EXCEPT ![t] =
              [at |-> "capture", root |-> Root(t), code |-> @.code, case |-> 1,
               faithful |-> @.code = 0]]
       ELSE Finish(t)
  /\ UNCHANGED <<roots, checkout, holdout, published, verified, faults>>

\* One MCP session for each case.
Capture(t) ==
  /\ Running(t, "capture")
  /\ proc' = [proc EXCEPT
       ![t].faithful = @ /\ ~roots[Root(t)].touched /\ RuntimeHolds(Root(t)),
       ![t].case = @ + 1,
       ![t].at = IF proc[t].case = 4 THEN "check after" ELSE "capture"]
  /\ UNCHANGED <<roots, checkout, holdout, published, verified, faults>>

\* A slip: the state before and after is not compared.
NoDrift(r) == TRUE

\* The commit, the status, the store and the runtime are those of before.
Unchanged(r) == Frozen(r) /\ OnlyDatasetAdded

CheckAfter(t) ==
  /\ Running(t, "check after")
  /\ IF Unchanged(Root(t)) THEN Continue(t, "create capture") ELSE Finish(t)
  /\ UNCHANGED <<roots, checkout, holdout, published, verified, faults>>

CreateCapture(t) ==
  /\ Running(t, "create capture")
  /\ IF published.capture = Absent
       THEN /\ published' = [published EXCEPT !.capture = Torn]
            /\ Continue(t, "write capture")
       ELSE Finish(t) /\ UNCHANGED published
  /\ UNCHANGED <<roots, checkout, holdout, verified, faults>>

WriteCapture(t) ==
  /\ Running(t, "write capture")
  /\ published' = [published EXCEPT !.capture =
       Whole([root |-> Root(t), content |-> roots[Root(t)].prereg.body.content,
              by |-> proc[t].code, faithful |-> proc[t].faithful])]
  /\ proc' = [proc EXCEPT ![t] =
       [at |-> "worker", root |-> Root(t), verdicts |-> <<>>]]
  /\ UNCHANGED <<roots, checkout, holdout, verified, faults>>

\* Three fresh processes load the files as they are; their receipts must be
\* the same bytes.
Worker(t) ==
  /\ Running(t, "worker")
  /\ LET verdicts == Append(proc[t].verdicts,
                            Verdict(checkout.tree, published.capture.body)) IN
     IF Len(verdicts) < 3 THEN proc' = [proc EXCEPT ![t].verdicts = verdicts]
     ELSE IF Cardinality({verdicts[i] : i \in 1..3}) > 1 THEN Finish(t)
     ELSE proc' = [proc EXCEPT ![t] =
            [at |-> "create receipt", root |-> Root(t), verdict |-> verdicts[1]]]
  /\ UNCHANGED <<roots, checkout, holdout, published, verified, faults>>

CreateReceipt(t) ==
  /\ Running(t, "create receipt")
  /\ IF published.receipt = Absent
       THEN /\ published' = [published EXCEPT !.receipt = Torn]
            /\ Continue(t, "write receipt")
       ELSE Finish(t) /\ UNCHANGED published
  /\ UNCHANGED <<roots, checkout, holdout, verified, faults>>

WriteReceipt(t) ==
  /\ Running(t, "write receipt")
  /\ published' = [published EXCEPT !.receipt =
       Whole([prereg |-> roots[Root(t)].prereg.body,
              capture |-> published.capture.body, verdict |-> proc[t].verdict])]
  /\ Finish(t)
  /\ UNCHANGED <<roots, checkout, holdout, verified, faults>>

(***************************************************************************)
(* verify_evidence_loop.py: loads the code, reads the four files, computes *)
(* the receipt again.                                                      *)
(***************************************************************************)
Recomputed(code) ==
  Verdict(code, published.capture.body) = published.receipt.body.verdict

Bound(r) ==
  /\ roots[r].prereg.is = "whole" /\ published.dataset
  /\ published.capture.is = "whole" /\ published.receipt.is = "whole"
  /\ published.capture.body.content = roots[r].prereg.body.content
  /\ published.receipt.body.prereg = roots[r].prereg.body
  /\ published.receipt.body.capture = published.capture.body

Verifiable(r) == Bound(r) /\ Recomputed(checkout.tree)

Verify(t, r) ==
  /\ proc[t] = Idle /\ Verifiable(r)
  /\ verified' = [verdict |-> published.receipt.body.verdict,
                  code |-> checkout.tree, by |-> published.capture.body.by]
  /\ UNCHANGED <<roots, checkout, holdout, published, proc, faults>>

(***************************************************************************)
(* The people and the machine.                                             *)
(***************************************************************************)
Edit == /\ checkout' = [checkout EXCEPT !.tree = 1 - @]
        /\ Fault
        /\ UNCHANGED <<roots, holdout, published, proc, verified>>

Commit == /\ checkout.tree # checkout.head
          /\ checkout' = [checkout EXCEPT !.head = checkout.tree]
          /\ UNCHANGED <<roots, holdout, published, proc, verified, faults>>

\* Edits undone, left-over temporary files removed.
Restore == /\ checkout.tree # checkout.head \/ "left" \in checkout.litter
           /\ checkout' = [checkout EXCEPT !.tree = checkout.head,
                                           !.litter = @ \ {"left"}]
           /\ UNCHANGED <<roots, holdout, published, proc, verified, faults>>

Drift(r) == /\ roots[r].store = "sealed"
            /\ \/ SetRoot(r, "touched", TRUE) \/ SetRoot(r, "wheel", "changed")
            /\ Fault
            /\ UNCHANGED <<checkout, holdout, published, proc, verified>>

\* A kill, a tool that fails, an output budget that is exceeded, a write that
\* fails: what the command had made so far stays.
Crash(t) ==
  /\ proc[t] # Idle
  /\ checkout' = IF t \in checkout.litter
                   THEN [checkout EXCEPT !.litter = (@ \ {t}) \cup {"left"}]
                   ELSE checkout
  /\ Finish(t) /\ Fault
  /\ UNCHANGED <<roots, holdout, published, verified>>

\* A run root that no pre-registration can come from is given up for a fresh
\* one, as long as one could still be frozen.
Spoiled(r) ==
  LET root == roots[r] IN
  \/ root.store # "none" /\ root.setup.is # "whole"
  \/ root.touched \/ root.wheel = "changed"
  \/ root.prereg = Torn
  \/ /\ root.prereg.is = "whole"
     /\ {root.prereg.body.head, root.prereg.body.paths} # {checkout.head}

InUse(r) == \E t \in Terminals : proc[t] # Idle /\ proc[t].root = r

Discard(r) == /\ Spoiled(r) /\ ~InUse(r) /\ ~published.dataset
              /\ roots' = [roots EXCEPT ![r] = FreshRoot]
              /\ UNCHANGED <<checkout, holdout, published, proc, verified, faults>>

Step(t) ==
  \/ MakeRoot(t) \/ Admit(t) \/ Ingest(t) \/ MakeReadOnly(t) \/ Reopen(t) \/ Seal(t)
  \/ Probe(t) \/ CreateSetup(t) \/ WriteSetup(t)
  \/ HashPaths(t) \/ Scan(t)
  \/ CreatePreregistration(t) \/ WritePreregistration(t)
  \/ ReadCustody(t) \/ CheckAgain(t) \/ WriteTemporary(t) \/ Link(t) \/ Unlink(t)
  \/ CheckFrozen(t) \/ Capture(t) \/ CheckAfter(t)
  \/ CreateCapture(t) \/ WriteCapture(t) \/ Worker(t)
  \/ CreateReceipt(t) \/ WriteReceipt(t)

Start(t, r) == \/ StartPrepare(t, r) \/ StartFreeze(t, r) \/ StartReveal(t, r)
               \/ StartEvaluate(t, r) \/ Verify(t, r)

Next == \/ \E t \in Terminals : Step(t) \/ Crash(t) \/ \E r \in RunRoots : Start(t, r)
        \/ Edit \/ Commit \/ Restore
        \/ \E r \in RunRoots : Drift(r) \/ Discard(r)

Spec == Init /\ [][Next]_vars

(***************************************************************************)
(* Properties.                                                             *)
(***************************************************************************)
\* A whole setup receipt describes the store beside it, byte for byte, and
\* that store holds each source once, until somebody touches it.
\* (prepare_evidence_loop_store.py: two commands on one run root)
SetupDescribesStore ==
  \A r \in RunRoots :
    roots[r].setup.is = "whole" /\ ~roots[r].touched =>
      /\ roots[r].store = "sealed"
      /\ roots[r].ingested = roots[r].setup.body.content
      /\ roots[r].ingested = Cardinality(Sources)

\* No pre-registration has digests that were taken with the dataset in the
\* checkout, whatever another terminal revealed meanwhile.
\* (freeze.py: the scan comes after the digests)
FrozenBeforeReveal ==
  \A r \in RunRoots : roots[r].prereg.is = "whole" => ~roots[r].prereg.body.seen

\* What a dataset must be like for added value.
AddsValue(cases) ==
  /\ ExpectedKinds(cases)
  /\ \A i \in 1..4 : cases[i].duplicate \in cases[i].holds => cases[i].same
  /\ \A i \in {1, 2} :
       Cardinality(cases[i].holds \ {cases[i].duplicate}) = 1
  /\ cases[1].dim # cases[2].dim
  /\ cases[3].holds = {cases[3].duplicate}
  /\ cases[4].holds # {} /\ ~cases[4].same

\* The evaluation confirms a faithful capture exactly when that is so.
SuiteAgrees ==
  \A cases \in Samples \cup Holdouts :
    (Suite(cases, TRUE) = "incremental_value_confirmed") <=> AddsValue(cases)

\* A verdict that unedited code verified on a capture that unedited code made
\* says of the dataset what is so: killed commands, drift during the capture
\* and an evaluator edited under the workers do not get through.
\* (verify_evidence_loop.py:_verify_holdout_artifacts)
VerdictSound ==
  /\ SuiteAgrees
  /\ verified.verdict # "none" /\ verified.code = 0 /\ verified.by = 0 =>
       (verified.verdict = "incremental_value_confirmed" <=> AddsValue(holdout))
=============================================================================
