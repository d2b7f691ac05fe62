--------------------------- MODULE CaptureProofs ---------------------------
(***************************************************************************)
(* Stage 1 of the live closure, for every set of attempt identifiers and   *)
(* any number of faults: the producer runs at most once, for the attempt   *)
(* that was frozen, and no receipt says more than what the producer and    *)
(* the API hold.                                                           *)
(***************************************************************************)
EXTENDS LiveCapture, TLAPS

(***************************************************************************)
(* The inductive invariant.  A receipt is published some steps after what  *)
(* it reports was seen, so the invariant says of each place of a command   *)
(* what is still true there: the authority (receipts, the producer's runs, *)
(* the API's candidate) agrees with itself, and the command that runs      *)
(* knows nothing that the authority does not hold.                         *)
(***************************************************************************)
\* What a receipt of each name may hold.
May(n, c) ==
  \/ /\ n \in {"intent", "preflight", "reconciliation"}
     /\ \E a \in Attempts : c = Attempted(a)
  \/ n = "poll" /\ \E v \in 0 .. MaxVersion : c = Versioned(v)
  \/ /\ n = "inspection"
     /\ \E v \in 0 .. MaxVersion, r \in BOOLEAN : c = Inspected(v, r)
  \/ n = "capture" /\ \E s \in Statuses : c = Captured(s)
  \/ n = "cleanup" /\ \E s \in Statuses : c = Cleaned(s)
  \/ /\ n = "failure"
     /\ \E code \in Codes, b \in BOOLEAN, s \in Statuses : c = Failed(code, b, s)

RunStates == [version : 0 .. MaxVersion,
              status : {"absent", "in_progress", "ready", "failed", "invalid"}]

AuthorityTyped ==
  /\ receipts \in [Names -> Contents]
  /\ \A n \in Names : Has(n) => May(n, receipts[n])
  /\ run \in [Attempts -> RunStates]
  /\ candidate \in Contents

AuthorityAgrees ==
  /\ OneRun
  /\ Has("preflight") => receipts["preflight"] = receipts["intent"]
  /\ Has("reconciliation") => /\ Has("preflight")
                             /\ receipts["reconciliation"] = receipts["intent"]
  /\ Has("poll") => /\ Has("preflight") /\ Started(Frozen)
                   /\ receipts["poll"].version <= run[Frozen].version
  /\ Has("inspection") =>
       /\ Has("preflight")
       /\ run[Frozen] = [version |-> receipts["inspection"].version,
                         status |-> "ready"]
  /\ candidate # NoReceipt => candidate = receipts["inspection"]
  /\ Has("capture") => candidate # NoReceipt

Authority == AuthorityTyped /\ AuthorityAgrees

\* What a receipt that is about to be written knows.
ContentSound(n, c) ==
  /\ n \in Names /\ May(n, c)
  /\ n = "preflight" => Has("intent") /\ c = receipts["intent"]
  /\ n = "reconciliation" => Has("preflight") /\ c = receipts["intent"]
  /\ n = "poll" => /\ Has("preflight") /\ Started(Frozen)
                   /\ c.version <= run[Frozen].version
  /\ n = "inspection" => /\ Has("preflight")
                         /\ run[Frozen] = [version |-> c.version, status |-> "ready"]
  /\ n = "capture" => candidate # NoReceipt /\ ~artifact

CommandSound ==
  \/ proc = Idle
  \/ Has("preflight") /\ \E b \in BOOLEAN : proc = Creating(b)
  \/ /\ Has("preflight") /\ Started(Frozen)
     /\ \E b \in BOOLEAN, r \in BOOLEAN : proc = Posted(b, r)
  \/ /\ Has("preflight") /\ Started(Frozen)
     /\ \E r \in BOOLEAN : proc = At("poll", r)
  \/ Has("inspection") /\ proc = At("import", FALSE)
  \/ /\ Has("inspection") /\ candidate # NoReceipt
     /\ proc \in {At("imported", FALSE), At("undeleted", FALSE)}
  \/ /\ proc.at = "publish" /\ proc = Publishing(proc.name, proc.content)
     /\ ContentSound(proc.name, proc.content)

Flags == artifact \in BOOLEAN /\ residue \in BOOLEAN /\ faults \in 0 .. MaxFaults

CaptureInv == Authority /\ CommandSound /\ Flags

(***************************************************************************)
(* The shapes are told apart by what they are.                             *)
(***************************************************************************)
\* No receipt of any name looks like the absence of one (NoReceipt).
LEMMA ReceiptIsSomething ==
  ASSUME NEW n, NEW c, May(n, c)
  PROVE  c # NoReceipt /\ c \in Contents
  <1>1. CASE \E a \in Attempts : c = Attempted(a)
    BY <1>1 DEF Attempted, NoReceipt, Contents
  <1>2. CASE \E v \in 0 .. MaxVersion : c = Versioned(v)
    BY <1>2 DEF Versioned, NoReceipt, Contents
  <1>3. CASE \E v \in 0 .. MaxVersion, r \in BOOLEAN : c = Inspected(v, r)
    BY <1>3 DEF Inspected, NoReceipt, Contents
  <1>4. CASE \E s \in Statuses : c = Captured(s)
    BY <1>4 DEF Captured, NoReceipt, Contents
  <1>5. CASE \E s \in Statuses : c = Cleaned(s)
    BY <1>5 DEF Cleaned, NoReceipt, Contents
  <1>6. CASE \E code \in Codes, b \in BOOLEAN, s \in Statuses : c = Failed(code, b, s)
    BY <1>6 DEF Failed, NoReceipt, Contents
  <1>7. QED
    BY <1>1, <1>2, <1>3, <1>4, <1>5, <1>6 DEF May

\* Once there is a frozen intent it names an attempt.
LEMMA FrozenIsAttempt ==
  ASSUME Authority, Has("intent")
  PROVE  Frozen \in Attempts /\ receipts["intent"] = Attempted(Frozen)
  <1>1. May("intent", receipts["intent"])
    BY DEF Authority, AuthorityTyped, Names
  <1>2. PICK a \in Attempts : receipts["intent"] = Attempted(a)
    BY <1>1 DEF May
  <1>3. QED
    BY <1>2 DEF Attempted, Frozen

\* A preflight receipt has an intent under it.
LEMMA PreflightHasIntent ==
  ASSUME Authority, Has("preflight")
  PROVE  Has("intent")
  BY DEF Authority, AuthorityAgrees, Has

\* The places of a command are told apart by their name.
LEMMA PlacesDiffer ==
  /\ Idle.at = "idle"
  /\ \A b : Creating(b).at = "create" /\ Creating(b).reconcile = b
  /\ \A b, r : /\ Posted(b, r).at = "answer"
               /\ Posted(b, r).reconcile = b /\ Posted(b, r).replay = r
  /\ \A p, r : At(p, r).at = p /\ At(p, r).replay = r
  /\ \A n, c : /\ Publishing(n, c).at = "publish"
               /\ Publishing(n, c).name = n /\ Publishing(n, c).content = c
  BY DEF Idle, Creating, Posted, At, Publishing

(***************************************************************************)
(* A step that leaves the authority alone has only to account for where    *)
(* the command is now.                                                     *)
(***************************************************************************)
\* The authority is a matter of the receipts, the runs and the candidate.
LEMMA AuthorityStays ==
  ASSUME Authority, UNCHANGED <<receipts, run, candidate>>
  PROVE  Authority'
  BY DEF Authority, AuthorityTyped, AuthorityAgrees, OneRun, Has, Started, Frozen

\* An idle command knows nothing.
LEMMA IdleIsSound == ASSUME proc' = Idle PROVE CommandSound'
  BY DEF CommandSound

\* Publishing sound content is sound.
LEMMA PublishingIsSound ==
  ASSUME NEW n, NEW c, proc' = Publishing(n, c), ContentSound(n, c)'
  PROVE  CommandSound'
  <1>1. proc'.at = "publish" /\ proc'.name = n /\ proc'.content = c
    BY DEF Publishing
  <1>2. QED
    BY <1>1 DEF CommandSound

\* delete_artifact leaves the flags what they are, and the artifact gone when
\* it says so.
LEMMA DeletedFlags ==
  ASSUME Flags, NEW s, DeleteArtifact(s), UNCHANGED residue
  PROVE  Flags' /\ s \in Statuses /\ (s # "failed" => artifact' = FALSE)
  <1>1. s \in Statuses
    BY DEF DeleteArtifact, Statuses
  <1>2. faults' \in 0 .. MaxFaults
    BY BoundsAssumption DEF Flags, DeleteArtifact, Fault
  <1>3. artifact' \in BOOLEAN /\ (s # "failed" => artifact' = FALSE)
    <2>1. CASE s = "removed" /\ artifact' = FALSE
      BY <2>1
    <2>2. CASE s = "absent" /\ ~artifact /\ UNCHANGED artifact
      BY <2>2 DEF Flags
    <2>3. CASE s = "failed" /\ UNCHANGED artifact
      BY <2>3 DEF Flags
    <2>4. QED
      BY <2>1, <2>2, <2>3, Zenon DEF DeleteArtifact
  <1>4. QED
    BY <1>1, <1>2, <1>3 DEF Flags

\* A failure receipt can always be published (_stop).
LEMMA StopIsSound ==
  ASSUME Flags, NEW code \in Codes, NEW c \in BOOLEAN, Stop(code, c),
         UNCHANGED residue
  PROVE  CommandSound' /\ Flags'
  <1>1. PICK s \in Statuses : /\ DeleteArtifact(s)
                              /\ proc' = Publishing("failure", Failed(code, c, s))
    BY DEF Stop
  <1>2. ContentSound("failure", Failed(code, c, s))'
    BY DEF ContentSound, May, Names
  <1>3. QED
    BY <1>1, <1>2, DeletedFlags, PublishingIsSound

\* The same after a fault.
LEMMA FaultStopIsSound ==
  ASSUME Flags, NEW code \in Codes, NEW c \in BOOLEAN, StopAfterFault(code, c),
         UNCHANGED residue
  PROVE  CommandSound' /\ Flags'
  <1>1. PICK s \in Statuses : proc' = Publishing("failure", Failed(code, c, s))
    BY DEF StopAfterFault, Statuses
  <1>2. ContentSound("failure", Failed(code, c, s))'
    BY DEF ContentSound, May, Names
  <1>3. faults' \in 0 .. MaxFaults
    BY BoundsAssumption DEF Flags, StopAfterFault, Fault
  <1>4. Flags'
    BY <1>3 DEF Flags, StopAfterFault
  <1>5. QED
    BY <1>1, <1>2, <1>4, PublishingIsSound

\* An ambiguous outcome is recorded under a preflight receipt.
LEMMA AmbiguousIsSound ==
  ASSUME Authority, Has("preflight"), NEW b \in BOOLEAN, Ambiguous(b),
         UNCHANGED <<receipts, run, candidate>>
  PROVE  CommandSound'
  <1>1. CASE b
    BY <1>1, IdleIsSound DEF Ambiguous
  <1>2. CASE ~b
    <2>1. proc' = Publishing("reconciliation", receipts["intent"])
      BY <1>2 DEF Ambiguous
    <2>2. ContentSound("reconciliation", receipts["intent"])'
      BY PreflightHasIntent, FrozenIsAttempt DEF ContentSound, May, Names, Has
    <2>3. QED
      BY <2>1, <2>2, PublishingIsSound
  <1>3. QED
    BY <1>1, <1>2

(***************************************************************************)
(* The commands.                                                           *)
(***************************************************************************)
\* capture_live: under a preflight of the frozen intent, or with another file.
LEMMA CaptureLiveKeeps ==
  ASSUME CaptureInv, CaptureLive
  PROVE  CaptureInv'
  <1>1. Authority'
    BY AuthorityStays DEF CaptureInv, CaptureLive
  <1>2. CASE proc' = Creating(FALSE) /\ UNCHANGED <<artifact, faults>>
    BY <1>1, <1>2 DEF CaptureInv, CaptureLive, CommandSound, Flags, Has
  <1>3. CASE Stop("request_identity_mismatch", FALSE)
    <2>1. "request_identity_mismatch" \in Codes
      BY DEF Codes
    <2>2. QED
      BY <1>1, <1>3, <2>1, StopIsSound DEF CaptureInv, CaptureLive
  <1>4. QED
    BY <1>2, <1>3 DEF CaptureLive

\* resume_poll: a recorded deadline is one of a run that was started.
LEMMA ResumePollKeeps ==
  ASSUME CaptureInv, ResumePoll
  PROVE  CaptureInv'
  <1>1. Authority'
    BY AuthorityStays DEF CaptureInv, ResumePoll
  <1>2. CommandSound'
    BY DEF CaptureInv, ResumePoll, CommandSound, Has, Frozen, Started, Authority,
           AuthorityAgrees
  <1>3. QED
    BY <1>1, <1>2 DEF CaptureInv, ResumePoll, Flags

\* select_and_import: with the artifact of an inspected run, or not at all.
LEMMA SelectAndImportKeeps ==
  ASSUME CaptureInv, SelectAndImport
  PROVE  CaptureInv'
  <1>1. Authority'
    BY AuthorityStays DEF CaptureInv, SelectAndImport
  <1>2. CASE proc' = At("import", FALSE) /\ UNCHANGED <<artifact, faults>>
    BY <1>1, <1>2 DEF CaptureInv, SelectAndImport, CommandSound, Flags, Has
  <1>3. CASE Stop("source_selection_invalid", TRUE)
    <2>1. "source_selection_invalid" \in Codes
      BY DEF Codes
    <2>2. QED
      BY <1>1, <1>3, <2>1, StopIsSound DEF CaptureInv, SelectAndImport
  <1>4. QED
    BY <1>2, <1>3 DEF SelectAndImport

\* Every other command goes straight to its first place.
LEMMA OtherCommandsKeep ==
  ASSUME CaptureInv,
         \/ \E a \in Attempts : FreezeIntent(a)
         \/ Preflight \/ ReconcileCreate \/ Cleanup
  PROVE  CaptureInv'
  <1>1. ASSUME NEW a \in Attempts, FreezeIntent(a)
        PROVE  CaptureInv'
    <2>1. ContentSound("intent", Attempted(a))'
      BY DEF ContentSound, May, Names
    <2>2. QED
      BY <1>1, <2>1, PublishingIsSound, AuthorityStays DEF CaptureInv, FreezeIntent, Flags
  <1>2. CASE Preflight
    <2>1. ContentSound("preflight", receipts["intent"])'
      BY <1>2, FrozenIsAttempt
         DEF CaptureInv, Preflight, ContentSound, May, Names, Has
    <2>2. QED
      BY <1>2, <2>1, PublishingIsSound, AuthorityStays DEF CaptureInv, Preflight, Flags
  <1>3. CASE ReconcileCreate
    <2>1. CommandSound'
      BY <1>3 DEF ReconcileCreate, CommandSound, Has
    <2>2. QED
      BY <1>3, <2>1, AuthorityStays DEF CaptureInv, ReconcileCreate, Flags
  <1>4. CASE Cleanup
    <2>1. PICK s \in Statuses : DeleteArtifact(s) /\ proc' = Publishing("cleanup", Cleaned(s))
      BY <1>4 DEF Cleanup
    <2>2. ContentSound("cleanup", Cleaned(s))'
      BY DEF ContentSound, May, Names
    <2>3. QED
      BY <1>4, <2>1, <2>2, PublishingIsSound, AuthorityStays, DeletedFlags
         DEF CaptureInv, Cleanup
  <1>5. QED
    BY <1>1, <1>2, <1>3, <1>4

(***************************************************************************)
(* The steps of a command.                                                 *)
(***************************************************************************)
\* What a command knows by the place it has reached.
LEMMA PlaceTells ==
  ASSUME CommandSound
  PROVE  /\ proc.at \in Places
         /\ proc.at = "create" => Has("preflight") /\ proc.reconcile \in BOOLEAN
         /\ proc.at = "answer" =>
              /\ Has("preflight") /\ Started(Frozen)
              /\ proc.reconcile \in BOOLEAN /\ proc.replay \in BOOLEAN
         /\ proc.at = "poll" =>
              Has("preflight") /\ Started(Frozen) /\ proc.replay \in BOOLEAN
         /\ proc.at = "import" => Has("inspection")
         /\ proc.at \in {"imported", "undeleted"} =>
              Has("inspection") /\ candidate # NoReceipt
         /\ proc.at = "publish" => ContentSound(proc.name, proc.content)
  <1>1. CASE proc = Idle
    BY <1>1 DEF Idle, Places
  <1>2. CASE Has("preflight") /\ \E b \in BOOLEAN : proc = Creating(b)
    BY <1>2 DEF Creating, Places
  <1>3. CASE /\ Has("preflight") /\ Started(Frozen)
             /\ \E b \in BOOLEAN, r \in BOOLEAN : proc = Posted(b, r)
    BY <1>3 DEF Posted, Places
  <1>4. CASE /\ Has("preflight") /\ Started(Frozen)
             /\ \E r \in BOOLEAN : proc = At("poll", r)
    BY <1>4 DEF At, Places
  <1>5. CASE Has("inspection") /\ proc = At("import", FALSE)
    BY <1>5 DEF At, Places
  <1>6. CASE /\ Has("inspection") /\ candidate # NoReceipt
             /\ proc \in {At("imported", FALSE), At("undeleted", FALSE)}
    BY <1>6 DEF At, Places
  <1>7. CASE /\ proc.at = "publish" /\ proc = Publishing(proc.name, proc.content)
             /\ ContentSound(proc.name, proc.content)
    BY <1>7 DEF Places
  <1>8. QED
    BY <1>1, <1>2, <1>3, <1>4, <1>5, <1>6, <1>7 DEF CommandSound

\* Before the create request went out.
LEMMA CreateFailsKeeps ==
  ASSUME CaptureInv, CreateFails
  PROVE  CaptureInv'
  <1>1. Authority'
    BY AuthorityStays DEF CaptureInv, CreateFails
  <1>2. Has("preflight") /\ proc.reconcile \in BOOLEAN
    BY PlaceTells DEF CaptureInv, CreateFails
  <1>3. CASE Fault /\ Ambiguous(proc.reconcile) /\ UNCHANGED artifact
    <2>1. Flags'
      BY <1>3, BoundsAssumption DEF CaptureInv, CreateFails, Flags, Fault
    <2>2. CommandSound'
      BY <1>2, <1>3, AmbiguousIsSound DEF CaptureInv, CreateFails
    <2>3. QED
      BY <1>1, <2>1, <2>2 DEF CaptureInv
  <1>4. ASSUME NEW code \in Codes, NEW c \in BOOLEAN, Stop(code, c)
        PROVE  CaptureInv'
    BY <1>1, <1>4, StopIsSound DEF CaptureInv, CreateFails
  <1>5. {"reconciliation_failed", "producer_unavailable", "create_identity_conflict"}
          \subseteq Codes
    BY DEF Codes
  <1>6. QED
    BY <1>3, <1>4, <1>5 DEF CreateFails

\* POST /api/runs starts the run of the frozen attempt and no other.
LEMMA CreateRunKeeps ==
  ASSUME CaptureInv, CreateRun
  PROVE  CaptureInv'
  <1>1. Has("preflight") /\ proc.reconcile \in BOOLEAN
    BY PlaceTells DEF CaptureInv, CreateRun
  <1>2. Has("intent") /\ Frozen \in Attempts
    BY <1>1, PreflightHasIntent, FrozenIsAttempt DEF CaptureInv
  <1> DEFINE started == [version |-> 1, status |-> "in_progress"]
  <1>3. started \in RunStates /\ started # Absent
    BY BoundsAssumption DEF RunStates, Absent
  <1>4. /\ run' = IF Started(Frozen) THEN run ELSE [run EXCEPT ![Frozen] = started]
        /\ proc' = Posted(proc.reconcile, Started(Frozen))
        /\ UNCHANGED <<receipts, artifact, residue, candidate, faults>>
    BY DEF CreateRun
  <1>5. run \in [Attempts -> RunStates]
    BY DEF CaptureInv, Authority, AuthorityTyped
  <1>6. /\ run' \in [Attempts -> RunStates]
        /\ run'[Frozen] # Absent
        /\ Started(Frozen) => run' = run
        /\ \A a \in Attempts : a # Frozen => run'[a] = run[a]
    BY <1>2, <1>3, <1>4, <1>5 DEF Started
  <1>7. AuthorityTyped'
    BY <1>4, <1>6 DEF CaptureInv, Authority, AuthorityTyped, Has
  <1>8. OneRun'
    BY <1>2, <1>4, <1>6 DEF CaptureInv, Authority, AuthorityAgrees, OneRun, Has,
                            Started, Frozen
  <1>9. AuthorityAgrees'
    <2>1. CASE Started(Frozen)
      BY <1>4, <1>6, <1>8, <2>1
         DEF CaptureInv, Authority, AuthorityAgrees, Has, Started, Frozen
    <2>2. CASE ~Started(Frozen)
      <3>1. ~Has("poll")
        BY <2>2 DEF CaptureInv, Authority, AuthorityAgrees
      <3>2. ~Has("inspection")
        BY <2>2 DEF CaptureInv, Authority, AuthorityAgrees, Started, Absent
      <3>3. QED
        BY <1>4, <1>8, <3>1, <3>2
           DEF CaptureInv, Authority, AuthorityAgrees, Has
    <2>3. QED
      BY <2>1, <2>2
  <1>10. CommandSound'
    BY <1>1, <1>4, <1>6 DEF CommandSound, Has, Started, Frozen
  <1>11. QED
    BY <1>4, <1>7, <1>9, <1>10 DEF CaptureInv, Authority, Flags

\* The answer to create_run, or its loss.
LEMMA CreateAnsweredKeeps ==
  ASSUME CaptureInv, CreateAnswered
  PROVE  CaptureInv'
  <1>1. Authority'
    BY AuthorityStays DEF CaptureInv, CreateAnswered
  <1>2. /\ Has("preflight") /\ Started(Frozen)
        /\ proc.reconcile \in BOOLEAN /\ proc.replay \in BOOLEAN
    BY PlaceTells DEF CaptureInv, CreateAnswered
  <1>3. CASE proc' = At("poll", proc.replay) /\ UNCHANGED <<artifact, faults>>
    <2>1. CommandSound'
      BY <1>2, <1>3 DEF CreateAnswered, CommandSound, Has, Started, Frozen
    <2>2. QED
      BY <1>1, <1>3, <2>1 DEF CaptureInv, CreateAnswered, Flags
  <1>4. CASE Fault /\ Ambiguous(proc.reconcile) /\ UNCHANGED artifact
    <2>1. Flags'
      BY <1>4, BoundsAssumption DEF CaptureInv, CreateAnswered, Flags, Fault
    <2>2. CommandSound'
      BY <1>2, <1>4, AmbiguousIsSound DEF CaptureInv, CreateAnswered
    <2>3. QED
      BY <1>1, <2>1, <2>2 DEF CaptureInv
  <1>5. ASSUME NEW code \in Codes, NEW c \in BOOLEAN, StopAfterFault(code, c)
        PROVE  CaptureInv'
    BY <1>1, <1>5, FaultStopIsSound DEF CaptureInv, CreateAnswered
  <1>6. {"producer_unavailable", "reconciliation_failed"} \subseteq Codes
    BY DEF Codes
  <1>7. QED
    BY <1>3, <1>4, <1>5, <1>6 DEF CreateAnswered

\* One round of the poll: what is recorded is what the producer showed.
LEMMA PollRunKeeps ==
  ASSUME CaptureInv, PollRun
  PROVE  CaptureInv'
  <1>1. Authority'
    BY AuthorityStays DEF CaptureInv, PollRun
  <1>2. Has("preflight") /\ Started(Frozen) /\ proc.replay \in BOOLEAN
    BY PlaceTells DEF CaptureInv, PollRun
  <1>3. Frozen \in Attempts /\ run[Frozen] \in RunStates
    BY <1>2, PreflightHasIntent, FrozenIsAttempt DEF CaptureInv, Authority, AuthorityTyped
  <1>4. PICK v \in 0 .. MaxVersion, q \in BOOLEAN :
          v = run[Frozen].version /\ q = proc.replay
    BY <1>2, <1>3 DEF RunStates
  <1>5. ASSUME NEW code \in Codes, StopAfterFault(code, TRUE)
        PROVE  CaptureInv'
    BY <1>1, <1>5, FaultStopIsSound DEF CaptureInv, PollRun
  <1>6. ASSUME NEW code \in Codes, Stop(code, TRUE)
        PROVE  CaptureInv'
    BY <1>1, <1>6, StopIsSound DEF CaptureInv, PollRun
  <1>7. CASE proc' = Publishing("poll", Versioned(v)) /\ UNCHANGED <<artifact, faults>>
    <2>1. May("poll", Versioned(v)) /\ Versioned(v).version = v
      BY DEF May, Versioned
    <2>2. UNCHANGED <<receipts, run>>
      BY DEF PollRun
    <2>3. ContentSound("poll", Versioned(v))'
      BY <1>2, <1>4, <2>1, <2>2 DEF ContentSound, Names, Has, Started, Frozen, May
    <2>4. QED
      BY <1>1, <1>7, <2>3, PublishingIsSound DEF CaptureInv, PollRun, Flags
  <1>8. CASE /\ Deliverable(run[Frozen]) /\ artifact' = TRUE
             /\ proc' = Publishing("inspection", Inspected(v, q))
             /\ UNCHANGED faults
    <2>1. May("inspection", Inspected(v, q)) /\ Inspected(v, q).version = v
      BY DEF May, Inspected
    <2>2. UNCHANGED <<receipts, run>>
      BY DEF PollRun
    <2>3. run[Frozen] = [version |-> v, status |-> "ready"]
      BY <1>3, <1>4, <1>8 DEF Deliverable, RunStates
    <2>4. ContentSound("inspection", Inspected(v, q))'
      BY <1>2, <2>1, <2>2, <2>3 DEF ContentSound, Names, Has, Frozen, May
    <2>5. QED
      BY <1>1, <1>8, <2>4, PublishingIsSound DEF CaptureInv, PollRun, Flags
  <1>9. {"run_poll_invalid", "terminal_state_invalid", "terminal_projection_invalid"}
          \subseteq Codes
    BY DEF Codes
  <1>10. QED
    BY <1>4, <1>5, <1>6, <1>7, <1>8, <1>9 DEF PollRun

\* The import: a candidate is imported from the inspection receipt only.
LEMMA ImportCandidateKeeps ==
  ASSUME CaptureInv, ImportCandidate
  PROVE  CaptureInv'
  <1>1. Has("inspection")
    BY PlaceTells DEF CaptureInv, ImportCandidate
  <1>2. CASE /\ candidate \in {NoReceipt, receipts["inspection"]}
             /\ candidate' = receipts["inspection"]
             /\ proc' = At("imported", FALSE)
             /\ UNCHANGED <<artifact, faults>>
    <2>1. UNCHANGED <<receipts, run, residue>>
      BY DEF ImportCandidate
    <2>2. candidate' \in Contents /\ candidate' # NoReceipt
      BY <1>1, <1>2 DEF CaptureInv, Authority, AuthorityTyped, Has, Names
    <2>3. AuthorityTyped'
      BY <2>1, <2>2 DEF CaptureInv, Authority, AuthorityTyped, Has
    <2>4. AuthorityAgrees'
      BY <1>2, <2>1, <2>2 DEF CaptureInv, Authority, AuthorityAgrees, OneRun, Has,
                              Started, Frozen
    <2>5. CommandSound'
      BY <1>1, <1>2, <2>1, <2>2 DEF CommandSound, Has
    <2>6. QED
      BY <1>2, <2>1, <2>3, <2>4, <2>5 DEF CaptureInv, Authority, Flags
  <1>3. CASE Stop("candidate_import_conflict", TRUE) /\ UNCHANGED candidate
    <2>1. "candidate_import_conflict" \in Codes
      BY DEF Codes
    <2>2. Authority'
      BY <1>3, AuthorityStays DEF CaptureInv, ImportCandidate
    <2>3. QED
      BY <1>3, <2>1, <2>2, StopIsSound DEF CaptureInv, ImportCandidate
  <1>4. QED
    BY <1>2, <1>3 DEF ImportCandidate

\* The capture receipt is prepared when the candidate is there and the text
\* of the artifact is not.
LEMMA ImportAnsweredKeeps ==
  ASSUME CaptureInv, ImportAnswered
  PROVE  CaptureInv'
  <1>1. Authority'
    BY AuthorityStays DEF CaptureInv, ImportAnswered
  <1>2. Has("inspection") /\ candidate # NoReceipt
    BY PlaceTells DEF CaptureInv, ImportAnswered
  <1>3. ASSUME NEW s \in Statuses \ {"failed"}, DeleteArtifact(s),
               proc' = Publishing("capture", Captured(s))
        PROVE  CaptureInv'
    <2>1. Flags' /\ artifact' = FALSE
      BY <1>3, DeletedFlags DEF CaptureInv, ImportAnswered
    <2>2. UNCHANGED candidate
      BY DEF ImportAnswered
    <2>3. ContentSound("capture", Captured(s))'
      BY <1>2, <2>1, <2>2 DEF ContentSound, May, Names
    <2>4. QED
      BY <1>1, <1>3, <2>1, <2>3, PublishingIsSound DEF CaptureInv
  <1>4. CASE DeleteArtifact("failed") /\ proc' = At("undeleted", FALSE)
    <2>1. Flags'
      BY <1>4, DeletedFlags DEF CaptureInv, ImportAnswered
    <2>2. CommandSound'
      BY <1>2, <1>4 DEF ImportAnswered, CommandSound, Has
    <2>3. QED
      BY <1>1, <2>1, <2>2 DEF CaptureInv
  <1>5. CASE StopAfterFault("candidate_import_conflict", TRUE)
    <2>1. "candidate_import_conflict" \in Codes
      BY DEF Codes
    <2>2. QED
      BY <1>1, <1>5, <2>1, FaultStopIsSound DEF CaptureInv, ImportAnswered
  <1>6. QED
    BY <1>3, <1>4, <1>5 DEF ImportAnswered

\* An artifact that resists its removal ends the stage as a failure.
LEMMA StopUndeletedKeeps ==
  ASSUME CaptureInv, StopUndeleted
  PROVE  CaptureInv'
  <1>1. "cleanup_incomplete" \in Codes
    BY DEF Codes
  <1>2. QED
    BY <1>1, AuthorityStays, StopIsSound DEF CaptureInv, StopUndeleted

(***************************************************************************)
(* Publication: a receipt appears under a name that was free, with sound   *)
(* content; nothing that is there is ever written over.                    *)
(***************************************************************************)
\* _publish_bytes with sound content keeps the authority in agreement.
LEMMA PublishKeeps ==
  ASSUME Authority, NEW n, NEW c, ContentSound(n, c),
         receipts' = Publish(n, c), UNCHANGED <<run, candidate>>
  PROVE  Authority'
  <1>1. CASE Has(n)
    BY <1>1, AuthorityStays DEF Publish
  <1>2. CASE ~Has(n)
    <2>1. n \in Names /\ May(n, c) /\ c # NoReceipt /\ c \in Contents
      BY ReceiptIsSomething DEF ContentSound
    <2>2. /\ receipts' \in [Names -> Contents]
          /\ receipts'[n] = c
          /\ \A k \in Names : k # n => receipts'[k] = receipts[k]
      BY <1>2, <2>1 DEF Publish, Authority, AuthorityTyped
    <2>3. Names = {"intent", "preflight", "reconciliation", "poll", "inspection",
                   "capture", "failure", "cleanup"}
      BY DEF Names
    <2>4. AuthorityTyped'
      BY <2>1, <2>2 DEF Authority, AuthorityTyped, Has
    <2>5. CASE n = "intent"
      <3>1. ~Has("preflight") /\ ~Has("reconciliation") /\ ~Has("poll")
            /\ ~Has("inspection") /\ \A a \in Attempts : ~Started(a)
        BY <1>2, <2>5, PreflightHasIntent DEF Authority, AuthorityAgrees, OneRun
      <3>2. QED
        BY <2>2, <2>3, <2>4, <2>5, <3>1
           DEF Authority, AuthorityAgrees, OneRun, Has, Started, Frozen
    <2>6. CASE n # "intent"
      <3>1. receipts'["intent"] = receipts["intent"]
        BY <2>2, <2>3, <2>6
      <3>2. OneRun'
        BY <3>1 DEF Authority, AuthorityAgrees, OneRun, Has, Started, Frozen
      <3>3. (Has("preflight") => receipts["preflight"] = receipts["intent"])'
        BY <2>1, <2>2, <2>3, <3>1 DEF Authority, AuthorityAgrees, ContentSound, Has
      <3>4. (Has("reconciliation") =>
               /\ Has("preflight")
               /\ receipts["reconciliation"] = receipts["intent"])'
        BY <2>1, <2>2, <2>3, <3>1 DEF Authority, AuthorityAgrees, ContentSound, Has
      <3>5. (Has("poll") => /\ Has("preflight") /\ Started(Frozen)
                            /\ receipts["poll"].version <= run[Frozen].version)'
        BY <2>1, <2>2, <2>3, <3>1
           DEF Authority, AuthorityAgrees, ContentSound, Has, Started, Frozen
      <3>6. (Has("inspection") =>
               /\ Has("preflight")
               /\ run[Frozen] = [version |-> receipts["inspection"].version,
                                 status |-> "ready"])'
        BY <2>1, <2>2, <2>3, <3>1
           DEF Authority, AuthorityAgrees, ContentSound, Has, Frozen
      <3>7. (candidate # NoReceipt => candidate = receipts["inspection"])'
        BY <1>2, <2>2, <2>3 DEF Authority, AuthorityAgrees, Has
      <3>8. (Has("capture") => candidate # NoReceipt)'
        BY <2>1, <2>2, <2>3 DEF Authority, AuthorityAgrees, ContentSound, Has
      <3>9. QED
        BY <2>4, <3>2, <3>3, <3>4, <3>5, <3>6, <3>7, <3>8
           DEF Authority, AuthorityAgrees
    <2>7. QED
      BY <2>5, <2>6
  <1>3. QED
    BY <1>1, <1>2

\* A command ends with its receipt.
LEMMA WriteReceiptKeeps ==
  ASSUME CaptureInv, WriteReceipt
  PROVE  CaptureInv'
  BY PlaceTells, PublishKeeps, IdleIsSound DEF CaptureInv, WriteReceipt, Flags

\* A kill loses the command, before its receipt is there or after.
LEMMA KillKeeps ==
  ASSUME CaptureInv, Kill
  PROVE  CaptureInv'
  <1>1. CommandSound' /\ UNCHANGED <<artifact, run, candidate>>
    BY IdleIsSound DEF Kill
  <1>2. faults' \in 0 .. MaxFaults
    BY BoundsAssumption DEF CaptureInv, Kill, Flags, Fault
  <1>3. residue' \in BOOLEAN
    BY DEF CaptureInv, Kill, Flags
  <1>4. Authority'
    <2>1. CASE UNCHANGED receipts
      BY <1>1, <2>1, AuthorityStays DEF CaptureInv
    <2>2. CASE proc.at = "publish" /\ receipts' = Publish(proc.name, proc.content)
      BY <1>1, <2>2, PlaceTells, PublishKeeps DEF CaptureInv
    <2>3. QED
      BY <2>1, <2>2 DEF Kill
  <1>5. QED
    BY <1>1, <1>2, <1>3, <1>4 DEF CaptureInv, Flags

\* A signal removes the artifact on the way out.
LEMMA InterruptKeeps ==
  ASSUME CaptureInv, Interrupt
  PROVE  CaptureInv'
  <1>1. faults' \in 0 .. MaxFaults
    BY BoundsAssumption DEF CaptureInv, Interrupt, Flags, Fault
  <1>2. QED
    BY <1>1, AuthorityStays, IdleIsSound DEF CaptureInv, Interrupt, Flags

\* The producer works on; a run that is ready stays as it was inspected.
LEMMA RunAdvancesKeeps ==
  ASSUME CaptureInv, RunAdvances
  PROVE  CaptureInv'
  <1>1. UNCHANGED <<receipts, artifact, residue, candidate, proc, faults>>
    BY DEF RunAdvances
  <1>2. PICK a \in Attempts, s \in {"in_progress", "ready", "failed", "invalid"} :
          /\ run[a].status = "in_progress"
          /\ run[a].version < MaxVersion
          /\ run' = [run EXCEPT ![a] = [version |-> @.version + 1, status |-> s]]
    BY DEF RunAdvances
  <1>3. run \in [Attempts -> RunStates]
    BY DEF CaptureInv, Authority, AuthorityTyped
  <1>4. /\ run' \in [Attempts -> RunStates]
        /\ run'[a].version = run[a].version + 1
        /\ run'[a].status = s
        /\ \A b \in Attempts : b # a => run'[b] = run[b]
    BY <1>2, <1>3, BoundsAssumption DEF RunStates
  <1>5. /\ Started(a) /\ run'[a] # Absent
        /\ run[a].version <= run'[a].version
    BY <1>2, <1>3, <1>4 DEF Started, Absent, RunStates
  <1>6. AuthorityTyped'
    BY <1>1, <1>4 DEF CaptureInv, Authority, AuthorityTyped, Has
  <1>7. \A b \in Attempts : Started(b) <=> Started(b)'
    BY <1>4, <1>5 DEF Started
  <1>8. ASSUME NEW w \in Nat, Has("preflight"), w <= run[Frozen].version
        PROVE  w <= run'[Frozen].version
    <2>1. Frozen \in Attempts
      BY <1>8, PreflightHasIntent, FrozenIsAttempt DEF CaptureInv
    <2>2. run[Frozen].version \in Nat /\ run'[Frozen].version \in Nat
      BY <1>3, <1>4, <2>1 DEF RunStates
    <2>3. run[Frozen].version <= run'[Frozen].version
      BY <1>4, <1>5, <2>1, <2>2
    <2>4. QED
      BY <1>8, <2>2, <2>3
  <1>9. ASSUME NEW w, Has("preflight"), run[Frozen] = [version |-> w, status |-> "ready"]
        PROVE  run'[Frozen] = run[Frozen]
    <2>1. Frozen \in Attempts
      BY <1>9, PreflightHasIntent, FrozenIsAttempt DEF CaptureInv
    <2>2. Frozen # a
      BY <1>2, <1>9
    <2>3. QED
      BY <1>4, <2>1, <2>2
  <1>10. Has("preflight") => (Started(Frozen) <=> Started(Frozen)')
    <2>1. Has("preflight") => Frozen \in Attempts
      BY PreflightHasIntent, FrozenIsAttempt DEF CaptureInv
    <2>2. Frozen' = Frozen
      BY <1>1 DEF Frozen
    <2>3. QED
      BY <1>7, <2>1, <2>2 DEF Started
  <1>11. \A n, c : May(n, c) /\ n = "poll" => c.version \in Nat
    BY DEF May, Versioned
  <1>12. AuthorityAgrees'
    <2>1. OneRun'
      BY <1>1, <1>7 DEF CaptureInv, Authority, AuthorityAgrees, OneRun, Has, Frozen
    <2>2. (Has("poll") => /\ Has("preflight") /\ Started(Frozen)
                          /\ receipts["poll"].version <= run[Frozen].version)'
      <3>1. Has("poll") => receipts["poll"].version \in Nat
        BY <1>11 DEF CaptureInv, Authority, AuthorityTyped, Names
      <3>2. QED
        BY <1>1, <1>8, <1>10, <3>1
           DEF CaptureInv, Authority, AuthorityAgrees, Has, Frozen
    <2>3. (Has("inspection") =>
             /\ Has("preflight")
             /\ run[Frozen] = [version |-> receipts["inspection"].version,
                               status |-> "ready"])'
      BY <1>1, <1>9 DEF CaptureInv, Authority, AuthorityAgrees, Has, Frozen
    <2>4. QED
      BY <1>1, <2>1, <2>2, <2>3 DEF CaptureInv, Authority, AuthorityAgrees, Has
  <1>13. CommandSound'
    <2>1. CASE proc.at = "publish" /\ proc = Publishing(proc.name, proc.content)
               /\ ContentSound(proc.name, proc.content)
      <3>1. ContentSound(proc.name, proc.content)'
        BY <1>1, <1>8, <1>9, <1>10, <1>11, <2>1 DEF ContentSound, Has, Frozen, May
      <3>2. QED
        BY <1>1, <2>1, <3>1 DEF CommandSound
    <2>2. CASE ~(proc.at = "publish" /\ proc = Publishing(proc.name, proc.content)
                 /\ ContentSound(proc.name, proc.content))
      BY <1>1, <1>10, <2>2 DEF CaptureInv, CommandSound, Has, Frozen
    <2>3. QED
      BY <2>1, <2>2
  <1>14. QED
    BY <1>1, <1>6, <1>12, <1>13 DEF CaptureInv, Authority, Flags

(***************************************************************************)
(* The theorems.                                                           *)
(***************************************************************************)
\* An empty directory before anything is known.
LEMMA CaptureInit == Init => CaptureInv
  <1> SUFFICES ASSUME Init PROVE CaptureInv
    OBVIOUS
  <1>1. \A n \in Names : ~Has(n)
    BY DEF Init, Has
  <1>2. AuthorityTyped
    BY <1>1, BoundsAssumption
       DEF Init, AuthorityTyped, RunStates, Absent, Contents
  <1>3. AuthorityAgrees
    BY <1>1 DEF Init, AuthorityAgrees, OneRun, Started, Names
  <1>4. CommandSound
    BY DEF Init, CommandSound
  <1>5. artifact \in BOOLEAN /\ residue \in BOOLEAN
    BY DEF Init
  <1>6. faults \in 0 .. MaxFaults
    BY BoundsAssumption DEF Init
  <1>7. QED
    BY <1>2, <1>3, <1>4, <1>5, <1>6 DEF CaptureInv, Authority, Flags

\* Every step keeps authority and command in agreement.
LEMMA CaptureStep == CaptureInv /\ [Next]_vars => CaptureInv'
  <1> SUFFICES ASSUME CaptureInv, [Next]_vars PROVE CaptureInv'
    OBVIOUS
  <1>1. CASE UNCHANGED vars
    <2>1. UNCHANGED <<receipts, run, candidate, artifact, residue, proc, faults>>
      BY <1>1 DEF vars
    <2>2. Authority' /\ Flags'
      BY <2>1, AuthorityStays DEF CaptureInv, Flags
    <2>3. CommandSound'
      <3>1. Frozen' = Frozen /\ \A n : Has(n)' <=> Has(n)
        BY <2>1 DEF Has, Frozen
      <3>2. \A a : Started(a)' <=> Started(a)
        BY <2>1 DEF Started
      <3>3. \A n, c : ContentSound(n, c)' <=> ContentSound(n, c)
        BY <2>1, <3>1, <3>2 DEF ContentSound, May
      <3> QED BY <2>1, <3>1, <3>2, <3>3 DEF CaptureInv, CommandSound
    <2>4. QED
      BY <2>2, <2>3 DEF CaptureInv
  <1>2. CASE Command
    BY <1>2, OtherCommandsKeep, CaptureLiveKeeps, ResumePollKeeps, SelectAndImportKeeps
       DEF Command
  <1>3. CASE Step
    BY <1>3, CreateFailsKeeps, CreateRunKeeps, CreateAnsweredKeeps, PollRunKeeps,
       ImportCandidateKeeps, ImportAnsweredKeeps, StopUndeletedKeeps, WriteReceiptKeeps
       DEF Step
  <1>4. CASE Kill \/ Interrupt \/ RunAdvances
    BY <1>4, KillKeeps, InterruptKeeps, RunAdvancesKeeps
  <1>5. QED
    BY <1>1, <1>2, <1>3, <1>4 DEF Next

LEMMA CaptureInvariant == Spec => []CaptureInv
  BY CaptureInit, CaptureStep, PTL DEF Spec

\* Receipts, runs and processes keep their shape (the receipt models of
\* live_models.py).
THEOREM CaptureTyped == Spec => []TypeOK
  <1>1. CaptureInv => TypeOK
    <2> SUFFICES ASSUME CaptureInv PROVE TypeOK
      OBVIOUS
    <2>1. proc.at \in Places
      BY PlaceTells DEF CaptureInv
    <2>2. proc.at = "publish" => /\ proc.name \in Names
                                 /\ proc.content \in Contents \ {NoReceipt}
      BY PlaceTells, ReceiptIsSomething DEF CaptureInv, ContentSound
    <2>3. QED
      BY <2>1, <2>2
         DEF CaptureInv, Authority, AuthorityTyped, RunStates, Flags, TypeOK
  <1>2. QED
    BY <1>1, CaptureInvariant, PTL

\* Whatever is lost, killed or repeated, the producer runs once, for the
\* attempt that was frozen (live_controller.py, capture).
THEOREM OneRunAlways == Spec => []OneRun
  <1>1. CaptureInv => OneRun
    BY DEF CaptureInv, Authority, AuthorityAgrees
  <1>2. QED
    BY <1>1, CaptureInvariant, PTL

\* No receipt says more than the producer and the API hold, and the capture
\* receipt is written over an imported candidate and a removed artifact.
THEOREM ReceiptsTruthfulAlways == Spec => []ReceiptsTruthful
  <1>1. CaptureInv => ReceiptsTruthful
    <2> SUFFICES ASSUME CaptureInv PROVE ReceiptsTruthful
      OBVIOUS
    <2>1. proc.at = "publish" /\ proc.name = "capture" => candidate # NoReceipt /\ ~artifact
      BY PlaceTells DEF CaptureInv, ContentSound
    <2>2. QED
      BY <2>1 DEF CaptureInv, Authority, AuthorityAgrees, ReceiptsTruthful
  <1>2. QED
    BY <1>1, CaptureInvariant, PTL
=============================================================================
