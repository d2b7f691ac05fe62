------------------------------ MODULE DemoJourney ------------------------------
(***************************************************************************)
(* One browser tab of the connected demo and what it talks to: the cookie  *)
(* jar it shares with other tabs, the sessions behind it, the idempotency  *)
(* records, and a Case reduced to its journey phase.  The tab walks a Case *)
(* from task_ready to plan_ready as advisor, student and parent in turn.   *)
(* Any request or answer may be lost, a lost command may still be served,  *)
(* the page may be reloaded anywhere, a session may expire, another tab    *)
(* may sign on, a task may fail and an advisor may reject: MaxFaults times *)
(* together.                                                               *)
(***************************************************************************)
EXTENDS Integers, FiniteSets

CONSTANT MaxFaults

ASSUME FaultsAssumption == MaxFaults \in Nat

VARIABLES
    case,     \* phase of the Case, revision, round (which task, run or
              \*   candidate requests name), open candidates, log length
    jar,      \* the session cookie: role, still live, set by another tab
    records,  \* idempotency_records, with the role that signed and was meant
    late,     \* a command the tab has given up and that may still be served
    store,    \* sessionStorage: role, csrf fits the cookie, keys, cursor, ...
    view,     \* what the person sees
    job,      \* the asynchronous function that runs, and where it awaits
    again,    \* retryAction: what the reconnect button repeats
    stream,   \* the EventSource of the task on display, and its page
    asked,    \* times the person asked for each command
    faults    \* faults so far, at most MaxFaults

journeyVars == <<case, jar, records, late, store, view, job, again, stream, asked, faults>>

Participants == {"student", "parent"}
Proposal == {"message", "candidate"}
Verdicts == {"confirm", "reject"}

(* What is proposed: an intake, an intake no source pack answers for, or   *)
(* what an advisor's page can only confirm.                                *)
Kinds == {"intake", "unfounded", "budget"}
Rejectable == {"intake", "unfounded"}
ParticipantFor(kind) == IF kind = "budget" THEN "parent" ELSE "student"
Commands == {"create-task", "retry-task", "request-revision", "new-review", "message",
             "candidate", "confirm", "reject", "family-decision"}
ActivePhases == {"active_task", "revision_task_active"}

NoSession == [role |-> "none", live |-> FALSE, rival |-> FALSE]
NoStore == [role |-> "none", fits |-> FALSE, pending |-> "none", task |-> 0,
            cursor |-> 0, keys |-> {}, retry |-> FALSE]
NoJob == [do |-> "none", at |-> "none", op |-> "none", target |-> "none", then |-> "none",
          round |-> 0, about |-> "none", seen |-> "none", task |-> 0, boot |-> FALSE, tries |-> 0]
NoStream == [is |-> "off", sent |-> 0, max |-> 0, closing |-> FALSE,
             cursor |-> 0, wake |-> FALSE]
Screen(is, phase) == [is |-> is, phase |-> phase, round |-> 0, about |-> "none"]

StartsWith(session) ==
    /\ case = [phase |-> "task_ready", rev |-> 1, round |-> 1,
               open |-> [k \in Kinds |-> 0], log |-> 0]
    /\ jar = session /\ records = {} /\ late = {}
    /\ store = NoStore /\ view = Screen("start", "none")
    /\ job = NoJob /\ again = NoJob /\ stream = NoStream
    /\ asked = [op \in Commands |-> 0] /\ faults = 0
JourneyInit == StartsWith(NoSession)

-----------------------------------------------------------------------------
(*                          The Case, and its commands                     *)

Phase == IF case.phase = "revision_requested" /\ \E k \in Kinds : case.open[k] > 0
         THEN "revision_fact_pending" ELSE case.phase

(* pendingRevisionCandidate: the one open candidate, or none to be shown.  *)
Sole(k) == case.open[k] = 1 /\ \A l \in Kinds \ {k} : case.open[l] = 0
OnlyPending == IF \E k \in Kinds : Sole(k) THEN CHOOSE k \in Kinds : Sole(k) ELSE "none"

ActiveRole(phase, reader) ==
    CASE phase = "revision_requested" -> IF reader = "parent" THEN "parent" ELSE "student"
      [] phase \in {"family_review", "plan_ready"} -> "parent"
      [] OTHER -> "advisor"

MayCommit(op, role) ==
    CASE op \in Proposal -> role \in Participants
      [] op = "family-decision" -> role = "parent"
      [] OTHER -> role = "advisor"

(* The refusals of a command behind its key: 409, stale.                   *)
Current(q) ==
    CASE q.op = "message" -> TRUE
      [] q.op = "candidate" -> case.rev = 1 /\ case.phase = "revision_requested"
      [] OTHER ->
           /\ q.round = case.round
           /\ Phase \in CASE q.op = "create-task" -> {"task_ready", "replan_required"}
                          [] q.op = "retry-task" -> {"terminal_task_failure"}
                          [] q.op = "request-revision" -> {"review_required"}
                          [] q.op = "new-review" -> {"review_required", "revision_review_required"}
                          [] q.op \in Verdicts -> {"revision_fact_pending"}
                          [] OTHER -> {"family_review"}
           /\ q.op \in Verdicts => q.about \in Kinds /\ case.open[q.about] > 0

NewTask == [case EXCEPT !.log = 1, !.phase = IF case.rev = 1 THEN "active_task"
                                             ELSE "revision_task_active"]

After(q) ==
    CASE q.op = "create-task" -> NewTask
      [] q.op = "retry-task" -> [NewTask EXCEPT !.round = @ + 1]
      [] q.op = "request-revision" -> [case EXCEPT !.phase = "revision_requested"]
      [] q.op = "new-review" -> [case EXCEPT !.phase = "family_review"]
      [] q.op = "message" -> case
      [] q.op = "candidate" -> [case EXCEPT !.open[q.about] = @ + 1]
      [] q.op = "confirm" -> [case EXCEPT !.phase = "replan_required", !.rev = 2,
                                 !.round = @ + 1, !.open = [k \in Kinds |-> 0]]
      [] q.op = "reject" -> [case EXCEPT !.round = @ + 1, !.open[q.about] = @ - 1]
      [] OTHER -> [case EXCEPT !.phase = "plan_ready"]

(* intake_evidence_unavailable: refused with nothing written.              *)
Founded(q) == q.op = "confirm" => q.about # "unfounded"

Known(q) == \E r \in records : r.op = q.op /\ r.key = q.key
Accepted(q) == ~Known(q) /\ MayCommit(q.op, q.by) /\ Current(q) /\ Founded(q)

Commit(q) ==
    /\ case' = After(q)
    /\ records' = records \cup {[op |-> q.op, key |-> q.key, by |-> q.by, as |-> q.as]}

(* The worker reports progress, and settles the task.                      *)
Working == case.phase \in ActivePhases

Progress ==
    /\ Working /\ case.log = 1
    /\ case' = [case EXCEPT !.log = 2]
    /\ UNCHANGED <<jar, records, late, store, view, job, again, stream, asked, faults>>

Settle ==
    /\ Working
    /\ \/ /\ case' = [case EXCEPT !.log = @ + 1,
                          !.phase = IF case.rev = 1 THEN "review_required"
                                    ELSE "revision_review_required"]
          /\ UNCHANGED faults
       \/ /\ faults < MaxFaults
          /\ case' = [case EXCEPT !.log = @ + 1, !.phase = "terminal_task_failure"]
          /\ faults' = faults + 1
    /\ UNCHANGED <<jar, records, late, store, view, job, again, stream, asked>>

-----------------------------------------------------------------------------
(*                    How a job begins, ends and fails                     *)

SignedOn == jar.live

(* A saved key is used again for the same request; mutations has one slot  *)
(* per operation, and both verdicts on a candidate share theirs.           *)
Slot(op) == CASE op \in {"proposal", "message", "candidate"} -> Proposal
              [] op \in Verdicts -> Verdicts
              [] OTHER -> {op}
Sent(op) == IF op = "proposal" THEN Proposal ELSE {op}
Without(s, op) == [s EXCEPT !.keys = {k \in @ : k.op \notin Slot(op)}]

(* What was asked for is the same when the bodies are.  The body of a       *)
(* proposal names revision and value alone, so a value that was rejected    *)
(* and is proposed again is the old request.                                *)
SavedKeys(op, j) == {k \in store.keys : /\ k.op = op /\ k.round = j.round
                                        /\ k.who = j.target /\ k.about = j.about}

(* A slip: every attempt takes a fresh key.                                *)
FreshKey(op, j) == asked[op] + Cardinality({r \in records : r.op = op})
KeyOf(op, j) == IF SavedKeys(op, j) # {}
                THEN (CHOOSE k \in SavedKeys(op, j) : TRUE).key ELSE asked[op]

Binding(j) ==
    [Without(store, j.op) EXCEPT
        !.keys = @ \cup {[op |-> op, round |-> j.round, who |-> j.target, about |-> j.about,
                          key |-> KeyOf(op, j)] : op \in Sent(j.op)},
        !.retry = @ \/ j.op = "retry-task"]

(* transitionRole: what is left to do for the target role.                 *)
SwitchFrom(s, j) ==
    [j EXCEPT !.do = "switch",
        !.at = CASE s.role = j.target /\ s.pending = "none" -> "status"
                 [] s.role # j.target \/ s.pending # "none" ->
                      IF s.pending # j.target THEN "check" ELSE "revoke"]

Switch(s, target) == SwitchFrom(s, [NoJob EXCEPT !.target = target])

(* recover: what the metadata found in sessionStorage calls for.           *)
Recovery(s) ==
    CASE s = NoStore -> [NoJob EXCEPT !.do = "connect", !.at = "bootstrap", !.target = "advisor"]
      [] s.pending # "none" -> Switch(s, s.pending)
      [] s # NoStore /\ s.pending = "none" /\ s.retry ->
           [NoJob EXCEPT !.do = "recover", !.at = "send", !.op = "retry-task", !.target = s.role,
                !.round = (CHOOSE k \in s.keys : k.op = "retry-task").round]
      [] OTHER -> [NoJob EXCEPT !.do = "recover", !.at = "status", !.target = s.role]

(* recover, from wherever it is called: transitionRole sets retryAction.    *)
Recover(s) == /\ store' = s /\ job' = Recovery(s) /\ UNCHANGED view
              /\ again' = IF Recovery(s).do = "switch" THEN Recovery(s) ELSE NoJob

(* A command that needs another role first binds its keys, then switches.  *)
BeginCommand(j) ==
    /\ store' = Binding(j) /\ again' = j
    /\ job' = CASE j.op # "proposal" -> [j EXCEPT !.at = "send"]
                [] j.op = "proposal" /\ store.role = j.target /\ store.pending = "none" ->
                     [j EXCEPT !.at = "authority"]
                [] OTHER -> SwitchFrom(store, [j EXCEPT !.then = "proposal"])

(* RECOVERABLE_FAILURE, after what handleMutationFailure and recover do to *)
(* the metadata: an expired session clears it, a stale command drops its   *)
(* key and reads again, anything else keeps everything for a repetition.   *)
ShowFailure(s) == /\ view' = Screen("failed", "none") /\ job' = NoJob
                  /\ store' = s /\ stream' = NoStream

(* A proposal goes on when only the reading after its rotation failed.     *)
Rotated == job.then = "proposal" /\ store.role = job.target /\ store.pending = "none"

Fail(code) ==
    CASE job.do = "submit" /\ code = "expired" -> ShowFailure(NoStore) /\ again' = NoJob
      [] job.do = "submit" /\ code = "unavailable" -> ShowFailure(store) /\ again' = NoJob
      [] job.do = "submit" /\ code = "stale" ->
           /\ Recover([Without(store, job.op) EXCEPT !.retry = @ /\ job.op # "retry-task"])
           /\ UNCHANGED stream
      [] job.do = "recover" /\ code = "expired" -> ShowFailure(NoStore) /\ UNCHANGED again
      [] job.do = "recover" /\ code = "stale" ->
           /\ store' = [Without(store, "retry-task") EXCEPT !.retry = FALSE]
           /\ job' = [NoJob EXCEPT !.do = "unwatched", !.at = "status", !.target = store.role]
           /\ UNCHANGED <<view, again, stream>>
      [] job.do = "unwatched" -> job' = NoJob /\ UNCHANGED <<store, view, again, stream>>
      [] job.do = "switch" /\ Rotated ->
           /\ view' = Screen("failed", "none") /\ stream' = NoStream
           /\ job' = [job EXCEPT !.do = "submit", !.at = "authority", !.then = "none"]
           /\ UNCHANGED <<store, again>>
      [] OTHER -> ShowFailure(store) /\ UNCHANGED again

-----------------------------------------------------------------------------
(*                   Sessions: revoke, bootstrap, mint                     *)

ServerQuiet == UNCHANGED <<case, records>>
TabQuiet == UNCHANGED <<store, view, again, stream>>
At(step) == job.at = step
GoTo(step) == job' = [job EXCEPT !.at = step]

(* DELETE session: 401 is as good as done; a mismatch leaves the cookie.   *)
Revoke ==
    /\ At("revoke")
    /\ jar' = IF SignedOn /\ ~store.fits THEN jar ELSE NoSession
    /\ GoTo("bootstrap")
    /\ ServerQuiet /\ TabQuiet /\ UNCHANGED <<late, asked, faults>>

(* The BFF refuses to bootstrap over a cookie, and takes it away.          *)
Bootstrap ==
    /\ At("bootstrap")
    /\ IF jar # NoSession THEN jar' = NoSession /\ Fail("recovery")
       ELSE /\ job' = [job EXCEPT !.at = "mint", !.boot = TRUE]
            /\ TabQuiet /\ UNCHANGED jar
    /\ ServerQuiet /\ UNCHANGED <<late, asked, faults>>

(* With a cookie of another tab this is a rotation without its csrf.       *)
Minted == [role |-> job.target, live |-> TRUE, rival |-> FALSE]

Mint ==
    /\ At("mint")
    /\ CASE jar # NoSession ->
              Fail("expired") /\ jar' = IF SignedOn THEN jar ELSE NoSession
         [] jar = NoSession /\ ~job.boot -> Fail("transport") /\ UNCHANGED jar
         [] OTHER ->
              /\ jar' = Minted /\ GoTo("status")
              /\ store' = IF job.do = "connect" THEN [store EXCEPT !.fits = FALSE]
                          ELSE [store EXCEPT !.role = job.target, !.fits = TRUE,
                                    !.pending = "none",
                                    !.task = IF job.target = "advisor" THEN @ ELSE 0,
                                    !.cursor = IF job.target = "advisor" THEN @ ELSE 0]
              /\ UNCHANGED <<view, again, stream>>
    /\ ServerQuiet /\ UNCHANGED <<late, asked, faults>>

-----------------------------------------------------------------------------
(*                 Reads: loadAuthoritative and its callers                *)

(* The session of a connected-demo read is gone: 401, cookies cleared.     *)
ReadRefused == jar' = NoSession /\ Fail("expired")

(* transitionRole reads the status before it commits to a new role.        *)
Rotation == /\ Phase = "revision_requested"
            /\ {job.target, store.role} \subseteq Participants

CheckRole ==
    /\ At("check")
    /\ IF ~SignedOn THEN ReadRefused
       ELSE /\ UNCHANGED jar
            /\ IF ActiveRole(Phase, jar.role) = job.target \/ Rotation
               THEN /\ store' = [store EXCEPT !.pending = job.target, !.retry = FALSE]
                    /\ GoTo("revoke") /\ UNCHANGED <<view, again, stream>>
               ELSE Fail("transport")
    /\ ServerQuiet /\ UNCHANGED <<late, asked, faults>>

(* Whether the csrf that is now saved belongs to the cookie.               *)
Fits == store.fits \/ (job.do = "connect" /\ ~jar.rival)

(* review and submitRevision show the switch without saving it.            *)
QuietSwitch == job.do = "submit" /\ job.op \in {"request-revision", "new-review", "proposal"}

ReadStatus ==
    /\ At("status")
    /\ CASE ~SignedOn -> ReadRefused
         [] SignedOn /\ job.op = "proposal" /\ job.do = "submit"
                     /\ Phase # "revision_fact_pending" -> Fail("transport") /\ UNCHANGED jar
         [] SignedOn /\ (job.do = "refresh" \/ ActiveRole(Phase, jar.role) = job.target) ->
              /\ job' = [job EXCEPT !.at = "detail", !.seen = Phase, !.task = case.round]
              /\ TabQuiet /\ UNCHANGED jar
         [] OTHER ->
              LET role == ActiveRole(Phase, jar.role)
                  base == IF store.role = job.target THEN store ELSE NoStore
              IN /\ store' = IF QuietSwitch THEN store
                             ELSE [base EXCEPT !.role = job.target, !.pending = role,
                                       !.retry = FALSE, !.fits = Fits]
                 /\ job' = NoJob /\ stream' = NoStream /\ UNCHANGED jar
                 /\ IF job.do = "switch"
                    THEN view' = Screen("failed", "none") /\ UNCHANGED again
                    ELSE view' = Screen("switch", role) /\ again' = NoJob
    /\ ServerQuiet /\ UNCHANGED <<late, asked, faults>>

(* The ledger, the facts or the brief, for the role that reads it.         *)
Readable ==
    CASE job.target = "advisor" -> jar.role = "advisor"
      [] job.seen = "revision_requested" -> jar.role \in Participants
      [] OTHER -> job.target = "parent" /\ Phase \in {"family_review", "plan_ready"}

Consistent == Readable /\ Phase = job.seen /\ case.round = job.task

TaskOnShow == job.target = "advisor" /\ job.seen \in ActivePhases \cup
    {"review_required", "revision_review_required", "terminal_task_failure"}

(* metadataFor: the cursor survives for the same task only.                *)
Metadata ==
    LET task == IF TaskOnShow THEN job.task ELSE 0 IN
    [store EXCEPT !.role = job.target, !.pending = "none", !.task = task,
        !.fits = Fits,
        !.cursor = IF task # 0 /\ store.task = task THEN @ ELSE 0,
        !.retry = @ /\ job.op # "retry-task"]

Follow(s) == IF job.seen \in ActivePhases
             THEN [NoStream EXCEPT !.is = "cut", !.cursor = s.cursor, !.sent = s.cursor]
             ELSE NoStream

Display == [is |-> "show", phase |-> job.seen, round |-> job.task, about |-> OnlyPending]

Loaded ==
    /\ store' = Metadata /\ view' = Display
    /\ stream' = Follow(Metadata)
    /\ IF job.then = "none"
       THEN /\ job' = NoJob
            /\ again' = IF job.do \in {"switch", "submit"} THEN NoJob ELSE again
       ELSE /\ job' = [job EXCEPT !.do = "submit", !.at = "authority", !.then = "none"]
            /\ UNCHANGED again

ReadDetail ==
    /\ At("detail") /\ job.do # "refresh"
    /\ CASE ~SignedOn -> ReadRefused
         [] SignedOn /\ Consistent -> Loaded /\ UNCHANGED jar
         [] OTHER -> Fail("transport") /\ UNCHANGED jar
    /\ ServerQuiet /\ UNCHANGED <<late, asked, faults>>

-----------------------------------------------------------------------------
(*                     The stream of the task on display                   *)

Streaming == view.is = "show" /\ view.phase \in ActivePhases

(* The first page, or the next one: state and maximum of one snapshot.     *)
ReadPage(s) == [s EXCEPT !.is = "open", !.max = case.log, !.closing = ~Working]
(* EventSource (re)connects after its last event; 401, 404 or 409 end it.  *)
OpenStream ==
    /\ Streaming /\ stream.is = "cut"
    /\ stream' = IF SignedOn /\ jar.role = "advisor" /\ stream.cursor <= case.log
                 THEN ReadPage([stream EXCEPT !.sent = stream.cursor])
                 ELSE [stream EXCEPT !.is = "refused"]
    /\ UNCHANGED <<case, jar, records, late, store, view, job, again, asked, faults>>

NextPage ==
    /\ Streaming /\ stream.is = "open"
    /\ stream.sent >= stream.max /\ ~stream.closing
    /\ stream' = ReadPage(stream) /\ stream' # stream
    /\ UNCHANGED <<case, jar, records, late, store, view, job, again, asked, faults>>

EndStream ==
    /\ Streaming /\ stream.is = "open"
    /\ stream.sent >= stream.max /\ stream.closing
    /\ stream' = [stream EXCEPT !.is = "cut"]
    /\ UNCHANGED <<case, jar, records, late, store, view, job, again, asked, faults>>

(* An event wakes the refresh, or tells the running one to go round again. *)
Refresh == [NoJob EXCEPT !.do = "refresh", !.at = "status", !.target = "advisor"]
(* A slip: an event that finds a refresh running is dropped.               *)
NotPending == FALSE
Pending == stream.wake \/ job.do = "refresh"

DeliverEvent ==
    /\ Streaming /\ stream.is = "open" /\ stream.sent < stream.max
    /\ stream' = [stream EXCEPT !.sent = @ + 1, !.cursor = stream.sent + 1, !.wake = Pending]
    /\ job' = IF job = NoJob THEN Refresh ELSE job
    /\ UNCHANGED <<case, jar, records, late, store, view, again, asked, faults>>

(* readConsistentAuthority: three attempts at one answer from two reads.   *)
ReadRefreshed ==
    /\ At("detail") /\ job.do = "refresh"
    /\ CASE ~SignedOn -> ReadRefused
         [] SignedOn /\ Consistent -> GoTo("apply") /\ TabQuiet /\ UNCHANGED jar
         [] SignedOn /\ ~Consistent /\ Readable /\ job.tries < 2 ->
              /\ job' = [job EXCEPT !.at = "status", !.tries = @ + 1]
              /\ TabQuiet /\ UNCHANGED jar
         [] OTHER -> Fail("transport") /\ UNCHANGED jar
    /\ ServerQuiet /\ UNCHANGED <<late, asked, faults>>

(* The answer is shown; a settled task is then loaded like any phase.      *)
Refreshed ==
    /\ At("apply")
    /\ store' = [Metadata EXCEPT !.cursor = IF @ > stream.cursor THEN @ ELSE stream.cursor]
    /\ view' = Display
    /\ job' = CASE job.seen \notin ActivePhases -> [Refresh EXCEPT !.do = "unwatched"]
                [] job.seen \in ActivePhases /\ stream.wake -> Refresh
                [] OTHER -> NoJob
    /\ stream' = IF job.seen \in ActivePhases THEN [stream EXCEPT !.wake = FALSE] ELSE NoStream
    /\ ServerQuiet /\ UNCHANGED <<jar, again, late, asked, faults>>

-----------------------------------------------------------------------------
(*                               Commands                                  *)

(* submitRevision reads the status and the facts before it sends.          *)
Authority ==
    /\ At("authority")
    /\ CASE ~SignedOn -> ReadRefused
         [] SignedOn /\ case.rev # 1 -> Fail("stale") /\ UNCHANGED jar
         [] SignedOn /\ case.rev = 1 /\ jar.role \notin Participants ->
              Fail("transport") /\ UNCHANGED jar
         [] OTHER -> GoTo("message") /\ TabQuiet /\ UNCHANGED jar
    /\ ServerQuiet /\ UNCHANGED <<late, asked, faults>>

AtSend == job.at \in {"send"} \cup Proposal
Request == LET op == IF job.at = "send" THEN job.op ELSE job.at IN
    [op |-> op, key |-> KeyOf(op, job), round |-> job.round, about |-> job.about,
     as |-> store.role, by |-> jar.role]

(* A mutation is signed by the cookie and the csrf token together.         *)
(* A slip: by the cookie alone.                                            *)
AuthorisedByCookie == SignedOn
Authorised == SignedOn /\ store.fits

(* verifyRevision looks the candidate up again before it sends.            *)
Shown(q) == q.op \in Verdicts => Known(q) \/ (Current(q) /\ OnlyPending = q.about)
Answered == TabQuiet /\ GoTo(IF job.at = "message" THEN "candidate" ELSE "status")

Send ==
    /\ AtSend
    /\ LET q == Request IN
       CASE ~Authorised -> Fail("expired") /\ ServerQuiet
         [] Authorised /\ Accepted(q) /\ Shown(q) -> Commit(q) /\ Answered
         [] Authorised /\ Known(q) -> Answered /\ ServerQuiet
         [] Authorised /\ ~Known(q) /\ ~Shown(q) ->
              GoTo("status") /\ again' = NoJob /\ ServerQuiet /\ UNCHANGED <<store, view, stream>>
         [] Authorised /\ ~Known(q) /\ Shown(q) /\ ~MayCommit(q.op, q.by) ->
              Fail("transport") /\ ServerQuiet
         [] /\ Authorised /\ ~Known(q) /\ Shown(q)
            /\ MayCommit(q.op, q.by) /\ Current(q) /\ ~Founded(q) ->
              Fail("unavailable") /\ ServerQuiet
         [] OTHER -> Fail("stale") /\ ServerQuiet
    /\ UNCHANGED <<jar, late, asked, faults>>

(* A command that was given up reaches the database after all.             *)
ServeLate ==
    /\ \E q \in late :
          /\ late' = late \ {q}
          /\ IF Accepted(q) THEN Commit(q) ELSE ServerQuiet
    /\ UNCHANGED <<jar, store, view, job, again, stream, asked, faults>>

-----------------------------------------------------------------------------
(*                          What the person does                           *)

Idle == job = NoJob /\ ServerQuiet /\ UNCHANGED <<jar, late>>

Connect ==
    /\ Idle /\ view.is = "start"
    /\ job' = Recovery(NoStore)
    /\ TabQuiet /\ UNCHANGED <<asked, faults>>

Begin(j) == job' = j /\ again' = j /\ UNCHANGED <<store, view, stream, asked>>

Rotate ==
    /\ Idle /\ view.is = "switch" /\ store # NoStore /\ store.role # view.phase
    /\ Begin(Switch(store, view.phase)) /\ UNCHANGED faults

Detour == faults < MaxFaults /\ faults' = faults + 1

(* prepareRevisionFact, for the fact of the other participant.             *)
Prepare ==
    /\ Idle /\ Detour /\ view = [view EXCEPT !.is = "show", !.phase = "revision_requested"]
    /\ \E role \in Participants \ {store.role} : Begin(Switch(store, role))

Offered(phase) ==
    CASE phase \in {"task_ready", "replan_required"} -> {"create-task"}
      [] phase = "terminal_task_failure" -> {"retry-task"}
      [] phase = "review_required" -> {"request-revision", "new-review"}
      [] phase = "revision_review_required" -> {"new-review"}
      [] phase = "revision_requested" -> {"proposal"}
      [] phase = "revision_fact_pending" ->
           CASE view.about = "none" -> {}
             [] view.about \in Rejectable -> Verdicts
             [] OTHER -> {"confirm"}
      [] phase = "family_review" -> {"family-decision"}
      [] OTHER -> {}

(* The keys in hand are those of a candidate that was rejected.            *)
Spent == Phase = "revision_requested"
         /\ \E k \in store.keys : k.op = "candidate" /\ Known(k)

(* A proposal is the student's or the parent's: another one than before is *)
(* a detour unless the one before was rejected, and so is a rejection.     *)
ChangedMind(j) == ~Spent /\ \E k \in store.keys : k.op = "message" /\ k.about # j.about

Submission(op, kind) ==
    IF op = "proposal"
    THEN [NoJob EXCEPT !.do = "submit", !.op = op, !.target = ParticipantFor(kind), !.about = kind]
    ELSE [NoJob EXCEPT !.do = "submit", !.op = op, !.target = store.role,
                       !.round = view.round,
                       !.about = IF op \in Verdicts THEN view.about ELSE "none"]

Submit ==
    /\ Idle /\ view.is = "show" /\ store # NoStore
    /\ \E op \in Offered(view.phase), kind \in Kinds :
          LET j == Submission(op, kind) IN
          /\ IF op = "reject" \/ (op = "proposal" /\ ChangedMind(j)) THEN Detour
             ELSE UNCHANGED faults
          /\ asked' = [o \in Commands |-> IF o \in Sent(op) /\ SavedKeys(o, j) = {}
                                          THEN asked[o] + 1 ELSE asked[o]]
          /\ BeginCommand(j)
    /\ UNCHANGED <<view, stream>>

(* The reconnect button: retryAction, or recover.                          *)
Retry ==
    /\ Idle /\ view.is = "failed"
    /\ CASE again.do = "submit" -> BeginCommand(again)
         [] again.do = "switch" -> job' = SwitchFrom(store, again) /\ UNCHANGED <<store, again>>
         [] OTHER -> /\ job' = Recovery(store) /\ UNCHANGED store
                     /\ again' = IF Recovery(store).do = "switch" THEN Recovery(store) ELSE again
    /\ UNCHANGED <<view, stream, asked, faults>>

(* A reload keeps sessionStorage and the cookie, and recovers from them.   *)
Restart(s) ==
    /\ store' = s /\ view' = Screen("start", "none") /\ stream' = NoStream
    /\ job' = IF s = NoStore THEN NoJob ELSE Recovery(s)
    /\ again' = IF s # NoStore /\ Recovery(s).do = "switch" THEN Recovery(s) ELSE NoJob

(* The page failed, lost its stream, or shows nothing to press.            *)
Stuck == /\ job = NoJob
         /\ \/ view.is = "failed" \/ stream.is = "refused"
            \/ /\ view.is = "show" /\ Offered(view.phase) = {}
               /\ view.phase \notin ActivePhases \cup {"plan_ready"}

Reload ==
    /\ IF Stuck THEN UNCHANGED faults ELSE Detour
    /\ Restart(store)
    /\ late' = late \/ (AtSend /\ Authorised /\ late' = late \cup {Request})
    /\ ServerQuiet /\ UNCHANGED <<jar, asked>>

-----------------------------------------------------------------------------
(*                     Faults, and what other tabs do                      *)

(* 503 or 504 before the server acted; the command may be served later.    *)
LoseRequest ==
    /\ job # NoJob /\ ~At("apply") /\ Detour /\ Fail("transport")
    /\ late' = late \/ (AtSend /\ Authorised /\ late' = late \cup {Request})
    /\ ServerQuiet /\ UNCHANGED <<jar, asked>>

(* After the server acted.  Of a mint the session is lost with the answer. *)
LoseAnswer ==
    /\ Detour /\ Fail("transport")
    /\ \/ AtSend /\ Authorised /\ Accepted(Request) /\ Commit(Request) /\ UNCHANGED jar
       \/ /\ At("revoke") /\ SignedOn /\ store.fits
          /\ jar' = [jar EXCEPT !.live = FALSE] /\ ServerQuiet
    /\ UNCHANGED <<late, asked>>

(* The browser took the new cookie, and the page is gone.                  *)
GoneAfterMint ==
    /\ At("mint") /\ jar = NoSession /\ job.boot /\ Detour
    /\ jar' = Minted /\ Restart([store EXCEPT !.fits = FALSE])
    /\ ServerQuiet /\ UNCHANGED <<late, asked>>

Expire ==
    /\ SignedOn /\ (jar.rival \/ faults < MaxFaults)
    /\ jar' = [jar EXCEPT !.live = FALSE]
    /\ faults' = IF jar.rival THEN faults ELSE faults + 1
    /\ UNCHANGED <<case, records, late, store, view, job, again, stream, asked>>

(* Another tab rotates the cookie, or loses it to its own bootstrap.       *)
Rival ==
    /\ Detour
    /\ jar' \in {[role |-> role, live |-> TRUE, rival |-> TRUE] :
                    role \in Participants \cup {"advisor"}} \cup {NoSession}
    /\ jar' # jar
    /\ store' = [store EXCEPT !.fits = FALSE] /\ job' = [job EXCEPT !.boot = FALSE]
    /\ UNCHANGED <<case, records, late, view, again, stream, asked>>

BreakStream ==
    /\ Detour /\ Streaming
    /\ \/ stream.is = "open" /\ stream' = [stream EXCEPT !.is = "cut"]
       \/ stream.is = "cut" /\ stream' = [stream EXCEPT !.is = "refused"]
    /\ UNCHANGED <<case, jar, records, late, store, view, job, again, asked>>

-----------------------------------------------------------------------------
TabStep == \/ Revoke \/ Bootstrap \/ Mint \/ CheckRole \/ ReadStatus \/ ReadDetail
           \/ ReadRefreshed \/ Refreshed \/ Authority \/ Send
StreamStep == OpenStream \/ NextPage \/ EndStream \/ DeliverEvent
Click == Connect \/ Rotate \/ Submit \/ Retry
Fault == \/ LoseRequest \/ LoseAnswer \/ GoneAfterMint \/ Rival \/ BreakStream
         \/ Expire \/ Prepare \/ ServeLate

JourneyNext == Progress \/ Settle \/ TabStep \/ StreamStep \/ Click \/ Reload \/ Fault

(* The worker goes on, the browser goes on, the person presses what is on  *)
(* the screen and at last reloads a page that fails, and a foreign session *)
(* expires in its thirty minutes.                                          *)
JourneyFairness ==
    /\ WF_journeyVars(Progress \/ Settle) /\ WF_journeyVars(TabStep) /\ WF_journeyVars(StreamStep)
    /\ WF_journeyVars(Click) /\ SF_journeyVars(Reload /\ Stuck) /\ WF_journeyVars(Expire /\ jar.rival)

JourneySpec == JourneyInit /\ [][JourneyNext]_journeyVars /\ JourneyFairness

-----------------------------------------------------------------------------
(* Whatever is lost, repeated, reloaded or served late, no command is      *)
(* committed more often than the person asked for it, and none is signed   *)
(* by another role than the tab acted for: saved keys and the csrf token   *)
(* hold this together, across tabs that share one cookie.                  *)
ActsAsMeant ==
    /\ \A r \in records : r.by = r.as
    /\ \A op \in Commands : Cardinality({r \in records : r.op = op}) <= asked[op]

=============================================================================
