-------------------------- MODULE TimelineExecution --------------------------
(***************************************************************************)
(* The execution of one accepted timeline plan: its checkpoints, what the  *)
(* family attests, what the advisor verifies, and the hand-over when a     *)
(* checkpoint is blocked or overdue.  The handlers are the functions of    *)
(* migration 0014.  Each locks the execution row first (start: the unique  *)
(* index on the plan), looks the idempotency key up, and only then checks  *)
(* state and versions, so a handler is one action.                         *)
(*                                                                         *)
(* A command is the request body of one caller.  The body contains the     *)
(* versions its author saw, so the same caller with the same body is the   *)
(* same idempotency key.  A call is a command under way: it carries the    *)
(* time at which the function was entered, before it waits for the lock.   *)
(***************************************************************************)
EXTENDS Naturals, Sequences, FiniteSets

CONSTANTS
    Students, Parents, Advisors,  \* the assigned participants, one caller each
    Milestones                    \* how many checkpoints a plan has; 4 in the code

ASSUME MilestonesAssumption == Milestones \in Nat \ {0}
ASSUME RolesAssumption == /\ Students \cap Parents = {}
                          /\ (Students \cup Parents) \cap Advisors = {}

VARIABLES
    execution,       \* timeline_executions: state and row_version
    checkpoints,     \* timeline_checkpoints by ordinal: state and row_version
    attestations,    \* timeline_checkpoint_attestations in commit order
    verifications,   \* timeline_checkpoint_verifications in commit order
    reassessments,   \* timeline_reassessment_requests
    receipts,        \* timeline_mutation_receipts with their idempotency_records
    today            \* CURRENT_DATE, as the number of due dates that have passed

timelineVars == <<execution, checkpoints, attestations, verifications,
                  reassessments, receipts>>

-----------------------------------------------------------------------------
Ordinals == 1 .. Milestones
Callers == Students \cup Parents \cup Advisors
Family == Students \cup Parents
Accountable(i) == IF i = Milestones THEN Parents ELSE Students

CheckpointStates == {"pending", "in_progress", "awaiting_advisor", "verified", "blocked"}
AttestationKinds == {"progress", "completion", "blocked"}
VerificationActions == {"verify", "request_update"}
Triggers == {"blocked_attestation", "deadline_elapsed"}
NoReference == 0

Open == {i \in Ordinals : checkpoints[i].state \notin {"pending", "verified"}}

TimelineInit ==
    /\ execution = [state |-> "none", version |-> 0]
    /\ checkpoints = [i \in Ordinals |-> [state |-> "pending", version |-> 0]]
    /\ attestations = << >>
    /\ verifications = << >>
    /\ reassessments = << >>
    /\ receipts = << >>
    /\ today = 0

-----------------------------------------------------------------------------
(*                               Commands                                  *)

StartCommand(c) ==
    [op |-> "start", by |-> c, cp |-> 0, ev |-> 0, cv |-> 0, what |-> "start", ref |-> NoReference]

(* A command on checkpoint i for somebody who saw the versions ev and cv.  *)
Command(c, op, i, ev, cv, what, ref) ==
    [op |-> op, by |-> c, cp |-> i, ev |-> ev, cv |-> cv, what |-> what, ref |-> ref]

(* v_now is read when the function is entered, before the lock.  It        *)
(* matters only to order attestations, and is counted in attestations      *)
(* committed by then: equal counts leave the order open.                   *)
EntryTime(cmd) == IF cmd.op = "attest" THEN Len(attestations) ELSE 0

(* CURRENT_DATE is that of the start of the transaction.                   *)
EntryDay(cmd) == IF cmd.what = "deadline_elapsed" THEN today ELSE 0

Done(cmd) == \E i \in DOMAIN receipts : receipts[i].cmd = cmd

-----------------------------------------------------------------------------
(*                                Checks                                   *)

(* The one open checkpoint of an active execution is the one addressed.    *)
AtCurrent(cmd) == execution.state = "active" /\ Open = {cmd.cp}

(* A slip: no optimistic lock.                                             *)
VersionsIgnored(cmd) == cmd.ev > 0
VersionsMatch(cmd) ==
    /\ execution.version = cmd.ev
    /\ checkpoints[cmd.cp].version = cmd.cv

Fresh(cmd) == AtCurrent(cmd) /\ VersionsMatch(cmd)

(* ORDER BY created_at DESC LIMIT 1: of equal times either may come first. *)
Latest(i, kinds) ==
    LET candidates == {a \in DOMAIN attestations :
                          attestations[a].cp = i /\ attestations[a].kind \in kinds}
    IN  {a \in candidates : \A b \in candidates : attestations[b].at <= attestations[a].at}

MayStart == execution.state = "none"

(* A slip: the family may attest whatever the checkpoint is doing.         *)
AttestAnytime(cmd) == Fresh(cmd) /\ cmd.by \in Accountable(cmd.cp)

MayAttest(cmd) ==
    /\ Fresh(cmd)
    /\ checkpoints[cmd.cp].state = "in_progress"
    /\ cmd.by \in Accountable(cmd.cp)

(* A slip: the latest completion will do, handed back or not.              *)
VerifyUnasked(cmd) == Fresh(cmd) /\ cmd.ref \in Latest(cmd.cp, {"completion"})

MayVerify(cmd) ==
    /\ Fresh(cmd)
    /\ checkpoints[cmd.cp].state = "awaiting_advisor"
    /\ cmd.ref \in Latest(cmd.cp, {"completion"})

(* A slip: any attestation is proof of a blocked checkpoint.               *)
BlockedByAny(cmd) ==
    /\ cmd.what = "blocked_attestation"
    /\ checkpoints[cmd.cp].state = "blocked"

BlockedProof(cmd) ==
    /\ cmd.what = "blocked_attestation"
    /\ checkpoints[cmd.cp].state = "blocked"
    /\ cmd.ref \in Latest(cmd.cp, AttestationKinds)
    /\ attestations[cmd.ref].kind = "blocked"

DeadlineProof(call) ==
    /\ call.cmd.what = "deadline_elapsed"
    /\ call.cmd.ref = NoReference
    /\ call.day >= call.cmd.cp

MayReassess(call) == Fresh(call.cmd) /\ (BlockedProof(call.cmd) \/ DeadlineProof(call))

(* The codes the browser takes for staleness: NV020 to NV023.              *)
RefusedAsStale(cmd) ==
    IF cmd.op = "start" THEN ~MayStart
    ELSE execution.state = "completed" \/ (execution.state = "active" /\ ~Fresh(cmd))

Accepted(call) ==
    CASE call.cmd.op = "start" -> MayStart
      [] call.cmd.op = "attest" -> MayAttest(call.cmd)
      [] call.cmd.op = "verify" -> MayVerify(call.cmd)
      [] call.cmd.op = "reassess" -> MayReassess(call)

-----------------------------------------------------------------------------
(*                               Handlers                                  *)

(* The receipt computes its versions from the expected ones.               *)
Receive(cmd, cpAfter) ==
    receipts' = Append(receipts, [cmd |-> cmd, after |-> cmd.ev + 1, cpAfter |-> cpAfter])

AdvanceExecution(state) ==
    execution' = [state |-> state, version |-> execution.version + 1]

Moved(i, state) == [state |-> state, version |-> checkpoints[i].version + 1]

Start(call) ==
    /\ checkpoints' = [i \in Ordinals |->
           [state |-> IF i = 1 THEN "in_progress" ELSE "pending", version |-> 1]]
    /\ AdvanceExecution("active")
    /\ Receive(call.cmd, 0)
    /\ UNCHANGED <<attestations, verifications, reassessments>>

AttestedState(kind) ==
    CASE kind = "progress" -> "in_progress"
      [] kind = "completion" -> "awaiting_advisor"
      [] kind = "blocked" -> "blocked"

Attest(call) ==
    LET cmd == call.cmd IN
    /\ attestations' = Append(attestations, [cp |-> cmd.cp, kind |-> cmd.what, at |-> call.at])
    /\ checkpoints' = [checkpoints EXCEPT ![cmd.cp] = Moved(cmd.cp, AttestedState(cmd.what))]
    /\ AdvanceExecution("active")
    /\ Receive(cmd, cmd.cv + 1)
    /\ UNCHANGED <<verifications, reassessments>>

(* A slip: an update request leaves the checkpoint with the advisor.       *)
JudgedOrKept(action) == IF action = "verify" THEN "verified" ELSE "awaiting_advisor"
JudgedState(action) == IF action = "verify" THEN "verified" ELSE "in_progress"

Opens(cmd, i) ==
    /\ cmd.what = "verify"
    /\ i = cmd.cp + 1
    /\ checkpoints[i].state = "pending"

AfterVerification(cmd) ==
    [i \in Ordinals |->
        IF i = cmd.cp THEN Moved(i, JudgedState(cmd.what))
        ELSE IF Opens(cmd, i) THEN Moved(i, "in_progress") ELSE checkpoints[i]]

Verify(call) ==
    LET cmd == call.cmd IN
    /\ verifications' = Append(verifications, [attestation |-> cmd.ref, action |-> cmd.what])
    /\ checkpoints' = AfterVerification(cmd)
    /\ AdvanceExecution(IF cmd.what = "verify" /\ cmd.cp = Milestones
                        THEN "completed" ELSE "active")
    /\ Receive(cmd, cmd.cv + 1)
    /\ UNCHANGED <<attestations, reassessments>>

HandOver(cmd) ==
    /\ reassessments' = Append(reassessments, [cp |-> cmd.cp, trigger |-> cmd.what, ref |-> cmd.ref])
    /\ UNCHANGED <<checkpoints, attestations, verifications>>

(* A slip: the receipt counts a checkpoint step.                           *)
ReassessMiscounted(call) ==
    /\ HandOver(call.cmd)
    /\ AdvanceExecution("reassessment_required")
    /\ Receive(call.cmd, call.cmd.cv + 1)
Reassess(call) ==
    /\ HandOver(call.cmd)
    /\ AdvanceExecution("reassessment_required")
    /\ Receive(call.cmd, call.cmd.cv)

Write(call) ==
    \/ call.cmd.op = "start" /\ Start(call)
    \/ call.cmd.op = "attest" /\ Attest(call)
    \/ call.cmd.op = "verify" /\ Verify(call)
    \/ call.cmd.op = "reassess" /\ Reassess(call)

-----------------------------------------------------------------------------
(*                           The three outcomes                            *)

(* The key is known: the original receipt, whatever happened since.        *)
Replay(call) == Done(call.cmd) /\ UNCHANGED timelineVars

Accept(call) == ~Done(call.cmd) /\ Accepted(call) /\ Write(call)

(* A slip: state and versions are judged before the key is looked up.      *)
RefuseFirst(call) == ~Accepted(call) /\ UNCHANGED timelineVars
Refuse(call) == ~Done(call.cmd) /\ ~Accepted(call) /\ UNCHANGED timelineVars

(* A day passes on which the next due date falls.                          *)
DueDatePasses ==
    /\ today < Milestones
    /\ today' = today + 1
    /\ UNCHANGED timelineVars
=============================================================================
