--------------------------- MODULE TimelineProofs ----------------------------
(***************************************************************************)
(* The invariants of the plan's execution for any participants, any number *)
(* of milestones, and any number of calls under way.  Every accepted       *)
(* command raises the version, and no command knows a version before it    *)
(* exists: that is what makes a refusal final and orders the attestations. *)
(***************************************************************************)
EXTENDS TimelineRefinement, PlanExecutionTabs, SequenceTheorems, FiniteSetTheorems, TLAPS

(* What holds of a command from the moment it is composed.                 *)
Composed(cmd) ==
    /\ cmd \in Bodies
    /\ cmd.op = "start" => cmd.cp = 0
    /\ cmd.op = "attest" => cmd.what \in AttestationKinds
    /\ cmd.op = "verify" => cmd.what \in VerificationActions
    /\ cmd.ev <= execution.version

(* The execution rows against one another.                                 *)
RowsAgree ==
    /\ execution.state = "reassessment_required" <=> reassessments # << >>
    /\ execution.state = "none" => \A i \in Ordinals : checkpoints[i].state = "pending"

TypeInv ==
    /\ TypeOK
    /\ RowsAgree
    /\ \A call \in calls : Composed(call.cmd) /\ call.day <= today

(* Nothing is composed, recorded or under way at the start.                *)
LEMMA InitTypes == Init => TypeInv
<1> SUFFICES ASSUME Init PROVE TypeInv
  OBVIOUS
<1>1. TypeOK
  BY MilestonesAssumption, EmptySeq DEF Init, TimelineInit, TypeOK, CheckpointStates
<1>2. RowsAgree
  BY DEF Init, TimelineInit, RowsAgree
<1> QED BY <1>1, <1>2 DEF Init, TypeInv

(* A command composed from a read has the shape of a body.                 *)
LEMMA CommandsComposed ==
  ASSUME TypeOK, NEW cmd \in Commands
  PROVE  Composed(cmd)
<1> USE DEF Composed, Bodies, Callers, Family, Triggers, NoReference
<1>1. execution.version \in Nat /\ 0 \in Nat /\ 0 <= execution.version
  BY DEF TypeOK
<1>2. ASSUME NEW c \in Family, cmd = StartCommand(c)
      PROVE  Composed(cmd)
  BY <1>1, <1>2 DEF StartCommand
<1>3. ASSUME NEW callers \in SUBSET Callers, NEW op, NEW whats, NEW refs \in SUBSET Nat,
             \/ op = "attest" /\ whats \subseteq AttestationKinds
             \/ op = "verify" /\ whats \subseteq VerificationActions
             \/ op = "reassess" /\ whats \subseteq Triggers,
             cmd \in OnOpen(callers, op, whats, refs)
      PROVE  Composed(cmd)
  <2>1. PICK c \in callers, i \in Open, what \in whats, ref \in refs :
            cmd = Command(c, op, i, execution.version, checkpoints[i].version, what, ref)
    BY <1>3 DEF OnOpen
  <2>2. i \in Ordinals /\ checkpoints[i].version \in Nat
    BY DEF TypeOK, Open
  <2>3. cmd = [op |-> op, by |-> c, cp |-> i, ev |-> execution.version,
               cv |-> checkpoints[i].version, what |-> what, ref |-> ref]
    BY <2>1 DEF Command
  <2> QED BY <1>1, <1>3, <2>2, <2>3
<1>4. DOMAIN attestations \subseteq Nat /\ {NoReference} \subseteq Nat
  BY LenProperties DEF TypeOK
<1>5. CASE execution.state = "none"
  BY <1>2, <1>5 DEF Commands
<1>6. CASE execution.state # "none"
  <2> DEFINE known == {a \in DOMAIN attestations : attestations[a].cp \in Open}
  <2>1. known \subseteq Nat /\ Family \subseteq Callers /\ Advisors \subseteq Callers
    BY <1>4
  <2>2. CASE cmd \in OnOpen(Family, "attest", AttestationKinds, {NoReference})
    BY <1>3, <1>4, <2>1, <2>2
  <2>3. CASE cmd \in OnOpen(Advisors, "verify", VerificationActions, known)
    BY <1>3, <2>1, <2>3
  <2>4. CASE cmd \in OnOpen(Advisors, "reassess", {"blocked_attestation"}, known)
    BY <1>3, <2>1, <2>4
  <2>5. CASE cmd \in OnOpen(Advisors, "reassess", {"deadline_elapsed"}, {NoReference})
    BY <1>3, <1>4, <2>1, <2>5
  <2> QED BY <1>6, <2>2, <2>3, <2>4, <2>5 DEF Commands
<1> QED BY <1>5, <1>6

(* Entering the function gives a well-formed call.                         *)
LEMMA CallTyped ==
  ASSUME TypeOK, NEW cmd \in Bodies, NEW told \in BOOLEAN
  PROVE  /\ CallOf(cmd, told) \in [cmd : Bodies, at : Nat, day : 0 .. Milestones, told : BOOLEAN]
         /\ CallOf(cmd, told).cmd = cmd
         /\ CallOf(cmd, told).day <= today
         /\ CallOf(cmd, told).told = told
         /\ cmd.op = "attest" => CallOf(cmd, told).at = Len(attestations)
<1>1. EntryTime(cmd) \in Nat
  BY LenProperties DEF EntryTime, TypeOK
<1>2. EntryDay(cmd) \in 0 .. Milestones /\ EntryDay(cmd) <= today
  BY MilestonesAssumption DEF EntryDay, TypeOK
<1> QED BY <1>1, <1>2 DEF CallOf, EntryTime

-----------------------------------------------------------------------------
(*                     Every step, in two views                            *)

(* A call after a step was under way before it, perhaps told more by the   *)
(* refusal of a copy, ...                                                  *)
Kept(after) ==
    \E before \in calls :
        /\ after = [before EXCEPT !.told = after.told]
        /\ after.told \in BOOLEAN
        /\ after.told => \/ before.told
                         \/ \E call \in calls : Refuse(call) /\ call.cmd = before.cmd

(* ... or it enters, new or repeated, in a step that touches no row.       *)
Entered(after) ==
    /\ UNCHANGED <<timelineVars, today>>
    /\ \/ \E before \in calls : after = CallOf(before.cmd, before.told)
       \/ \E cmd \in Commands : after = CallOf(cmd, FALSE)

LEMMA CallsOfStep ==
  ASSUME TypeOK, [Next]_vars, NEW after \in calls'
  PROVE  Kept(after) \/ Entered(after)
<1>1. \A call \in calls : call = [call EXCEPT !.told = call.told] /\ call.told \in BOOLEAN
  BY DEF TypeOK
<1>2. ASSUME after \in calls
      PROVE  Kept(after)
  BY <1>1, <1>2 DEF Kept
<1>3. CASE Issue
  <2>1. PICK cmd \in Commands : calls' = calls \cup {CallOf(cmd, FALSE)}
    BY <1>3 DEF Issue
  <2> QED BY <1>2, <1>3, <2>1 DEF Issue, Entered
<1>4. CASE Repeat
  <2>1. PICK call \in calls : \E kept \in SUBSET {call} :
            calls' = (calls \ {call}) \cup kept \cup {CallOf(call.cmd, call.told)}
    BY <1>4 DEF Repeat
  <2> QED BY <1>2, <1>4, <2>1 DEF Repeat, Entered
<1>5. CASE Lose
  BY <1>2, <1>5 DEF Lose
<1>6. CASE ServeReplay \/ ServeAccept
  BY <1>2, <1>6 DEF ServeReplay, ServeAccept, Answer
<1>7. CASE ServeRefuse
  <2>1. PICK call \in calls : \E left \in SUBSET {call}, heard \in BOOLEAN :
            /\ Refuse(call)
            /\ calls' = {[other EXCEPT !.told = @ \/ (heard /\ other.cmd = call.cmd)] :
                             other \in (calls \ {call}) \cup left}
    BY <1>7 DEF ServeRefuse
  <2>2. PICK before \in calls, heard \in BOOLEAN :
            after = [before EXCEPT !.told = @ \/ (heard /\ before.cmd = call.cmd)]
    BY <2>1
  <2>3. after.told <=> before.told \/ (heard /\ before.cmd = call.cmd)
    BY <2>2 DEF TypeOK
  <2>4. after = [before EXCEPT !.told = after.told] /\ after.told \in BOOLEAN
    BY <2>2 DEF TypeOK
  <2> QED BY <2>1, <2>3, <2>4 DEF Kept
<1>8. CASE DatePasses \/ UNCHANGED vars
  BY <1>2, <1>8 DEF DatePasses, vars
<1> QED BY <1>3, <1>4, <1>5, <1>6, <1>7, <1>8 DEF Next

(* Seen by the server, a step accepts one call or touches no row.          *)
LEMMA RowsOfStep ==
  ASSUME TypeOK, [Next]_vars
  PROVE  \/ UNCHANGED timelineVars /\ today <= today' /\ today' \in 0 .. Milestones
         \/ today' = today /\ \E call \in calls : Accept(call)
<1>1. today \in Nat /\ Milestones \in Nat /\ today <= Milestones
  BY MilestonesAssumption DEF TypeOK
<1>2. ASSUME UNCHANGED timelineVars, today' = today
      PROVE  UNCHANGED timelineVars /\ today <= today' /\ today' \in 0 .. Milestones
  BY <1>1, <1>2
<1>3. CASE Issue \/ Repeat \/ Lose \/ ServeReplay \/ ServeRefuse \/ UNCHANGED vars
  <2>1. UNCHANGED timelineVars
    BY <1>3 DEF Issue, Repeat, Lose, ServeReplay, ServeRefuse, Replay, Refuse, vars
  <2>2. today' = today
    BY <1>3 DEF Issue, Repeat, Lose, ServeReplay, ServeRefuse, Answer, vars
  <2> QED BY <1>2, <2>1, <2>2
<1>4. CASE ServeAccept
  BY <1>4 DEF ServeAccept, Answer
<1>5. CASE DatePasses
  BY <1>1, <1>5 DEF DatePasses, DueDatePasses
<1> QED BY <1>3, <1>4, <1>5 DEF Next

-----------------------------------------------------------------------------
(*                          Accepted commands                              *)

(* Which command is accepted, what was checked, and what it writes.        *)
LEMMA AcceptCases ==
  ASSUME TypeInv, NEW call \in calls, Accept(call)
  PROVE  /\ Composed(call.cmd)
         /\ call.day <= today
         /\ \/ call.cmd.op = "start" /\ MayStart /\ Start(call)
            \/ call.cmd.op = "attest" /\ MayAttest(call.cmd) /\ Attest(call)
            \/ call.cmd.op = "verify" /\ MayVerify(call.cmd) /\ Verify(call)
            \/ call.cmd.op = "reassess" /\ MayReassess(call) /\ Reassess(call)
<1>1. Composed(call.cmd) /\ call.day <= today
  BY DEF TypeInv
<1>2. Accepted(call) /\ Write(call)
  BY DEF Accept
<1>3. CASE call.cmd.op = "start" /\ Start(call)
  BY <1>1, <1>2, <1>3 DEF Accepted
<1>4. CASE call.cmd.op = "attest" /\ Attest(call)
  BY <1>1, <1>2, <1>4 DEF Accepted
<1>5. CASE call.cmd.op = "verify" /\ Verify(call)
  BY <1>1, <1>2, <1>5 DEF Accepted
<1>6. CASE call.cmd.op = "reassess" /\ Reassess(call)
  BY <1>1, <1>2, <1>6 DEF Accepted
<1> QED BY <1>2, <1>3, <1>4, <1>5, <1>6 DEF Write

(* Every accepted command counts once and leaves its receipt.              *)
LEMMA AcceptCounts ==
  ASSUME TypeInv, NEW call \in calls, Accept(call)
  PROVE  /\ execution' \in [state : {"active", "reassessment_required", "completed"}, version : Nat]
         /\ execution'.version = execution.version + 1
         /\ \E cpAfter \in Nat : Receive(call.cmd, cpAfter)
<1>1. /\ call.cmd.ev \in Nat /\ call.cmd.cv \in Nat /\ call.cmd.cv + 1 \in Nat /\ 0 \in Nat
      /\ execution.version \in Nat
  BY DEF TypeInv, TypeOK, Bodies
<1>2. \E state \in {"active", "reassessment_required", "completed"} : AdvanceExecution(state)
  BY AcceptCases DEF Start, Attest, Verify, Reassess
<1>3. \E cpAfter \in Nat : Receive(call.cmd, cpAfter)
  BY <1>1, AcceptCases DEF Start, Attest, Verify, Reassess
<1> QED BY <1>1, <1>2, <1>3 DEF AdvanceExecution

(* The receipts after an accepted command.                                 *)
LEMMA AcceptReceipts ==
  ASSUME TypeInv, NEW call \in calls, Accept(call)
  PROVE  /\ receipts' \in Seq([cmd : Bodies, after : Nat, cpAfter : Nat])
         /\ \A cmd : Done(cmd)' <=> Done(cmd) \/ cmd = call.cmd
<1> DEFINE R == [cmd : Bodies, after : Nat, cpAfter : Nat]
<1>1. PICK cpAfter \in Nat : Receive(call.cmd, cpAfter)
  BY AcceptCounts
<1> DEFINE new == [cmd |-> call.cmd, after |-> call.cmd.ev + 1, cpAfter |-> cpAfter]
<1>2. receipts \in Seq(R) /\ new \in R /\ receipts' = Append(receipts, new)
  BY <1>1 DEF TypeInv, TypeOK, Receive, Bodies
<1>3. /\ receipts' \in Seq(R)
      /\ DOMAIN receipts = 1 .. Len(receipts)
      /\ DOMAIN receipts' = 1 .. Len(receipts) + 1
      /\ Len(receipts) \in Nat
      /\ \A i \in 1 .. Len(receipts) : receipts'[i] = receipts[i]
      /\ receipts'[Len(receipts) + 1] = new
  BY <1>2, AppendProperties, LenProperties
<1> HIDE DEF new
<1>4. new.cmd = call.cmd
  BY DEF new
<1>5. 1 .. Len(receipts) + 1 = 1 .. Len(receipts) \cup {Len(receipts) + 1}
  BY <1>3
<1>6. ASSUME NEW cmd
      PROVE  Done(cmd)' <=> Done(cmd) \/ cmd = call.cmd
  BY <1>3, <1>4, <1>5 DEF Done
<1> QED BY <1>3, <1>6

(* The current checkpoint is the open one.                                 *)
LEMMA CurrentOrdinal ==
  ASSUME TypeOK, NEW cmd, AtCurrent(cmd)
  PROVE  /\ cmd.cp \in Ordinals
         /\ \A i \in Ordinals : i # cmd.cp => checkpoints[i].state \in {"pending", "verified"}
  BY DEF AtCurrent, Open

-----------------------------------------------------------------------------
(*                              Type correctness                           *)

(* The part of TypeOK that accepted commands can disturb.                  *)
RowTypes ==
    /\ checkpoints \in [Ordinals -> [state : CheckpointStates, version : Nat]]
    /\ attestations \in Seq([cp : Ordinals, kind : AttestationKinds, at : Nat])
    /\ verifications \in Seq([attestation : DOMAIN attestations, action : VerificationActions])
    /\ reassessments \in Seq([cp : Ordinals, trigger : Triggers,
                              ref : {NoReference} \cup DOMAIN attestations])
    /\ Len(reassessments) <= 1

LEMMA StartTypes ==
  ASSUME TypeInv, NEW call \in calls, MayStart, Start(call)
  PROVE  RowTypes' /\ RowsAgree'
<1>1. RowTypes
  BY DEF TypeInv, TypeOK, RowTypes
<1>2. checkpoints' \in [Ordinals -> [state : CheckpointStates, version : Nat]]
  BY DEF Start, CheckpointStates
<1>3. RowTypes'
  BY <1>1, <1>2 DEF RowTypes, Start
<1>4. RowsAgree'
  BY DEF TypeInv, RowsAgree, MayStart, Start, AdvanceExecution
<1> QED BY <1>3, <1>4

LEMMA AttestTypes ==
  ASSUME TypeInv, NEW call \in calls, Composed(call.cmd), call.cmd.op = "attest",
         MayAttest(call.cmd), Attest(call)
  PROVE  RowTypes' /\ RowsAgree'
<1> DEFINE cmd == call.cmd
           A == [cp : Ordinals, kind : AttestationKinds, at : Nat]
           new == [cp |-> cmd.cp, kind |-> cmd.what, at |-> call.at]
<1>1. cmd.cp \in Ordinals /\ cmd.what \in AttestationKinds /\ call.at \in Nat
  BY CurrentOrdinal DEF TypeInv, TypeOK, MayAttest, Fresh, Composed
<1>2. attestations \in Seq(A) /\ new \in A /\ attestations' = Append(attestations, new)
  BY <1>1 DEF TypeInv, TypeOK, Attest
<1>3. attestations' \in Seq(A) /\ DOMAIN attestations \subseteq DOMAIN attestations'
  <2>1. /\ Append(attestations, new) \in Seq(A)
        /\ Len(Append(attestations, new)) = Len(attestations) + 1
    BY <1>2, AppendProperties
  <2>2. DOMAIN attestations = 1 .. Len(attestations) /\ Len(attestations) \in Nat
    BY <1>2, LenProperties
  <2>3. DOMAIN attestations' = 1 .. Len(attestations')
    BY <1>2, <2>1, LenProperties
  <2> QED BY <1>2, <2>1, <2>2, <2>3
<1>4. checkpoints' \in [Ordinals -> [state : CheckpointStates, version : Nat]]
  <2>1. AttestedState(cmd.what) \in CheckpointStates
    BY <1>1 DEF AttestedState, AttestationKinds, CheckpointStates
  <2> QED BY <1>1, <2>1 DEF TypeInv, TypeOK, Attest, Moved
<1>5. verifications' \in Seq([attestation : DOMAIN attestations', action : VerificationActions])
  <2>1. [attestation : DOMAIN attestations, action : VerificationActions]
          \subseteq [attestation : DOMAIN attestations', action : VerificationActions]
    BY <1>3
  <2>2. /\ verifications' = verifications
        /\ verifications \in Seq([attestation : DOMAIN attestations, action : VerificationActions])
    BY DEF TypeInv, TypeOK, Attest
  <2> QED BY <2>1, <2>2, SeqMonotonic
<1>6. execution.state = "active" /\ reassessments = << >> /\ reassessments' = << >>
  BY DEF TypeInv, RowsAgree, MayAttest, Fresh, AtCurrent, Attest
<1>7. RowTypes'
  BY <1>3, <1>4, <1>5, <1>6, EmptySeq DEF RowTypes
<1>8. RowsAgree'
  BY <1>6 DEF RowsAgree, Attest, AdvanceExecution
<1> QED BY <1>7, <1>8

LEMMA VerifyTypes ==
  ASSUME TypeInv, NEW call \in calls, Composed(call.cmd), call.cmd.op = "verify",
         MayVerify(call.cmd), Verify(call)
  PROVE  RowTypes' /\ RowsAgree'
<1> DEFINE cmd == call.cmd
           V == [attestation : DOMAIN attestations, action : VerificationActions]
           new == [attestation |-> cmd.ref, action |-> cmd.what]
<1>1. /\ cmd.cp \in Ordinals /\ cmd.what \in VerificationActions
      /\ cmd.ref \in DOMAIN attestations
  BY CurrentOrdinal DEF TypeInv, MayVerify, Fresh, Composed, Latest
<1>2. verifications \in Seq(V) /\ new \in V /\ verifications' = Append(verifications, new)
  BY <1>1 DEF TypeInv, TypeOK, Verify
<1>3. verifications' \in Seq(V) /\ attestations' = attestations
  BY <1>2, AppendProperties DEF Verify
<1>4. checkpoints' \in [Ordinals -> [state : CheckpointStates, version : Nat]]
  <2>1. JudgedState(cmd.what) \in CheckpointStates /\ "in_progress" \in CheckpointStates
    BY DEF JudgedState, CheckpointStates
  <2> QED BY <2>1 DEF TypeInv, TypeOK, Verify, AfterVerification, Moved
<1>5. execution.state = "active" /\ reassessments = << >> /\ reassessments' = << >>
  BY DEF TypeInv, RowsAgree, MayVerify, Fresh, AtCurrent, Verify
<1>6. RowTypes'
  BY <1>3, <1>4, <1>5, EmptySeq DEF TypeInv, TypeOK, RowTypes
<1>7. RowsAgree'
  BY <1>5 DEF RowsAgree, Verify, AdvanceExecution
<1> QED BY <1>6, <1>7

LEMMA ReassessTypes ==
  ASSUME TypeInv, NEW call \in calls, MayReassess(call), Reassess(call)
  PROVE  RowTypes' /\ RowsAgree'
<1> DEFINE cmd == call.cmd
           H == [cp : Ordinals, trigger : Triggers, ref : {NoReference} \cup DOMAIN attestations]
           new == [cp |-> cmd.cp, trigger |-> cmd.what, ref |-> cmd.ref]
<1>1. /\ cmd.cp \in Ordinals /\ cmd.what \in Triggers
      /\ cmd.ref \in {NoReference} \cup DOMAIN attestations
  BY CurrentOrdinal
  DEF TypeInv, MayReassess, Fresh, BlockedProof, DeadlineProof, Latest, Triggers
<1>2. execution.state = "active" /\ reassessments = << >>
  BY DEF TypeInv, RowsAgree, MayReassess, Fresh, AtCurrent
<1>3. << >> \in Seq(H) /\ Len(<< >>) = 0 /\ new \in H /\ reassessments' = Append(<< >>, new)
  BY <1>1, <1>2, EmptySeq DEF Reassess, HandOver
<1>4. /\ reassessments' \in Seq(H)
      /\ reassessments' # << >>
      /\ Len(reassessments') = 1
  BY <1>3, AppendProperties
<1>5. UNCHANGED <<checkpoints, attestations, verifications>>
  BY DEF Reassess, HandOver
<1>6. RowTypes'
  BY <1>4, <1>5 DEF TypeInv, TypeOK, RowTypes
<1>7. RowsAgree'
  BY <1>4 DEF RowsAgree, Reassess, AdvanceExecution
<1> QED BY <1>6, <1>7

LEMMA AcceptTypes ==
  ASSUME TypeInv, NEW call \in calls, Accept(call)
  PROVE  RowTypes' /\ RowsAgree'
  BY AcceptCases, StartTypes, AttestTypes, VerifyTypes, ReassessTypes

(* The calls keep their shape, and no command is ahead of the execution.   *)
LEMMA CallTypes ==
  ASSUME TypeInv, [Next]_vars, NEW after \in calls',
         execution'.version \in Nat, execution'.version >= execution.version,
         today' \in Nat, today <= today'
  PROVE  /\ after \in [cmd : Bodies, at : Nat, day : 0 .. Milestones, told : BOOLEAN]
         /\ Composed(after.cmd)' /\ after.day <= today'
<1>1. \A cmd : Composed(cmd) => Composed(cmd)'
  <2>1. execution.version \in Nat
    BY DEF TypeInv, TypeOK
  <2>2. \A cmd : cmd \in Bodies => cmd.ev \in Nat
    BY DEF Bodies
  <2> QED BY <2>1, <2>2 DEF Composed
<1>2. ASSUME Kept(after)
      PROVE  /\ after \in [cmd : Bodies, at : Nat, day : 0 .. Milestones, told : BOOLEAN]
             /\ Composed(after.cmd) /\ after.day <= today
  BY <1>2 DEF Kept, TypeInv, TypeOK
<1>3. ASSUME Entered(after)
      PROVE  /\ after \in [cmd : Bodies, at : Nat, day : 0 .. Milestones, told : BOOLEAN]
             /\ Composed(after.cmd) /\ after.day <= today
  <2>1. PICK cmd \in Bodies, told \in BOOLEAN : after = CallOf(cmd, told) /\ Composed(cmd)
    <3>1. \A call \in calls : call.cmd \in Bodies /\ call.told \in BOOLEAN /\ Composed(call.cmd)
      BY DEF TypeInv, TypeOK
    <3>2. \A cmd \in Commands : cmd \in Bodies /\ Composed(cmd)
      BY CommandsComposed DEF TypeInv, Composed
    <3> QED BY <1>3, <3>1, <3>2 DEF Entered
  <2> QED BY <2>1, CallTyped DEF TypeInv, Composed
<1>4. today \in Nat /\ after.day \in Nat
  BY <1>2, <1>3, CallsOfStep, MilestonesAssumption DEF TypeInv, TypeOK
<1> QED BY <1>1, <1>2, <1>3, <1>4, CallsOfStep DEF TypeInv

(* Every step keeps the types.                                             *)
LEMMA NextTypes == TypeInv /\ [Next]_vars => TypeInv'
<1> SUFFICES ASSUME TypeInv, [Next]_vars PROVE TypeInv'
  OBVIOUS
<1>1. TypeOK /\ Milestones \in Nat /\ execution.version \in Nat
  BY MilestonesAssumption DEF TypeInv, TypeOK
<1>2. CASE UNCHANGED timelineVars /\ today <= today' /\ today' \in 0 .. Milestones
  <2>1. \A call \in calls' :
            /\ call \in [cmd : Bodies, at : Nat, day : 0 .. Milestones, told : BOOLEAN]
            /\ Composed(call.cmd)' /\ call.day <= today'
    BY <1>1, <1>2, CallTypes DEF timelineVars
  <2>2. TypeOK'
    BY <1>1, <1>2, <2>1 DEF TypeOK, timelineVars
  <2>3. RowsAgree'
    BY <1>2 DEF TypeInv, RowsAgree, timelineVars
  <2> QED BY <2>1, <2>2, <2>3 DEF TypeInv
<1>3. ASSUME NEW call \in calls, Accept(call), today' = today
      PROVE  TypeInv'
  <2>1. /\ execution' \in [state : {"active", "reassessment_required", "completed"}, version : Nat]
        /\ execution'.version = execution.version + 1
    BY <1>3, AcceptCounts
  <2>2. today' \in 0 .. Milestones /\ today' \in Nat /\ today <= today'
    BY <1>1, <1>3 DEF TypeOK
  <2>3. \A after \in calls' :
            /\ after \in [cmd : Bodies, at : Nat, day : 0 .. Milestones, told : BOOLEAN]
            /\ Composed(after.cmd)' /\ after.day <= today'
    BY <1>1, <2>1, <2>2, CallTypes
  <2>4. TypeOK'
    BY <1>3, <2>1, <2>2, <2>3, AcceptTypes, AcceptReceipts DEF TypeOK, RowTypes
  <2> QED BY <1>3, <2>3, <2>4, AcceptTypes DEF TypeInv
<1> QED BY <1>1, <1>2, <1>3, RowsOfStep

(* The rows keep the shape migration 0014 declares, references point to    *)
(* attestations that exist, and there is at most one reassessment.         *)
THEOREM TimelineTyped == Spec => []TypeOK
<1>1. TypeInv => TypeOK
  BY DEF TypeInv
<1> QED BY <1>1, InitTypes, NextTypes, PTL DEF Spec

------------------------------------------------------------------------------
(***************************************************************************)
(* What a family and its advisor can rely on, for any participants and any *)
(* number of milestones: the order of the attestations, the finality of a  *)
(* refusal, the proof of a hand-over, the one open checkpoint, the end.    *)
(***************************************************************************)
-----------------------------------------------------------------------------
(*                        The order of attestations                        *)

(* An attestation is dated by the number of those before it, and a call    *)
(* that could still be accepted has seen them all when it entered.         *)
Timed ==
    /\ \A a \in DOMAIN attestations : attestations[a].at + 1 = a
    /\ \A call \in calls :
           call.cmd.op = "attest" /\ call.cmd.ev = execution.version =>
               call.at = Len(attestations)

LEMMA InitTimed == Init => Timed
  BY DEF Init, TimelineInit, Timed

(* An accepted attestation is appended with the date it entered at.        *)
LEMMA AttestTimed ==
  ASSUME TypeInv, Timed, NEW call \in calls, call.cmd.op = "attest",
         MayAttest(call.cmd), Attest(call)
  PROVE  \A a \in DOMAIN attestations' : attestations'[a].at + 1 = a
<1> DEFINE A == [cp : Ordinals, kind : AttestationKinds, at : Nat]
           new == [cp |-> call.cmd.cp, kind |-> call.cmd.what, at |-> call.at]
<1>1. attestations \in Seq(A) /\ attestations' = Append(attestations, new)
  BY DEF TypeInv, TypeOK, Attest
<1>2. new \in A
  BY CurrentOrdinal DEF TypeInv, TypeOK, Composed, MayAttest, Fresh
<1>3. call.at = Len(attestations)
  BY DEF Timed, MayAttest, Fresh, VersionsMatch
<1>4. /\ attestations' \in Seq(A)
      /\ Len(attestations) \in Nat
      /\ DOMAIN attestations = 1 .. Len(attestations)
      /\ DOMAIN attestations' = 1 .. Len(attestations) + 1
      /\ \A i \in 1 .. Len(attestations) : attestations'[i] = attestations[i]
      /\ attestations'[Len(attestations) + 1] = new
  BY <1>1, <1>2, AppendProperties, LenProperties
<1>5. 1 .. Len(attestations) + 1 = 1 .. Len(attestations) \cup {Len(attestations) + 1}
  BY <1>4
<1>6. new.at + 1 = Len(attestations) + 1
  BY <1>3
<1> HIDE DEF new
<1> QED BY <1>4, <1>5, <1>6 DEF Timed

LEMMA NextTimed == TypeInv /\ Timed /\ [Next]_vars => Timed'
<1> SUFFICES ASSUME TypeInv, Timed, [Next]_vars PROVE Timed'
  OBVIOUS
<1>1. TypeOK /\ execution.version \in Nat
  BY DEF TypeInv, TypeOK
<1>2. ASSUME NEW after \in calls', Kept(after)
      PROVE  \E before \in calls : after.cmd = before.cmd /\ after.at = before.at
  <2>1. PICK before \in calls : after = [before EXCEPT !.told = after.told]
    BY <1>2 DEF Kept
  <2> QED BY <1>1, <2>1 DEF TypeOK
<1>3. ASSUME NEW after \in calls', Entered(after)
      PROVE  after.cmd.op = "attest" => after.at = Len(attestations)
  <2>1. PICK cmd \in Bodies, told \in BOOLEAN : after = CallOf(cmd, told)
    <3>1. \A call \in calls : call.cmd \in Bodies /\ call.told \in BOOLEAN
      BY <1>1 DEF TypeOK
    <3>2. \A cmd \in Commands : cmd \in Bodies
      BY <1>1, CommandsComposed DEF Composed
    <3> QED BY <1>3, <3>1, <3>2 DEF Entered
  <2> QED BY <1>1, <2>1, CallTyped
<1>4. CASE UNCHANGED timelineVars
  BY <1>1, <1>2, <1>3, <1>4, CallsOfStep DEF Timed, timelineVars
<1>5. ASSUME NEW call \in calls, Accept(call)
      PROVE  Timed'
  <2>1. execution'.version = execution.version + 1
    BY <1>5, AcceptCounts
  <2>2. ASSUME NEW after \in calls'
        PROVE  after.cmd.ev # execution'.version
    <3>1. Kept(after)
      <4>1. execution' # execution
        BY <1>1, <2>1
      <4> QED BY <1>1, <4>1, CallsOfStep DEF Entered, timelineVars
    <3>2. after.cmd.ev \in Nat /\ after.cmd.ev <= execution.version
      BY <1>2, <3>1 DEF TypeInv, Composed, Bodies
    <3> QED BY <1>1, <2>1, <3>2
  <2>3. \A a \in DOMAIN attestations' : attestations'[a].at + 1 = a
    BY <1>5, AcceptCases, AttestTimed DEF Timed, Start, Verify, Reassess, HandOver
  <2> QED BY <2>2, <2>3 DEF Timed
<1> QED BY <1>1, <1>4, <1>5, RowsOfStep

(* created_at is read before the row lock is taken; the version checks     *)
(* alone make its order the order of the commits.                          *)
THEOREM CommitOrderAlways == Spec => []CommitOrder
<1>1. TypeInv /\ Timed => CommitOrder
  <2> SUFFICES ASSUME TypeInv, Timed, NEW a \in DOMAIN attestations,
                      NEW b \in DOMAIN attestations, a < b
               PROVE  attestations[a].at < attestations[b].at
    BY DEF CommitOrder
  <2> DEFINE A == [cp : Ordinals, kind : AttestationKinds, at : Nat]
  <2>1. attestations \in Seq(A)
    BY DEF TypeInv, TypeOK
  <2>2. DOMAIN attestations = 1 .. Len(attestations)
    BY <2>1, LenProperties
  <2>3. attestations[a] \in A /\ attestations[b] \in A
    BY <2>1, <2>2, ElementOfSeq
  <2>4. attestations[a].at + 1 = a /\ attestations[b].at + 1 = b
    BY DEF Timed
  <2> QED BY <2>3, <2>4
<1>2. Init => TypeInv /\ Timed
  BY InitTypes, InitTimed
<1>3. TypeInv /\ Timed /\ [Next]_vars => TypeInv' /\ Timed'
  BY NextTypes, NextTimed
<1> QED BY <1>1, <1>2, <1>3, PTL DEF Spec

-----------------------------------------------------------------------------
(*                       The finality of a refusal                         *)

(* What acceptance asks of a command that does not argue with the date.    *)
Possible(cmd) ==
    \/ cmd.op = "start" /\ MayStart
    \/ cmd.op = "attest" /\ MayAttest(cmd)
    \/ cmd.op = "verify" /\ MayVerify(cmd)
    \/ cmd.op = "reassess" /\ Fresh(cmd) /\ BlockedProof(cmd)

(* Whose author was told "no" has no receipt and can get none.             *)
Settled ==
    \A call \in calls :
        call.told /\ call.cmd.what # "deadline_elapsed" =>
            ~Done(call.cmd) /\ ~Possible(call.cmd)

LEMMA AcceptedIsPossible ==
  ASSUME NEW call, call.cmd \in Bodies, call.cmd.what # "deadline_elapsed"
  PROVE  Accepted(call) <=> Possible(call.cmd)
<1>1. call.cmd.op \in {"start", "attest", "verify", "reassess"}
  BY DEF Bodies
<1>2. MayReassess(call) <=> Fresh(call.cmd) /\ BlockedProof(call.cmd)
  BY DEF MayReassess, DeadlineProof
<1> QED BY <1>1, <1>2 DEF Accepted, Possible

(* Nothing a refusal rests on is undone by what is accepted later.         *)
LEMMA ImpossibleStays ==
  ASSUME TypeInv, NEW call \in calls, Accept(call), NEW cmd, Composed(cmd)
  PROVE  ~Possible(cmd)'
<1>1. /\ execution'.version = execution.version + 1 /\ execution.version \in Nat
      /\ execution'.state # "none"
      /\ cmd.ev \in Nat /\ cmd.ev <= execution.version
  BY AcceptCounts DEF TypeInv, TypeOK, Composed, Bodies
<1>2. ~MayStart' /\ ~Fresh(cmd)'
  BY <1>1 DEF MayStart, Fresh, VersionsMatch
<1> QED BY <1>2 DEF Possible, MayAttest, MayVerify

LEMMA NextSettled == TypeInv /\ Settled /\ [Next]_vars => Settled'
<1> SUFFICES ASSUME TypeInv, Settled, [Next]_vars, NEW after \in calls',
                    after.told, after.cmd.what # "deadline_elapsed"
             PROVE  ~Done(after.cmd)' /\ ~Possible(after.cmd)'
  BY DEF Settled
<1>1. TypeOK
  BY DEF TypeInv
<1>2. PICK call \in calls : call.cmd = after.cmd /\ (call.told \/ Refuse(call))
  <2>1. CASE Kept(after)
    <3>1. PICK before \in calls :
              /\ after = [before EXCEPT !.told = after.told]
              /\ \/ before.told
                 \/ \E other \in calls : Refuse(other) /\ other.cmd = before.cmd
      BY <2>1 DEF Kept
    <3>2. after.cmd = before.cmd
      BY <1>1, <3>1 DEF TypeOK
    <3> QED BY <3>1, <3>2
  <2>2. CASE Entered(after)
    <3>1. \A call \in calls : call.cmd \in Bodies /\ call.told \in BOOLEAN
      BY <1>1 DEF TypeOK
    <3>2. \A cmd \in Commands : cmd \in Bodies
      BY <1>1, CommandsComposed DEF Composed
    <3>3. \A cmd \in Bodies, told \in BOOLEAN :
              CallOf(cmd, told).cmd = cmd /\ CallOf(cmd, told).told = told
      BY <1>1, CallTyped
    <3>4. ASSUME NEW cmd \in Commands, after = CallOf(cmd, FALSE)
          PROVE  FALSE
      BY <3>2, <3>3, <3>4
    <3>5. PICK before \in calls : after = CallOf(before.cmd, before.told)
      BY <2>2, <3>4 DEF Entered
    <3> QED BY <3>1, <3>3, <3>5
  <2> QED BY <1>1, <2>1, <2>2, CallsOfStep
<1>3. Composed(after.cmd) /\ after.cmd \in Bodies
  BY <1>2 DEF TypeInv, Composed
<1>4. ~Done(after.cmd) /\ ~Possible(after.cmd)
  BY <1>2, <1>3, AcceptedIsPossible DEF Settled, Refuse
<1>5. CASE UNCHANGED timelineVars
  BY <1>4, <1>5
  DEF timelineVars, Done, Possible, MayStart, MayAttest, MayVerify, Fresh, AtCurrent, Open,
      VersionsMatch, BlockedProof, Latest
<1>6. ASSUME NEW other \in calls, Accept(other)
      PROVE  ~Done(after.cmd)' /\ ~Possible(after.cmd)'
  <2>1. ~Possible(after.cmd)'
    BY <1>3, <1>6, ImpossibleStays
  <2>2. after.cmd # other.cmd
    BY <1>3, <1>4, <1>6, AcceptedIsPossible DEF Accept
  <2>3. Done(after.cmd)' <=> Done(after.cmd) \/ after.cmd = other.cmd
    BY <1>6, AcceptReceipts
  <2> QED BY <1>4, <2>1, <2>2, <2>3
<1> QED BY <1>1, <1>5, <1>6, RowsOfStep

(* A caller that was told "no" can rely on it, however many copies of its  *)
(* command are under way, unless it argues with a date that will come.     *)
THEOREM RefusalFinalAlways == Spec => []RefusalFinal
<1>1. Settled => RefusalFinal
  BY DEF Settled, RefusalFinal
<1>2. Init => TypeInv /\ Settled
  BY InitTypes DEF Init, Settled
<1>3. TypeInv /\ Settled /\ [Next]_vars => TypeInv' /\ Settled'
  BY NextTypes, NextSettled
<1> QED BY <1>1, <1>2, <1>3, PTL DEF Spec

-----------------------------------------------------------------------------
(*                   Blocked, handed over, stopped                         *)

(* A blocked checkpoint is what the family reported last of all.           *)
BlockedLast ==
    \A i \in Ordinals : checkpoints[i].state = "blocked" =>
        /\ Len(attestations) \in DOMAIN attestations
        /\ attestations[Len(attestations)].cp = i
        /\ attestations[Len(attestations)].kind = "blocked"

(* While a checkpoint is blocked only its hand-over is accepted; and       *)
(* nothing is accepted once the execution has stopped.                     *)
LEMMA AcceptFrom ==
  ASSUME TypeInv, NEW call \in calls, Accept(call)
  PROVE  /\ execution.state \in {"none", "active"}
         /\ reassessments = << >>
         /\ (\E i \in Ordinals : checkpoints[i].state = "blocked") =>
                call.cmd.op = "reassess" /\ MayReassess(call) /\ Reassess(call)
<1>1. CASE call.cmd.op = "start" /\ MayStart
  BY <1>1, AcceptCases DEF TypeInv, RowsAgree, MayStart
<1>2. CASE call.cmd.op # "start" /\ Fresh(call.cmd)
  <2>1. execution.state = "active" /\ reassessments = << >>
    BY <1>2 DEF TypeInv, RowsAgree, Fresh, AtCurrent
  <2>2. ASSUME NEW i \in Ordinals, checkpoints[i].state = "blocked"
        PROVE  checkpoints[call.cmd.cp].state = "blocked"
    BY <1>2, <2>2, CurrentOrdinal DEF TypeInv, Fresh
  <2> QED BY <1>2, <2>1, <2>2, AcceptCases DEF MayAttest, MayVerify
<1> QED BY <1>1, <1>2, AcceptCases DEF MayAttest, MayVerify, MayReassess

LEMMA NextBlockedLast == TypeInv /\ BlockedLast /\ [Next]_vars => BlockedLast'
<1> SUFFICES ASSUME TypeInv, BlockedLast, [Next]_vars PROVE BlockedLast'
  OBVIOUS
<1>1. TypeOK
  BY DEF TypeInv
<1>2. CASE UNCHANGED timelineVars
  BY <1>2 DEF BlockedLast, timelineVars
<1>3. ASSUME NEW call \in calls, Accept(call)
      PROVE  BlockedLast'
  <2> DEFINE cmd == call.cmd
  <2>1. Composed(cmd)
    BY <1>3, AcceptCases
  <2>2. CASE Start(call)
    BY <2>2 DEF Start, BlockedLast
  <2>3. CASE cmd.op = "attest" /\ MayAttest(cmd) /\ Attest(call)
    <3> DEFINE A == [cp : Ordinals, kind : AttestationKinds, at : Nat]
               new == [cp |-> cmd.cp, kind |-> cmd.what, at |-> call.at]
    <3>1. cmd.cp \in Ordinals /\ \A i \in Ordinals : checkpoints[i].state # "blocked"
      BY <1>1, <2>3, CurrentOrdinal DEF MayAttest, Fresh
    <3>2. cmd.what \in AttestationKinds
      BY <2>1, <2>3 DEF Composed
    <3>3. attestations \in Seq(A) /\ attestations' = Append(attestations, new) /\ new \in A
      BY <1>1, <2>3, <3>1, <3>2 DEF TypeOK, Attest
    <3>4. /\ attestations' \in Seq(A)
          /\ Len(attestations') = Len(attestations) + 1
          /\ Len(attestations) \in Nat
          /\ DOMAIN attestations' = 1 .. Len(attestations')
          /\ attestations'[Len(attestations) + 1] = new
      BY <3>3, AppendProperties, LenProperties
    <3>5. Len(attestations') \in DOMAIN attestations' /\ attestations'[Len(attestations')] = new
      BY <3>4
    <3>6. checkpoints' = [checkpoints EXCEPT ![cmd.cp] = Moved(cmd.cp, AttestedState(cmd.what))]
      BY <2>3 DEF Attest
    <3>7. ASSUME NEW i \in Ordinals, checkpoints'[i].state = "blocked"
          PROVE  i = cmd.cp /\ cmd.what = "blocked"
      BY <1>1, <3>1, <3>2, <3>6, <3>7 DEF TypeOK, Moved, AttestedState, AttestationKinds
    <3> QED BY <3>5, <3>7 DEF BlockedLast
  <2>4. CASE MayVerify(cmd) /\ Verify(call)
    <3>1. \A i \in Ordinals : checkpoints[i].state # "blocked"
      BY <1>1, <2>4, CurrentOrdinal DEF MayVerify, Fresh
    <3>2. \A i \in Ordinals : checkpoints'[i].state # "blocked"
      BY <2>4, <3>1 DEF Verify, AfterVerification, Moved, JudgedState
    <3> QED BY <3>2 DEF BlockedLast
  <2>5. CASE Reassess(call)
    BY <2>5 DEF Reassess, HandOver, BlockedLast
  <2> QED BY <1>3, <2>2, <2>3, <2>4, <2>5, AcceptCases
<1> QED BY <1>1, <1>2, <1>3, RowsOfStep

(* The proof of the hand-over still holds.                                 *)
Handed ==
    \A r \in DOMAIN reassessments :
        LET h == reassessments[r] IN
        /\ Open = {h.cp}
        /\ IF h.trigger = "blocked_attestation"
           THEN /\ h.ref = Len(attestations)
                /\ attestations[h.ref].kind = "blocked"
                /\ checkpoints[h.cp].state = "blocked"
           ELSE today >= h.cp

(* The latest attestation of a blocked checkpoint is the last of all.      *)
LEMMA BlockerIsLast ==
  ASSUME TypeOK, Timed, BlockedLast, NEW cmd, AtCurrent(cmd), BlockedProof(cmd)
  PROVE  cmd.ref = Len(attestations)
<1> DEFINE A == [cp : Ordinals, kind : AttestationKinds, at : Nat]
           n == Len(attestations)
<1>1. attestations \in Seq(A)
  BY DEF TypeOK
<1>2. DOMAIN attestations = 1 .. n /\ n \in Nat
  BY <1>1, LenProperties
<1>3. n \in DOMAIN attestations /\ attestations[n].cp = cmd.cp
  BY CurrentOrdinal DEF BlockedLast, BlockedProof
<1>4. attestations[n] \in A
  BY <1>1, <1>2, <1>3, ElementOfSeq
<1>5. cmd.ref \in DOMAIN attestations /\ attestations[n].at <= attestations[cmd.ref].at
  BY <1>3, <1>4 DEF BlockedProof, Latest
<1>6. attestations[cmd.ref] \in A
  BY <1>1, <1>2, <1>5, ElementOfSeq
<1>7. attestations[n].at + 1 = n /\ attestations[cmd.ref].at + 1 = cmd.ref
  BY <1>3, <1>5 DEF Timed
<1>8. cmd.ref \in Nat /\ cmd.ref <= n /\ attestations[n].at \in Nat /\ attestations[cmd.ref].at \in Nat
  BY <1>2, <1>4, <1>5, <1>6
<1> QED BY <1>2, <1>5, <1>7, <1>8

LEMMA NextHanded == TypeInv /\ Timed /\ BlockedLast /\ Handed /\ [Next]_vars => Handed'
<1> SUFFICES ASSUME TypeInv, Timed, BlockedLast, Handed, [Next]_vars PROVE Handed'
  OBVIOUS
<1>1. TypeOK /\ today \in Nat
  BY DEF TypeInv, TypeOK
<1>2. CASE UNCHANGED timelineVars /\ today <= today' /\ today' \in 0 .. Milestones
  <2>1. \A r \in DOMAIN reassessments : reassessments[r].cp \in Ordinals
    <3> DEFINE H == [cp : Ordinals, trigger : Triggers,
                     ref : {NoReference} \cup DOMAIN attestations]
    <3>1. reassessments \in Seq(H)
      BY <1>1 DEF TypeOK
    <3>2. \A r \in DOMAIN reassessments : reassessments[r] \in H
      BY <3>1, LenProperties, ElementOfSeq
    <3> QED BY <3>2
  <2>2. today' \in Nat
    BY <1>2, MilestonesAssumption
  <2> QED BY <1>1, <1>2, <2>1, <2>2 DEF Handed, timelineVars, Open, Ordinals
<1>3. ASSUME NEW call \in calls, Accept(call), today' = today
      PROVE  Handed'
  <2> DEFINE cmd == call.cmd
             new == [cp |-> cmd.cp, trigger |-> cmd.what, ref |-> cmd.ref]
  <2>1. reassessments = << >> /\ call.day <= today /\ call.day \in Nat
    BY <1>3, AcceptFrom, AcceptCases, MilestonesAssumption DEF TypeInv, TypeOK
  <2>2. CASE Start(call) \/ Attest(call) \/ Verify(call)
    BY <2>1, <2>2 DEF Start, Attest, Verify, Handed
  <2>3. CASE MayReassess(call) /\ Reassess(call)
    <3>1. /\ reassessments' = << new >>
          /\ UNCHANGED <<checkpoints, attestations>>
      BY <2>1, <2>3 DEF Reassess, HandOver
    <3>2. DOMAIN reassessments' = {1} /\ reassessments'[1] = new
      BY <3>1
    <3>3. Open' = {cmd.cp} /\ cmd.cp \in Ordinals
      BY <1>1, <2>3, <3>1, CurrentOrdinal DEF MayReassess, Fresh, AtCurrent, Open
    <3>4. CASE BlockedProof(cmd)
      <4>1. cmd.ref = Len(attestations)
        BY <1>1, <2>3, <3>4, BlockerIsLast DEF MayReassess, Fresh
      <4> QED BY <3>1, <3>2, <3>3, <3>4, <4>1 DEF Handed, BlockedProof
    <3>5. CASE DeadlineProof(call)
      BY <1>1, <1>3, <2>1, <3>2, <3>3, <3>5 DEF Handed, DeadlineProof, Ordinals
    <3> QED BY <2>3, <3>4, <3>5 DEF MayReassess
  <2> QED BY <1>3, <2>2, <2>3, AcceptCases
<1> QED BY <1>1, <1>2, <1>3, RowsOfStep

(* An execution stops for reassessment exactly when a hand-over is on      *)
(* record whose proof still holds.                                         *)
THEOREM HandoffProvenAlways == Spec => []HandoffProven
<1> DEFINE Inv == TypeInv /\ Timed /\ BlockedLast /\ Handed
<1>1. Init => Inv
  BY InitTypes, InitTimed DEF Init, TimelineInit, BlockedLast, Handed
<1>2. Inv /\ [Next]_vars => Inv'
  BY NextTypes, NextTimed, NextBlockedLast, NextHanded
<1>3. Inv => HandoffProven
  BY DEF TypeInv, RowsAgree, Handed, HandoffProven
<1> HIDE DEF Inv
<1> QED BY <1>1, <1>2, <1>3, PTL DEF Spec

(* A completed or handed-over execution never changes again, and a blocked *)
(* checkpoint has no way out but the hand-over.                            *)
THEOREM StopsForGoodAlways == Spec => StopsForGood
<1> DEFINE Stop ==
      /\ execution.state \in {"completed", "reassessment_required"} => UNCHANGED timelineVars
      /\ (\E i \in Ordinals : checkpoints[i].state = "blocked") =>
             UNCHANGED <<checkpoints, attestations, verifications>>
<1>1. TypeInv /\ [Next]_vars => [Stop]_vars
  <2> SUFFICES ASSUME TypeInv, [Next]_vars PROVE Stop
    OBVIOUS
  <2>1. CASE UNCHANGED timelineVars
    BY <2>1 DEF timelineVars
  <2>2. ASSUME NEW call \in calls, Accept(call)
        PROVE  Stop
    BY <2>2, AcceptFrom DEF Reassess, HandOver
  <2> QED BY <2>1, <2>2, RowsOfStep DEF TypeInv
<1> QED BY <1>1, InitTypes, NextTypes, PTL DEF Spec, StopsForGood

-----------------------------------------------------------------------------
(*                         One open checkpoint                             *)

(* The plan is worked off up to checkpoint i.                              *)
WorkingAt(i) ==
    /\ Open = {i}
    /\ \A j \in 1 .. i - 1 : checkpoints[j].state = "verified"
    /\ \A j \in i + 1 .. Milestones : checkpoints[j].state = "pending"

(* Where the plan is worked off up to i, not all is verified.              *)
LEMMA WorkingIsUnfinished ==
  ASSUME NEW i \in Ordinals, WorkingAt(i)
  PROVE  ~\A j \in Ordinals : checkpoints[j].state = "verified"
  BY DEF WorkingAt, Open

(* A step that keeps all but one open checkpoint keeps the place.          *)
LEMMA SamePlace ==
  ASSUME TypeOK, NEW i \in Ordinals, WorkingAt(i),
         \A j \in Ordinals : j # i => checkpoints'[j] = checkpoints[j],
         checkpoints'[i].state \notin {"pending", "verified"}
  PROVE  WorkingAt(i)'
<1>1. Milestones \in Nat
  BY MilestonesAssumption
<1>2. Open' = {i}
  BY DEF WorkingAt, Open
<1>3. \A j \in (1 .. i - 1) \cup (i + 1 .. Milestones) : j \in Ordinals /\ j # i
  BY <1>1 DEF Ordinals
<1> QED BY <1>2, <1>3 DEF WorkingAt

(* A verification passes the place on, or finishes the plan.               *)
LEMMA VerifyPlace ==
  ASSUME TypeOK, NEW call, NEW i \in Ordinals, WorkingAt(i), MayVerify(call.cmd), Verify(call)
  PROVE  \/ execution'.state = "active" /\ \E j \in Ordinals : WorkingAt(j)'
         \/ execution'.state = "completed" /\ \A j \in Ordinals : checkpoints'[j].state = "verified"
<1> DEFINE cmd == call.cmd
<1>1. cmd.cp = i /\ Milestones \in Nat \ {0}
  BY MilestonesAssumption DEF MayVerify, Fresh, AtCurrent, WorkingAt
<1>2. \A j \in Ordinals : checkpoints'[j] =
          IF j = i THEN Moved(j, JudgedState(cmd.what))
          ELSE IF Opens(cmd, j) THEN Moved(j, "in_progress") ELSE checkpoints[j]
  BY <1>1 DEF Verify, AfterVerification
<1>3. execution'.state = IF cmd.what = "verify" /\ i = Milestones THEN "completed" ELSE "active"
  BY <1>1 DEF Verify, AdvanceExecution
<1>4. \A j \in Ordinals : \A state : Moved(j, state).state = state
  BY DEF Moved
<1>5. checkpoints'[i].state = JudgedState(cmd.what)
  BY <1>2, <1>4
<1>6. CASE cmd.what # "verify"
  <2>1. \A j \in Ordinals : j # i => checkpoints'[j] = checkpoints[j]
    BY <1>2, <1>6 DEF Opens
  <2>2. checkpoints'[i].state = "in_progress"
    BY <1>5, <1>6 DEF JudgedState
  <2> QED BY <1>3, <1>6, <2>1, <2>2, SamePlace
<1>7. CASE cmd.what = "verify" /\ i = Milestones
  <2>1. \A j \in Ordinals : j = i \/ j \in 1 .. i - 1
    BY <1>1, <1>7 DEF Ordinals
  <2>2. \A j \in Ordinals : j # i => checkpoints'[j] = checkpoints[j]
    BY <1>1, <1>2, <1>7 DEF Opens, Ordinals
  <2>3. checkpoints'[i].state = "verified"
    BY <1>5, <1>7 DEF JudgedState
  <2> QED BY <1>3, <1>7, <2>1, <2>2, <2>3 DEF WorkingAt
<1>8. CASE cmd.what = "verify" /\ i # Milestones
  <2>1. i + 1 \in Ordinals /\ i + 1 \in i + 1 .. Milestones /\ i + 1 # i
    BY <1>1, <1>8 DEF Ordinals
  <2>2. checkpoints'[i].state = "verified" /\ checkpoints'[i + 1].state = "in_progress"
    <3>1. Opens(cmd, i + 1)
      BY <1>1, <1>8, <2>1 DEF Opens, WorkingAt
    <3>2. checkpoints'[i + 1] = Moved(i + 1, "in_progress")
      BY <1>2, <2>1, <3>1
    <3> QED BY <1>8, <1>4, <1>5, <2>1, <3>2 DEF JudgedState
  <2>3. \A j \in Ordinals : j # i /\ j # i + 1 => checkpoints'[j] = checkpoints[j]
    BY <1>1, <1>2 DEF Opens
  <2>4. Open' = {i + 1}
    BY <2>1, <2>2, <2>3 DEF Open, WorkingAt
  <2>5. \A j \in 1 .. (i + 1) - 1 : j \in Ordinals /\ (j = i \/ (j \in 1 .. i - 1 /\ j # i + 1))
    BY <1>1, <2>1 DEF Ordinals
  <2>6. \A j \in (i + 1) + 1 .. Milestones :
            j \in Ordinals /\ j # i /\ j # i + 1 /\ j \in i + 1 .. Milestones
    BY <1>1 DEF Ordinals
  <2>7. WorkingAt(i + 1)'
    BY <2>2, <2>3, <2>4, <2>5, <2>6 DEF WorkingAt
  <2> QED BY <1>3, <1>8, <2>1, <2>7
<1> QED BY <1>6, <1>7, <1>8

LEMMA NextOneOpen == TypeInv /\ OneOpenCheckpoint /\ [Next]_vars => OneOpenCheckpoint'
<1> SUFFICES ASSUME TypeInv, OneOpenCheckpoint, [Next]_vars PROVE OneOpenCheckpoint'
  OBVIOUS
<1>1. TypeOK /\ Milestones \in Nat \ {0}
  BY MilestonesAssumption DEF TypeInv
<1>2. CASE UNCHANGED timelineVars
  BY <1>2 DEF OneOpenCheckpoint, Open, timelineVars
<1>3. ASSUME NEW call \in calls, Accept(call)
      PROVE  OneOpenCheckpoint'
  <2> DEFINE cmd == call.cmd
  <2>1. ASSUME NEW j \in Ordinals, WorkingAt(j)', execution'.state # "completed"
        PROVE  OneOpenCheckpoint'
    BY <2>1 DEF WorkingAt, OneOpenCheckpoint, Open
  <2>2. CASE Start(call)
    <3>1. 1 \in Ordinals /\ \A j \in 2 .. Milestones : j \in Ordinals /\ j # 1
      BY <1>1 DEF Ordinals
    <3>2. /\ \A j \in Ordinals : checkpoints'[j].state = IF j = 1 THEN "in_progress" ELSE "pending"
          /\ execution'.state = "active"
      BY <2>2 DEF Start, AdvanceExecution
    <3>3. WorkingAt(1)'
      BY <3>1, <3>2 DEF WorkingAt, Open
    <3> QED BY <2>1, <3>1, <3>2, <3>3
  <2>3. ASSUME Fresh(cmd)
        PROVE  \E i \in Ordinals : WorkingAt(i) /\ cmd.cp = i
    BY <2>3 DEF OneOpenCheckpoint, WorkingAt, Fresh, AtCurrent
  <2>4. CASE cmd.op = "attest" /\ MayAttest(cmd) /\ Attest(call)
    <3>1. PICK i \in Ordinals : WorkingAt(i) /\ cmd.cp = i
      BY <2>3, <2>4 DEF MayAttest
    <3>2. cmd.what \in AttestationKinds
      BY <1>3, <2>4, AcceptCases DEF Composed
    <3>3. /\ \A j \in Ordinals : j # i => checkpoints'[j] = checkpoints[j]
          /\ checkpoints'[i].state \notin {"pending", "verified"}
          /\ execution'.state = "active"
      BY <1>1, <2>4, <3>1, <3>2
      DEF Attest, Moved, AttestedState, AttestationKinds, AdvanceExecution, TypeOK
    <3> QED BY <1>1, <2>1, <3>1, <3>3, SamePlace
  <2>5. CASE MayVerify(cmd) /\ Verify(call)
    <3>1. PICK i \in Ordinals : WorkingAt(i)
      BY <2>3, <2>5 DEF MayVerify
    <3>2. CASE execution'.state = "active" /\ \E j \in Ordinals : WorkingAt(j)'
      BY <2>1, <3>2
    <3>3. CASE execution'.state = "completed" /\ \A j \in Ordinals : checkpoints'[j].state = "verified"
      BY <3>3 DEF OneOpenCheckpoint
    <3> QED BY <1>1, <2>5, <3>1, <3>2, <3>3, VerifyPlace
  <2>6. CASE MayReassess(call) /\ Reassess(call)
    <3>1. PICK i \in Ordinals : WorkingAt(i)
      BY <2>3, <2>6 DEF MayReassess
    <3>2. checkpoints' = checkpoints /\ execution'.state = "reassessment_required"
      BY <2>6 DEF Reassess, HandOver, AdvanceExecution
    <3>3. WorkingAt(i)'
      BY <3>1, <3>2 DEF WorkingAt, Open
    <3> QED BY <2>1, <3>2, <3>3
  <2> QED BY <1>3, <2>2, <2>4, <2>5, <2>6, AcceptCases
<1> QED BY <1>1, <1>2, <1>3, RowsOfStep

(* While the plan is active exactly one checkpoint is open, all before it  *)
(* are verified and all after it pending, for plans of any length; it is   *)
(* completed exactly when all are verified.                                *)
THEOREM OneOpenAlways == Spec => []OneOpenCheckpoint
<1>1. Init => OneOpenCheckpoint
  <2>1. Milestones \in Nat \ {0} => 1 \in Ordinals
    BY DEF Ordinals
  <2> QED BY <2>1, MilestonesAssumption DEF Init, TimelineInit, OneOpenCheckpoint
<1> QED BY <1>1, InitTypes, NextTypes, NextOneOpen, PTL DEF Spec
------------------------------------------------------------------------------
(***************************************************************************)
(* RecordSound.  Checkpoint by checkpoint: what was said of it last, what  *)
(* became of that, and the receipt that left its version.                  *)
(***************************************************************************)
LastWord(a, i) ==
    /\ a \in DOMAIN attestations /\ attestations[a].cp = i
    /\ \A b \in DOMAIN attestations : attestations[b].cp = i => b <= a

Judged(a, action) ==
    \E v \in DOMAIN verifications : /\ verifications[v].attestation = a
                                    /\ verifications[v].action = action

Unjudged(a) == \A v \in DOMAIN verifications : verifications[v].attestation # a

(* The state of a checkpoint follows from the last thing said of it.       *)
Follows(a, state) ==
    \/ attestations[a].kind = "blocked" /\ state = "blocked"
    \/ attestations[a].kind = "progress" /\ state = "in_progress"
    \/ /\ attestations[a].kind = "completion"
       /\ \/ state = "awaiting_advisor" /\ Unjudged(a)
          \/ state = "in_progress" /\ ~Unjudged(a)
          \/ state = "verified" /\ Judged(a, "verify")

SignedAt(i) ==
    \/ /\ \A a \in DOMAIN attestations : attestations[a].cp # i
       /\ checkpoints[i].state \in {"pending", "in_progress"}
    \/ \E a \in DOMAIN attestations : LastWord(a, i) /\ Follows(a, checkpoints[i].state)

Signed ==
    /\ \A i \in Ordinals : SignedAt(i)
    /\ \A v, w \in DOMAIN verifications :
           verifications[v].attestation = verifications[w].attestation => v = w

(* The receipt of checkpoint i before the r-th one of all.                 *)
Before(s, r, i) ==
    /\ s \in DOMAIN receipts /\ s < r /\ receipts[s].cmd.cp = i
    /\ \A t \in DOMAIN receipts : t < r /\ receipts[t].cmd.cp = i => t <= s

NoneBefore(r, i) == \A s \in DOMAIN receipts : s < r => receipts[s].cmd.cp # i

VersionAt(i) ==
    LET n == Len(receipts) + 1 IN
    \/ /\ NoneBefore(n, i)
       /\ checkpoints[i].version = CASE execution.state = "none" -> 0
                                     [] execution.state # "none" /\ (i = 1 \/ checkpoints[i].state = "pending") -> 1
                                     [] OTHER -> 2
    \/ /\ checkpoints[i].state # "pending"
       /\ \E s \in DOMAIN receipts : Before(s, n, i) /\ receipts[s].cpAfter = checkpoints[i].version

LinkedAt(r) ==
    LET i == receipts[r].cmd.cp IN
    i \in Ordinals =>
        \/ NoneBefore(r, i) /\ receipts[r].cmd.cv = IF i = 1 THEN 1 ELSE 2
        \/ \E s \in DOMAIN receipts : Before(s, r, i) /\ receipts[s].cpAfter = receipts[r].cmd.cv

Receipted ==
    /\ execution.version = Len(receipts)
    /\ execution.state = "none" => execution.version = 0
    /\ \A r \in DOMAIN receipts : receipts[r].after = r /\ LinkedAt(r)
    /\ \A r, s \in DOMAIN receipts : receipts[r].cmd = receipts[s].cmd => r = s
    /\ \A i \in Ordinals : VersionAt(i)

(* A row appended: the others keep their places.                           *)
LEMMA AppendedRow ==
  ASSUME NEW S, NEW s \in Seq(S), NEW e \in S
  PROVE  /\ Len(s) \in Nat /\ DOMAIN s = 1 .. Len(s)
         /\ Len(Append(s, e)) = Len(s) + 1
         /\ DOMAIN Append(s, e) = DOMAIN s \cup {Len(s) + 1}
         /\ \A i \in DOMAIN s : Append(s, e)[i] = s[i]
         /\ Append(s, e)[Len(s) + 1] = e
<1>1. /\ Append(s, e) \in Seq(S) /\ Len(Append(s, e)) = Len(s) + 1
      /\ \A i \in 1 .. Len(s) : Append(s, e)[i] = s[i]
      /\ Append(s, e)[Len(s) + 1] = e
  BY AppendProperties
<1>2. /\ Len(s) \in Nat /\ DOMAIN s = 1 .. Len(s)
      /\ DOMAIN Append(s, e) = 1 .. Len(s) + 1
  BY <1>1, LenProperties
<1>3. 1 .. Len(s) + 1 = 1 .. Len(s) \cup {Len(s) + 1}
  BY <1>2
<1> QED BY <1>1, <1>2, <1>3

(* Every row of a sequence is one of its type.                             *)
LEMMA RowsTyped ==
  ASSUME NEW S, NEW s \in Seq(S)
  PROVE  \A i \in DOMAIN s : s[i] \in S
OBVIOUS

(* The new attestation is the last word on its checkpoint.                 *)
LEMMA SignedAttest ==
  ASSUME TypeInv, Signed, NEW call \in calls, Composed(call.cmd), call.cmd.op = "attest",
         MayAttest(call.cmd), Attest(call)
  PROVE  Signed'
<1> DEFINE A == [cp : Ordinals, kind : AttestationKinds, at : Nat]
<1>1. PICK i, kind, n : i = call.cmd.cp /\ kind = call.cmd.what /\ n = Len(attestations) + 1
  OBVIOUS
<1>2. i \in Ordinals /\ kind \in AttestationKinds /\ call.at \in Nat
  <2>1. TypeOK /\ AtCurrent(call.cmd)
    BY DEF TypeInv, MayAttest, Fresh
  <2>2. call.cmd.cp \in Ordinals
    BY <2>1, CurrentOrdinal
  <2>3. call.cmd.what \in AttestationKinds
    BY DEF Composed
  <2>4. call.at \in Nat
    BY <2>1 DEF TypeOK
  <2> QED BY <1>1, <2>2, <2>3, <2>4
<1>3. PICK new \in A : /\ new.cp = i /\ new.kind = kind
                       /\ attestations \in Seq(A) /\ attestations' = Append(attestations, new)
  <2>1. PICK new : new = [cp |-> i, kind |-> kind, at |-> call.at]
    OBVIOUS
  <2>2. new \in A /\ new.cp = i /\ new.kind = kind
    BY <1>2, <2>1
  <2>3. attestations \in Seq(A)
    BY DEF TypeInv, TypeOK
  <2>4. attestations' = Append(attestations, new)
    BY <1>1, <2>1 DEF Attest
  <2> QED BY <2>2, <2>3, <2>4
<1>4. /\ n \in Nat /\ DOMAIN attestations = 1 .. n - 1
      /\ DOMAIN attestations' = DOMAIN attestations \cup {n}
      /\ \A a \in DOMAIN attestations : attestations'[a] = attestations[a]
      /\ attestations'[n] = new
  BY <1>1, <1>3, AppendedRow
<1>5. /\ verifications' = verifications
      /\ \A v \in DOMAIN verifications : verifications[v].attestation \in DOMAIN attestations
  <2>1. verifications \in Seq([attestation : DOMAIN attestations, action : VerificationActions])
    BY DEF TypeInv, TypeOK
  <2>2. \A v \in DOMAIN verifications :
            verifications[v] \in [attestation : DOMAIN attestations, action : VerificationActions]
    BY <2>1, RowsTyped
  <2> QED BY <2>2 DEF Attest
<1>6. /\ checkpoints'[i].state = AttestedState(kind)
      /\ \A j \in Ordinals : j # i => checkpoints'[j] = checkpoints[j]
  <2>1. checkpoints' = [checkpoints EXCEPT ![i] = [state |-> AttestedState(kind),
                                                   version |-> checkpoints[i].version + 1]]
    BY <1>1 DEF Attest, Moved
  <2>2. DOMAIN checkpoints = Ordinals
    BY DEF TypeInv, TypeOK
  <2> QED BY <1>2, <2>1, <2>2
<1>7. SignedAt(i)'
  <2>1. LastWord(n, i)'
    BY <1>3, <1>4 DEF LastWord
  <2>2. Unjudged(n)'
    BY <1>4, <1>5 DEF Unjudged
  <2>3. Follows(n, AttestedState(kind))'
    BY <1>2, <1>3, <1>4, <2>2 DEF Follows, AttestedState, AttestationKinds
  <2> QED BY <1>4, <1>6, <2>1, <2>3 DEF SignedAt, Follows
<1>8. ASSUME NEW j \in Ordinals, j # i
      PROVE  SignedAt(j)'
  <2>1. checkpoints'[j] = checkpoints[j] /\ SignedAt(j)
    BY <1>6, <1>8 DEF Signed
  <2>2. CASE /\ \A a \in DOMAIN attestations : attestations[a].cp # j
             /\ checkpoints[j].state \in {"pending", "in_progress"}
    BY <1>3, <1>4, <1>8, <2>1, <2>2 DEF SignedAt
  <2>3. ASSUME NEW a \in DOMAIN attestations, LastWord(a, j), Follows(a, checkpoints[j].state)
        PROVE  SignedAt(j)'
    <3>1. LastWord(a, j)'
      BY <1>3, <1>4, <1>8, <2>3 DEF LastWord
    <3>2. Follows(a, checkpoints[j].state)'
      BY <1>4, <1>5, <2>1, <2>3 DEF Follows, Judged, Unjudged
    <3> QED BY <1>4, <3>1, <3>2 DEF SignedAt
  <2> QED BY <2>1, <2>2, <2>3 DEF SignedAt
<1> QED BY <1>5, <1>7, <1>8 DEF Signed

(* What the advisor judges is the last word: the completion is the latest  *)
(* one, and nothing was said after it.                                     *)
LEMMA JudgesLastWord ==
  ASSUME TypeInv, Timed, Signed, NEW cmd, MayVerify(cmd)
  PROVE  /\ cmd.cp \in Ordinals /\ LastWord(cmd.ref, cmd.cp) /\ Unjudged(cmd.ref)
         /\ attestations[cmd.ref].kind = "completion"
<1>1. /\ cmd.cp \in Ordinals /\ checkpoints[cmd.cp].state = "awaiting_advisor"
      /\ cmd.ref \in Latest(cmd.cp, {"completion"})
  <2>1. TypeOK /\ AtCurrent(cmd)
    BY DEF TypeInv, MayVerify, Fresh
  <2>2. cmd.cp \in Ordinals
    BY <2>1, CurrentOrdinal
  <2> QED BY <2>2 DEF MayVerify
<1>2. PICK a \in DOMAIN attestations :
          LastWord(a, cmd.cp) /\ Follows(a, checkpoints[cmd.cp].state)
  BY <1>1 DEF Signed, SignedAt
<1>3. attestations[a].kind = "completion" /\ Unjudged(a) /\ attestations[a].cp = cmd.cp
  BY <1>1, <1>2 DEF Follows, LastWord
<1>4. /\ cmd.ref \in DOMAIN attestations /\ attestations[cmd.ref].cp = cmd.cp
      /\ attestations[a].at <= attestations[cmd.ref].at
  BY <1>1, <1>3 DEF Latest
<1>5. cmd.ref <= a
  BY <1>2, <1>4 DEF LastWord
<1>6. /\ attestations[a].at + 1 = a /\ attestations[cmd.ref].at + 1 = cmd.ref
      /\ attestations[a].at \in Nat /\ attestations[cmd.ref].at \in Nat
  <2>1. attestations \in Seq([cp : Ordinals, kind : AttestationKinds, at : Nat])
    BY DEF TypeInv, TypeOK
  <2>2. \A b \in DOMAIN attestations :
            attestations[b] \in [cp : Ordinals, kind : AttestationKinds, at : Nat]
    BY <2>1, RowsTyped
  <2> QED BY <1>4, <2>2 DEF Timed
<1>7. a = cmd.ref
  BY <1>4, <1>5, <1>6
<1> QED BY <1>1, <1>2, <1>3, <1>7

(* The judgement settles it; the next checkpoint, if it opens, has nothing *)
(* said of it yet or nothing that asks for an answer.                      *)
LEMMA SignedVerify ==
  ASSUME TypeInv, Timed, Signed, NEW call \in calls, Composed(call.cmd), call.cmd.op = "verify",
         MayVerify(call.cmd), Verify(call)
  PROVE  Signed'
<1> DEFINE V == [attestation : DOMAIN attestations, action : VerificationActions]
<1>1. PICK i, what, a, n : /\ i = call.cmd.cp /\ what = call.cmd.what /\ a = call.cmd.ref
                           /\ n = Len(verifications) + 1
  OBVIOUS
<1>2. /\ i \in Ordinals /\ LastWord(a, i) /\ Unjudged(a) /\ a \in DOMAIN attestations
      /\ attestations[a].kind = "completion" /\ what \in VerificationActions
  BY <1>1, JudgesLastWord DEF LastWord, Composed
<1>3. PICK new \in V : /\ new.attestation = a /\ new.action = what
                       /\ verifications \in Seq(V) /\ verifications' = Append(verifications, new)
  BY <1>1, <1>2 DEF TypeInv, TypeOK, Verify
<1>4. /\ n \in Nat /\ DOMAIN verifications = 1 .. n - 1
      /\ DOMAIN verifications' = DOMAIN verifications \cup {n}
      /\ \A v \in DOMAIN verifications : verifications'[v] = verifications[v]
      /\ verifications'[n] = new
  BY <1>1, <1>3, AppendedRow
<1>5. attestations' = attestations
  BY DEF Verify
<1>6. /\ checkpoints'[i].state = JudgedState(what)
      /\ \A j \in Ordinals : j # i =>
             \/ checkpoints'[j].state = checkpoints[j].state
             \/ checkpoints[j].state = "pending" /\ checkpoints'[j].state = "in_progress"
  BY <1>1, <1>2 DEF Verify, AfterVerification, Moved, Opens
<1>7. SignedAt(i)'
  <2>1. LastWord(a, i)'
    BY <1>2, <1>5 DEF LastWord
  <2>2. ~Unjudged(a)' /\ (what = "verify" => Judged(a, "verify")')
    BY <1>3, <1>4 DEF Unjudged, Judged
  <2>3. Follows(a, JudgedState(what))'
    BY <1>2, <1>5, <2>2 DEF Follows, JudgedState, VerificationActions
  <2> QED BY <1>2, <1>5, <1>6, <2>1, <2>3 DEF SignedAt, Follows
<1>8. ASSUME NEW j \in Ordinals, j # i
      PROVE  SignedAt(j)'
  <2>1. SignedAt(j)
    BY DEF Signed
  <2>2. CASE /\ \A b \in DOMAIN attestations : attestations[b].cp # j
             /\ checkpoints[j].state \in {"pending", "in_progress"}
    BY <1>5, <1>6, <1>8, <2>2 DEF SignedAt
  <2>3. ASSUME NEW b \in DOMAIN attestations, LastWord(b, j), Follows(b, checkpoints[j].state)
        PROVE  SignedAt(j)'
    <3>1. LastWord(b, j)'
      BY <1>5, <2>3 DEF LastWord
    <3>2. checkpoints'[j].state = checkpoints[j].state
      BY <1>6, <1>8, <2>3 DEF Follows
    <3>3. b # a
      BY <1>2, <1>8, <2>3 DEF LastWord
    <3>4. (Unjudged(b)' <=> Unjudged(b)) /\ (Judged(b, "verify") => Judged(b, "verify")')
      BY <1>3, <1>4, <3>3 DEF Unjudged, Judged
    <3>5. Follows(b, checkpoints[j].state)'
      BY <1>5, <2>3, <3>2, <3>4 DEF Follows
    <3> QED BY <1>5, <2>3, <3>1, <3>5 DEF SignedAt
  <2> QED BY <2>1, <2>2, <2>3 DEF SignedAt
<1>9. ASSUME NEW v \in DOMAIN verifications', NEW w \in DOMAIN verifications',
             verifications'[v].attestation = verifications'[w].attestation
      PROVE  v = w
  <2>1. \A u \in DOMAIN verifications : verifications[u].attestation # a
    BY <1>2 DEF Unjudged
  <2> QED BY <1>3, <1>4, <1>9, <2>1 DEF Signed
<1> QED BY <1>7, <1>8, <1>9 DEF Signed

(* Every step keeps the last words signed.                                 *)
LEMMA NextSigned == TypeInv /\ Timed /\ Signed /\ [Next]_vars => Signed'
<1> SUFFICES ASSUME TypeInv, Timed, Signed, [Next]_vars PROVE Signed'
  OBVIOUS
<1>1. ASSUME UNCHANGED <<attestations, verifications>>,
             \A i \in Ordinals : \/ checkpoints'[i].state = checkpoints[i].state
                                 \/ /\ checkpoints[i].state = "pending"
                                    /\ checkpoints'[i].state \in {"pending", "in_progress"}
      PROVE  Signed'
  <2>1. ASSUME NEW i \in Ordinals
        PROVE  SignedAt(i)'
    BY <1>1 DEF Signed, SignedAt, LastWord, Follows, Judged, Unjudged
  <2> QED BY <1>1, <2>1 DEF Signed
<1>2. CASE UNCHANGED timelineVars
  BY <1>1, <1>2 DEF timelineVars
<1>3. ASSUME NEW call \in calls, Accept(call)
      PROVE  Signed'
  <2>1. CASE MayStart /\ Start(call)
    <3>1. \A i \in Ordinals : checkpoints[i].state = "pending"
      BY <2>1 DEF TypeInv, RowsAgree, MayStart
    <3> QED BY <1>1, <2>1, <3>1 DEF Start
  <2>2. CASE Reassess(call)
    BY <1>1, <2>2 DEF Reassess, HandOver
  <2> QED BY <1>3, <2>1, <2>2, AcceptCases, SignedAttest, SignedVerify
<1>4. TypeOK
  BY DEF TypeInv
<1> QED BY <1>2, <1>3, <1>4, RowsOfStep

(* What an accepted command writes: where it was composed from, the        *)
(* receipt, and the versions of the checkpoints.                           *)
LEMMA AcceptReceives ==
  ASSUME TypeInv, Receipted, NEW call \in calls, Accept(call)
  PROVE  \E new \in [cmd : Bodies, after : Nat, cpAfter : Nat] :
            /\ new.cmd = call.cmd /\ new.after = Len(receipts) + 1
            /\ receipts' = Append(receipts, new)
            /\ \/ call.cmd.op = "start"
               \/ /\ call.cmd.cp \in Ordinals
                  /\ execution.state = "active"
                  /\ checkpoints[call.cmd.cp].state # "pending"
                  /\ checkpoints'[call.cmd.cp].state # "pending"
                  /\ call.cmd.cv = checkpoints[call.cmd.cp].version
                  /\ new.cpAfter = checkpoints'[call.cmd.cp].version
                  /\ \A j \in Ordinals : j # call.cmd.cp =>
                        \/ checkpoints'[j] = checkpoints[j]
                        \/ /\ j # 1
                           /\ checkpoints[j].state = "pending" /\ checkpoints'[j].state = "in_progress"
                           /\ checkpoints'[j].version = checkpoints[j].version + 1
<1>1. PICK cmd, i : cmd = call.cmd /\ i = cmd.cp
  OBVIOUS
<1>2. /\ cmd \in Bodies /\ cmd.ev \in Nat /\ cmd.cv \in Nat /\ cmd.cv + 1 \in Nat /\ 0 \in Nat
      /\ TypeOK /\ DOMAIN checkpoints = Ordinals /\ execution.version = Len(receipts)
      /\ Composed(cmd)
  <2>1. TypeOK /\ Composed(cmd) /\ cmd \in Bodies
    BY <1>1 DEF TypeInv, Composed
  <2>2. cmd.ev \in Nat /\ cmd.cv \in Nat /\ cmd.cv + 1 \in Nat /\ 0 \in Nat
    BY <2>1 DEF Bodies
  <2>3. DOMAIN checkpoints = Ordinals
    BY <2>1 DEF TypeOK
  <2> QED BY <2>1, <2>2, <2>3 DEF Receipted
<1>3. ASSUME NEW cpAfter \in Nat, Receive(cmd, cpAfter)
      PROVE  \E new \in [cmd : Bodies, after : Nat, cpAfter : Nat] :
                /\ new.cmd = cmd /\ new.after = cmd.ev + 1 /\ new.cpAfter = cpAfter
                /\ receipts' = Append(receipts, new)
  BY <1>2, <1>3 DEF Receive
<1>4. CASE cmd.op = "start" /\ MayStart /\ Start(call)
  <2>1. cmd.ev = Len(receipts)
    <3>1. execution.version = 0 /\ cmd.ev <= execution.version
      BY <1>2, <1>4 DEF MayStart, Receipted, Composed
    <3> QED BY <1>2, <3>1
  <2>2. Receive(cmd, 0)
    BY <1>1, <1>4 DEF Start
  <2> QED BY <1>1, <1>2, <1>3, <1>4, <2>1, <2>2
<1>5. ASSUME Fresh(cmd)
      PROVE  /\ i \in Ordinals /\ execution.state = "active" /\ checkpoints[i].state # "pending"
             /\ cmd.ev = Len(receipts) /\ cmd.cv = checkpoints[i].version
  <2>1. i \in Ordinals
    BY <1>1, <1>2, <1>5, CurrentOrdinal DEF Fresh
  <2> QED BY <1>1, <1>2, <1>5, <2>1 DEF Fresh, AtCurrent, Open, VersionsMatch
<1>6. CASE cmd.op = "attest" /\ MayAttest(cmd) /\ Attest(call)
  <2>1. Fresh(cmd) /\ Receive(cmd, cmd.cv + 1)
    BY <1>1, <1>6 DEF MayAttest, Attest
  <2>2. checkpoints' = [checkpoints EXCEPT ![i] = [state |-> AttestedState(cmd.what),
                                                   version |-> checkpoints[i].version + 1]]
    BY <1>1, <1>6 DEF Attest, Moved
  <2>3. AttestedState(cmd.what) # "pending"
    BY <1>2, <1>6 DEF Composed, AttestedState, AttestationKinds
  <2> QED BY <1>1, <1>2, <1>3, <1>5, <2>1, <2>2, <2>3
<1>7. CASE cmd.op = "verify" /\ MayVerify(cmd) /\ Verify(call)
  <2>1. Fresh(cmd) /\ Receive(cmd, cmd.cv + 1)
    BY <1>1, <1>7 DEF MayVerify, Verify
  <2>2. /\ checkpoints'[i] = [state |-> JudgedState(cmd.what), version |-> checkpoints[i].version + 1]
        /\ \A j \in Ordinals : j # i =>
              checkpoints'[j] = IF Opens(cmd, j)
                                THEN [state |-> "in_progress", version |-> checkpoints[j].version + 1]
                                ELSE checkpoints[j]
    BY <1>1, <1>5, <1>7, <2>1 DEF Verify, AfterVerification, Moved
  <2>3. JudgedState(cmd.what) # "pending"
    BY DEF JudgedState
  <2>4. \A j \in Ordinals : Opens(cmd, j) => j # 1 /\ checkpoints[j].state = "pending"
    BY <1>1, <1>5, <2>1, MilestonesAssumption DEF Opens, Ordinals
  <2>5. checkpoints'[i].version = cmd.cv + 1 /\ checkpoints'[i].state # "pending"
    BY <1>5, <2>1, <2>2, <2>3
  <2>6. \A j \in Ordinals : j # i =>
            \/ checkpoints'[j] = checkpoints[j]
            \/ /\ j # 1
               /\ checkpoints[j].state = "pending" /\ checkpoints'[j].state = "in_progress"
               /\ checkpoints'[j].version = checkpoints[j].version + 1
    <3> SUFFICES ASSUME NEW j \in Ordinals, j # i
                 PROVE  \/ checkpoints'[j] = checkpoints[j]
                        \/ /\ j # 1
                           /\ checkpoints[j].state = "pending" /\ checkpoints'[j].state = "in_progress"
                           /\ checkpoints'[j].version = checkpoints[j].version + 1
      OBVIOUS
    <3>1. CASE Opens(cmd, j)
      <4>1. checkpoints'[j] = [state |-> "in_progress", version |-> checkpoints[j].version + 1]
        BY <2>2, <3>1
      <4> QED BY <2>4, <3>1, <4>1
    <3>2. CASE ~Opens(cmd, j)
      BY <2>2, <3>2
    <3> QED BY <3>1, <3>2
  <2>7. PICK new \in [cmd : Bodies, after : Nat, cpAfter : Nat] :
            /\ new.cmd = cmd /\ new.after = cmd.ev + 1 /\ new.cpAfter = cmd.cv + 1
            /\ receipts' = Append(receipts, new)
    BY <1>2, <1>3, <2>1
  <2>8. new.after = Len(receipts) + 1 /\ new.cpAfter = checkpoints'[i].version
    BY <1>5, <2>1, <2>5, <2>7
  <2>9. /\ i \in Ordinals /\ execution.state = "active" /\ checkpoints[i].state # "pending"
        /\ cmd.cv = checkpoints[i].version
    BY <1>5, <2>1
  <2> QED BY <1>1, <2>5, <2>6, <2>7, <2>8, <2>9
<1>8. CASE cmd.op = "reassess" /\ MayReassess(call) /\ Reassess(call)
  <2>1. Fresh(cmd) /\ Receive(cmd, cmd.cv) /\ checkpoints' = checkpoints
    BY <1>1, <1>8 DEF MayReassess, Reassess, HandOver
  <2> QED BY <1>1, <1>2, <1>3, <1>5, <2>1
<1> QED BY <1>1, <1>4, <1>6, <1>7, <1>8, AcceptCases

(* An accepted command keeps the receipts a history: the new one links to  *)
(* the one before it of its checkpoint, and leaves the version it says.    *)
LEMMA AcceptReceipted ==
  ASSUME TypeInv, Receipted, NEW call \in calls, Accept(call)
  PROVE  Receipted'
<1> DEFINE R == [cmd : Bodies, after : Nat, cpAfter : Nat]
<1>1. PICK n, i : n = Len(receipts) + 1 /\ i = call.cmd.cp
  OBVIOUS
<1>2. PICK new \in R :
            /\ new.cmd = call.cmd /\ new.after = n
            /\ receipts' = Append(receipts, new)
            /\ \/ call.cmd.op = "start"
               \/ /\ i \in Ordinals
                  /\ execution.state = "active"
                  /\ checkpoints[i].state # "pending"
                  /\ checkpoints'[i].state # "pending"
                  /\ call.cmd.cv = checkpoints[i].version
                  /\ new.cpAfter = checkpoints'[i].version
                  /\ \A j \in Ordinals : j # i =>
                        \/ checkpoints'[j] = checkpoints[j]
                        \/ /\ j # 1
                           /\ checkpoints[j].state = "pending" /\ checkpoints'[j].state = "in_progress"
                           /\ checkpoints'[j].version = checkpoints[j].version + 1
  BY <1>1, AcceptReceives
<1>3. /\ receipts \in Seq(R) /\ execution.version = n - 1 /\ n \in Nat
      /\ execution'.version = execution.version + 1 /\ execution'.state # "none"
  <2>1. TypeOK
    BY DEF TypeInv
  <2>2. receipts \in Seq(R)
    BY <2>1 DEF TypeOK
  <2>3. Len(receipts) \in Nat /\ execution.version = Len(receipts)
    BY <2>2, LenProperties DEF Receipted
  <2> QED BY <1>1, <2>2, <2>3, AcceptCounts
<1>4. /\ DOMAIN receipts = 1 .. n - 1 /\ Len(receipts') = n
      /\ DOMAIN receipts' = DOMAIN receipts \cup {n}
      /\ \A r \in DOMAIN receipts : receipts'[r] = receipts[r]
      /\ receipts'[n] = new
  BY <1>1, <1>2, <1>3, AppendedRow
<1>5. \A r \in DOMAIN receipts \cup {n} : \A s : s \in DOMAIN receipts' /\ s < r
                                              <=> s \in DOMAIN receipts /\ s < r
  <2> SUFFICES ASSUME NEW r \in 1 .. n, NEW s
               PROVE  s \in DOMAIN receipts' /\ s < r <=> s \in DOMAIN receipts /\ s < r
    BY <1>3, <1>4
  <2> QED BY <1>3, <1>4
<1>6. \A r \in DOMAIN receipts \cup {n} : \A j : /\ NoneBefore(r, j)' <=> NoneBefore(r, j)
                                                 /\ \A s : Before(s, r, j)' <=> Before(s, r, j)
  <2> SUFFICES ASSUME NEW r \in DOMAIN receipts \cup {n}, NEW j
               PROVE  /\ NoneBefore(r, j)' <=> NoneBefore(r, j)
                      /\ \A s : Before(s, r, j)' <=> Before(s, r, j)
    OBVIOUS
  <2>1. \A s : s \in DOMAIN receipts' /\ s < r <=> s \in DOMAIN receipts /\ s < r
    BY <1>5
  <2>2. \A s : s \in DOMAIN receipts => receipts'[s].cmd.cp = receipts[s].cmd.cp
    BY <1>4
  <2>3. NoneBefore(r, j)' <=> NoneBefore(r, j)
    BY <2>1, <2>2 DEF NoneBefore
  <2>4. ASSUME NEW s
        PROVE  Before(s, r, j)' <=> Before(s, r, j)
    BY <2>1, <2>2 DEF Before
  <2> QED BY <2>3, <2>4
<1>7. \A r \in DOMAIN receipts : LinkedAt(r)'
  <2> SUFFICES ASSUME NEW r \in DOMAIN receipts PROVE LinkedAt(r)'
    OBVIOUS
  <2>1. LinkedAt(r)
    BY DEF Receipted
  <2>2. PICK j : j = receipts[r].cmd.cp
    OBVIOUS
  <2>3. receipts'[r] = receipts[r]
    BY <1>4
  <2>4. ASSUME NEW s \in DOMAIN receipts, Before(s, r, j), receipts[s].cpAfter = receipts[r].cmd.cv
        PROVE  s \in DOMAIN receipts' /\ Before(s, r, j)' /\ receipts'[s].cpAfter = receipts[r].cmd.cv
    BY <1>4, <1>6, <2>4
  <2> QED BY <1>6, <2>1, <2>2, <2>3, <2>4 DEF LinkedAt
<1>8. \A j \in Ordinals : \/ /\ NoneBefore(n, j)
                             /\ checkpoints[j].version =
                                  CASE execution.state = "none" -> 0
                                    [] execution.state # "none" /\ (j = 1 \/ checkpoints[j].state = "pending") -> 1
                                    [] OTHER -> 2
                          \/ /\ checkpoints[j].state # "pending"
                             /\ \E s \in DOMAIN receipts : /\ Before(s, n, j)
                                                           /\ receipts[s].cpAfter = checkpoints[j].version
  BY <1>1 DEF Receipted, VersionAt
<1>9. LinkedAt(n)'
  <2>1. CASE call.cmd.op = "start"
    <3>1. call.cmd.cp = 0
      BY <2>1 DEF TypeInv, Composed
    <3>2. 0 \notin Ordinals
      BY MilestonesAssumption DEF Ordinals
    <3> QED BY <1>1, <1>2, <1>4, <3>1, <3>2 DEF LinkedAt
  <2>2. CASE call.cmd.op # "start"
    <3>1. receipts'[n].cmd.cp = i /\ receipts'[n].cmd.cv = checkpoints[i].version
      BY <1>1, <1>2, <1>4, <2>2
    <3>2. /\ i \in Ordinals /\ execution.state = "active" /\ checkpoints[i].state # "pending"
      BY <1>2, <2>2
    <3>3. CASE NoneBefore(n, i) /\ checkpoints[i].version = IF i = 1 THEN 1 ELSE 2
      BY <1>6, <3>1, <3>3 DEF LinkedAt
    <3>4. ASSUME NEW s \in DOMAIN receipts, Before(s, n, i),
                 receipts[s].cpAfter = checkpoints[i].version
          PROVE  LinkedAt(n)'
      <4>1. s \in DOMAIN receipts' /\ Before(s, n, i)' /\ receipts'[s].cpAfter = receipts[s].cpAfter
        BY <1>4, <1>6, <3>4
      <4> QED BY <3>1, <3>4, <4>1 DEF LinkedAt
    <3> QED BY <1>8, <3>2, <3>3, <3>4
  <2> QED BY <2>1, <2>2
<1>10. Len(receipts') + 1 = n + 1 /\ n + 1 \in Nat /\ n < n + 1
  BY <1>3, <1>4
<1>11. \A s : s \in DOMAIN receipts' /\ s < n + 1 <=> \/ s \in DOMAIN receipts /\ s < n
                                                     \/ s = n
  BY <1>3, <1>4
<1>12. ASSUME NEW j, j # call.cmd.cp
       PROVE  /\ NoneBefore(n, j) => NoneBefore(n + 1, j)'
              /\ \A s : Before(s, n, j) => Before(s, n + 1, j)'
  <2>1. NoneBefore(n, j) => NoneBefore(n + 1, j)'
    BY <1>2, <1>4, <1>11, <1>12 DEF NoneBefore
  <2>2. ASSUME NEW s, Before(s, n, j)
        PROVE  Before(s, n + 1, j)'
    BY <1>2, <1>4, <1>11, <1>12, <2>2 DEF Before
  <2> QED BY <2>1, <2>2
<1>13. Before(n, n + 1, call.cmd.cp)'
  <2>1. n \in DOMAIN receipts' /\ n < n + 1 /\ receipts'[n].cmd.cp = call.cmd.cp
    BY <1>2, <1>4, <1>10
  <2>2. \A t \in DOMAIN receipts' : t <= n
    BY <1>3, <1>4
  <2> QED BY <2>1, <2>2 DEF Before
<1>14. ASSUME NEW j \in Ordinals, call.cmd.op = "start"
       PROVE  VersionAt(j)'
  <2>1. MayStart /\ Start(call) /\ call.cmd.cp = 0 /\ j # 0
    BY <1>14, AcceptCases, MilestonesAssumption DEF Composed, Ordinals
  <2>2. checkpoints[j].state = "pending"
    BY <2>1 DEF TypeInv, RowsAgree, MayStart
  <2>3. NoneBefore(n + 1, j)'
    BY <1>8, <1>12, <2>1, <2>2
  <2>4. checkpoints'[j] = [state |-> IF j = 1 THEN "in_progress" ELSE "pending", version |-> 1]
    BY <2>1 DEF Start
  <2> QED BY <1>3, <1>10, <2>3, <2>4 DEF VersionAt
<1>15. ASSUME NEW j \in Ordinals, call.cmd.op # "start"
       PROVE  VersionAt(j)'
  <2>1. execution.state = "active" /\ execution'.state # "none"
    BY <1>2, <1>3, <1>15
  <2>2. CASE j = i
    BY <1>1, <1>2, <1>4, <1>10, <1>13, <1>15, <2>2 DEF VersionAt
  <2>3. CASE j # i
    <3>1. \/ checkpoints'[j] = checkpoints[j]
          \/ /\ j # 1
             /\ checkpoints[j].state = "pending" /\ checkpoints'[j].state = "in_progress"
             /\ checkpoints'[j].version = checkpoints[j].version + 1
      BY <1>2, <1>15, <2>3
    <3>2. ASSUME NoneBefore(n, j),
                 checkpoints[j].version = IF j = 1 \/ checkpoints[j].state = "pending" THEN 1 ELSE 2
          PROVE  VersionAt(j)'
      <4>1. NoneBefore(n + 1, j)'
        BY <1>1, <1>12, <2>3, <3>2
      <4>2. checkpoints'[j].version = IF j = 1 \/ checkpoints'[j].state = "pending" THEN 1 ELSE 2
        BY <3>1, <3>2
      <4> QED BY <1>10, <2>1, <4>1, <4>2 DEF VersionAt
    <3>3. ASSUME checkpoints[j].state # "pending", NEW s \in DOMAIN receipts, Before(s, n, j),
                 receipts[s].cpAfter = checkpoints[j].version
          PROVE  VersionAt(j)'
      <4>1. Before(s, n + 1, j)'
        BY <1>1, <1>12, <2>3, <3>3
      <4>2. checkpoints'[j] = checkpoints[j]
        BY <3>1, <3>3
      <4>3. s \in DOMAIN receipts' /\ receipts'[s].cpAfter = receipts[s].cpAfter
        BY <1>4
      <4> QED BY <1>10, <3>3, <4>1, <4>2, <4>3 DEF VersionAt
    <3> QED BY <1>8, <2>1, <3>2, <3>3
  <2> QED BY <2>2, <2>3
<1>16. \A r, s \in DOMAIN receipts' : receipts'[r].cmd = receipts'[s].cmd => r = s
  <2>1. \A r \in DOMAIN receipts : receipts[r].cmd # call.cmd
    BY DEF Accept, Done
  <2> QED BY <1>2, <1>4, <2>1 DEF Receipted
<1>17. \A r \in DOMAIN receipts' : receipts'[r].after = r
  BY <1>2, <1>4 DEF Receipted
<1> QED BY <1>3, <1>4, <1>7, <1>9, <1>14, <1>15, <1>16, <1>17 DEF Receipted

(* Every step keeps the receipts a history.                                *)
LEMMA NextReceipted == TypeInv /\ Receipted /\ [Next]_vars => Receipted'
<1> SUFFICES ASSUME TypeInv, Receipted, [Next]_vars PROVE Receipted'
  OBVIOUS
<1>1. CASE UNCHANGED timelineVars
  BY <1>1 DEF timelineVars, Receipted, LinkedAt, VersionAt, NoneBefore, Before
<1>2. TypeOK
  BY DEF TypeInv
<1> QED BY <1>1, <1>2, RowsOfStep, AcceptReceipted

(* Last words and receipts start empty.                                    *)
LEMMA InitRecorded == Init => Signed /\ Receipted
<1> SUFFICES ASSUME Init PROVE Signed /\ Receipted
  OBVIOUS
<1>1. /\ attestations = << >> /\ verifications = << >> /\ receipts = << >>
      /\ execution.state = "none" /\ execution.version = 0
      /\ \A i \in Ordinals : checkpoints[i].state = "pending" /\ checkpoints[i].version = 0
  BY DEF Init, TimelineInit
<1>2. DOMAIN << >> = {} /\ Len(<< >>) = 0
  OBVIOUS
<1>3. Signed
  BY <1>1, <1>2 DEF Signed, SignedAt
<1>4. Receipted
  BY <1>1, <1>2 DEF Receipted, VersionAt, NoneBefore
<1> QED BY <1>3, <1>4

(* An attestation is judged once.                                          *)
LEMMA JudgedOnce ==
  ASSUME Signed, NEW a
  PROVE  Cardinality(JudgedBy(a)) <= 1
<1>1. \A v, w \in JudgedBy(a) : v = w
  BY DEF Signed, JudgedBy
<1>2. CASE JudgedBy(a) = {}
  <2>1. Cardinality(JudgedBy(a)) = 0
    BY <1>2, FS_EmptySet
  <2> QED BY <2>1
<1>3. CASE JudgedBy(a) # {}
  <2>1. PICK v : v \in JudgedBy(a)
    BY <1>3
  <2>2. JudgedBy(a) = {v}
    BY <1>1, <2>1
  <2>3. Cardinality(JudgedBy(a)) = 1
    BY <2>2, FS_Singleton
  <2> QED BY <2>3
<1> QED BY <1>2, <1>3

(* The last attestation of a checkpoint, as SignedLastWord chooses it.     *)
LEMMA LastChosen ==
  ASSUME TypeOK, NEW i \in Ordinals, NEW a, LastWord(a, i)
  PROVE  AttestationsOf(i) # {} /\ LastOf(i) = a
<1>1. a \in AttestationsOf(i) /\ \A b \in AttestationsOf(i) : b <= a
  BY DEF LastWord, AttestationsOf
<1>2. AttestationsOf(i) \subseteq Int
  BY LenProperties DEF TypeOK, AttestationsOf
<1>3. \A b \in AttestationsOf(i) : (\A c \in AttestationsOf(i) : c <= b) => b = a
  BY <1>1, <1>2
<1> QED BY <1>1, <1>3 DEF LastOf

(* A checkpoint's last word is signed, in the words of the property.       *)
LEMMA SignedSays == TypeOK /\ Signed => SignedLastWord
<1> SUFFICES ASSUME TypeOK, Signed, NEW i \in Ordinals
             PROVE  /\ checkpoints[i].state = "verified" =>
                           /\ AttestationsOf(i) # {}
                           /\ attestations[LastOf(i)].kind = "completion"
                           /\ \E v \in JudgedBy(LastOf(i)) : verifications[v].action = "verify"
                    /\ checkpoints[i].state = "awaiting_advisor" <=>
                           /\ AttestationsOf(i) # {}
                           /\ attestations[LastOf(i)].kind = "completion"
                           /\ JudgedBy(LastOf(i)) = {}
                    /\ checkpoints[i].state = "blocked" <=>
                           AttestationsOf(i) # {} /\ attestations[LastOf(i)].kind = "blocked"
  BY JudgedOnce DEF SignedLastWord
<1>1. CASE /\ \A a \in DOMAIN attestations : attestations[a].cp # i
           /\ checkpoints[i].state \in {"pending", "in_progress"}
  <2>1. AttestationsOf(i) = {}
    BY <1>1 DEF AttestationsOf
  <2> QED BY <1>1, <2>1
<1>2. ASSUME NEW a \in DOMAIN attestations, LastWord(a, i), Follows(a, checkpoints[i].state)
      PROVE  /\ checkpoints[i].state = "verified" =>
                    /\ AttestationsOf(i) # {}
                    /\ attestations[LastOf(i)].kind = "completion"
                    /\ \E v \in JudgedBy(LastOf(i)) : verifications[v].action = "verify"
             /\ checkpoints[i].state = "awaiting_advisor" <=>
                    /\ AttestationsOf(i) # {}
                    /\ attestations[LastOf(i)].kind = "completion"
                    /\ JudgedBy(LastOf(i)) = {}
             /\ checkpoints[i].state = "blocked" <=>
                    AttestationsOf(i) # {} /\ attestations[LastOf(i)].kind = "blocked"
  <2>1. AttestationsOf(i) # {} /\ LastOf(i) = a
    BY <1>2, LastChosen
  <2>2. /\ Judged(a, "verify") <=> \E v \in JudgedBy(a) : verifications[v].action = "verify"
        /\ Unjudged(a) <=> JudgedBy(a) = {}
    BY DEF Judged, Unjudged, JudgedBy
  <2> QED BY <1>2, <2>1, <2>2 DEF Follows
<1> QED BY <1>1, <1>2 DEF Signed, SignedAt

(* The receipts are a chain, in the words of the property.                 *)
LEMMA ReceiptedSays == TypeOK /\ Receipted => ReceiptChain
<1> SUFFICES ASSUME TypeOK, Receipted PROVE ReceiptChain
  OBVIOUS
<1>1. DOMAIN receipts \subseteq Int
  BY LenProperties DEF TypeOK
<1>2. ASSUME NEW i \in Ordinals, NEW r \in ReceiptsOf(i)
      PROVE  LET earlier == {s \in ReceiptsOf(i) : s < r}
             IN  receipts[r].cmd.cv =
                     IF earlier = {} THEN IF i = 1 THEN 1 ELSE 2
                     ELSE receipts[CHOOSE s \in earlier : \A t \in earlier : t <= s].cpAfter
  <2> DEFINE earlier == {s \in ReceiptsOf(i) : s < r}
  <2>1. r \in DOMAIN receipts /\ receipts[r].cmd.cp = i /\ LinkedAt(r)
    BY DEF ReceiptsOf, Receipted
  <2>2. ASSUME NEW s \in DOMAIN receipts, Before(s, r, i), receipts[s].cpAfter = receipts[r].cmd.cv
        PROVE  earlier # {} /\ (CHOOSE t \in earlier : \A u \in earlier : u <= t) = s
    <3>1. s \in earlier /\ \A t \in earlier : t <= s
      BY <2>2 DEF Before, ReceiptsOf
    <3>2. earlier \subseteq Int
      BY <1>1 DEF ReceiptsOf
    <3> HIDE DEF earlier
    <3>3. \A t \in earlier : (\A u \in earlier : u <= t) => t = s
      BY <3>1, <3>2
    <3> QED BY <3>1, <3>3
  <2> HIDE DEF earlier
  <2>3. receipts[r].cmd.cv =
            IF earlier = {} THEN IF i = 1 THEN 1 ELSE 2
            ELSE receipts[CHOOSE s \in earlier : \A t \in earlier : t <= s].cpAfter
    <3>1. CASE NoneBefore(r, i) /\ receipts[r].cmd.cv = IF i = 1 THEN 1 ELSE 2
      <4>1. earlier = {}
        BY <3>1 DEF NoneBefore, ReceiptsOf, earlier
      <4> QED BY <3>1, <4>1
    <3>2. CASE \E s \in DOMAIN receipts : Before(s, r, i) /\ receipts[s].cpAfter = receipts[r].cmd.cv
      BY <2>2, <3>2
    <3> QED BY <2>1, <3>1, <3>2 DEF LinkedAt
  <2> QED BY <2>3 DEF earlier
<1> QED BY <1>2 DEF ReceiptChain, Receipted

(* What was said, judged and receipted is one history, for any participants *)
(* and however often commands are sent, lost or served twice (the handlers  *)
(* of migration 0014).                                                      *)
THEOREM RecordSoundAlways == Spec => []RecordSound
<1> DEFINE Inv == TypeInv /\ Timed /\ Signed /\ Receipted
<1>1. Init => Inv
  BY InitTypes, InitTimed, InitRecorded
<1>2. Inv /\ [Next]_vars => Inv'
  BY NextTypes, NextTimed, NextSigned, NextReceipted
<1>3. Inv => RecordSound
  BY SignedSays, ReceiptedSays DEF RecordSound, TypeInv
<1> QED BY <1>1, <1>2, <1>3, PTL DEF Spec

------------------------------------------------------------------------------
(***************************************************************************)
(* ImplementsProgress.  The milestones passed are those before the open    *)
(* checkpoint, and whose turn it is is the open checkpoint's state.        *)
(***************************************************************************)
Verified == {i \in Ordinals : checkpoints[i].state = "verified"}

TurnOf(state) == CASE state = "awaiting_advisor" -> "advisor"
                   [] state = "blocked" -> "blocked"
                   [] OTHER -> "family"

(* While the plan is worked off at i.                                      *)
LEMMA ProgressAt ==
  ASSUME TypeOK, NEW i \in Ordinals, WorkingAt(i)
  PROVE  /\ Cardinality(Verified) = i - 1 /\ i \notin Verified /\ IsFiniteSet(Verified)
         /\ execution.state = "active" => CurrentAction = TurnOf(checkpoints[i].state)
<1>1. Milestones \in Nat /\ Ordinals = 1 .. Milestones /\ i \in Int /\ 1 <= i /\ i <= Milestones
  BY MilestonesAssumption DEF Ordinals
<1>2. Verified = 1 .. i - 1
  <2>1. checkpoints[i].state # "verified"
    BY DEF WorkingAt, Open
  <2>2. \A j \in Ordinals : j \in 1 .. i - 1 \/ j = i \/ j \in i + 1 .. Milestones
    BY <1>1
  <2>3. \A j \in 1 .. i - 1 : j \in Ordinals
    BY <1>1
  <2>4. \A j \in i + 1 .. Milestones : checkpoints[j].state # "verified"
    BY DEF WorkingAt
  <2> QED BY <2>1, <2>2, <2>3, <2>4 DEF Verified, WorkingAt
<1>3. Cardinality(Verified) = i - 1 /\ IsFiniteSet(Verified)
  <2>1. 1 \in Int /\ i - 1 \in Int /\ (i - 1) - 1 + 1 = i - 1
    BY <1>1
  <2>2. Cardinality(1 .. i - 1) = IF 1 > i - 1 THEN 0 ELSE (i - 1) - 1 + 1
    BY <2>1, FS_Interval
  <2>3. Cardinality(1 .. i - 1) = i - 1
    BY <1>1, <2>2
  <2>4. IsFiniteSet(1 .. i - 1)
    BY <2>1, FS_Interval
  <2> QED BY <1>2, <2>3, <2>4
<1>4. (CHOOSE j \in Open : TRUE) = i
  BY DEF WorkingAt
<1>5. execution.state = "active" => CurrentAction = TurnOf(checkpoints[i].state)
  BY <1>4 DEF CurrentAction, TurnOf
<1> QED BY <1>1, <1>2, <1>3, <1>5

(* Nothing is passed before the start.                                     *)
LEMMA NothingPassed ==
  ASSUME \A i \in Ordinals : checkpoints[i].state # "verified"
  PROVE  Cardinality(Verified) = 0
<1>1. Verified = {}
  BY DEF Verified
<1> QED BY <1>1, FS_EmptySet

(* A verification passes the milestone that was open, or hands it back.    *)
LEMMA VerifyProgress ==
  ASSUME TypeInv, OneOpenCheckpoint, OneOpenCheckpoint', TypeOK', NEW call,
         Composed(call.cmd), call.cmd.op = "verify", MayVerify(call.cmd), Verify(call)
  PROVE  Progress!Pass \/ Progress!HandBack
<1> DEFINE cmd == call.cmd
<1>1. execution.state = "active" /\ TypeOK
  BY DEF TypeInv, MayVerify, Fresh, AtCurrent
<1>2. PICK i \in Ordinals : WorkingAt(i)
  BY <1>1 DEF OneOpenCheckpoint, WorkingAt
<1>3. cmd.cp = i /\ checkpoints[i].state = "awaiting_advisor"
  BY <1>2 DEF MayVerify, Fresh, AtCurrent, WorkingAt
<1>4. /\ Cardinality(Verified) = i - 1 /\ i \notin Verified /\ IsFiniteSet(Verified)
      /\ CurrentAction = "advisor"
  BY <1>1, <1>2, <1>3, ProgressAt DEF TurnOf
<1>5. \A j \in Ordinals : checkpoints'[j] =
          IF j = i THEN Moved(j, JudgedState(cmd.what))
          ELSE IF Opens(cmd, j) THEN Moved(j, "in_progress") ELSE checkpoints[j]
  BY <1>3 DEF Verify, AfterVerification
<1>6. \A j \in Ordinals : \A state : Moved(j, state).state = state
  BY DEF Moved
<1>7. ASSUME NEW j \in Ordinals, j # i
      PROVE  j \in Verified' <=> j \in Verified
  BY <1>5, <1>6, <1>7 DEF Verified, Opens
<1>8. execution'.state = IF cmd.what = "verify" /\ i = Milestones THEN "completed" ELSE "active"
  BY <1>3 DEF Verify, AdvanceExecution
<1>9. checkpoints'[i].state = JudgedState(cmd.what)
  BY <1>5, <1>6
<1>10. CASE cmd.what = "verify"
  <2>1. Verified' = Verified \cup {i}
    BY <1>7, <1>9, <1>10 DEF Verified, JudgedState
  <2>2. Cardinality(Verified') = Cardinality(Verified) + 1 /\ Cardinality(Verified') = i
    <3>1. Cardinality(Verified') = Cardinality(Verified) + 1
      BY <1>4, <2>1, FS_AddElement
    <3> QED BY <1>4, <3>1 DEF Ordinals
  <2>3. CASE i = Milestones
    <3>1. execution'.state = "completed"
      BY <1>8, <1>10, <2>3
    <3>2. CurrentAction' = "finished"
      BY <3>1 DEF CurrentAction
    <3> QED BY <1>4, <2>2, <2>3, <3>2 DEF Progress!Pass, Verified
  <2>4. CASE i # Milestones
    <3>1. execution'.state = "active"
      BY <1>8, <1>10, <2>4
    <3>2. PICK k \in Ordinals : WorkingAt(k)'
      BY <3>1 DEF OneOpenCheckpoint, WorkingAt
    <3>3. k # i /\ checkpoints'[k].state \notin {"pending", "verified"}
      BY <1>9, <1>10, <3>2 DEF WorkingAt, Open, JudgedState
    <3>4. checkpoints'[k].state = "in_progress"
      <4>1. checkpoints[k].state \in {"pending", "verified"}
        BY <1>2, <3>3 DEF WorkingAt, Open
      <4> QED BY <1>5, <1>6, <3>3, <4>1
    <3>5. CurrentAction' = TurnOf(checkpoints'[k].state)
      <4>1. (CHOOSE j \in Open' : TRUE) = k
        BY <3>2 DEF WorkingAt
      <4> QED BY <3>1, <4>1 DEF CurrentAction, TurnOf
    <3>6. CurrentAction' = "family"
      BY <3>4, <3>5 DEF TurnOf
    <3> QED BY <1>4, <2>2, <2>4, <3>6 DEF Progress!Pass, Verified
  <2> QED BY <2>3, <2>4
<1>11. CASE cmd.what # "verify"
  <2>1. \A j \in Ordinals : j # i => checkpoints'[j] = checkpoints[j]
    BY <1>5, <1>11 DEF Opens
  <2>2. checkpoints'[i].state = "in_progress" /\ execution'.state = "active"
    BY <1>8, <1>9, <1>11 DEF JudgedState
  <2>3. WorkingAt(i)'
    BY <1>1, <1>2, <2>1, <2>2, SamePlace
  <2>4. Verified' = Verified
    BY <1>4, <1>7, <2>2 DEF Verified
  <2>5. CurrentAction' = "family"
    <3>1. (CHOOSE j \in Open' : TRUE) = i
      BY <2>3 DEF WorkingAt
    <3> QED BY <2>2, <3>1 DEF CurrentAction
  <2> QED BY <1>4, <2>4, <2>5 DEF Progress!HandBack, Verified
<1> QED BY <1>10, <1>11

(* An attestation is the family's move, or none the page would show.       *)
LEMMA AttestProgress ==
  ASSUME TypeInv, OneOpenCheckpoint, NEW call,
         Composed(call.cmd), call.cmd.op = "attest", MayAttest(call.cmd), Attest(call)
  PROVE  Progress!HandIn \/ Progress!ReportBlocker \/ UNCHANGED Progress!progressVars
<1> DEFINE cmd == call.cmd
<1>1. execution.state = "active" /\ TypeOK /\ DOMAIN checkpoints = Ordinals
  BY DEF TypeInv, TypeOK, MayAttest, Fresh, AtCurrent
<1>2. PICK i \in Ordinals : WorkingAt(i)
  BY <1>1 DEF OneOpenCheckpoint, WorkingAt
<1>3. cmd.cp = i /\ checkpoints[i].state = "in_progress"
  BY <1>2 DEF MayAttest, Fresh, AtCurrent, WorkingAt
<1>4. CurrentAction = "family"
  BY <1>1, <1>2, <1>3, ProgressAt DEF TurnOf
<1>5. checkpoints' = [checkpoints EXCEPT ![i] = Moved(i, AttestedState(cmd.what))]
  BY <1>3 DEF Attest
<1>6. /\ checkpoints'[i].state = AttestedState(cmd.what)
      /\ \A j \in Ordinals : j # i => checkpoints'[j] = checkpoints[j]
  BY <1>1, <1>5 DEF Moved
<1>7. /\ cmd.what \in {"progress", "completion", "blocked"}
      /\ AttestedState(cmd.what) \notin {"pending", "verified"}
  BY DEF Composed, AttestationKinds, AttestedState
<1>8. WorkingAt(i)'
  BY <1>1, <1>2, <1>6, <1>7, SamePlace
<1>9. Verified' = Verified
  <2>1. \A j \in Ordinals : checkpoints'[j].state = "verified" <=> checkpoints[j].state = "verified"
    BY <1>3, <1>6, <1>7
  <2> QED BY <2>1 DEF Verified
<1>10. execution'.state = "active"
  BY DEF Attest, AdvanceExecution
<1>11. CurrentAction' = TurnOf(AttestedState(cmd.what))
  <2>1. (CHOOSE j \in Open' : TRUE) = i
    BY <1>8 DEF WorkingAt
  <2> QED BY <1>6, <1>10, <2>1 DEF CurrentAction, TurnOf
<1>12. CurrentAction' \in {"family", "advisor", "blocked"}
  BY <1>11 DEF TurnOf
<1>13. Cardinality(Verified') = Cardinality(Verified)
  BY <1>9
<1> QED BY <1>4, <1>12, <1>13 DEF Progress!HandIn, Progress!ReportBlocker,
           Progress!progressVars, Verified

(* Every accepted command is a move of the plan, or none.                  *)
LEMMA AcceptProgress ==
  ASSUME TypeInv, OneOpenCheckpoint, TypeInv', OneOpenCheckpoint', NEW call \in calls, Accept(call)
  PROVE  Progress!Next \/ UNCHANGED Progress!progressVars
<1>1. CASE MayStart /\ Start(call)
  <2>1. execution.state = "none" /\ \A i \in Ordinals : checkpoints[i].state = "pending"
    BY <1>1 DEF TypeInv, RowsAgree, MayStart
  <2>2. execution'.state = "active"
    BY <1>1 DEF Start, AdvanceExecution
  <2>3. \A i \in Ordinals : checkpoints'[i].state = IF i = 1 THEN "in_progress" ELSE "pending"
    BY <1>1 DEF Start
  <2>4. Verified = {} /\ Verified' = {}
    BY <2>1, <2>3 DEF Verified
  <2>5. CurrentAction = "nobody"
    BY <2>1 DEF CurrentAction
  <2>6. PICK i \in Ordinals : WorkingAt(i)'
    BY <2>2 DEF OneOpenCheckpoint, WorkingAt
  <2>7. (CHOOSE j \in Open' : TRUE) = i /\ checkpoints'[i].state = "in_progress"
    BY <2>3, <2>6 DEF WorkingAt, Open
  <2>8. CurrentAction' = "family"
    BY <2>2, <2>7 DEF CurrentAction
  <2>9. Cardinality(Verified') = Cardinality(Verified)
    BY <2>4
  <2> QED BY <2>5, <2>8, <2>9 DEF Progress!Next, Progress!Begin, Verified
<1>2. CASE MayReassess(call) /\ Reassess(call)
  <2>1. execution.state = "active" /\ TypeOK
    BY <1>2 DEF TypeInv, MayReassess, Fresh, AtCurrent
  <2>2. PICK i \in Ordinals : WorkingAt(i)
    BY <2>1 DEF OneOpenCheckpoint, WorkingAt
  <2>3. CurrentAction \in {"family", "advisor", "blocked"}
    BY <2>1, <2>2, ProgressAt DEF TurnOf
  <2>4. execution'.state = "reassessment_required" /\ checkpoints' = checkpoints
    BY <1>2 DEF Reassess, HandOver, AdvanceExecution
  <2>5. CurrentAction' = "stopped"
    BY <2>4 DEF CurrentAction
  <2> QED BY <2>3, <2>4, <2>5 DEF Progress!Next, Progress!Stop
<1>3. TypeOK'
  BY DEF TypeInv
<1> QED BY <1>1, <1>2, <1>3, AcceptCases, AttestProgress, VerifyProgress DEF Progress!Next

(* However commands are delayed, repeated, lost and overtaken, the plan    *)
(* moves as the plan page promises: TimelineCalls implements PlanProgress, *)
(* for any participants and any number of milestones.                      *)
THEOREM ImplementsProgressAlways == Spec => ImplementsProgress
<1> DEFINE Inv == TypeInv /\ OneOpenCheckpoint
<1>1. Init => Inv /\ Progress!Init
  <2> SUFFICES ASSUME Init PROVE Inv /\ Progress!Init
    OBVIOUS
  <2>1. execution.state = "none" /\ \A i \in Ordinals : checkpoints[i].state = "pending"
    BY DEF Init, TimelineInit
  <2>2. 1 \in Ordinals
    BY MilestonesAssumption DEF Ordinals
  <2>3. OneOpenCheckpoint
    BY <2>1, <2>2 DEF OneOpenCheckpoint
  <2>4. Cardinality(Verified) = 0 /\ CurrentAction = "nobody"
    BY <2>1, NothingPassed DEF CurrentAction
  <2> QED BY <2>3, <2>4, InitTypes DEF Progress!Init, Verified
<1>2. Inv /\ [Next]_vars => Inv'
  BY NextTypes, NextOneOpen
<1>3. Inv /\ Inv' /\ [Next]_vars => [Progress!Next]_Progress!progressVars
  <2> SUFFICES ASSUME Inv, Inv', [Next]_vars
               PROVE  Progress!Next \/ UNCHANGED Progress!progressVars
    OBVIOUS
  <2>1. CASE UNCHANGED timelineVars
    BY <2>1 DEF timelineVars, Progress!progressVars, CurrentAction, Open
  <2>2. TypeOK
    BY DEF TypeInv
  <2> QED BY <2>1, <2>2, RowsOfStep, AcceptProgress
<1> QED BY <1>1, <1>2, <1>3, PTL DEF Spec, ImplementsProgress, Progress!Spec

-----------------------------------------------------------------------------
(***************************************************************************)
(* The browser's tabs in front of the same handlers.  What a receipt says  *)
(* never stops being true, because versions only grow and a reassessment   *)
(* stays on record; and a tab that waits to confirm a command has it among *)
(* the receipts.                                                           *)
(***************************************************************************)
(* What a receipt says, of the rows as they are now.                       *)
ReceiptHolds(receipt) ==
    LET cmd == receipt.cmd IN
    /\ receipt.after \in Nat /\ receipt.after <= execution.version
    /\ cmd.op # "start" =>
           /\ cmd.cp \in Ordinals
           /\ receipt.cpAfter \in Nat /\ receipt.cpAfter <= checkpoints[cmd.cp].version
           /\ receipt.cpAfter = IF cmd.op = "reassess" THEN cmd.cv ELSE cmd.cv + 1
    /\ cmd.op = "reassess" => \E r \in DOMAIN reassessments : reassessments[r].cp = cmd.cp

Numbers ==
    /\ execution.version \in Nat
    /\ checkpoints = [i \in Ordinals |-> checkpoints[i]]
    /\ \A i \in Ordinals : checkpoints[i].version \in Nat
    /\ execution.state = "none" =>
           execution.version = 0 /\ \A i \in Ordinals : checkpoints[i].version = 0

Recorded ==
    /\ Numbers
    /\ \E S : receipts \in Seq(S)
    /\ \E S : reassessments \in Seq(S)
    /\ \A i \in DOMAIN receipts : ReceiptHolds(receipts[i])

(* Rows only grow.                                                         *)
Grown ==
    /\ execution.version <= execution'.version
    /\ \A i \in Ordinals : checkpoints[i].version <= checkpoints'[i].version
    /\ \A r \in DOMAIN reassessments :
           r \in DOMAIN reassessments' /\ reassessments'[r] = reassessments[r]

LEMMA ReceiptsKeepHolding ==
  ASSUME Numbers, Numbers', Grown, NEW receipt, ReceiptHolds(receipt)
  PROVE  ReceiptHolds(receipt)'
<1> DEFINE cmd == receipt.cmd
<1>1. receipt.after <= execution'.version
  BY DEF Numbers, Grown, ReceiptHolds
<1>2. ASSUME cmd.op # "start"
      PROVE  receipt.cpAfter <= checkpoints'[cmd.cp].version
  BY <1>2 DEF Numbers, Grown, ReceiptHolds
<1>3. ASSUME cmd.op = "reassess"
      PROVE  \E r \in DOMAIN reassessments' : reassessments'[r].cp = cmd.cp
  BY <1>3 DEF Grown, ReceiptHolds
<1> QED BY <1>1, <1>2, <1>3 DEF ReceiptHolds

(* A sequence with a row more.                                             *)
LEMMA Longer ==
  ASSUME NEW S, NEW s \in Seq(S), NEW new, NEW t, t = Append(s, new)
  PROVE  /\ t \in Seq(S \cup {new})
         /\ \A i \in DOMAIN s : i \in DOMAIN t /\ t[i] = s[i]
         /\ \E i \in DOMAIN t : t[i] = new
         /\ \A i \in DOMAIN t : i \in DOMAIN s \/ t[i] = new
<1> DEFINE T == S \cup {new}
<1>2. s \in Seq(T) /\ new \in T
  BY SeqMonotonic
<1>3. /\ t \in Seq(T) /\ Len(s) \in Nat
      /\ DOMAIN s = 1 .. Len(s) /\ DOMAIN t = 1 .. Len(s) + 1
      /\ \A i \in 1 .. Len(s) : t[i] = s[i]
      /\ t[Len(s) + 1] = new
  BY <1>2, AppendProperties, LenProperties
<1> HIDE DEF T
<1>4. 1 .. Len(s) + 1 = 1 .. Len(s) \cup {Len(s) + 1}
  BY <1>3
<1> QED BY <1>3, <1>4 DEF T

(* A command known to the page starts nothing but at version 0.            *)
AtStart(cmd) == cmd.op = "start" => cmd.ev = 0

(* What accepting a command does to versions, receipts and reassessments.  *)
LEMMA AcceptMoves ==
  ASSUME Numbers, NEW call, AtStart(call.cmd), Accept(call)
  PROVE  /\ Numbers'
         /\ call.cmd.ev = execution.version
         /\ execution'.version = execution.version + 1
         /\ \A i \in Ordinals : checkpoints[i].version <= checkpoints'[i].version
         /\ call.cmd.op # "start" =>
                call.cmd.cp \in Ordinals /\ checkpoints[call.cmd.cp].version = call.cmd.cv
         /\ call.cmd.op \in {"attest", "verify"} =>
                /\ checkpoints'[call.cmd.cp].version = call.cmd.cv + 1
                /\ Receive(call.cmd, call.cmd.cv + 1)
         /\ call.cmd.op = "start" => Receive(call.cmd, 0)
         /\ IF call.cmd.op = "reassess"
            THEN Receive(call.cmd, call.cmd.cv) /\ HandOver(call.cmd)
            ELSE UNCHANGED reassessments
         /\ call.cmd.op \in {"start", "attest", "verify", "reassess"}
<1> DEFINE cmd == call.cmd
<1>1. Accepted(call) /\ Write(call)
  BY DEF Accept
<1>2. CASE cmd.op = "start" /\ Start(call)
  <2>1. execution.state = "none" /\ cmd.ev = 0
    BY <1>1, <1>2 DEF Accepted, MayStart, AtStart
  <2>2. /\ execution' = [state |-> "active", version |-> execution.version + 1]
        /\ checkpoints' = [i \in Ordinals |->
               [state |-> IF i = 1 THEN "in_progress" ELSE "pending", version |-> 1]]
        /\ Receive(cmd, 0) /\ UNCHANGED reassessments
    BY <1>2 DEF Start, AdvanceExecution
  <2> QED BY <1>2, <2>1, <2>2 DEF Numbers
<1>3. ASSUME Fresh(cmd)
      PROVE  /\ execution.state = "active" /\ cmd.ev = execution.version
             /\ cmd.cp \in Ordinals /\ checkpoints[cmd.cp].version = cmd.cv
  BY <1>3 DEF Fresh, AtCurrent, VersionsMatch, Open
<1>4. CASE cmd.op = "attest" /\ Attest(call)
  <2>1. MayAttest(cmd)
    BY <1>1, <1>4 DEF Accepted
  <2>2. Fresh(cmd)
    BY <2>1 DEF MayAttest
  <2>3. PICK st : st = AttestedState(cmd.what)
    OBVIOUS
  <2>4. /\ execution' = [state |-> "active", version |-> execution.version + 1]
        /\ checkpoints' = [checkpoints EXCEPT ![cmd.cp] =
               [state |-> st, version |-> checkpoints[cmd.cp].version + 1]]
        /\ Receive(cmd, cmd.cv + 1) /\ UNCHANGED reassessments
    BY <1>4, <2>3 DEF Attest, AdvanceExecution, Moved
  <2> QED BY <1>3, <1>4, <2>2, <2>4 DEF Numbers
<1>5. CASE cmd.op = "verify" /\ Verify(call)
  <2>1. MayVerify(cmd)
    BY <1>1, <1>5 DEF Accepted
  <2>2. Fresh(cmd)
    BY <2>1 DEF MayVerify
  <2>3. PICK st : execution' = [state |-> st, version |-> execution.version + 1] /\ st # "none"
    <3>1. CASE cmd.what = "verify" /\ cmd.cp = Milestones
      <4>1. execution' = [state |-> "completed", version |-> execution.version + 1]
        BY <1>5, <3>1 DEF Verify, AdvanceExecution
      <4> QED BY <4>1
    <3>2. CASE ~(cmd.what = "verify" /\ cmd.cp = Milestones)
      <4>1. execution' = [state |-> "active", version |-> execution.version + 1]
        BY <1>5, <3>2 DEF Verify, AdvanceExecution
      <4> QED BY <4>1
    <3> QED BY <3>1, <3>2
  <2>4. \A i \in Ordinals :
            /\ checkpoints'[i].version \in {checkpoints[i].version, checkpoints[i].version + 1}
            /\ i = cmd.cp => checkpoints'[i].version = checkpoints[i].version + 1
    BY <1>5 DEF Verify, AfterVerification, Moved
  <2>5. checkpoints' = [i \in Ordinals |-> checkpoints'[i]]
    BY <1>5 DEF Verify, AfterVerification
  <2>6. Receive(cmd, cmd.cv + 1) /\ UNCHANGED reassessments
    BY <1>5 DEF Verify
  <2>7. Numbers'
    BY <2>3, <2>4, <2>5 DEF Numbers
  <2> QED BY <1>3, <1>5, <2>2, <2>3, <2>4, <2>6, <2>7 DEF Numbers
<1>6. CASE cmd.op = "reassess" /\ Reassess(call)
  <2>1. MayReassess(call)
    BY <1>1, <1>6 DEF Accepted
  <2>2. Fresh(cmd)
    BY <2>1 DEF MayReassess
  <2>3. /\ execution' = [state |-> "reassessment_required", version |-> execution.version + 1]
        /\ checkpoints' = checkpoints
        /\ Receive(cmd, cmd.cv) /\ HandOver(cmd)
    BY <1>6 DEF Reassess, AdvanceExecution, HandOver
  <2> QED BY <1>3, <1>6, <2>2, <2>3 DEF Numbers
<1> QED BY <1>1, <1>2, <1>4, <1>5, <1>6 DEF Write

LEMMA AcceptRecords ==
  ASSUME Recorded, NEW call, AtStart(call.cmd), Accept(call)
  PROVE  Recorded' /\ \A cmd : Done(cmd)' <=> Done(cmd) \/ cmd = call.cmd
<1> DEFINE cmd == call.cmd
<1>1. Numbers /\ Numbers'
  BY AcceptMoves DEF Recorded
<1>2. /\ \E S : reassessments' \in Seq(S)
      /\ \A r \in DOMAIN reassessments :
             r \in DOMAIN reassessments' /\ reassessments'[r] = reassessments[r]
      /\ cmd.op = "reassess" => \E r \in DOMAIN reassessments' : reassessments'[r].cp = cmd.cp
  <2>1. CASE cmd.op = "reassess"
    <3> DEFINE new == [cp |-> cmd.cp, trigger |-> cmd.what, ref |-> cmd.ref]
    <3>1. reassessments' = Append(reassessments, new) /\ new.cp = cmd.cp
      BY <1>1, <2>1, AcceptMoves DEF HandOver
    <3> HIDE DEF new
    <3>2. PICK S : reassessments \in Seq(S)
      BY DEF Recorded
    <3>3. /\ reassessments' \in Seq(S \cup {new})
          /\ \A r \in DOMAIN reassessments :
                 r \in DOMAIN reassessments' /\ reassessments'[r] = reassessments[r]
          /\ \E r \in DOMAIN reassessments' : reassessments'[r] = new
      BY <3>1, <3>2, Longer
    <3> QED BY <3>1, <3>3
  <2>2. CASE cmd.op # "reassess"
    BY <1>1, <2>2, AcceptMoves DEF Recorded
  <2> QED BY <2>1, <2>2
<1>3. Grown
  BY <1>1, <1>2, AcceptMoves DEF Grown, Numbers
<1>4. PICK cpAfter : /\ Receive(cmd, cpAfter)
                     /\ cpAfter = IF cmd.op = "start" THEN 0
                                  ELSE IF cmd.op = "reassess" THEN cmd.cv ELSE cmd.cv + 1
  BY <1>1, AcceptMoves
<1> DEFINE new == [cmd |-> cmd, after |-> cmd.ev + 1, cpAfter |-> cpAfter]
<1>5. receipts' = Append(receipts, new) /\ new.cmd = cmd
  BY <1>4 DEF Receive
<1>6. ReceiptHolds(new)'
  <2>1. new.after \in Nat /\ new.after <= execution'.version
    BY <1>1, AcceptMoves DEF Numbers
  <2>2. ASSUME cmd.op # "start"
        PROVE  /\ cmd.cp \in Ordinals /\ cpAfter \in Nat
               /\ cpAfter <= checkpoints'[cmd.cp].version
               /\ cpAfter = IF cmd.op = "reassess" THEN cmd.cv ELSE cmd.cv + 1
    <3>1. cmd.cp \in Ordinals /\ checkpoints[cmd.cp].version = cmd.cv
      BY <1>1, <2>2, AcceptMoves
    <3>2. cmd.cv \in Nat /\ checkpoints[cmd.cp].version <= checkpoints'[cmd.cp].version
      BY <1>1, <3>1, AcceptMoves DEF Numbers
    <3>3. cmd.op \in {"attest", "verify", "reassess"}
      BY <1>1, <2>2, AcceptMoves
    <3>4. cmd.op # "reassess" => checkpoints'[cmd.cp].version = cmd.cv + 1
      BY <1>1, <3>3, AcceptMoves
    <3> QED BY <1>1, <1>4, <2>2, <3>1, <3>2, <3>4 DEF Numbers
  <2> QED BY <1>2, <2>1, <2>2 DEF ReceiptHolds
<1> HIDE DEF new
<1>7. /\ \E S : receipts' \in Seq(S)
      /\ \A i \in DOMAIN receipts : i \in DOMAIN receipts' /\ receipts'[i] = receipts[i]
      /\ \E i \in DOMAIN receipts' : receipts'[i] = new
      /\ \A i \in DOMAIN receipts' : i \in DOMAIN receipts \/ receipts'[i] = new
  <2>1. PICK S : receipts \in Seq(S)
    BY DEF Recorded
  <2>2. /\ receipts' \in Seq(S \cup {new})
        /\ \A i \in DOMAIN receipts : i \in DOMAIN receipts' /\ receipts'[i] = receipts[i]
        /\ \E i \in DOMAIN receipts' : receipts'[i] = new
        /\ \A i \in DOMAIN receipts' : i \in DOMAIN receipts \/ receipts'[i] = new
    BY <1>5, <2>1, Longer
  <2> QED BY <2>2
<1>8. (\A i \in DOMAIN receipts : ReceiptHolds(receipts[i]))'
  <2> SUFFICES ASSUME NEW i \in DOMAIN receipts' PROVE ReceiptHolds(receipts[i])'
    OBVIOUS
  <2>1. CASE i \in DOMAIN receipts
    <3>1. receipts'[i] = receipts[i] /\ ReceiptHolds(receipts[i])
      BY <1>7, <2>1 DEF Recorded
    <3>2. PICK receipt : receipt = receipts[i]
      OBVIOUS
    <3>3. ReceiptHolds(receipt)'
      BY <1>1, <1>3, <3>1, <3>2, ReceiptsKeepHolding
    <3> QED BY <3>1, <3>2, <3>3 DEF ReceiptHolds
  <2>2. CASE receipts'[i] = new
    BY <1>6, <2>2 DEF ReceiptHolds
  <2> QED BY <1>7, <2>1, <2>2
<1>9. \A c : Done(c)' <=> Done(c) \/ c = cmd
  BY <1>5, <1>7 DEF Done
<1> QED BY <1>1, <1>2, <1>7, <1>8, <1>9 DEF Recorded

-----------------------------------------------------------------------------
(*                                The tabs                                 *)

IsRow(row) == row = [field \in {"screen", "view", "pending", "started"} |-> row[field]]

Tabbed ==
    /\ tab = [t \in Callers |-> tab[t]]
    /\ \A t \in Callers : IsRow(tab[t])
    /\ waiting = [t \in Callers |-> waiting[t]]

(* What the commands under way and those kept are, and that a tab which    *)
(* confirms a command has its receipt.                                     *)
Sent ==
    /\ \A t \in Callers : IsFiniteSet(tab[t].pending)
    /\ \A t \in Callers : \A cmd \in tab[t].pending : AtStart(cmd)
    /\ \A t \in Callers : \A call \in waiting[t] : AtStart(call.cmd)
    /\ \A call \in orphans : AtStart(call.cmd)
    /\ \A t \in Callers : tab[t].screen = "confirming" =>
           \A cmd \in tab[t].pending : Done(cmd)

(* TabTypeOK, of one tab.                                                  *)
TabSound(t, row, wait) ==
    /\ row.screen \in Screens
    /\ Cardinality(row.pending) <= 1
    /\ \A cmd \in row.pending : cmd.by = t
    /\ row.screen = "in_flight" <=> wait # {}
    /\ {call.cmd : call \in wait} \subseteq row.pending
    /\ row.screen \in {"in_flight", "confirming"} => row.pending # {}
    /\ row.screen \in {"shown", "refreshing", "session_changed"} => row.pending = {}

TabInv == Recorded /\ Tabbed /\ Sent /\ TabTypeOK

LEMMA SoundTabs == TabTypeOK <=> \A t \in Callers : TabSound(t, tab[t], waiting[t])
  BY DEF TabTypeOK, TabSound

LEMMA OfferedCommands ==
  ASSUME NEW t, NEW view, NEW cmd \in Offers(t, view)
  PROVE  cmd.by = t /\ AtStart(cmd)
<1>1. ASSUME NEW op, op \in {"attest", "verify", "reassess"}, NEW i, NEW ev, NEW cv, NEW what,
             NEW ref, cmd = Command(t, op, i, ev, cv, what, ref)
      PROVE  cmd.by = t /\ AtStart(cmd)
  BY <1>1 DEF Command, AtStart
<1>2. CASE \E c \in {t} \cap Family : cmd = StartCommand(c)
  BY <1>2 DEF StartCommand, AtStart
<1> QED BY <1>1, <1>2 DEF Offers

(* A step changes the rows or not, and one tab and its call or none; the   *)
(* others stay as they were.                                               *)
LEMMA OneTabMoves ==
  ASSUME TabInv, Recorded', \A cmd : Done(cmd) => Done(cmd)',
         NEW t \in Callers, NEW row, NEW wait,
         IsRow(row), tab' = [tab EXCEPT ![t] = row], waiting' = [waiting EXCEPT ![t] = wait],
         TabSound(t, row, wait), IsFiniteSet(row.pending),
         \A cmd \in row.pending : AtStart(cmd),
         \A call \in orphans' : call \in orphans \/ call \in waiting[t],
         row.screen = "confirming" => \A cmd \in row.pending : Done(cmd)'
  PROVE  TabInv'
<1>1. /\ tab'[t] = row /\ waiting'[t] = wait
      /\ \A u \in Callers \ {t} : tab'[u] = tab[u] /\ waiting'[u] = waiting[u]
      /\ tab' = [u \in Callers |-> tab'[u]] /\ waiting' = [u \in Callers |-> waiting'[u]]
  BY DEF TabInv, Tabbed
<1>2. Tabbed'
  BY <1>1 DEF TabInv, Tabbed
<1>3. \A call \in wait : call.cmd \in row.pending
  BY DEF TabSound
<1>4. Sent'
  BY <1>1, <1>3 DEF TabInv, Sent
<1>5. \A u \in Callers : TabSound(u, tab'[u], waiting'[u])
  BY <1>1, SoundTabs DEF TabInv
<1>6. TabTypeOK'
  BY <1>5 DEF TabTypeOK, TabSound
<1> QED BY <1>2, <1>4, <1>6 DEF TabInv

LEMMA RecordedStays ==
  ASSUME Recorded, UNCHANGED timelineVars
  PROVE  Recorded' /\ \A cmd : Done(cmd) => Done(cmd)'
  BY DEF Recorded, Numbers, ReceiptHolds, Done, timelineVars

LEMMA InitTabs == TabInit => TabInv
<1> SUFFICES ASSUME TabInit PROVE TabInv
  OBVIOUS
<1>1. Recorded
  <2>1. << >> \in Seq({}) /\ DOMAIN << >> = {}
    BY EmptySeq
  <2>2. Numbers
    BY DEF TabInit, TimelineInit, Numbers
  <2> QED BY <2>1, <2>2 DEF TabInit, TimelineInit, Recorded
<1>2. PICK view : view = View
  OBVIOUS
<1>3. /\ tab = [t \in Callers |-> [screen |-> "shown", view |-> view, pending |-> {}, started |-> TRUE]]
      /\ waiting = [t \in Callers |-> {}] /\ orphans = {}
  BY <1>2 DEF TabInit, Showing
<1>4. Tabbed /\ Sent
  BY <1>3, FS_EmptySet DEF Tabbed, IsRow, Sent
<1>5. TabTypeOK
  <2>1. Cardinality({}) = 0
    BY FS_EmptySet
  <2>2. ASSUME NEW t \in Callers
        PROVE  TabSound(t, tab[t], waiting[t])
    <3>1. /\ tab[t].screen = "shown" /\ tab[t].pending = {} /\ waiting[t] = {}
      BY <1>3
    <3> QED BY <2>1, <3>1 DEF TabSound, Screens
  <2> QED BY <2>2, SoundTabs
<1> QED BY <1>1, <1>4, <1>5 DEF TabInv

(* A row given by the fields that change is a whole row.                   *)
LEMMA OnIsARow ==
  ASSUME Tabbed, NEW t \in Callers, NEW screen, NEW pending, On(t, screen, pending)
  PROVE  \E row : /\ IsRow(row) /\ row.screen = screen /\ row.pending = pending
                  /\ tab' = [tab EXCEPT ![t] = row]
<1>1. PICK old : old = tab[t] /\ IsRow(old)
  BY DEF Tabbed
<1>2. PICK row : row = [old EXCEPT !.screen = screen, !.pending = pending]
  OBVIOUS
<1>3. IsRow(row) /\ row.screen = screen /\ row.pending = pending
  BY <1>1, <1>2 DEF IsRow
<1>4. tab' = [tab EXCEPT ![t] = row]
  BY <1>1, <1>2 DEF Tabbed, On
<1> QED BY <1>3, <1>4

(* A tab shows a view, and nothing is under way.                           *)
LEMMA TabShows ==
  ASSUME TabInv, UNCHANGED timelineVars, NEW t \in Callers, NEW view,
         tab' = [tab EXCEPT ![t] = Showing(view)], waiting' = [waiting EXCEPT ![t] = {}],
         \A call \in orphans' : call \in orphans \/ call \in waiting[t]
  PROVE  TabInv'
<1>1. PICK row : row = [screen |-> "shown", view |-> view, pending |-> {}, started |-> TRUE]
  OBVIOUS
<1>2. tab' = [tab EXCEPT ![t] = row]
  BY <1>1 DEF Showing
<1>3. TabSound(t, row, {})
  <2>1. Cardinality({}) = 0
    BY FS_EmptySet
  <2> QED BY <1>1, <2>1 DEF TabSound, Screens
<1>4. IsFiniteSet({})
  BY FS_EmptySet
<1>5. IsRow(row) /\ row.screen = "shown" /\ row.pending = {}
  BY <1>1 DEF IsRow
<1> QED BY <1>2, <1>3, <1>4, <1>5, RecordedStays, OneTabMoves DEF TabInv

(* A tab sends a command, the one it keeps from now on.                    *)
LEMMA TabSends ==
  ASSUME TabInv, UNCHANGED timelineVars, orphans' = orphans, NEW t \in Callers, NEW cmd,
         AtStart(cmd), cmd.by = t, NEW row,
         IsRow(row), row.screen = "in_flight", row.pending = {cmd},
         tab' = [tab EXCEPT ![t] = row], waiting' = [waiting EXCEPT ![t] = {CallFor(cmd)}]
  PROVE  TabInv'
<1>1. CallFor(cmd).cmd = cmd
  BY DEF CallFor
<1> DEFINE wait == {CallFor(cmd)}
<1>2. TabSound(t, row, wait)
  <2>1. Cardinality({cmd}) = 1
    BY FS_Singleton
  <2> QED BY <1>1, <2>1 DEF TabSound, Screens
<1>3. IsFiniteSet(row.pending) /\ row.screen # "confirming"
  BY FS_Singleton
<1>4. waiting' = [waiting EXCEPT ![t] = wait]
  OBVIOUS
<1>5. Recorded' /\ \A c : Done(c) => Done(c)'
  BY RecordedStays DEF TabInv
<1> HIDE DEF wait
<1> QED BY <1>2, <1>3, <1>4, <1>5, OneTabMoves

(* A tab keeps or drops its command and waits no longer.                   *)
LEMMA TabTurns ==
  ASSUME TabInv, Recorded', \A cmd : Done(cmd) => Done(cmd)', NEW t \in Callers,
         NEW screen \in Screens \ {"in_flight"}, NEW pending,
         On(t, screen, pending), waiting' = [waiting EXCEPT ![t] = {}],
         \A call \in orphans' : call \in orphans \/ call \in waiting[t],
         pending \in {{}, tab[t].pending},
         screen \in {"shown", "refreshing", "session_changed"} => pending = {},
         screen = "confirming" => pending # {} /\ \A cmd \in pending : Done(cmd)'
  PROVE  TabInv'
<1>1. PICK row : /\ IsRow(row) /\ row.screen = screen /\ row.pending = pending
                 /\ tab' = [tab EXCEPT ![t] = row]
  BY OnIsARow DEF TabInv
<1>3. TabSound(t, row, {})
  <2>1. Cardinality({}) = 0
    BY FS_EmptySet
  <2>2. TabSound(t, tab[t], waiting[t])
    BY SoundTabs DEF TabInv
  <2>3. pending \subseteq tab[t].pending /\ Cardinality(pending) <= 1
    <3>1. CASE pending = {}
      BY <2>1, <3>1
    <3>2. CASE pending = tab[t].pending
      BY <2>2, <3>2 DEF TabSound
    <3> QED BY <3>1, <3>2
  <2> QED BY <1>1, <2>2, <2>3 DEF TabSound
<1>4. IsFiniteSet(pending) /\ \A cmd \in pending : AtStart(cmd)
  BY FS_EmptySet DEF TabInv, Sent
<1> QED BY <1>1, <1>3, <1>4, OneTabMoves

(* Cardinality says at most one only of a finite set; the page keeps one.  *)
LEMMA OnlyOne ==
  ASSUME NEW S, IsFiniteSet(S), Cardinality(S) <= 1, NEW x \in S
  PROVE  S = {x}
<1>1. ASSUME NEW y \in S, y # x
      PROVE  FALSE
  <2>1. /\ IsFiniteSet({x} \cup {y})
        /\ Cardinality({x} \cup {y}) = 2
    <3>1. IsFiniteSet({x}) /\ Cardinality({x}) = 1 /\ y \notin {x}
      BY <1>1, FS_Singleton
    <3>2. PICK one : one = {x}
      OBVIOUS
    <3>3. IsFiniteSet(one \cup {y}) /\ Cardinality(one \cup {y}) = Cardinality(one) + 1
      BY <3>1, <3>2, FS_AddElement
    <3> QED BY <3>1, <3>2, <3>3
  <2>2. {x} \cup {y} \subseteq S
    BY <1>1
  <2> QED BY <2>1, <2>2, FS_Subset, FS_CardinalityType
<1> QED BY <1>1

LEMMA NextTabs == TabInv /\ [TabNext]_tabVars => TabInv'
<1> SUFFICES ASSUME TabInv, [TabNext]_tabVars PROVE TabInv'
  OBVIOUS
<1>1. \A t \in Callers : TabSound(t, tab[t], waiting[t])
  BY SoundTabs DEF TabInv
<1>2. ASSUME NEW t \in Callers, waiting[t] = {}
      PROVE  waiting = [waiting EXCEPT ![t] = {}]
  BY <1>2 DEF TabInv, Tabbed
<1>3. ASSUME NEW t \in Callers, tab[t].screen # "in_flight"
      PROVE  waiting[t] = {} /\ waiting = [waiting EXCEPT ![t] = {}]
  BY <1>1, <1>2, <1>3 DEF TabSound
<1>4. ASSUME NEW t \in Callers, Act(t) PROVE TabInv'
  <2>1. PICK cmd \in Buttons(t) :
            /\ tab' = [tab EXCEPT ![t].screen = "in_flight", ![t].pending = {cmd},
                                  ![t].started = TRUE]
            /\ waiting' = [waiting EXCEPT ![t] = {CallFor(cmd)}]
    BY <1>4 DEF Act
  <2>2. PICK row : /\ IsRow(row) /\ row.screen = "in_flight" /\ row.pending = {cmd}
                   /\ tab' = [tab EXCEPT ![t] = row]
    <3>1. PICK old : old = tab[t] /\ IsRow(old)
      BY DEF TabInv, Tabbed
    <3>2. PICK row : row = [old EXCEPT !.screen = "in_flight", !.pending = {cmd}, !.started = TRUE]
      OBVIOUS
    <3>3. IsRow(row) /\ row.screen = "in_flight" /\ row.pending = {cmd}
      BY <3>1, <3>2 DEF IsRow
    <3>4. tab' = [tab EXCEPT ![t] = row]
      BY <2>1, <3>1, <3>2 DEF TabInv, Tabbed
    <3> QED BY <3>3, <3>4
  <2>3. UNCHANGED timelineVars /\ orphans' = orphans /\ AtStart(cmd) /\ cmd.by = t
    BY <1>4, OfferedCommands DEF Act, Buttons
  <2> QED BY <2>1, <2>2, <2>3, TabSends
<1>5. ASSUME NEW t \in Callers, Recover(t) PROVE TabInv'
  <2>1. PICK started : started = (execution.state # "none")
    OBVIOUS
  <2>2. PICK cmd \in tab[t].pending :
            /\ tab' = [tab EXCEPT ![t].screen = "in_flight", ![t].started = started]
            /\ waiting' = [waiting EXCEPT ![t] = {CallFor(cmd)}]
    BY <1>5, <2>1 DEF Recover
  <2>3. tab[t].pending = {cmd}
    <3>1. IsFiniteSet(tab[t].pending) /\ Cardinality(tab[t].pending) <= 1
      BY <1>1 DEF TabSound, TabInv, Sent
    <3> QED BY <2>2, <3>1, OnlyOne
  <2>4. PICK row : /\ IsRow(row) /\ row.screen = "in_flight" /\ row.pending = {cmd}
                   /\ tab' = [tab EXCEPT ![t] = row]
    <3>1. PICK old : old = tab[t] /\ IsRow(old)
      BY DEF TabInv, Tabbed
    <3>2. PICK row : row = [old EXCEPT !.screen = "in_flight", !.started = started]
      OBVIOUS
    <3>3. IsRow(row) /\ row.screen = "in_flight" /\ row.pending = {cmd}
      BY <2>3, <3>1, <3>2 DEF IsRow
    <3>4. tab' = [tab EXCEPT ![t] = row]
      BY <2>2, <3>1, <3>2 DEF TabInv, Tabbed
    <3> QED BY <3>3, <3>4
  <2>5. UNCHANGED timelineVars /\ orphans' = orphans /\ AtStart(cmd) /\ cmd.by = t
    BY <1>1, <1>5, <2>2 DEF Recover, TabInv, Sent, TabSound
  <2> QED BY <2>2, <2>4, <2>5, TabSends
<1>6. ASSUME NEW t \in Callers, RecoverByReading(t) \/ Refresh(t) PROVE TabInv'
  <2>1. PICK view : view = View
    OBVIOUS
  <2>2. /\ tab' = [tab EXCEPT ![t] = Showing(view)] /\ orphans' = orphans
        /\ UNCHANGED timelineVars /\ waiting' = waiting /\ tab[t].screen # "in_flight"
    BY <1>6, <2>1 DEF RecoverByReading, Refresh
  <2> QED BY <1>3, <2>2, TabShows
<1>7. ASSUME NEW t \in Callers, Reload(t) PROVE TabInv'
  <2>1. PICK view : view = View
    OBVIOUS
  <2> QED BY <1>7, <2>1, TabShows DEF Reload
<1>8. UNCHANGED timelineVars => Recorded' /\ \A cmd : Done(cmd) => Done(cmd)'
  BY RecordedStays DEF TabInv
<1>9. ASSUME NEW t \in Callers, TransportFails(t) PROVE TabInv'
  <2>1. \A call \in orphans' : call \in orphans \/ call \in waiting[t]
    BY <1>9 DEF TransportFails
  <2> QED BY <1>8, <1>9, <2>1, TabTurns DEF TransportFails, Screens
<1>10. ASSUME NEW t \in Callers, ReadFails(t) PROVE TabInv'
  BY <1>3, <1>8, <1>10, TabTurns DEF ReadFails, Screens
<1>11. ASSUME NEW t \in Callers, Confirm(t) PROVE TabInv'
  <2>1. UNCHANGED timelineVars /\ orphans' = orphans /\ waiting' = [waiting EXCEPT ![t] = {}]
    BY <1>3, <1>11 DEF Confirm
  <2>2. PICK view : view = View
    OBVIOUS
  <2>3. tab' = [tab EXCEPT ![t] = Showing(view)] \/ On(t, "session_changed", {})
    BY <1>11, <2>2 DEF Confirm
  <2>4. CASE On(t, "session_changed", {})
    BY <1>8, <2>1, <2>4, TabTurns DEF Screens
  <2> QED BY <2>1, <2>3, <2>4, TabShows
<1>12. ASSUME NEW t \in Callers, GetReceipt(t) PROVE TabInv'
  <2>1. PICK call \in waiting[t] :
            (Replay(call) \/ Accept(call)) /\ Answered(t, "confirming", tab[t].pending)
    BY <1>12 DEF GetReceipt
  <2>2. tab[t].pending = {call.cmd}
    <3>1. /\ call.cmd \in tab[t].pending
          /\ IsFiniteSet(tab[t].pending) /\ Cardinality(tab[t].pending) <= 1
      BY <1>1 DEF TabSound, TabInv, Sent
    <3> QED BY <3>1, OnlyOne
  <2>3. Recorded' /\ (\A cmd : Done(cmd) => Done(cmd)') /\ Done(call.cmd)'
    <3>1. CASE Replay(call)
      BY <1>8, <3>1 DEF Replay
    <3>2. CASE Accept(call)
      BY <3>2, AcceptRecords DEF TabInv, Sent
    <3> QED BY <2>1, <3>1, <3>2
  <2> QED BY <2>1, <2>2, <2>3, TabTurns DEF Answered, Screens
<1>13. ASSUME NEW t \in Callers, GetRefusal(t) PROVE TabInv'
  <2>1. /\ UNCHANGED timelineVars
        /\ Answered(t, "refreshing", {}) \/ Answered(t, "recoverable", tab[t].pending)
    BY <1>13 DEF GetRefusal, Refuse
  <2> QED BY <1>8, <2>1, TabTurns DEF Answered, Screens
<1>14. ASSUME UNCHANGED <<tab, waiting>>, Recorded', \A cmd : Done(cmd) => Done(cmd)',
              orphans' \subseteq orphans
       PROVE  TabInv'
  BY <1>14 DEF TabInv, Tabbed, Sent, TabTypeOK
<1>15. CASE ServeOrphan
  <2>1. PICK call \in orphans : /\ Replay(call) \/ Accept(call) \/ Refuse(call)
                                /\ orphans' = orphans \ {call}
    BY <1>15 DEF ServeOrphan
  <2>2. Recorded' /\ \A cmd : Done(cmd) => Done(cmd)'
    <3>1. CASE Replay(call) \/ Refuse(call)
      BY <1>8, <3>1 DEF Replay, Refuse
    <3>2. CASE Accept(call)
      BY <3>2, AcceptRecords DEF TabInv, Sent
    <3> QED BY <2>1, <3>1, <3>2
  <2> QED BY <1>14, <1>15, <2>1, <2>2 DEF ServeOrphan
<1>16. CASE DateTurns \/ UNCHANGED tabVars
  BY <1>8, <1>14, <1>16 DEF DateTurns, DueDatePasses, tabVars
<1> QED BY <1>4, <1>5, <1>6, <1>7, <1>9, <1>10, <1>11, <1>12, <1>13, <1>15, <1>16 DEF TabNext

LEMMA TabInvariant == TabSpec => []TabInv
  BY InitTabs, NextTabs, PTL DEF TabSpec

(* A tab keeps at most one command, its own, and only while the outcome of *)
(* that command is open, for any callers and any number of faults.         *)
THEOREM TabsTyped == TabSpec => []TabTypeOK
<1>1. TabInv => TabTypeOK
  BY DEF TabInv
<1> QED BY <1>1, TabInvariant, PTL

(* The receipt a tab confirms agrees with the rows it reads, whatever      *)
(* others did since: the page never takes its own success for a conflict.  *)
THEOREM ReceiptsReconcileAlways == TabSpec => []ReceiptsReconcile
<1>1. TabInv => ReceiptsReconcile
  <2> SUFFICES ASSUME TabInv, NEW t \in Callers, tab[t].screen = "confirming",
                      NEW cmd \in tab[t].pending
               PROVE  Reconciles(ReceiptOf(cmd))
    BY DEF ReceiptsReconcile
  <2>1. \E i \in DOMAIN receipts : receipts[i].cmd = cmd
    BY DEF TabInv, Sent, Done
  <2>2. PICK i : i = CHOOSE j \in DOMAIN receipts : receipts[j].cmd = cmd
    OBVIOUS
  <2>3. i \in DOMAIN receipts /\ ReceiptOf(cmd) = receipts[i]
    BY <2>1, <2>2 DEF ReceiptOf
  <2>4. ReceiptHolds(receipts[i]) /\ Numbers
    BY <2>3 DEF TabInv, Recorded
  <2> QED BY <2>3, <2>4 DEF ReceiptHolds, Reconciles, Numbers
<1> QED BY <1>1, TabInvariant, PTL

(* A command that a refusal made the page drop left no receipt, although   *)
(* earlier answers to it may have been lost.                               *)
THEOREM DropsOnlyUndoneAlways == TabSpec => DropsOnlyUndone
<1> DEFINE Step ==
      \A t \in Callers : tab[t].screen = "in_flight" /\ tab'[t].screen = "refreshing" =>
          \A cmd \in tab[t].pending : ~\E i \in DOMAIN receipts' : receipts'[i].cmd = cmd
<1>1. TabInv /\ [TabNext]_tabVars => [Step]_tabVars
  <2> SUFFICES ASSUME TabInv, [TabNext]_tabVars, NEW t \in Callers,
                      tab[t].screen = "in_flight", tab'[t].screen = "refreshing",
                      NEW cmd \in tab[t].pending
               PROVE  ~\E i \in DOMAIN receipts' : receipts'[i].cmd = cmd
    OBVIOUS
  <2>1. TabSound(t, tab[t], waiting[t])
    BY SoundTabs DEF TabInv
  <2>2. ASSUME NEW u \in Callers, NEW row, row.screen # "refreshing" \/ u # t
        PROVE  tab' # [tab EXCEPT ![u] = row]
    BY <2>2 DEF TabInv, Tabbed
  <2>3. ASSUME NEW u \in Callers, NEW screen, NEW pending, screen # "refreshing" \/ u # t
        PROVE  ~On(u, screen, pending)
    BY <2>2, <2>3, OnIsARow DEF TabInv
  <2>4. ASSUME NEW u \in Callers, NEW view
        PROVE  tab' # [tab EXCEPT ![u] = Showing(view)]
    BY <2>2 DEF Showing
  <2>5. ASSUME NEW u \in Callers, Act(u) \/ Recover(u)
        PROVE  FALSE
    <3>1. CASE Act(u)
      <4>1. PICK cmds : tab' = [tab EXCEPT ![u].screen = "in_flight", ![u].pending = cmds,
                                           ![u].started = TRUE]
        BY <3>1 DEF Act
      <4> QED BY <4>1 DEF TabInv, Tabbed
    <3>2. CASE Recover(u)
      <4>1. PICK started : tab' = [tab EXCEPT ![u].screen = "in_flight", ![u].started = started]
        BY <3>2 DEF Recover
      <4> QED BY <4>1 DEF TabInv, Tabbed
    <3> QED BY <2>5, <3>1, <3>2
  <2>6. ASSUME NEW u \in Callers,
               RecoverByReading(u) \/ Refresh(u) \/ Reload(u) \/ TransportFails(u)
               \/ ReadFails(u) \/ Confirm(u) \/ GetReceipt(u)
        PROVE  FALSE
    BY <2>3, <2>4, <2>6
    DEF RecoverByReading, Refresh, Reload, TransportFails, ReadFails, Confirm, GetReceipt, Answered
  <2>7. tab' # tab
    OBVIOUS
  <2>8. PICK u \in Callers : GetRefusal(u)
    BY <2>5, <2>6, <2>7 DEF TabNext, ServeOrphan, DateTurns, tabVars
  <2>9. u = t
    BY <2>3, <2>8 DEF GetRefusal, Answered
  <2>10. PICK call \in waiting[t] : Refuse(call)
    BY <2>8, <2>9 DEF GetRefusal
  <2>11. cmd = call.cmd
    <3>1. /\ call.cmd \in tab[t].pending
          /\ IsFiniteSet(tab[t].pending) /\ Cardinality(tab[t].pending) <= 1
      BY <2>1 DEF TabSound, TabInv, Sent
    <3> QED BY <3>1, OnlyOne
  <2> QED BY <2>10, <2>11 DEF Refuse, Done, timelineVars
<1> QED BY <1>1, TabInvariant, PTL DEF TabSpec, DropsOnlyUndone
=============================================================================
