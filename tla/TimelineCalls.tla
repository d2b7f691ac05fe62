---------------------------- MODULE TimelineCalls ----------------------------
(***************************************************************************)
(* TimelineExecution under its HTTP callers: people with several tabs and  *)
(* scripts, who compose a command from what they read, send it, and send   *)
(* it again with the same key when they hear nothing.  A request may be    *)
(* lost, overtaken or served twice, and an answer may be lost.             *)
(***************************************************************************)
EXTENDS TimelineExecution

CONSTANTS
    MaxVersion,      \* bound: no command is composed on a later version
    MaxCalls         \* bound: calls under way

ASSUME BoundsAssumption == {MaxVersion, MaxCalls} \subseteq Nat

VARIABLES
    calls            \* the calls under way

vars == <<timelineVars, today, calls>>

-----------------------------------------------------------------------------
Init ==
    /\ TimelineInit
    /\ calls = {}

(* What a caller may send for what a read shows now: the endpoint of the   *)
(* role, the open checkpoint, any kind, action, trigger and reference.     *)
OnOpen(callers, op, whats, refs) ==
    {Command(c, op, i, execution.version, checkpoints[i].version, what, ref) :
        c \in callers, i \in Open, what \in whats, ref \in refs}

Commands ==
    LET known == {a \in DOMAIN attestations : attestations[a].cp \in Open} IN
    IF execution.state = "none" THEN {StartCommand(c) : c \in Family}
    ELSE OnOpen(Family, "attest", AttestationKinds, {NoReference})
         \cup OnOpen(Advisors, "verify", VerificationActions, known)
         \cup OnOpen(Advisors, "reassess", {"blocked_attestation"}, known)
         \cup OnOpen(Advisors, "reassess", {"deadline_elapsed"}, {NoReference})

(* told: its author was told that the command is refused, by another copy. *)
CallOf(cmd, told) ==
    [cmd |-> cmd, at |-> EntryTime(cmd), day |-> EntryDay(cmd), told |-> told]

Issue ==
    /\ execution.state \in {"none", "active"}
    /\ execution.version < MaxVersion
    /\ Cardinality(calls) < MaxCalls
    /\ \E cmd \in Commands : calls' = calls \cup {CallOf(cmd, FALSE)}
    /\ UNCHANGED <<timelineVars, today>>

(* The author hears nothing and sends the same key again: the first copy   *)
(* is still under way, or was lost.                                        *)
Repeat ==
    /\ \E call \in calls : \E kept \in SUBSET {call} :
           calls' = (calls \ {call}) \cup kept \cup {CallOf(call.cmd, call.told)}
    /\ Cardinality(calls') <= MaxCalls
    /\ UNCHANGED <<timelineVars, today>>

Lose ==
    /\ \E call \in calls : calls' = calls \ {call}
    /\ UNCHANGED <<timelineVars, today>>

(* A call is answered.  left: the call, if another copy of it is under way *)
Answer(call, left) ==
    /\ calls' = (calls \ {call}) \cup left
    /\ UNCHANGED today

ServeReplay == \E call \in calls : \E left \in SUBSET {call} : Replay(call) /\ Answer(call, left)
ServeAccept == \E call \in calls : \E left \in SUBSET {call} : Accept(call) /\ Answer(call, left)

(* heard: the refusal reaches its author.                                  *)
ServeRefuse ==
    /\ \E call \in calls : \E left \in SUBSET {call}, heard \in BOOLEAN :
           /\ Refuse(call)
           /\ calls' = {[other EXCEPT !.told = @ \/ (heard /\ other.cmd = call.cmd)] :
                            other \in (calls \ {call}) \cup left}
    /\ UNCHANGED today

DatePasses == DueDatePasses /\ UNCHANGED calls

Next ==
    \/ Issue \/ Repeat \/ Lose
    \/ ServeReplay \/ ServeAccept \/ ServeRefuse
    \/ DatePasses

Spec == Init /\ [][Next]_vars

-----------------------------------------------------------------------------
(*                              Properties                                 *)

Bodies ==
    [op : {"start", "attest", "verify", "reassess"}, by : Callers,
     cp : {0} \cup Ordinals, ev : Nat, cv : Nat,
     what : {"start"} \cup AttestationKinds \cup VerificationActions \cup Triggers,
     ref : Nat]

(* Every row keeps the shape migration 0014 declares, a reference names an *)
(* attestation that exists, and there is one reassessment per execution    *)
(* (the unique index is never what stops a second one).                    *)
TypeOK ==
    /\ execution \in [state : {"none", "active", "reassessment_required", "completed"},
                      version : Nat]
    /\ checkpoints \in [Ordinals -> [state : CheckpointStates, version : Nat]]
    /\ attestations \in Seq([cp : Ordinals, kind : AttestationKinds, at : Nat])
    /\ verifications \in Seq([attestation : DOMAIN attestations, action : VerificationActions])
    /\ reassessments \in Seq([cp : Ordinals, trigger : Triggers,
                              ref : {NoReference} \cup DOMAIN attestations])
    /\ Len(reassessments) <= 1
    /\ receipts \in Seq([cmd : Bodies, after : Nat, cpAfter : Nat])
    /\ today \in 0 .. Milestones
    /\ calls \subseteq [cmd : Bodies, at : Nat, day : 0 .. Milestones, told : BOOLEAN]

(* The plan is worked off in order: while it is active exactly one         *)
(* checkpoint is open, all before it are verified and all after it         *)
(* pending; it is completed exactly when the last one is verified.  This   *)
(* is what lets read_timeline_execution refuse anything else (NV006).      *)
OneOpenCheckpoint ==
    /\ execution.state \in {"active", "reassessment_required"} =>
           \E i \in Ordinals :
               /\ Open = {i}
               /\ \A j \in 1 .. i - 1 : checkpoints[j].state = "verified"
               /\ \A j \in i + 1 .. Milestones : checkpoints[j].state = "pending"
    /\ execution.state = "completed" <=> \A i \in Ordinals : checkpoints[i].state = "verified"

(* created_at is read before the row lock is taken, so nothing but the     *)
(* version checks makes its order the order of the commits.  "The latest   *)
(* attestation" of verify, reassess and the reads means the last one only  *)
(* because of this.                                                        *)
CommitOrder ==
    \A a, b \in DOMAIN attestations : a < b => attestations[a].at < attestations[b].at

AttestationsOf(i) == {a \in DOMAIN attestations : attestations[a].cp = i}
LastOf(i) == CHOOSE a \in AttestationsOf(i) : \A b \in AttestationsOf(i) : b <= a
JudgedBy(a) == {v \in DOMAIN verifications : verifications[v].attestation = a}

(* What the advisor signed is what the family said last: a checkpoint is   *)
(* verified by exactly one verification, of the last attestation made for  *)
(* it, which is a completion; no attestation is judged twice; a checkpoint *)
(* waits for the advisor exactly while its last word is an unjudged        *)
(* completion, and is blocked exactly while it is a blocker.               *)
SignedLastWord ==
    /\ \A a \in DOMAIN attestations : Cardinality(JudgedBy(a)) <= 1
    /\ \A i \in Ordinals :
        /\ checkpoints[i].state = "verified" =>
               /\ AttestationsOf(i) # {}
               /\ attestations[LastOf(i)].kind = "completion"
               /\ \E v \in JudgedBy(LastOf(i)) : verifications[v].action = "verify"
        /\ checkpoints[i].state = "awaiting_advisor" <=>
               /\ AttestationsOf(i) # {}
               /\ attestations[LastOf(i)].kind = "completion"
               /\ JudgedBy(LastOf(i)) = {}
        /\ checkpoints[i].state = "blocked" <=>
               AttestationsOf(i) # {} /\ attestations[LastOf(i)].kind = "blocked"

ReceiptsOf(i) == {r \in DOMAIN receipts : receipts[r].cmd.cp = i}

(* The receipts are the history of the execution: the n-th one leads to    *)
(* version n and none is missing; each command has one receipt; and on     *)
(* every checkpoint each receipt starts from the version the one before it *)
(* left, so a caller can replay the history from receipts alone.           *)
ReceiptChain ==
    /\ execution.version = Len(receipts)
    /\ \A r \in DOMAIN receipts : receipts[r].after = r
    /\ \A r, s \in DOMAIN receipts : receipts[r].cmd = receipts[s].cmd => r = s
    /\ \A i \in Ordinals : \A r \in ReceiptsOf(i) :
           LET earlier == {s \in ReceiptsOf(i) : s < r}
           IN  receipts[r].cmd.cv =
                   IF earlier = {} THEN IF i = 1 THEN 1 ELSE 2
                   ELSE receipts[CHOOSE s \in earlier : \A t \in earlier : t <= s].cpAfter

(* What was said, judged and receipted is one history.                     *)
RecordSound == SignedLastWord /\ ReceiptChain

(* A caller that was told "no" can rely on it: however often the command   *)
(* was sent, no copy of it took or takes effect.  It holds because the key *)
(* is looked up before state and versions are judged, and because nothing  *)
(* a refusal rests on can be undone; an author that sees a deadline not    *)
(* yet passed is the one exception, time changes that.                     *)
RefusalFinal ==
    \A call \in calls : call.told /\ call.cmd.what # "deadline_elapsed" => ~Done(call.cmd)

(* An execution stops for reassessment exactly when a hand-over is on      *)
(* record, for the checkpoint that is open, and its proof still holds:     *)
(* the blocker it cites is the last thing the family said in the whole     *)
(* execution, or the due date has passed.                                  *)
HandoffProven ==
    /\ execution.state = "reassessment_required" <=> reassessments # << >>
    /\ \A r \in DOMAIN reassessments :
        LET h == reassessments[r] IN
        /\ Open = {h.cp}
        /\ IF h.trigger = "blocked_attestation"
           THEN /\ h.ref = Len(attestations)
                /\ attestations[h.ref].kind = "blocked"
                /\ checkpoints[h.cp].state = "blocked"
           ELSE today >= h.cp

(* A completed or handed-over execution never changes again, and a blocked *)
(* checkpoint has no way out but the hand-over, whatever is still under    *)
(* way when it gets there.                                                 *)
StopsForGood ==
    [][/\ execution.state \in {"completed", "reassessment_required"} => UNCHANGED timelineVars
       /\ (\E i \in Ordinals : checkpoints[i].state = "blocked") =>
              UNCHANGED <<checkpoints, attestations, verifications>>]_vars
=============================================================================
