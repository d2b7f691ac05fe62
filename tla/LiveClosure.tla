---------------------------- MODULE LiveClosure ----------------------------
(***************************************************************************)
(* Stages 2 to 4 of the live closure (live_controller.py, class            *)
(* DraLiveClosureController, and inspect_provider_free_stage in            *)
(* scripts/verify_dra_live_closure.py): promote the candidate, create and  *)
(* review the planning task, record the family decision, evaluate.         *)
(*                                                                         *)
(* Each of the four mutations reads the authority first, posts when it     *)
(* finds nothing, and on a transport failure leaves an ambiguous receipt   *)
(* and reads again.  A post that the client has given up on may still      *)
(* arrive.  The API, the worker and the other users are external: a key    *)
(* has one effect, and someone else may act first.                         *)
(***************************************************************************)
EXTENDS Naturals

CONSTANTS CaptureSchema,  \* the schema of capture.json: "v2" is what Stage 1 writes
                          \* for an intent frozen now, "v1" what it wrote before
          Rivals,         \* mutations that other users may make first
          TaskOutcomes,   \* how the worker may end the task
          MaxFaults       \* bound on kills, interrupts and lost answers

Mutations == {"promotion", "task", "review", "decision"}

ASSUME ClosureAssumption ==
  /\ CaptureSchema \in {"v1", "v2"}
  /\ Rivals \subseteq Mutations
  /\ TaskOutcomes \subseteq {"ours", "failed"}
  /\ MaxFaults \in Nat

VARIABLES receipts,   \* promotion, review, decision, evaluation, ambiguous ones
          effect,     \* what the API holds of each mutation
          inflight,   \* posts that have not arrived
          snapshot,   \* the source bytes: "none", "supplied", "wrong", "opened"
          marker,     \* the file .night-voyager-stage2-active
          proc,       \* the command that runs
          faults

closureVars == <<receipts, effect, inflight, snapshot, marker, proc, faults>>

Stages == {"promote", "review", "decide"}
Stage(m) == CASE m = "promotion" -> "promote"
              [] m = "decision"  -> "decide"
              [] OTHER           -> "review"

\* The receipt a stage needs and the one it writes.
Parent(s) == [promote |-> "capture", review |-> "promotion",
              decide |-> "review"][s]
Product(s) == [promote |-> "promotion", review |-> "review",
               decide |-> "decision"][s]
Ambiguous(s) == [promote |-> "promotion-ambiguous",
                 review |-> "review-ambiguous",
                 decide |-> "decision-ambiguous"][s]
Names == {"capture", "promotion", "review", "decision", "evaluation"}
           \cup {Ambiguous(s) : s \in Stages}

\* An ambiguous receipt names the mutation, by its key; other receipts of one
\* name cannot differ.
None == "none"
Has(n) == receipts[n] # None

Publish(n, content) == IF Has(n) THEN receipts ELSE [receipts EXCEPT ![n] = content]
Clash(n, content) == Has(n) /\ receipts[n] # content

NoCommand == [at |-> "idle"]
At(place, m) == [at |-> place, mutation |-> m]
Entering(next) == [at |-> "enter", mutation |-> "promotion", next |-> next]
Fault == faults < MaxFaults /\ faults' = faults + 1

ClosureInit ==
  /\ receipts = [n \in Names |-> IF n = "capture" THEN CaptureSchema ELSE None]
  /\ effect = [m \in Mutations |-> None]
  /\ inflight = {}
  /\ snapshot = "none" /\ marker = FALSE
  /\ proc = NoCommand
  /\ faults = 0

\* Leaving supplied_snapshot by return, exception or signal.
LeaveSnapshot(m) ==
  IF Stage(m) = "promote" THEN snapshot' = "none" /\ marker' = FALSE
                          ELSE UNCHANGED <<snapshot, marker>>

\* A slip: no finally.
GiveUpAtOnce(m) == proc' = NoCommand /\ UNCHANGED <<snapshot, marker>>

GiveUp(m) == proc' = NoCommand /\ LeaveSnapshot(m)

(***************************************************************************)
(* The stages.                                                             *)
(***************************************************************************)
\* The operator supplies the declared bytes, or by mistake others.
Supply == /\ proc = NoCommand /\ snapshot = "none"
          /\ \/ snapshot' = "supplied" /\ UNCHANGED faults
             \/ snapshot' = "wrong" /\ Fault
          /\ UNCHANGED <<receipts, effect, inflight, marker, proc>>

\* The operator looks at what a kill left and removes it by hand.
ClearSnapshot == /\ proc = NoCommand /\ marker
                 /\ snapshot' = "none" /\ marker' = FALSE
                 /\ UNCHANGED <<receipts, effect, inflight, proc, faults>>

\* read_receipt takes capture.json as DraCaptureReceiptV1 only.
Readable(n) == IF n = "capture" THEN receipts[n] = "v1" ELSE Has(n)

Begin(s) ==
  /\ proc = NoCommand /\ Readable(Parent(s))
  /\ s = "review" => effect["promotion"] = "ours"
  /\ proc' = At("read", CHOOSE m \in Mutations \ {"review"} : Stage(m) = s)
  /\ UNCHANGED <<receipts, effect, inflight, snapshot, marker, faults>>

\* What a read shows: a candidate and a Brief show anyone's act, the
\* recovery reads of a task and a review only what has this actor and key.
Visible(m) == \/ effect[m] = "ours"
              \/ m \in {"promotion", "decision"} /\ effect[m] # None

Ended(m)   == m = "task" /\ effect[m] = "failed"
Working(m) == m = "task" /\ effect[m] = "preparing"

\* Where a read leads: promote goes through supplied_snapshot either way.
Then(m, place) ==
  proc' = IF m = "promotion" THEN Entering(place) ELSE At(place, m)

\* The first read.  A preparing task is polled for, and not for ever.
Read(m) ==
  /\ proc = At("read", m)
  /\ \/ Visible(m) /\ Then(m, "check")
     \/ ~Visible(m) /\ ~Ended(m) /\ ~Working(m) /\ Then(m, "post")
     \/ (Ended(m) \/ Working(m)) /\ proc' = NoCommand
  /\ UNCHANGED <<receipts, effect, inflight, snapshot, marker, faults>>

\* supplied_snapshot: the marker is created exclusively, then the bytes read.
EnterSnapshot ==
  /\ proc.at = "enter"
  /\ \/ marker /\ proc' = NoCommand /\ UNCHANGED <<snapshot, marker>>
     \/ ~marker /\ snapshot \in {"none", "wrong"} /\ GiveUp("promotion")
     \/ /\ ~marker /\ snapshot = "supplied"
        /\ marker' = TRUE /\ snapshot' = "opened"
        /\ proc' = At(proc.next, "promotion")
  /\ UNCHANGED <<receipts, effect, inflight, faults>>

Post(m) ==
  /\ proc = At("post", m)
  /\ inflight' = inflight \cup {m}
  /\ proc' = At("answer", m)
  /\ UNCHANGED <<receipts, effect, snapshot, marker, faults>>

\* What the API asks for before it acts: the Case is where the stage left it.
Due(m) == CASE m = "promotion" -> TRUE
            [] m = "task"      -> effect["promotion"] = "ours"
            [] m = "review"    -> effect["task"] = "ours"
            [] m = "decision"  -> effect["review"] = "ours"

\* A post arrives, awaited or not; under a key that has its effect it is a
\* replay.
Arrive(m) ==
  /\ m \in inflight
  /\ inflight' = inflight \ {m}
  /\ effect' = IF effect[m] = None /\ Due(m)
                 THEN [effect EXCEPT ![m] = IF m = "task" THEN "preparing" ELSE "ours"]
                 ELSE effect
  /\ UNCHANGED <<receipts, snapshot, marker, proc, faults>>

Settle(outcome) ==
  /\ effect["task"] = "preparing"
  /\ effect' = [effect EXCEPT !["task"] = outcome]
  /\ UNCHANGED <<receipts, inflight, snapshot, marker, proc, faults>>

Rival(m) ==
  /\ m \in Rivals /\ effect[m] = None /\ Due(m)
  /\ effect' = [effect EXCEPT ![m] = "other"]
  /\ UNCHANGED <<receipts, inflight, snapshot, marker, proc, faults>>

\* The answer to a post that has arrived: the result, a refusal, a task that
\* failed or took too long.  create_task waits here for the task.
Answered(m, place) ==
  /\ proc = At(place, m) /\ m \notin inflight
  /\ \/ effect[m] = "ours" /\ proc' = At("check", m) /\ UNCHANGED <<snapshot, marker>>
     \/ effect[m] # "ours" /\ GiveUp(m)
  /\ UNCHANGED <<receipts, effect, inflight, faults>>

\* A lost answer: the post is lost with it, under way, or has arrived.
Lost(m) == Fault /\ inflight' \in {inflight, inflight \ {m}}

AnswerLost(m) ==
  /\ proc = At("answer", m) /\ Lost(m)
  /\ proc' = At("ambiguous", m)
  /\ UNCHANGED <<receipts, effect, snapshot, marker>>

\* The ambiguous receipt is written, unless one of another key is there; then
\* the command ends.
RecordAmbiguous(m) ==
  LET n == Ambiguous(Stage(m))
  IN /\ proc = At("ambiguous", m)
     /\ receipts' = Publish(n, m)
     /\ IF Clash(n, m) THEN GiveUp(m)
                       ELSE proc' = At("reread", m) /\ UNCHANGED <<snapshot, marker>>
     /\ UNCHANGED <<effect, inflight, faults>>

\* After the ambiguous receipt: the other stages post again, promote raises.
Reread(m) ==
  /\ proc = At("reread", m)
  /\ \/ Visible(m) /\ proc' = At("check", m) /\ UNCHANGED <<snapshot, marker, inflight>>
     \/ (Ended(m) \/ Working(m)) /\ GiveUp(m) /\ UNCHANGED inflight
     \/ /\ ~Visible(m) /\ ~Ended(m) /\ ~Working(m)
        /\ IF m = "promotion"
             THEN GiveUp(m) /\ UNCHANGED inflight
             ELSE /\ inflight' = inflight \cup {m} /\ proc' = At("again", m)
                  /\ UNCHANGED <<snapshot, marker>>
  /\ UNCHANGED <<receipts, effect, faults>>

\* A second ambiguous outcome is not handled: the command ends.
AgainLost(m) ==
  /\ proc = At("again", m) /\ Lost(m) /\ GiveUp(m)
  /\ UNCHANGED <<receipts, effect>>

\* A slip: any result will do.
AnyResult(m) == effect[m] # None

\* The result must be the one that was asked for.
Exact(m) == effect[m] = "ours"

Check(m) ==
  /\ proc = At("check", m)
  /\ \/ ~Exact(m) /\ GiveUp(m)
     \/ /\ Exact(m) /\ UNCHANGED <<snapshot, marker>>
        /\ proc' = IF m = "task" THEN At("read", "review") ELSE At("write", m)
  /\ UNCHANGED <<receipts, effect, inflight, faults>>

WriteReceipt(m) ==
  /\ proc = At("write", m)
  /\ receipts' = Publish(Product(Stage(m)), m)
  /\ GiveUp(m)
  /\ UNCHANGED <<effect, inflight, faults>>

\* evaluate compares the receipts with the projection of the database.
Evaluate ==
  /\ proc = NoCommand
  /\ \A n \in {"capture", "promotion", "review", "decision"} : Readable(n)
  /\ \A m \in Mutations : effect[m] = "ours"
  /\ receipts' = Publish("evaluation", "passed")
  /\ UNCHANGED <<effect, inflight, snapshot, marker, proc, faults>>

Kill == /\ proc # NoCommand /\ Fault /\ proc' = NoCommand
        /\ UNCHANGED <<receipts, effect, inflight, snapshot, marker>>

\* A signal unwinds the stack, through supplied_snapshot if it was entered.
Interrupt == /\ proc # NoCommand /\ Fault
             /\ IF proc.at \in {"read", "enter"}
                  THEN proc' = NoCommand /\ UNCHANGED <<snapshot, marker>>
                  ELSE GiveUp(proc.mutation)
             /\ UNCHANGED <<receipts, effect, inflight>>

Step == \/ EnterSnapshot
        \/ \E m \in Mutations :
             \/ Read(m) \/ Post(m) \/ Answered(m, "answer") \/ Answered(m, "again")
             \/ RecordAmbiguous(m) \/ Reread(m) \/ Check(m) \/ WriteReceipt(m)

ClosureNext ==
  \/ Supply \/ ClearSnapshot \/ Evaluate \/ Kill \/ Interrupt \/ Step
  \/ \E s \in Stages : Begin(s)
  \/ \E m \in Mutations :
       Arrive(m) \/ Rival(m) \/ AnswerLost(m) \/ AgainLost(m)
  \/ \E outcome \in TaskOutcomes : Settle(outcome)

ClosureSpec == ClosureInit /\ [][ClosureNext]_closureVars

\* A command runs on, posts arrive, the worker settles tasks, and the operator
\* repeats the stage whose receipt is missing, with a new copy of the bytes.
LiveSpec ==
  /\ ClosureSpec
  /\ WF_closureVars(Step)
  /\ WF_closureVars(\E m \in Mutations : Arrive(m))
  /\ WF_closureVars(\E outcome \in TaskOutcomes : Settle(outcome))
  /\ \A s \in Stages : SF_closureVars(~Has(Product(s)) /\ Begin(s))
  /\ SF_closureVars(Supply) /\ SF_closureVars(ClearSnapshot)
  /\ SF_closureVars(~Has("evaluation") /\ Evaluate)

(***************************************************************************)
(* Properties.                                                             *)
(***************************************************************************)
\* Receipts, effects and processes keep their shape.
TypeOK ==
  /\ receipts \in [Names -> Mutations \cup {None, "v1", "v2", "passed"}]
  /\ effect \in [Mutations -> {None, "preparing", "ours", "other", "failed"}]
  /\ inflight \subseteq Mutations
  /\ snapshot \in {"none", "supplied", "wrong", "opened"} /\ marker \in BOOLEAN
  /\ proc.at \in {"idle", "read", "enter", "post", "answer", "ambiguous", "reread", "again",
                  "check", "write"}
  /\ proc.at # "idle" => proc.mutation \in Mutations
  /\ faults \in 0 .. MaxFaults

\* A stage receipt is written for the result that was asked for and on top of
\* its parents, whoever acted first and whatever was lost or came late (the
\* design of 2026-07-25, :680, and the checks of promote, review and decide).
ReceiptsTruthful ==
  /\ Has("promotion") => effect["promotion"] = "ours"
  /\ Has("review") => /\ Has("promotion")
                     /\ effect["task"] = "ours" /\ effect["review"] = "ours"
  /\ Has("decision") => Has("review") /\ effect["decision"] = "ours"
  /\ Has("evaluation") => Has("decision")

\* Bytes that Stage 2 has opened lie about only under the marker that makes
\* the next command refuse (supplied_snapshot).
SnapshotGuarded == snapshot = "opened" => marker

\* Nothing but a kill leaves opened bytes behind, and never unguarded.
SourceGuarded ==
  /\ []SnapshotGuarded
  /\ [][(/\ proc.at \notin {"idle", "read", "enter"} /\ proc'.at = "idle"
      /\ marker' /\ Stage(proc.mutation) = "promote")
        => Kill]_closureVars

\* docs/operations/dra-consumer-proof.md:176-184, the canonical resumable
\* transcript: promote goes on from the capture receipt that Stage 1 has left,
\* every later stage from the receipt before it, and a stage that lost its
\* answer is recovered by its key.  So, unless somebody acts first or the task
\* fails, repeating the stages leads to the evaluation, whatever was lost or
\* killed on the way.  With the receipt Stage 1 writes, "v2", it does not: the
\* stages read "v1" only.
Closes == <>(Has("evaluation") \/ \E m \in Mutations : effect[m] \in {"other", "failed"})
=============================================================================
