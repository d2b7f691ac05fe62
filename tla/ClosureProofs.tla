--------------------------- MODULE ClosureProofs ---------------------------
(***************************************************************************)
(* Stages 2 to 4 of the live closure, for either schema of the capture     *)
(* receipt, any rivals, any way a task may end and any number of faults: a *)
(* stage receipt stands for a result that was asked for and got, and the   *)
(* source bytes that a command has opened are under the marker until that  *)
(* command clears them or is killed.                                       *)
(***************************************************************************)
EXTENDS LiveClosure, TLAPS

(***************************************************************************)
(* The inductive invariant.  What a stage needs is checked when the stage  *)
(* begins and what it got is checked before it writes; in between other    *)
(* users act, posts arrive late and the command polls, so the invariant    *)
(* says what a command still knows at each place: an effect that is ours   *)
(* stays ours, and a receipt stays where it is.                            *)
(***************************************************************************)
ReceiptContents == Mutations \cup {None, "v1", "v2", "passed"}
Effects == {None, "preparing", "ours", "other", "failed"}
WorkPlaces == {"read", "post", "answer", "ambiguous", "reread", "again", "check", "write"}

StateTyped ==
  /\ receipts \in [Names -> ReceiptContents]
  /\ effect \in [Mutations -> Effects]
  /\ inflight \subseteq Mutations
  /\ snapshot \in {"none", "supplied", "wrong", "opened"}
  /\ marker \in BOOLEAN
  /\ faults \in 0 .. MaxFaults

\* What the stage of a mutation rests on.
Based(m) ==
  /\ m \in {"task", "review"} => Has("promotion")
  /\ m = "review" => effect["task"] = "ours"
  /\ m = "decision" => Has("review")

CommandSound ==
  \/ proc = NoCommand
  \/ \E place \in {"check", "post"} : proc = Entering(place)
  \/ \E place \in WorkPlaces, m \in Mutations :
       /\ proc = At(place, m)
       /\ Based(m)
       /\ place = "write" => m # "task" /\ effect[m] = "ours"

ClosureInv == StateTyped /\ ReceiptsTruthful /\ CommandSound /\ SnapshotGuarded

(***************************************************************************)
(* Names, stages and places.                                               *)
(***************************************************************************)
\* The stage of each mutation and the receipts of each stage.
LEMMA StageOf ==
  /\ Stage("promotion") = "promote" /\ Stage("decision") = "decide"
  /\ Stage("task") = "review" /\ Stage("review") = "review"
  /\ Product("promote") = "promotion" /\ Product("review") = "review"
  /\ Product("decide") = "decision"
  /\ Parent("promote") = "capture" /\ Parent("review") = "promotion"
  /\ Parent("decide") = "review"
  /\ Ambiguous("promote") = "promotion-ambiguous"
  /\ Ambiguous("review") = "review-ambiguous"
  /\ Ambiguous("decide") = "decision-ambiguous"
  BY DEF Stage, Product, Parent, Ambiguous

\* The receipts by name.
LEMMA NamesAre ==
  Names = {"capture", "promotion", "review", "decision", "evaluation",
           "promotion-ambiguous", "review-ambiguous", "decision-ambiguous"}
  BY StageOf DEF Names, Stages

\* A stage begins with its first mutation.
LEMMA FirstMutation ==
  ASSUME NEW s \in Stages
  PROVE  LET m == CHOOSE x \in Mutations \ {"review"} : Stage(x) = s
         IN  m \in Mutations \ {"review"} /\ Stage(m) = s
  <1>1. \E x \in Mutations \ {"review"} : Stage(x) = s
    BY StageOf DEF Stages, Mutations
  <1>2. QED
    BY <1>1

\* Places of a command are told apart.
LEMMA PlacesDiffer ==
  /\ \A place, m : At(place, m).at = place /\ At(place, m).mutation = m
  /\ \A place : Entering(place).at = "enter" /\ Entering(place).next = place
                /\ Entering(place).mutation = "promotion"
  /\ NoCommand.at = "idle"
  BY DEF At, Entering, NoCommand

\* What a command knows where it is.
LEMMA PlaceTells ==
  ASSUME CommandSound, NEW place \in WorkPlaces, NEW m, proc = At(place, m)
  PROVE  /\ m \in Mutations /\ Based(m)
         /\ place = "write" => m # "task" /\ effect[m] = "ours"
  <1>1. proc.at = place /\ proc.mutation = m
    BY PlacesDiffer
  <1>2. proc # NoCommand /\ \A p : proc # Entering(p)
    BY <1>1, PlacesDiffer DEF WorkPlaces
  <1>3. PICK p \in WorkPlaces, k \in Mutations :
          /\ proc = At(p, k) /\ Based(k)
          /\ p = "write" => k # "task" /\ effect[k] = "ours"
    BY <1>2 DEF CommandSound
  <1>4. p = place /\ k = m
    BY <1>1, <1>3, PlacesDiffer
  <1>5. QED
    BY <1>3, <1>4

\* A command that goes on with its mutation knows what it knew.
LEMMA GoesOn ==
  ASSUME NEW m \in Mutations, Based(m), UNCHANGED <<receipts, effect>>,
         NEW place \in WorkPlaces, proc' = At(place, m),
         place = "write" => m # "task" /\ effect[m] = "ours"
  PROVE  CommandSound'
  BY DEF CommandSound, Based, Has

\* A command that has ended knows nothing.
LEMMA IdleIsSound == ASSUME proc' = NoCommand PROVE CommandSound'
  BY DEF CommandSound

\* Ending a command of the promotion clears what it had opened.
LEMMA GiveUpIsSound ==
  ASSUME StateTyped, SnapshotGuarded, NEW m, GiveUp(m)
  PROVE  /\ CommandSound' /\ SnapshotGuarded'
         /\ snapshot' \in {"none", "supplied", "wrong", "opened"}
         /\ marker' \in BOOLEAN
         /\ Stage(m) = "promote" => marker' = FALSE
  <1>1. proc' = NoCommand /\ LeaveSnapshot(m)
    BY DEF GiveUp
  <1>2. CASE Stage(m) = "promote"
    BY <1>1, <1>2, IdleIsSound DEF LeaveSnapshot, SnapshotGuarded
  <1>3. CASE Stage(m) # "promote"
    BY <1>1, <1>3, IdleIsSound DEF LeaveSnapshot, SnapshotGuarded, StateTyped
  <1>4. QED
    BY <1>2, <1>3

\* Receipts and effects say the same as before when neither changes.
LEMMA TruthStays ==
  ASSUME ReceiptsTruthful, UNCHANGED <<receipts, effect>>
  PROVE  ReceiptsTruthful'
  BY DEF ReceiptsTruthful, Has

\* A fault stays within the bound.
LEMMA FaultBounded ==
  ASSUME StateTyped, Fault
  PROVE  faults' \in 0 .. MaxFaults
  BY ClosureAssumption DEF StateTyped, Fault

(***************************************************************************)
(* The steps that leave receipts and effects alone.                        *)
(***************************************************************************)
\* The operator's hands: bytes are supplied and cleared between commands.
LEMMA OperatorKeeps ==
  ASSUME ClosureInv, Supply \/ ClearSnapshot
  PROVE  ClosureInv'
  <1>1. CASE Supply
    <2>1. UNCHANGED <<receipts, effect, inflight, marker, proc>> /\ snapshot = "none"
          /\ snapshot' \in {"supplied", "wrong"} /\ proc = NoCommand
      BY <1>1 DEF Supply
    <2>2. faults' \in 0 .. MaxFaults
      BY <1>1, FaultBounded DEF Supply, ClosureInv, StateTyped
    <2>3. StateTyped' /\ SnapshotGuarded'
      BY <2>1, <2>2 DEF ClosureInv, StateTyped, SnapshotGuarded
    <2>4. QED
      BY <2>1, <2>3, TruthStays, IdleIsSound DEF ClosureInv
  <1>2. CASE ClearSnapshot
    BY <1>2, TruthStays, IdleIsSound
       DEF ClosureInv, ClearSnapshot, StateTyped, SnapshotGuarded
  <1>3. QED
    BY <1>1, <1>2

\* A stage begins on the receipt before it.
LEMMA BeginKeeps ==
  ASSUME ClosureInv, NEW s \in Stages, Begin(s)
  PROVE  ClosureInv'
  <1> DEFINE m == CHOOSE x \in Mutations \ {"review"} : Stage(x) = s
  <1>1. m \in Mutations \ {"review"} /\ Stage(m) = s
    BY FirstMutation
  <1>2. proc' = At("read", m)
    BY DEF Begin
  <1> HIDE DEF m
  <1>3. Based(m)
    <2>1. s = "review" => Has("promotion")
      BY StageOf DEF Begin, Readable
    <2>2. s = "decide" => Has("review")
      BY StageOf DEF Begin, Readable
    <2>3. QED
      BY <1>1, <2>1, <2>2, StageOf DEF Based, Mutations
  <1>4. CommandSound'
    BY <1>1, <1>2, <1>3, GoesOn DEF Begin, WorkPlaces
  <1>5. QED
    BY <1>4, TruthStays DEF ClosureInv, Begin, StateTyped, SnapshotGuarded

\* The first read.
LEMMA ReadKeeps ==
  ASSUME ClosureInv, NEW m \in Mutations, Read(m)
  PROVE  ClosureInv'
  <1>1. UNCHANGED <<receipts, effect, inflight, snapshot, marker, faults>>
        /\ proc = At("read", m)
    BY DEF Read
  <1>2. Based(m)
    BY <1>1, PlaceTells DEF ClosureInv, WorkPlaces
  <1>3. ASSUME NEW place \in {"check", "post"}, Then(m, place)
        PROVE  CommandSound'
    <2>1. CASE m = "promotion"
      BY <1>3, <2>1 DEF Then, CommandSound
    <2>2. CASE m # "promotion"
      BY <1>1, <1>2, <1>3, <2>2, GoesOn DEF Then, WorkPlaces
    <2>3. QED
      BY <2>1, <2>2
  <1>4. CommandSound'
    BY <1>3, IdleIsSound DEF Read
  <1>5. QED
    BY <1>1, <1>4, TruthStays DEF ClosureInv, StateTyped, SnapshotGuarded

\* supplied_snapshot creates the marker before it opens the bytes.
LEMMA EnterSnapshotKeeps ==
  ASSUME ClosureInv, EnterSnapshot
  PROVE  ClosureInv'
  <1>1. UNCHANGED <<receipts, effect, inflight, faults>> /\ proc.at = "enter"
    BY DEF EnterSnapshot
  <1>2. CASE marker /\ proc' = NoCommand /\ UNCHANGED <<snapshot, marker>>
    BY <1>1, <1>2, TruthStays, IdleIsSound DEF ClosureInv, StateTyped, SnapshotGuarded
  <1>3. CASE GiveUp("promotion")
    BY <1>1, <1>3, TruthStays, GiveUpIsSound DEF ClosureInv, StateTyped
  <1>4. CASE marker' = TRUE /\ snapshot' = "opened" /\ proc' = At(proc.next, "promotion")
    <2>1. PICK place \in {"check", "post"} : proc = Entering(place)
      <3>1. proc # NoCommand
        BY <1>1, PlacesDiffer
      <3>2. \A p \in WorkPlaces, m \in Mutations : proc # At(p, m)
        BY <1>1, PlacesDiffer DEF WorkPlaces
      <3>3. QED
        BY <3>1, <3>2 DEF ClosureInv, CommandSound
    <2>2. proc' = At(place, "promotion")
      BY <1>4, <2>1, PlacesDiffer
    <2>3. Based("promotion") /\ "promotion" \in Mutations
      BY DEF Based, Mutations
    <2>4. CommandSound'
      BY <1>1, <2>2, <2>3, GoesOn DEF WorkPlaces
    <2>5. QED
      BY <1>1, <1>4, <2>4, TruthStays DEF ClosureInv, StateTyped, SnapshotGuarded
  <1>5. QED
    BY <1>2, <1>3, <1>4 DEF EnterSnapshot

\* A post goes out.
LEMMA PostKeeps ==
  ASSUME ClosureInv, NEW m \in Mutations, Post(m)
  PROVE  ClosureInv'
  <1>1. proc = At("post", m) /\ proc' = At("answer", m)
        /\ inflight' = inflight \cup {m}
        /\ UNCHANGED <<receipts, effect, snapshot, marker, faults>>
    BY DEF Post
  <1>2. Based(m)
    BY <1>1, PlaceTells DEF ClosureInv, WorkPlaces
  <1>3. CommandSound'
    BY <1>1, <1>2, GoesOn DEF WorkPlaces
  <1>4. QED
    BY <1>1, <1>3, TruthStays DEF ClosureInv, StateTyped, SnapshotGuarded

\* The answer to a post, or to the post that was repeated.
LEMMA AnsweredKeeps ==
  ASSUME ClosureInv, NEW m \in Mutations, NEW place \in {"answer", "again"},
         Answered(m, place)
  PROVE  ClosureInv'
  <1>1. UNCHANGED <<receipts, effect, inflight, faults>> /\ proc = At(place, m)
    BY DEF Answered
  <1>2. Based(m)
    BY <1>1, PlaceTells DEF ClosureInv, WorkPlaces
  <1>3. CASE proc' = At("check", m) /\ UNCHANGED <<snapshot, marker>>
    <2>1. CommandSound'
      BY <1>1, <1>2, <1>3, GoesOn DEF WorkPlaces
    <2>2. QED
      BY <1>1, <1>3, <2>1, TruthStays DEF ClosureInv, StateTyped, SnapshotGuarded
  <1>4. CASE GiveUp(m)
    BY <1>1, <1>4, TruthStays, GiveUpIsSound DEF ClosureInv, StateTyped
  <1>5. QED
    BY <1>3, <1>4 DEF Answered

\* An answer that is lost, the first time or the second.
LEMMA LostKeeps ==
  ASSUME ClosureInv, NEW m \in Mutations, AnswerLost(m) \/ AgainLost(m)
  PROVE  ClosureInv'
  <1>1. UNCHANGED <<receipts, effect>> /\ Lost(m)
    BY DEF AnswerLost, AgainLost
  <1>2. inflight' \subseteq Mutations /\ faults' \in 0 .. MaxFaults
    BY <1>1, FaultBounded DEF Lost, ClosureInv, StateTyped
  <1>3. CASE AnswerLost(m)
    <2>1. Based(m)
      BY <1>3, PlaceTells DEF ClosureInv, AnswerLost, WorkPlaces
    <2>2. CommandSound'
      BY <1>1, <1>3, <2>1, GoesOn DEF AnswerLost, WorkPlaces
    <2>3. UNCHANGED <<snapshot, marker>>
      BY <1>3 DEF AnswerLost
    <2>4. QED
      BY <1>1, <1>2, <2>2, <2>3, TruthStays DEF ClosureInv, StateTyped, SnapshotGuarded
  <1>4. CASE AgainLost(m)
    BY <1>1, <1>2, <1>4, TruthStays, GiveUpIsSound DEF AgainLost, ClosureInv, StateTyped
  <1>5. QED
    BY <1>3, <1>4

\* The read after an ambiguous receipt.
LEMMA RereadKeeps ==
  ASSUME ClosureInv, NEW m \in Mutations, Reread(m)
  PROVE  ClosureInv'
  <1>1. UNCHANGED <<receipts, effect, faults>> /\ proc = At("reread", m)
    BY DEF Reread
  <1>2. Based(m)
    BY <1>1, PlaceTells DEF ClosureInv, WorkPlaces
  <1>3. ASSUME NEW place \in {"check", "again"}, proc' = At(place, m),
               UNCHANGED <<snapshot, marker>>, inflight' \subseteq Mutations
        PROVE  ClosureInv'
    <2>1. CommandSound'
      BY <1>1, <1>2, <1>3, GoesOn DEF WorkPlaces
    <2>2. QED
      BY <1>1, <1>3, <2>1, TruthStays DEF ClosureInv, StateTyped, SnapshotGuarded
  <1>4. CASE GiveUp(m) /\ UNCHANGED inflight
    BY <1>1, <1>4, TruthStays, GiveUpIsSound DEF ClosureInv, StateTyped
  <1>5. inflight \subseteq Mutations /\ inflight \cup {m} \subseteq Mutations
    BY DEF ClosureInv, StateTyped
  <1>6. QED
    BY <1>3, <1>4, <1>5 DEF Reread

\* The check of a result: only what is ours is written down.
LEMMA CheckKeeps ==
  ASSUME ClosureInv, NEW m \in Mutations, Check(m)
  PROVE  ClosureInv'
  <1>1. UNCHANGED <<receipts, effect, inflight, faults>> /\ proc = At("check", m)
    BY DEF Check
  <1>2. Based(m)
    BY <1>1, PlaceTells DEF ClosureInv, WorkPlaces
  <1>3. CASE GiveUp(m)
    BY <1>1, <1>3, TruthStays, GiveUpIsSound DEF ClosureInv, StateTyped
  <1>4. CASE Exact(m) /\ UNCHANGED <<snapshot, marker>> /\ m = "task"
             /\ proc' = At("read", "review")
    <2>1. Based("review") /\ "review" \in Mutations
      BY <1>2, <1>4 DEF Based, Exact, Mutations
    <2>2. CommandSound'
      BY <1>1, <1>4, <2>1, GoesOn DEF WorkPlaces
    <2>3. QED
      BY <1>1, <1>4, <2>2, TruthStays DEF ClosureInv, StateTyped, SnapshotGuarded
  <1>5. CASE Exact(m) /\ UNCHANGED <<snapshot, marker>> /\ m # "task"
             /\ proc' = At("write", m)
    <2>1. CommandSound'
      BY <1>1, <1>2, <1>5, GoesOn DEF WorkPlaces, Exact
    <2>2. QED
      BY <1>1, <1>5, <2>1, TruthStays DEF ClosureInv, StateTyped, SnapshotGuarded
  <1>6. QED
    BY <1>3, <1>4, <1>5 DEF Check

\* A command ends from outside.
LEMMA FaultKeeps ==
  ASSUME ClosureInv, Kill \/ Interrupt
  PROVE  ClosureInv'
  <1>1. UNCHANGED <<receipts, effect, inflight>> /\ Fault
    BY DEF Kill, Interrupt
  <1>2. faults' \in 0 .. MaxFaults
    BY <1>1, FaultBounded DEF ClosureInv
  <1>3. CASE proc' = NoCommand /\ UNCHANGED <<snapshot, marker>>
    BY <1>1, <1>2, <1>3, TruthStays, IdleIsSound DEF ClosureInv, StateTyped, SnapshotGuarded
  <1>4. CASE GiveUp(proc.mutation)
    BY <1>1, <1>2, <1>4, TruthStays, GiveUpIsSound DEF ClosureInv, StateTyped
  <1>5. QED
    BY <1>3, <1>4 DEF Kill, Interrupt

(***************************************************************************)
(* The API acts: an effect that is ours stays ours.                        *)
(***************************************************************************)
\* Grounds and receipts hold on when no effect of ours is taken back.
LEMMA OursStays ==
  ASSUME ClosureInv, UNCHANGED <<receipts, snapshot, marker, proc, faults>>,
         inflight' \subseteq Mutations, effect' \in [Mutations -> Effects],
         \A m \in Mutations : effect[m] = "ours" => effect'[m] = "ours"
  PROVE  ClosureInv'
  <1>1. StateTyped' /\ SnapshotGuarded'
    BY DEF ClosureInv, StateTyped, SnapshotGuarded
  <1>2. ReceiptsTruthful'
    BY DEF ClosureInv, ReceiptsTruthful, Has, Mutations
  <1>3. CommandSound'
    <2>1. CASE proc = NoCommand
      BY <2>1, IdleIsSound
    <2>2. CASE \E place \in {"check", "post"} : proc = Entering(place)
      BY <2>2 DEF CommandSound
    <2>3. ASSUME NEW place \in WorkPlaces, NEW m \in Mutations, proc = At(place, m),
                 Based(m), place = "write" => m # "task" /\ effect[m] = "ours"
          PROVE  CommandSound'
      <3>1. Based(m)'
        BY <2>3 DEF Based, Has, Mutations
      <3>2. QED
        BY <2>3, <3>1 DEF CommandSound
    <2>4. QED
      BY <2>1, <2>2, <2>3 DEF ClosureInv, CommandSound
  <1>4. QED
    BY <1>1, <1>2, <1>3 DEF ClosureInv

\* A post arrives, the worker settles the task, somebody else acts.
LEMMA ApiKeeps ==
  ASSUME ClosureInv,
         \/ \E m \in Mutations : Arrive(m) \/ Rival(m)
         \/ \E outcome \in TaskOutcomes : Settle(outcome)
  PROVE  ClosureInv'
  <1>1. inflight \subseteq Mutations /\ effect \in [Mutations -> Effects]
    BY DEF ClosureInv, StateTyped
  <1>2. ASSUME NEW m \in Mutations, Arrive(m)
        PROVE  ClosureInv'
    <2>1. \/ effect' = effect
          \/ /\ effect[m] = None
             /\ \E e \in {"preparing", "ours"} : effect' = [effect EXCEPT ![m] = e]
      BY <1>2 DEF Arrive
    <2>2. effect' \in [Mutations -> Effects]
      BY <1>1, <2>1 DEF Effects
    <2>3. \A k \in Mutations : effect[k] = "ours" => effect'[k] = "ours"
      BY <1>1, <2>1 DEF None
    <2>4. inflight' \subseteq Mutations
      BY <1>1, <1>2 DEF Arrive
    <2>5. QED
      BY <1>2, <2>2, <2>3, <2>4, OursStays DEF Arrive
  <1>3. ASSUME NEW m \in Mutations, Rival(m)
        PROVE  ClosureInv'
    <2>1. effect' \in [Mutations -> Effects]
      BY <1>1, <1>3 DEF Rival, Effects
    <2>2. \A k \in Mutations : effect[k] = "ours" => effect'[k] = "ours"
      BY <1>1, <1>3 DEF Rival, None
    <2>3. QED
      BY <1>1, <1>3, <2>1, <2>2, OursStays DEF Rival
  <1>4. ASSUME NEW outcome \in TaskOutcomes, Settle(outcome)
        PROVE  ClosureInv'
    <2>1. effect' \in [Mutations -> Effects]
      BY <1>1, <1>4, ClosureAssumption DEF Settle, Effects
    <2>2. \A k \in Mutations : effect[k] = "ours" => effect'[k] = "ours"
      BY <1>1, <1>4 DEF Settle
    <2>3. QED
      BY <1>1, <1>4, <2>1, <2>2, OursStays DEF Settle
  <1>5. QED
    BY <1>2, <1>3, <1>4

(***************************************************************************)
(* The steps that write a receipt.                                         *)
(***************************************************************************)
\* Writing under a free name leaves the other receipts, writing under a name
\* that is taken leaves them all.
LEMMA PublishAdds ==
  ASSUME StateTyped, NEW n \in Names, NEW c \in ReceiptContents \ {None},
         receipts' = Publish(n, c)
  PROVE  /\ receipts' \in [Names -> ReceiptContents]
         /\ \A k \in Names : Has(k) => Has(k)' /\ receipts'[k] = receipts[k]
         /\ \A k \in Names : k # n => receipts'[k] = receipts[k]
  BY DEF StateTyped, Publish, Has

\* An ambiguous receipt is no stage receipt.
LEMMA RecordAmbiguousKeeps ==
  ASSUME ClosureInv, NEW m \in Mutations, RecordAmbiguous(m)
  PROVE  ClosureInv'
  <1> DEFINE n == Ambiguous(Stage(m))
  <1>1. n \in {"promotion-ambiguous", "review-ambiguous", "decision-ambiguous"}
    BY StageOf DEF Mutations
  <1>2. n \in Names /\ m \in ReceiptContents \ {None}
    BY <1>1, NamesAre DEF ReceiptContents, Mutations, None
  <1>3. /\ proc = At("ambiguous", m) /\ receipts' = Publish(n, m)
        /\ UNCHANGED <<effect, inflight, faults>>
    BY DEF RecordAmbiguous
  <1>4. GiveUp(m) \/ (proc' = At("reread", m) /\ UNCHANGED <<snapshot, marker>>)
    BY DEF RecordAmbiguous
  <1> HIDE DEF n
  <1>5. /\ receipts' \in [Names -> ReceiptContents]
        /\ \A k \in Names : Has(k) => Has(k)' /\ receipts'[k] = receipts[k]
        /\ \A k \in Names : k # n => receipts'[k] = receipts[k]
    BY <1>2, <1>3, PublishAdds DEF ClosureInv
  <1>6. ReceiptsTruthful'
    BY <1>1, <1>3, <1>5, NamesAre DEF ClosureInv, ReceiptsTruthful, Has
  <1>7. Based(m)'
    <2>1. Based(m)
      BY <1>3, PlaceTells DEF ClosureInv, WorkPlaces
    <2>2. QED
      BY <1>1, <1>3, <1>5, <2>1, NamesAre DEF Based, Has
  <1>8. CASE GiveUp(m)
    BY <1>3, <1>5, <1>6, <1>8, GiveUpIsSound DEF ClosureInv, StateTyped
  <1>9. CASE proc' = At("reread", m) /\ UNCHANGED <<snapshot, marker>>
    <2>1. CommandSound'
      BY <1>7, <1>9 DEF CommandSound, WorkPlaces
    <2>2. QED
      BY <1>3, <1>5, <1>6, <1>9, <2>1 DEF ClosureInv, StateTyped, SnapshotGuarded
  <1>10. QED
    BY <1>4, <1>8, <1>9

\* A stage receipt is written by a command that has checked its result.
LEMMA WriteReceiptKeeps ==
  ASSUME ClosureInv, NEW m \in Mutations, WriteReceipt(m)
  PROVE  ClosureInv'
  <1> DEFINE n == Product(Stage(m))
  <1>1. /\ proc = At("write", m) /\ receipts' = Publish(n, m)
        /\ GiveUp(m) /\ UNCHANGED <<effect, inflight, faults>>
    BY DEF WriteReceipt
  <1>2. Based(m) /\ m # "task" /\ effect[m] = "ours"
    BY <1>1, PlaceTells DEF ClosureInv, WorkPlaces
  <1>3. n = m
    BY <1>2, StageOf DEF Mutations
  <1>4. n \in Names /\ m \in ReceiptContents \ {None}
    BY <1>2, <1>3, NamesAre DEF ReceiptContents, Mutations, None
  <1> HIDE DEF n
  <1>5. /\ receipts' \in [Names -> ReceiptContents]
        /\ \A k \in Names : Has(k) => Has(k)' /\ receipts'[k] = receipts[k]
        /\ \A k \in Names : k # n => receipts'[k] = receipts[k]
    BY <1>1, <1>4, PublishAdds DEF ClosureInv
  <1>6. ReceiptsTruthful'
    BY <1>1, <1>2, <1>3, <1>5, NamesAre DEF ClosureInv, ReceiptsTruthful, Has, Based, Mutations
  <1>7. QED
    BY <1>1, <1>5, <1>6, GiveUpIsSound DEF ClosureInv, StateTyped

\* The evaluation is written when every receipt is there.
LEMMA EvaluateKeeps ==
  ASSUME ClosureInv, Evaluate
  PROVE  ClosureInv'
  <1>1. /\ receipts' = Publish("evaluation", "passed") /\ proc = NoCommand
        /\ UNCHANGED <<effect, inflight, snapshot, marker, proc, faults>>
        /\ Has("decision")
    BY DEF Evaluate, Readable
  <1>2. "evaluation" \in Names /\ "passed" \in ReceiptContents \ {None}
    BY NamesAre DEF ReceiptContents, None
  <1>3. /\ receipts' \in [Names -> ReceiptContents]
        /\ \A k \in Names : Has(k) => Has(k)' /\ receipts'[k] = receipts[k]
        /\ \A k \in Names : k # "evaluation" => receipts'[k] = receipts[k]
    BY <1>1, <1>2, PublishAdds DEF ClosureInv
  <1>4. ReceiptsTruthful'
    BY <1>1, <1>3, NamesAre DEF ClosureInv, ReceiptsTruthful, Has
  <1>5. QED
    BY <1>1, <1>3, <1>4, IdleIsSound DEF ClosureInv, StateTyped, SnapshotGuarded

(***************************************************************************)
(* The theorems.                                                           *)
(***************************************************************************)
\* Stage 1 has ended and nothing else has happened.
LEMMA ClosureInitial == ClosureInit => ClosureInv
  <1> SUFFICES ASSUME ClosureInit PROVE ClosureInv
    OBVIOUS
  <1>1. receipts \in [Names -> ReceiptContents]
    BY ClosureAssumption DEF ClosureInit, ReceiptContents
  <1>2. effect \in [Mutations -> Effects] /\ inflight \subseteq Mutations
    BY DEF ClosureInit, Effects
  <1>3. faults \in 0 .. MaxFaults
    BY ClosureAssumption DEF ClosureInit
  <1>4. snapshot = "none" /\ marker = FALSE
    BY DEF ClosureInit
  <1>5. ReceiptsTruthful
    BY NamesAre DEF ClosureInit, ReceiptsTruthful, Has
  <1>6. CommandSound
    BY DEF ClosureInit, CommandSound
  <1>7. QED
    BY <1>1, <1>2, <1>3, <1>4, <1>5, <1>6 DEF ClosureInv, StateTyped, SnapshotGuarded

\* Every step keeps receipts, effects, bytes and command in agreement.
LEMMA ClosureStep == ClosureInv /\ [ClosureNext]_closureVars => ClosureInv'
  <1> SUFFICES ASSUME ClosureInv, [ClosureNext]_closureVars PROVE ClosureInv'
    OBVIOUS
  <1>1. CASE UNCHANGED closureVars
    <2>1. UNCHANGED <<receipts, effect, inflight, snapshot, marker, proc, faults>>
      BY <1>1 DEF closureVars
    <2>2. QED
      BY <2>1, OursStays DEF ClosureInv, StateTyped
  <1>2. CASE Step
    BY <1>2, EnterSnapshotKeeps, ReadKeeps, PostKeeps, AnsweredKeeps,
       RecordAmbiguousKeeps, RereadKeeps, CheckKeeps, WriteReceiptKeeps DEF Step
  <1>3. CASE Supply \/ ClearSnapshot
    BY <1>3, OperatorKeeps
  <1>4. CASE Evaluate \/ Kill \/ Interrupt \/ \E s \in Stages : Begin(s)
    BY <1>4, EvaluateKeeps, FaultKeeps, BeginKeeps
  <1>5. CASE \/ \E m \in Mutations : Arrive(m) \/ Rival(m) \/ AnswerLost(m) \/ AgainLost(m)
             \/ \E outcome \in TaskOutcomes : Settle(outcome)
    BY <1>5, ApiKeeps, LostKeeps
  <1>6. QED
    BY <1>1, <1>2, <1>3, <1>4, <1>5 DEF ClosureNext

LEMMA ClosureInvariant == ClosureSpec => []ClosureInv
  BY ClosureInitial, ClosureStep, PTL DEF ClosureSpec

\* A stage receipt is written for the result that was asked for and on top of
\* its parents, whoever acted first and whatever was lost or came late
\* (live_controller.py: promote, review, decide).
THEOREM ReceiptsTruthfulAlways == ClosureSpec => []ReceiptsTruthful
  <1>1. ClosureInv => ReceiptsTruthful
    BY DEF ClosureInv
  <1>2. QED
    BY <1>1, ClosureInvariant, PTL

(***************************************************************************)
(* What a step may not do: leave opened bytes under the marker.            *)
(***************************************************************************)
\* A command of the promotion ends with the marker still there.
LeavesMarker ==
  /\ proc.at \notin {"idle", "read", "enter"} /\ proc'.at = "idle"
  /\ marker' /\ Stage(proc.mutation) = "promote"

\* Ending by return, exception or signal is not leaving it there.
LEMMA GiveUpClears ==
  ASSUME ClosureInv, NEW place, NEW m, proc = At(place, m), GiveUp(m)
  PROVE  ~LeavesMarker
  <1>1. proc.mutation = m
    BY PlacesDiffer
  <1>2. Stage(m) = "promote" => marker' = FALSE
    BY GiveUpIsSound DEF ClosureInv
  <1>3. QED
    BY <1>1, <1>2 DEF LeavesMarker

\* Going on is not ending.
LEMMA GoingOn ==
  ASSUME NEW place \in WorkPlaces, NEW m, proc' = At(place, m)
  PROVE  ~LeavesMarker
  BY PlacesDiffer DEF LeavesMarker, WorkPlaces

\* Neither is a step of somebody else, nor one between two commands.
LEMMA OthersStep ==
  ASSUME proc = NoCommand \/ proc' = proc
  PROVE  ~LeavesMarker
  BY PlacesDiffer DEF LeavesMarker

\* Only a kill can.
LEMMA OnlyKillLeavesBytes ==
  ASSUME ClosureInv, [ClosureNext]_closureVars
  PROVE  LeavesMarker => Kill
  <1> SUFFICES ASSUME ~Kill PROVE ~LeavesMarker
    OBVIOUS
  <1>1. CASE UNCHANGED closureVars \/ Supply \/ ClearSnapshot \/ Evaluate
             \/ \E s \in Stages : Begin(s)
    BY <1>1, OthersStep DEF closureVars, Supply, ClearSnapshot, Evaluate, Begin
  <1>2. CASE \/ \E m \in Mutations : Arrive(m) \/ Rival(m)
             \/ \E outcome \in TaskOutcomes : Settle(outcome)
    BY <1>2, OthersStep DEF Arrive, Rival, Settle
  <1>3. CASE Interrupt
    <2>1. CASE proc.at \in {"read", "enter"}
      BY <2>1 DEF LeavesMarker
    <2>2. CASE GiveUp(proc.mutation)
      BY <2>2, GiveUpIsSound DEF ClosureInv, LeavesMarker
    <2>3. QED
      BY <1>3, <2>1, <2>2 DEF Interrupt
  <1>4. CASE EnterSnapshot
    BY <1>4 DEF EnterSnapshot, LeavesMarker
  <1>5. ASSUME NEW m \in Mutations,
               \/ Read(m) \/ Post(m) \/ Answered(m, "answer") \/ Answered(m, "again")
               \/ RecordAmbiguous(m) \/ Reread(m) \/ Check(m) \/ WriteReceipt(m)
               \/ AnswerLost(m) \/ AgainLost(m)
        PROVE  ~LeavesMarker
    <2>1. CASE Read(m)
      BY <2>1, PlacesDiffer DEF Read, LeavesMarker
    <2>2. CASE Post(m)
      BY <2>2, GoingOn DEF Post, WorkPlaces
    <2>3. ASSUME NEW place, Answered(m, place)
          PROVE  ~LeavesMarker
      BY <2>3, GoingOn, GiveUpClears DEF Answered, WorkPlaces
    <2>4. CASE RecordAmbiguous(m)
      BY <2>4, GoingOn, GiveUpClears DEF RecordAmbiguous, WorkPlaces
    <2>5. CASE Reread(m)
      BY <2>5, GoingOn, GiveUpClears DEF Reread, WorkPlaces
    <2>6. CASE Check(m)
      BY <2>6, GoingOn, GiveUpClears DEF Check, WorkPlaces
    <2>7. CASE WriteReceipt(m) \/ AgainLost(m)
      BY <2>7, GiveUpClears DEF WriteReceipt, AgainLost
    <2>8. CASE AnswerLost(m)
      BY <2>8, GoingOn DEF AnswerLost, WorkPlaces
    <2>9. QED
      BY <1>5, <2>1, <2>2, <2>3, <2>4, <2>5, <2>6, <2>7, <2>8
  <1>6. QED
    BY <1>1, <1>2, <1>3, <1>4, <1>5 DEF ClosureNext, Step

\* Nothing but a kill leaves opened bytes behind, and they never lie about
\* without the marker that makes the next command refuse (supplied_snapshot
\* in scripts/verify_dra_live_closure.py).
THEOREM SourceGuardedAlways == ClosureSpec => SourceGuarded
  <1>1. ClosureInv => SnapshotGuarded
    BY DEF ClosureInv
  <1>2. ClosureInv /\ [ClosureNext]_closureVars =>
          [(/\ proc.at \notin {"idle", "read", "enter"} /\ proc'.at = "idle"
            /\ marker' /\ Stage(proc.mutation) = "promote")
             => Kill]_closureVars
    BY OnlyKillLeavesBytes DEF LeavesMarker
  <1>3. QED
    BY <1>1, <1>2, ClosureInvariant, PTL DEF ClosureSpec, SourceGuarded

\* Receipts, effects and processes keep their shape.
THEOREM ClosureTyped == ClosureSpec => []TypeOK
  <1>1. ClosureInv => TypeOK
    <2> SUFFICES ASSUME ClosureInv PROVE TypeOK
      OBVIOUS
    <2>1. /\ proc.at \in WorkPlaces \cup {"idle", "enter"}
          /\ proc.at # "idle" => proc.mutation \in Mutations
      BY PlacesDiffer DEF ClosureInv, CommandSound, Mutations
    <2>2. QED
      BY <2>1 DEF ClosureInv, StateTyped, TypeOK, WorkPlaces, ReceiptContents, Effects
  <1>2. QED
    BY <1>1, ClosureInvariant, PTL
=============================================================================
