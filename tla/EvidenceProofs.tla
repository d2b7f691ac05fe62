--------------------------- MODULE EvidenceProofs ---------------------------
(***************************************************************************)
(* What the evidence loop promises, for any number of terminals, run       *)
(* roots, sources, datasets and faults.                                    *)
(*                                                                         *)
(* No pre-registration has digests taken after the reveal: digests that    *)
(* were taken with the dataset present are held by a command that has the  *)
(* scan before it, and the dataset stays present until that scan.          *)
(*                                                                         *)
(* A whole setup receipt describes the sealed store beside it: a run root  *)
(* has one builder at a time, who knows how far the store is.              *)
(*                                                                         *)
(* A verdict of the frozen code on a capture of the frozen code is true of *)
(* the dataset: the evaluation computes what a plain reading of the cases  *)
(* says (SuiteExact), and a capture that drifted is found by the check     *)
(* after it, since what was touched stays touched.                         *)
(***************************************************************************)
EXTENDS EvidenceLoop, FiniteSetTheorems, TLAPS

IsRecord(p) == p = [x \in DOMAIN p |-> p[x]]

\* What a terminal knows between the digests and the receipt.
ProcOK(p, revealed) ==
  /\ IsRecord(p) /\ "at" \in DOMAIN p
  /\ p.at = "scan" => "body" \in DOMAIN p /\ (p.body.seen => revealed)
  /\ p.at \in {"create prereg", "write prereg"} =>
       "body" \in DOMAIN p /\ ~p.body.seen

RootOK(root) ==
  /\ IsRecord(root) /\ "prereg" \in DOMAIN root
  /\ root.prereg.is = "whole" => ~root.prereg.body.seen

RootsOK == roots = [r \in RunRoots |-> roots[r]] /\ \A r \in RunRoots : RootOK(roots[r])
ProcsOK == /\ proc = [t \in Terminals |-> proc[t]]
           /\ \A t \in Terminals : ProcOK(proc[t], published.dataset)
PublishedOK == IsRecord(published) /\ "dataset" \in DOMAIN published

SeenOnlyBeforeScan == RootsOK /\ ProcsOK /\ PublishedOK

Outside(place) == place \notin {"scan", "create prereg", "write prereg"}

LEMMA RecordExcept ==
  ASSUME NEW p, IsRecord(p), NEW x, NEW v
  PROVE  /\ IsRecord([p EXCEPT ![x] = v])
         /\ DOMAIN [p EXCEPT ![x] = v] = DOMAIN p
         /\ x \in DOMAIN p => [p EXCEPT ![x] = v][x] = v
         /\ \A y \in DOMAIN p : y # x => [p EXCEPT ![x] = v][y] = p[y]
  BY DEF IsRecord

\* A terminal gets another process, or its process another place.
LEMMA ProcStep ==
  ASSUME ProcsOK, NEW t \in Terminals, NEW p,
         proc' = [proc EXCEPT ![t] = p],
         ProcOK(p, published'.dataset),
         published.dataset => published'.dataset
  PROVE  ProcsOK'
  <1>1. proc' = [u \in Terminals |-> proc'[u]] BY DEF ProcsOK
  <1>2. ASSUME NEW u \in Terminals PROVE ProcOK(proc'[u], published'.dataset)
    <2>1. CASE u = t BY <2>1 DEF ProcsOK
    <2>2. CASE u # t
      <3>1. proc'[u] = proc[u] BY <2>2 DEF ProcsOK
      <3>2. ProcOK(proc[u], published.dataset) BY DEF ProcsOK
      <3> QED BY <3>1, <3>2 DEF ProcOK
    <2> QED BY <2>1, <2>2
  <1> QED BY <1>1, <1>2 DEF ProcsOK

LEMMA IdleOK == ASSUME NEW revealed PROVE ProcOK(Idle, revealed)
  BY DEF ProcOK, IsRecord, Idle

LEMMA FinishStep ==
  ASSUME ProcsOK, NEW t \in Terminals, Finish(t),
         published.dataset => published'.dataset
  PROVE  ProcsOK'
  BY IdleOK, ProcStep DEF Finish

LEMMA ContinueStep ==
  ASSUME ProcsOK, NEW t \in Terminals, NEW place, Outside(place), Continue(t, place),
         published.dataset => published'.dataset
  PROVE  ProcsOK'
  <1> DEFINE p == [proc[t] EXCEPT !.at = place]
  <1>1. proc' = [proc EXCEPT ![t] = p] BY DEF Continue
  <1>2. IsRecord(proc[t]) /\ "at" \in DOMAIN proc[t] BY DEF ProcsOK, ProcOK
  <1>3. IsRecord(p) /\ "at" \in DOMAIN p /\ p.at = place BY <1>2, RecordExcept
  <1>4. ProcOK(p, published'.dataset) BY <1>3 DEF ProcOK, Outside
  <1> HIDE DEF p
  <1> QED BY <1>1, <1>4, ProcStep

LEMMA ProcsKept ==
  ASSUME ProcsOK, UNCHANGED proc, published.dataset => published'.dataset
  PROVE  ProcsOK'
  <1>1. ASSUME NEW u \in Terminals PROVE ProcOK(proc'[u], published'.dataset)
    <2>1. ProcOK(proc[u], published.dataset) BY DEF ProcsOK
    <2> QED BY <2>1 DEF ProcOK
  <1> QED BY <1>1 DEF ProcsOK

\* A root gets a pre-registration that is not from after the reveal, or
\* another field.
LEMMA RootStep ==
  ASSUME RootsOK, NEW r, NEW root, roots' = [roots EXCEPT ![r] = root],
         r \in RunRoots => RootOK(root)
  PROVE  RootsOK'
  BY DEF RootsOK

LEMMA FieldStep ==
  ASSUME RootsOK, NEW r, NEW field, field # "prereg", NEW value,
         SetRoot(r, field, value)
  PROVE  RootsOK'
  <1> DEFINE root == [roots[r] EXCEPT ![field] = value]
  <1>1. roots' = [roots EXCEPT ![r] = root] BY DEF SetRoot
  <1>2. r \in RunRoots => RootOK(roots[r]) BY DEF RootsOK
  <1>3. r \in RunRoots => /\ IsRecord(root) /\ "prereg" \in DOMAIN root
                          /\ root.prereg = roots[r].prereg
    BY <1>2, RecordExcept DEF RootOK
  <1>4. r \in RunRoots => RootOK(root) BY <1>2, <1>3 DEF RootOK
  <1> HIDE DEF root
  <1> QED BY <1>1, <1>4, RootStep

LEMMA PreregStep ==
  ASSUME RootsOK, NEW r, NEW file, file.is = "whole" => ~file.body.seen,
         SetRoot(r, "prereg", file)
  PROVE  RootsOK'
  <1> DEFINE root == [roots[r] EXCEPT !["prereg"] = file]
  <1>1. roots' = [roots EXCEPT ![r] = root] BY DEF SetRoot
  <1>2. r \in RunRoots => RootOK(roots[r]) BY DEF RootsOK
  <1>3. r \in RunRoots => /\ IsRecord(root) /\ "prereg" \in DOMAIN root
                          /\ root.prereg = file
    BY <1>2, RecordExcept DEF RootOK
  <1>4. r \in RunRoots => RootOK(root) BY <1>3 DEF RootOK
  <1> HIDE DEF root
  <1> QED BY <1>1, <1>4, RootStep

LEMMA FreshOK == RootOK(FreshRoot)
  BY DEF RootOK, IsRecord, FreshRoot, Absent

LEMMA RootsKept == ASSUME RootsOK, UNCHANGED roots PROVE RootsOK'
  BY DEF RootsOK

LEMMA PublishedStep ==
  ASSUME PublishedOK, NEW field, field # "dataset", NEW value,
         published' = [published EXCEPT ![field] = value]
  PROVE  PublishedOK' /\ published'.dataset = published.dataset
  BY RecordExcept DEF PublishedOK

LEMMA PublishedKept ==
  ASSUME PublishedOK, UNCHANGED published
  PROVE  PublishedOK' /\ published'.dataset = published.dataset
  BY DEF PublishedOK

\* A command starts, or takes a place, with a process that is not between
\* the digests and the receipt.
LEMMA PlainProc ==
  ASSUME NEW p, IsRecord(p), "at" \in DOMAIN p, Outside(p.at), NEW revealed
  PROVE  ProcOK(p, revealed)
  BY DEF ProcOK, Outside

LEMMA PlainStep ==
  ASSUME ProcsOK, NEW t \in Terminals, NEW p, IsRecord(p), "at" \in DOMAIN p,
         Outside(p.at), proc' = [proc EXCEPT ![t] = p],
         published.dataset => published'.dataset
  PROVE  ProcsOK'
  <1>1. ProcOK(p, published'.dataset) BY PlainProc
  <1> QED BY <1>1, ProcStep

LEMMA InitSeen == Init => SeenOnlyBeforeScan
  <1> SUFFICES ASSUME Init PROVE SeenOnlyBeforeScan OBVIOUS
  <1>1. RootsOK BY FreshOK DEF Init, RootsOK
  <1>2. ProcsOK BY IdleOK DEF Init, ProcsOK
  <1>3. PublishedOK BY DEF Init, PublishedOK, IsRecord
  <1> QED BY <1>1, <1>2, <1>3 DEF SeenOnlyBeforeScan

LEMMA PrepareSeen ==
  ASSUME SeenOnlyBeforeScan, NEW t \in Terminals,
         \/ MakeRoot(t) \/ Admit(t) \/ Ingest(t) \/ MakeReadOnly(t) \/ Reopen(t)
         \/ Seal(t) \/ Probe(t) \/ CreateSetup(t) \/ WriteSetup(t)
  PROVE  SeenOnlyBeforeScan'
  <1> USE DEF SeenOnlyBeforeScan
  <1>0. PublishedOK' /\ published'.dataset = published.dataset
    BY PublishedKept DEF MakeRoot, Admit, Ingest, MakeReadOnly, Reopen, Seal, Probe,
                         CreateSetup, WriteSetup
  <1>1. CASE MakeRoot(t)
    BY <1>0, <1>1, FieldStep, RootsKept, FinishStep, ContinueStep DEF MakeRoot, Outside
  <1>2. CASE Admit(t)
    BY <1>0, <1>2, FieldStep, ContinueStep DEF Admit, Outside
  <1>3. CASE Ingest(t)
    <2>1. RootsOK' BY <1>3, FieldStep, RootsKept DEF Ingest
    <2>2. CASE proc' = [proc EXCEPT ![t].done = @ + 1]
      <3> DEFINE p == [proc[t] EXCEPT !["done"] = proc[t].done + 1]
      <3>1. proc' = [proc EXCEPT ![t] = p] BY <2>2
      <3>2. IsRecord(proc[t]) /\ "at" \in DOMAIN proc[t] BY DEF ProcsOK, ProcOK
      <3>3. IsRecord(p) /\ "at" \in DOMAIN p /\ p.at = "ingest"
        BY <3>2, <1>3, RecordExcept DEF Ingest, Running
      <3>4. Outside(p.at) BY <3>3 DEF Outside
      <3> HIDE DEF p
      <3> QED BY <1>0, <2>1, <3>1, <3>3, <3>4, PlainStep
    <2>3. CASE Continue(t, "readonly") \/ Finish(t)
      BY <1>0, <2>1, <2>3, ContinueStep, FinishStep DEF Outside
    <2> QED BY <1>3, <2>2, <2>3 DEF Ingest
  <1>4. CASE MakeReadOnly(t)
    BY <1>0, <1>4, FieldStep, ContinueStep DEF MakeReadOnly, Outside
  <1>5. CASE Reopen(t)
    BY <1>0, <1>5, RootsKept, FinishStep, ContinueStep DEF Reopen, Outside
  <1>6. CASE Seal(t)
    <2>1. RootsOK' BY <1>6, FieldStep, RootsKept DEF Seal
    <2>2. CASE Finish(t) BY <1>0, <2>1, <2>2, FinishStep
    <2>3. CASE ~Finish(t)
      <3> DEFINE p == [at |-> "probe", root |-> Root(t), content |-> roots[Root(t)].ingested]
      <3>1. proc' = [proc EXCEPT ![t] = p] BY <1>6, <2>3 DEF Seal
      <3>2. IsRecord(p) /\ "at" \in DOMAIN p /\ Outside(p.at) BY DEF IsRecord, Outside
      <3> HIDE DEF p
      <3> QED BY <1>0, <2>1, <3>1, <3>2, PlainStep
    <2> QED BY <2>2, <2>3
  <1>7. CASE Probe(t)
    BY <1>0, <1>7, RootsKept, FinishStep, ContinueStep DEF Probe, Outside
  <1>8. CASE CreateSetup(t)
    BY <1>0, <1>8, FieldStep, RootsKept, FinishStep, ContinueStep DEF CreateSetup, Outside
  <1>9. CASE WriteSetup(t)
    BY <1>0, <1>9, FieldStep, FinishStep DEF WriteSetup
  <1> QED BY <1>1, <1>2, <1>3, <1>4, <1>5, <1>6, <1>7, <1>8, <1>9

\* The heart: HashPaths notes, Scan refuses, the receipt is written.
LEMMA FreezeSeen ==
  ASSUME SeenOnlyBeforeScan, NEW t \in Terminals,
         \/ HashPaths(t) \/ Scan(t)
         \/ CreatePreregistration(t) \/ WritePreregistration(t)
  PROVE  SeenOnlyBeforeScan'
  <1> USE DEF SeenOnlyBeforeScan
  <1>0. PublishedOK' /\ published'.dataset = published.dataset
    BY PublishedKept DEF HashPaths, Scan, CreatePreregistration, WritePreregistration
  <1>r. IsRecord(proc[t]) /\ "at" \in DOMAIN proc[t] BY DEF ProcsOK, ProcOK
  <1>1. CASE HashPaths(t)
    <2> DEFINE body == [root |-> Root(t), head |-> proc[t].head, paths |-> checkout.tree,
                        content |-> roots[Root(t)].setup.body.content,
                        seen |-> published.dataset]
               p == [at |-> "scan", root |-> Root(t), body |-> body]
    <2>1. proc' = [proc EXCEPT ![t] = p] BY <1>1 DEF HashPaths
    <2>2. body.seen = published.dataset OBVIOUS
    <2> HIDE DEF body
    <2>3. /\ IsRecord(p) /\ "at" \in DOMAIN p /\ "body" \in DOMAIN p
          /\ p.at = "scan" /\ p.body = body
      BY DEF IsRecord
    <2> HIDE DEF p
    <2>4. ProcOK(p, published'.dataset) BY <1>0, <2>2, <2>3 DEF ProcOK
    <2>5. RootsOK' BY <1>1, RootsKept DEF HashPaths
    <2> QED BY <1>0, <2>1, <2>4, <2>5, ProcStep
  <1>2. CASE Scan(t)
    <2>1. RootsOK' BY <1>2, RootsKept DEF Scan
    <2>2. CASE Finish(t) BY <1>0, <2>1, <2>2, FinishStep
    <2>3. CASE NothingGenerated /\ Continue(t, "create prereg")
      <3> DEFINE p == [proc[t] EXCEPT !["at"] = "create prereg"]
      <3>1. proc' = [proc EXCEPT ![t] = p] BY <2>3 DEF Continue
      <3>2. "body" \in DOMAIN proc[t] /\ ~proc[t].body.seen
        BY <1>2, <2>3 DEF Scan, Running, ProcsOK, ProcOK, NothingGenerated
      <3>3. /\ IsRecord(p) /\ DOMAIN p = DOMAIN proc[t]
            /\ p.at = "create prereg" /\ p.body = proc[t].body
        BY <1>r, <3>2, RecordExcept
      <3> HIDE DEF p
      <3>4. ProcOK(p, published'.dataset) BY <1>r, <3>2, <3>3 DEF ProcOK
      <3> QED BY <1>0, <2>1, <3>1, <3>4, ProcStep
    <2> QED BY <1>2, <2>2, <2>3 DEF Scan
  <1>3. CASE CreatePreregistration(t)
    <2>1. RootsOK'
      <3>1. Torn.is = "whole" => ~Torn.body.seen BY DEF Torn
      <3> QED BY <1>3, <3>1, PreregStep, RootsKept DEF CreatePreregistration
    <2>2. CASE Finish(t) BY <1>0, <2>1, <2>2, FinishStep
    <2>3. CASE Continue(t, "write prereg")
      <3> DEFINE p == [proc[t] EXCEPT !["at"] = "write prereg"]
      <3>1. proc' = [proc EXCEPT ![t] = p] BY <2>3 DEF Continue
      <3>2. "body" \in DOMAIN proc[t] /\ ~proc[t].body.seen
        BY <1>3 DEF CreatePreregistration, Running, ProcsOK, ProcOK
      <3>3. /\ IsRecord(p) /\ DOMAIN p = DOMAIN proc[t]
            /\ p.at = "write prereg" /\ p.body = proc[t].body
        BY <1>r, <3>2, RecordExcept
      <3> HIDE DEF p
      <3>4. ProcOK(p, published'.dataset) BY <1>r, <3>2, <3>3 DEF ProcOK
      <3> QED BY <1>0, <2>1, <3>1, <3>4, ProcStep
    <2> QED BY <1>3, <2>2, <2>3 DEF CreatePreregistration
  <1>4. CASE WritePreregistration(t)
    <2>1. ~proc[t].body.seen
      BY <1>4 DEF WritePreregistration, Running, ProcsOK, ProcOK
    <2>2. Whole(proc[t].body).is = "whole" => ~Whole(proc[t].body).body.seen
      BY <2>1 DEF Whole
    <2>3. SetRoot(Root(t), "prereg", Whole(proc[t].body)) /\ Finish(t)
      BY <1>4 DEF WritePreregistration
    <2>4. RootsOK' BY <2>2, <2>3, PreregStep
    <2> QED BY <1>0, <2>3, <2>4, FinishStep
  <1> QED BY <1>1, <1>2, <1>3, <1>4

LEMMA RevealSeen ==
  ASSUME SeenOnlyBeforeScan, NEW t \in Terminals,
         ReadCustody(t) \/ CheckAgain(t) \/ WriteTemporary(t) \/ Link(t) \/ Unlink(t)
  PROVE  SeenOnlyBeforeScan'
  <1> USE DEF SeenOnlyBeforeScan
  <1>1. RootsOK'
    BY RootsKept DEF ReadCustody, CheckAgain, WriteTemporary, Link, Unlink
  <1>2. PublishedOK' /\ (published.dataset => published'.dataset)
    <2>1. CASE Link(t) BY <2>1, RecordExcept DEF Link, PublishedOK
    <2>2. CASE ~Link(t)
      BY <2>2, PublishedKept DEF ReadCustody, CheckAgain, WriteTemporary, Unlink
    <2> QED BY <2>1, <2>2
  <1>3. \/ Finish(t)
        \/ \E place \in {"check again", "temporary", "link", "unlink"} : Continue(t, place)
    BY DEF ReadCustody, CheckAgain, WriteTemporary, Link, Unlink
  <1> QED BY <1>1, <1>2, <1>3, FinishStep, ContinueStep DEF Outside

LEMMA EvaluateSeen ==
  ASSUME SeenOnlyBeforeScan, NEW t \in Terminals,
         \/ CheckFrozen(t) \/ Capture(t) \/ CheckAfter(t) \/ CreateCapture(t)
         \/ WriteCapture(t) \/ Worker(t) \/ CreateReceipt(t) \/ WriteReceipt(t)
  PROVE  SeenOnlyBeforeScan'
  <1> USE DEF SeenOnlyBeforeScan
  <1>r. RootsOK'
    BY RootsKept DEF CheckFrozen, Capture, CheckAfter, CreateCapture, WriteCapture, Worker,
                     CreateReceipt, WriteReceipt
  <1>p. PublishedOK' /\ published'.dataset = published.dataset
    BY PublishedKept, PublishedStep
    DEF CheckFrozen, Capture, CheckAfter, CreateCapture, WriteCapture, Worker,
        CreateReceipt, WriteReceipt
  <1>f. CASE Finish(t) BY <1>r, <1>p, <1>f, FinishStep
  <1>1. CASE CheckFrozen(t) /\ ~Finish(t)
    <2> DEFINE p == [at |-> "capture", root |-> Root(t), code |-> proc[t].code,
                     case |-> 1, faithful |-> proc[t].code = 0]
    <2>1. proc' = [proc EXCEPT ![t] = p] BY <1>1 DEF CheckFrozen
    <2>2. IsRecord(p) /\ "at" \in DOMAIN p /\ Outside(p.at) BY DEF IsRecord, Outside
    <2> HIDE DEF p
    <2> QED BY <1>r, <1>p, <2>1, <2>2, PlainStep
  <1>2. CASE Capture(t)
    <2> DEFINE a == [proc[t] EXCEPT !["faithful"] =
                       @ /\ ~roots[Root(t)].touched /\ RuntimeHolds(Root(t))]
               b == [a EXCEPT !["case"] = @ + 1]
               place == IF proc[t].case = 4 THEN "check after" ELSE "capture"
               c == [b EXCEPT !["at"] = place]
    <2>1. proc' = [proc EXCEPT ![t] = c] BY <1>2, ZenonT(40) DEF Capture, ProcsOK
    <2>2. IsRecord(proc[t]) /\ "at" \in DOMAIN proc[t] BY DEF ProcsOK, ProcOK
    <2>3. IsRecord(a) /\ "at" \in DOMAIN a BY <2>2, RecordExcept
    <2> HIDE DEF a
    <2>4. IsRecord(b) /\ "at" \in DOMAIN b BY <2>3, RecordExcept
    <2> HIDE DEF b
    <2>5. Outside(place) BY DEF Outside
    <2> HIDE DEF place
    <2>6. IsRecord(c) /\ "at" \in DOMAIN c /\ c.at = place BY <2>4, RecordExcept
    <2> HIDE DEF c
    <2> QED BY <1>r, <1>p, <2>1, <2>5, <2>6, PlainStep
  <1>3. CASE CheckAfter(t) /\ ~Finish(t)
    BY <1>r, <1>p, <1>3, ContinueStep DEF CheckAfter, Outside
  <1>4. CASE CreateCapture(t) /\ ~Finish(t)
    BY <1>r, <1>p, <1>4, ContinueStep DEF CreateCapture, Outside
  <1>5. CASE WriteCapture(t)
    <2> DEFINE p == [at |-> "worker", root |-> Root(t), verdicts |-> <<>>]
    <2>1. proc' = [proc EXCEPT ![t] = p] BY <1>5 DEF WriteCapture
    <2>2. IsRecord(p) /\ "at" \in DOMAIN p /\ Outside(p.at) BY DEF IsRecord, Outside
    <2> HIDE DEF p
    <2> QED BY <1>r, <1>p, <2>1, <2>2, PlainStep
  <1>6. CASE Worker(t) /\ ~Finish(t)
    <2> DEFINE verdicts == Append(proc[t].verdicts,
                                  Verdict(checkout.tree, published.capture.body))
               more == [proc[t] EXCEPT !["verdicts"] = verdicts]
               done == [at |-> "create receipt", root |-> Root(t), verdict |-> verdicts[1]]
    <2>1. proc' = [proc EXCEPT ![t] = more] \/ proc' = [proc EXCEPT ![t] = done]
      BY <1>6 DEF Worker
    <2> HIDE DEF verdicts
    <2>2. IsRecord(proc[t]) /\ "at" \in DOMAIN proc[t] BY DEF ProcsOK, ProcOK
    <2>3. IsRecord(more) /\ "at" \in DOMAIN more /\ more.at = proc[t].at
      BY <2>2, RecordExcept
    <2>4. Outside(more.at) BY <1>6, <2>3 DEF Worker, Running, Outside
    <2>5. IsRecord(done) /\ "at" \in DOMAIN done /\ Outside(done.at)
      BY DEF IsRecord, Outside
    <2> HIDE DEF more, done
    <2>6. CASE proc' = [proc EXCEPT ![t] = more]
      BY <1>r, <1>p, <2>3, <2>4, <2>6, PlainStep
    <2>7. CASE proc' = [proc EXCEPT ![t] = done]
      BY <1>r, <1>p, <2>5, <2>7, PlainStep
    <2> QED BY <2>1, <2>6, <2>7
  <1>7. CASE CreateReceipt(t) /\ ~Finish(t)
    BY <1>r, <1>p, <1>7, ContinueStep DEF CreateReceipt, Outside
  <1>8. CASE WriteReceipt(t) BY <1>f, <1>8 DEF WriteReceipt
  <1> QED BY <1>f, <1>1, <1>2, <1>3, <1>4, <1>5, <1>6, <1>7, <1>8

\* A command that is given again finds an idle terminal.
LEMMA StartSeen ==
  ASSUME SeenOnlyBeforeScan, NEW t \in Terminals, NEW r \in RunRoots, Start(t, r)
  PROVE  SeenOnlyBeforeScan'
  <1> USE DEF SeenOnlyBeforeScan
  <1>r. RootsOK'
    BY RootsKept DEF Start, StartPrepare, StartFreeze, StartReveal, StartEvaluate, Verify
  <1>p. PublishedOK' /\ published'.dataset = published.dataset
    BY PublishedKept
    DEF Start, StartPrepare, StartFreeze, StartReveal, StartEvaluate, Verify
  <1> DEFINE Starts(p) == /\ Begin(t, p)
                          /\ IsRecord(p) /\ "at" \in DOMAIN p /\ Outside(p.at)
  <1>1. ASSUME NEW p, Starts(p) PROVE ProcsOK'
    BY <1>1, <1>p, PlainStep DEF Begin
  <1>2. CASE StartPrepare(t, r)
    <2>1. Starts([at |-> "mkdir", root |-> r, done |-> 0])
      BY <1>2 DEF StartPrepare, IsRecord, Outside
    <2> QED BY <1>r, <1>p, <1>1, <2>1
  <1>3. CASE StartFreeze(t, r)
    <2>1. Starts([at |-> "hash", root |-> r, head |-> checkout.head])
      BY <1>3 DEF StartFreeze, IsRecord, Outside
    <2> QED BY <1>r, <1>p, <1>1, <2>1
  <1>4. CASE StartReveal(t, r)
    <2>1. Starts([at |-> "custody", root |-> r])
      BY <1>4 DEF StartReveal, IsRecord, Outside
    <2> QED BY <1>r, <1>p, <1>1, <2>1
  <1>5. CASE StartEvaluate(t, r)
    <2>1. Starts([at |-> "check frozen", root |-> r, code |-> checkout.tree])
      BY <1>5 DEF StartEvaluate, IsRecord, Outside
    <2> QED BY <1>r, <1>p, <1>1, <2>1
  <1>6. CASE Verify(t, r)
    BY <1>r, <1>p, <1>6, ProcsKept DEF Verify
  <1> QED BY <1>2, <1>3, <1>4, <1>5, <1>6 DEF Start

\* The people, the machine, a kill, a stutter.
LEMMA EnvironmentSeen ==
  ASSUME SeenOnlyBeforeScan,
         \/ Edit \/ Commit \/ Restore \/ UNCHANGED vars
         \/ \E r \in RunRoots : Drift(r) \/ Discard(r)
         \/ \E t \in Terminals : Crash(t)
  PROVE  SeenOnlyBeforeScan'
  <1> USE DEF SeenOnlyBeforeScan
  <1>p. PublishedOK' /\ published'.dataset = published.dataset
    BY PublishedKept DEF Edit, Commit, Restore, Drift, Discard, Crash, vars
  <1>1. CASE Edit \/ Commit \/ Restore \/ UNCHANGED vars
    BY <1>p, <1>1, RootsKept, ProcsKept DEF Edit, Commit, Restore, vars
  <1>2. ASSUME NEW r \in RunRoots, Drift(r) PROVE SeenOnlyBeforeScan'
    BY <1>p, <1>2, FieldStep, ProcsKept DEF Drift
  <1>3. ASSUME NEW r \in RunRoots, Discard(r) PROVE SeenOnlyBeforeScan'
    BY <1>p, <1>3, FreshOK, RootStep, ProcsKept DEF Discard
  <1>4. ASSUME NEW t \in Terminals, Crash(t) PROVE SeenOnlyBeforeScan'
    BY <1>p, <1>4, RootsKept, FinishStep DEF Crash
  <1> QED BY <1>1, <1>2, <1>3, <1>4

LEMMA NextSeen == SeenOnlyBeforeScan /\ [Next]_vars => SeenOnlyBeforeScan'
  <1> SUFFICES ASSUME SeenOnlyBeforeScan, [Next]_vars PROVE SeenOnlyBeforeScan'
    OBVIOUS
  <1>1. ASSUME NEW t \in Terminals, Step(t) PROVE SeenOnlyBeforeScan'
    BY <1>1, PrepareSeen, FreezeSeen, RevealSeen, EvaluateSeen DEF Step
  <1> QED BY <1>1, StartSeen, EnvironmentSeen DEF Next

\* Whatever is revealed, killed, edited or repeated in whichever terminal, no
\* pre-registration holds digests that were taken after the reveal
\* (freeze.py: scan_pre_reveal after the digests, an exclusive write after it).
THEOREM FrozenBeforeRevealAlways == Spec => []FrozenBeforeReveal
  <1>1. SeenOnlyBeforeScan => FrozenBeforeReveal
    BY DEF SeenOnlyBeforeScan, RootsOK, RootOK, FrozenBeforeReveal
  <1> QED BY InitSeen, NextSeen, <1>1, PTL DEF Spec

-----------------------------------------------------------------------------
(***************************************************************************)
(* The evaluation.                                                         *)
(***************************************************************************)
\* What each case of a dataset may be taken to be.
CaseOK(case) ==
  /\ case.holds \subseteq Sources
  /\ case.duplicate \in Sources \cup {"none"}
  /\ case.same \in BOOLEAN

\* The unit a faithful capture makes of a source that holds the value, and
\* what canonicalisation makes of it when the baseline repeats the source.
Held(s) == [id |-> s, value |-> "expected", paths |-> {"mke"}]
Shared(s) == [id |-> s, value |-> "expected", paths |-> {"mke", "dra"}]

LEMMA PathsReplaced ==
  ASSUME NEW i, NEW v, NEW P, NEW Q
  PROVE  [[id |-> i, value |-> v, paths |-> P] EXCEPT !.paths = Q] =
           [id |-> i, value |-> v, paths |-> Q]
  OBVIOUS

LEMMA HeldFields ==
  ASSUME NEW s
  PROVE  /\ Held(s).id = s /\ Held(s).value = "expected" /\ Held(s).paths = {"mke"}
         /\ \A P : [Held(s) EXCEPT !.paths = P].paths = P
         /\ [Held(s) EXCEPT !.paths = {"mke", "dra"}] = Shared(s)
  BY DEF Held, Shared

\* The units of a faithful capture have the sources' names, which no baseline
\* of its own has.
LEMMA UnitsExact ==
  ASSUME NEW case, CaseOK(case)
  PROVE  LET mke == Units(case, TRUE)
             base == Baseline(case, mke)
         IN  /\ mke = {Held(s) : s \in case.holds}
             /\ base.id = IF case.duplicate \in case.holds THEN case.duplicate
                                                          ELSE "export"
             /\ base.value = IF case.same THEN "expected" ELSE "baseline"
             /\ base.paths = {"dra"}
             /\ base.id \in case.holds <=> case.duplicate \in case.holds
  <1>1. Units(case, TRUE) = {Held(s) : s \in case.holds}
    BY DEF Units, Held
  <1>2. (\E u \in Units(case, TRUE) : u.id = case.duplicate) <=>
          case.duplicate \in case.holds
    <2>1. ASSUME NEW u \in Units(case, TRUE) PROVE u.id \in case.holds
      <3>1. PICK s \in case.holds : u = Held(s)
        BY <1>1
      <3> QED BY <3>1, HeldFields
    <2>2. ASSUME NEW s \in case.holds PROVE Held(s) \in Units(case, TRUE) /\ Held(s).id = s
      BY <1>1, HeldFields
    <2> QED BY <2>1, <2>2
  <1>3. "export" \notin case.holds
    BY EvidenceAssumption DEF CaseOK
  <1> QED BY <1>1, <1>2, <1>3 DEF Baseline

\* The novel units are the held sources but for the duplicate.
LEMMA NovelExact ==
  ASSUME NEW case, CaseOK(case)
  PROVE  LET mke == Units(case, TRUE)
             novel == Novel(mke, {Baseline(case, mke)})
             others == case.holds \ {case.duplicate}
         IN  /\ Cardinality(novel) = Cardinality(others)
             /\ novel # {} <=> others # {}
  <1> DEFINE mke == Units(case, TRUE)
             base == Baseline(case, mke)
             novel == Novel(mke, {base})
             others == case.holds \ {case.duplicate}
  <1>1. novel = {u \in mke : base.id # u.id}
    BY DEF Novel
  <1>2. /\ mke = {Held(s) : s \in case.holds}
        /\ base.id = IF case.duplicate \in case.holds THEN case.duplicate ELSE "export"
    BY UnitsExact
  <1>3. "export" \notin case.holds
    BY EvidenceAssumption DEF CaseOK
  <1> HIDE DEF mke, base, novel
  <1>4. novel = {Held(s) : s \in others}
    BY <1>1, <1>2, <1>3, HeldFields
  <1>5. IsFiniteSet(others)
    BY EvidenceAssumption, FS_Subset DEF CaseOK
  <1> DEFINE f == [s \in others |-> Held(s)]
  <1>6. f \in Bijection(others, novel)
    BY <1>4, HeldFields DEF Bijection, Injection, Surjection, IsInjective
  <1>7. Cardinality(novel) = Cardinality(others)
    BY <1>5, <1>6, FS_Bijection DEF ExistsBijection
  <1>8. novel # {} <=> others # {}
    BY <1>4
  <1> QED BY <1>7, <1>8 DEF novel, base, mke

\* Two units of one identity differ only if the baseline repeats a source
\* with another value; two values are there if it has another than the held.
LEMMA ConflictExact ==
  ASSUME NEW case, CaseOK(case)
  PROVE  LET mke == Units(case, TRUE)
             combined == mke \cup {Baseline(case, mke)}
         IN  /\ IdentityConflict(combined) <=>
                  case.duplicate \in case.holds /\ ~case.same
             /\ Cardinality({u.value : u \in combined}) > 1 <=>
                  case.holds # {} /\ ~case.same
  <1> DEFINE mke == Units(case, TRUE)
             base == Baseline(case, mke)
             values == {u.value : u \in mke \cup {base}}
  <1>1. /\ mke = {Held(s) : s \in case.holds}
        /\ base.id = IF case.duplicate \in case.holds THEN case.duplicate ELSE "export"
        /\ base.value = IF case.same THEN "expected" ELSE "baseline"
        /\ base.id \in case.holds <=> case.duplicate \in case.holds
    BY UnitsExact
  <1> HIDE DEF mke, base
  <1>2. \A u \in mke : u.id \in case.holds /\ u.value = "expected"
    BY <1>1, HeldFields
  <1>3. \A s \in case.holds : Held(s) \in mke /\ Held(s).id = s
    BY <1>1, HeldFields
  <1>4. IdentityConflict(mke \cup {base}) <=> case.duplicate \in case.holds /\ ~case.same
    <2>1. CASE case.duplicate \in case.holds /\ ~case.same
      <3>1. PICK u \in mke : u.id = base.id
        BY <1>1, <1>3, <2>1
      <3>2. u.value # base.value
        BY <1>1, <1>2, <2>1
      <3> QED BY <2>1, <3>1, <3>2 DEF IdentityConflict
    <2>2. CASE ~(case.duplicate \in case.holds /\ ~case.same)
      <3>1. \A u, v \in mke \cup {base} : u.id = v.id => u.value = v.value
        BY <1>1, <1>2, <2>2
      <3> QED BY <2>2, <3>1 DEF IdentityConflict
    <2> QED BY <2>1, <2>2
  <1>5. Cardinality(values) > 1 <=> case.holds # {} /\ ~case.same
    <2>1. CASE case.holds # {} /\ ~case.same
      <3>1. values = {"expected"} \cup {"baseline"}
        BY <1>1, <1>2, <1>3, <2>1
      <3>2. IsFiniteSet({"expected"}) /\ Cardinality({"expected"}) = 1
        BY FS_Singleton
      <3>3. Cardinality({"expected"} \cup {"baseline"}) = 2
        BY <3>2, FS_AddElement
      <3> QED BY <2>1, <3>1, <3>3
    <2>2. CASE ~(case.holds # {} /\ ~case.same)
      <3>1. values = {base.value}
        BY <1>1, <1>2, <2>2
      <3>2. Cardinality({base.value}) = 1
        BY FS_Singleton
      <3> HIDE DEF values
      <3> QED BY <2>2, <3>1, <3>2
    <2> QED BY <2>1, <2>2
  <1> QED BY <1>4, <1>5 DEF mke, base

\* Both paths lead to one unit exactly if the baseline repeats a source with
\* its value.
LEMMA DuplicateExact ==
  ASSUME NEW case, CaseOK(case), case.duplicate \in case.holds => case.same
  PROVE  LET mke == Units(case, TRUE)
             combined == mke \cup {Baseline(case, mke)}
             both == {u \in Canonical(combined) : u.paths = {"mke", "dra"}}
         IN  Cardinality(both) = 1 <=> case.duplicate \in case.holds
  <1> DEFINE mke == Units(case, TRUE)
             base == Baseline(case, mke)
             combined == mke \cup {base}
             AllPaths(u) == UNION {v.paths : v \in {x \in combined : x.id = u.id}}
             Merged(u) == [u EXCEPT !.paths = AllPaths(u)]
             both == {u \in Canonical(combined) : u.paths = {"mke", "dra"}}
  <1>1. /\ mke = {Held(s) : s \in case.holds}
        /\ base.id = IF case.duplicate \in case.holds THEN case.duplicate ELSE "export"
        /\ base.value = IF case.same THEN "expected" ELSE "baseline"
        /\ base.paths = {"dra"}
        /\ base.id \in case.holds <=> case.duplicate \in case.holds
    BY UnitsExact
  <1>2. Canonical(combined) = {Merged(u) : u \in combined}
    BY DEF Canonical
  <1>3. \A P : /\ [base EXCEPT !.paths = P].paths = P
               /\ [base EXCEPT !.paths = P] = [id |-> base.id, value |-> base.value, paths |-> P]
    <2>1. PICK i, v : base = [id |-> i, value |-> v, paths |-> {"dra"}]
      BY DEF Baseline
    <2> HIDE DEF base
    <2> QED BY <2>1, PathsReplaced
  <1> HIDE DEF mke, base
  <1>4. \A u \in mke : u.id \in case.holds /\ u.paths = {"mke"} /\ u = Held(u.id)
    BY <1>1, HeldFields
  <1>5. \A u \in mke : AllPaths(u) = IF u.id = base.id THEN {"mke", "dra"} ELSE {"mke"}
    BY <1>1, <1>4
  <1>6. AllPaths(base) = IF case.duplicate \in case.holds THEN {"mke", "dra"} ELSE {"dra"}
    <2>1. case.duplicate \in case.holds =>
            Held(case.duplicate) \in combined /\ Held(case.duplicate).id = base.id
      BY <1>1, HeldFields
    <2> QED BY <1>1, <1>4, <2>1, HeldFields
  <1> HIDE DEF AllPaths
  <1>7. \A u \in mke : Merged(u).paths = AllPaths(u)
    BY <1>4, HeldFields
  <1>8. Merged(base).paths = AllPaths(base)
    BY <1>3
  <1>9. CASE case.duplicate \in case.holds
    <2>1. Merged(base) = Shared(case.duplicate)
      BY <1>1, <1>3, <1>6, <1>9 DEF Shared
    <2>2. \A u \in mke : u.id = base.id => Merged(u) = Shared(case.duplicate)
      <3> TAKE u \in mke
      <3> HAVE u.id = base.id
      <3>1. u = Held(case.duplicate) /\ AllPaths(u) = {"mke", "dra"}
        BY <1>1, <1>4, <1>5, <1>9
      <3>2. Merged(u) = [Held(case.duplicate) EXCEPT !.paths = {"mke", "dra"}]
        BY <3>1
      <3> QED BY <3>2, HeldFields
    <2>3. \A u \in mke : u.id # base.id => Merged(u).paths # {"mke", "dra"}
      BY <1>5, <1>7
    <2>4. Shared(case.duplicate).paths = {"mke", "dra"}
      BY DEF Shared
    <2> HIDE DEF Merged
    <2>5. both = {Shared(case.duplicate)}
      BY <1>2, <2>1, <2>2, <2>3, <2>4
    <2> QED BY <1>9, <2>5, FS_Singleton DEF mke, base
  <1>10. CASE case.duplicate \notin case.holds
    <2>1. \A u \in combined : Merged(u).paths # {"mke", "dra"}
      BY <1>1, <1>4, <1>5, <1>6, <1>7, <1>8, <1>10
    <2> HIDE DEF Merged
    <2>2. Cardinality(both) = 0
      BY <1>2, <2>1, FS_EmptySet
    <2> QED BY <1>10, <2>2 DEF mke, base
  <1> QED BY <1>9, <1>10

\* A faithful capture is evaluated for what it holds.
LEMMA CaseExact ==
  ASSUME NEW case, CaseOK(case)
  PROVE  LET r == CaseResult(case, TRUE)
             others == case.holds \ {case.duplicate}
         IN  /\ r.dim = case.dim
             /\ r.valid <=> (case.duplicate \in case.holds => case.same)
             /\ r.novel = Cardinality(others)
             /\ r.closed <=> others # {}
             /\ r.removable <=> Cardinality(others) = 1
             /\ r.valid => (r.duplicate <=> case.duplicate \in case.holds)
             /\ r.conflict <=> case.holds # {} /\ ~case.same
  BY NovelExact, ConflictExact, DuplicateExact DEF CaseResult, CaseOK

\* evaluate_suite says of a faithful capture of any dataset what a plain
\* reading of the dataset says.
LEMMA SuiteExact ==
  ASSUME NEW cases, \A i \in 1..4 : CaseOK(cases[i])
  PROVE  (Suite(cases, TRUE) = "incremental_value_confirmed") <=> AddsValue(cases)
  <1> DEFINE r == [i \in 1..4 |-> CaseResult(cases[i], TRUE)]
             Others(i) == cases[i].holds \ {cases[i].duplicate}
  <1>1. ASSUME NEW i \in 1..4
        PROVE  /\ r[i].dim = cases[i].dim
               /\ r[i].valid <=> (cases[i].duplicate \in cases[i].holds => cases[i].same)
               /\ r[i].novel = Cardinality(Others(i))
               /\ r[i].closed <=> Others(i) # {}
               /\ r[i].removable <=> Cardinality(Others(i)) = 1
               /\ r[i].valid => (r[i].duplicate <=> cases[i].duplicate \in cases[i].holds)
               /\ r[i].conflict <=> cases[i].holds # {} /\ ~cases[i].same
    BY CaseExact
  <1>2. Suite(cases, TRUE) = "incremental_value_confirmed" <=>
          /\ \A i \in 1..4 : r[i].valid
          /\ ExpectedKinds(cases) /\ Confirms(r)
    BY DEF Suite
  <1> HIDE DEF r
  <1>3. ASSUME NEW i \in 1..4
        PROVE  /\ Cardinality(Others(i)) = 0 <=> Others(i) = {}
               /\ Cardinality(Others(i)) = 1 => Others(i) # {}
    <2>1. IsFiniteSet(Others(i))
      BY EvidenceAssumption, FS_Subset DEF CaseOK
    <2> QED BY <2>1, FS_EmptySet
  <1>4. ASSUME \A i \in 1..4 : r[i].valid
        PROVE  Confirms(r) <=>
                 /\ \A i \in {1, 2} : Cardinality(Others(i)) = 1
                 /\ cases[1].dim # cases[2].dim
                 /\ cases[3].holds = {cases[3].duplicate}
                 /\ cases[4].holds # {} /\ ~cases[4].same
    <2>1. r[3].novel = 0 /\ r[3].duplicate <=> cases[3].holds = {cases[3].duplicate}
      BY <1>1, <1>3, <1>4
    <2> QED BY <1>1, <1>3, <2>1 DEF Confirms
  <1> QED BY <1>1, <1>2, <1>4 DEF AddsValue


-----------------------------------------------------------------------------
(***************************************************************************)
(* A setup receipt describes its store.                                    *)
(***************************************************************************)
\* The places between mkdir and the receipt, where the command has the run
\* root to itself; those from the frozen checkout to the capture's receipt;
\* those at which the custodian's dataset has been read.
Building == {"admit", "ingest", "readonly", "reopen", "seal", "probe", "create setup",
             "write setup"}
Evaluating == {"capture", "check after", "create capture", "write capture"}
Revealing == {"check again", "temporary", "link", "unlink"}

\* How far a store is when its builder is at a place.
Built(p, root) ==
  /\ p.at \in {"admit", "ingest", "readonly"} => root.store = "open"
  /\ p.at \in {"reopen", "seal"} => root.store = "readonly"
  /\ p.at \in {"probe", "create setup", "write setup"} =>
       root.store = "sealed" /\ p.content = root.ingested
  /\ p.at \notin {"admit", "ingest"} => root.ingested = Cardinality(Sources)
  /\ root.setup = IF p.at = "write setup" THEN Torn ELSE Absent

\* A capture that is not what the frozen code makes of the sealed store will
\* be found out by the check after it.
Watched(p, root) ==
  /\ p.at \in {"capture", "check after"} =>
       /\ root.store = "sealed"
       /\ p.code = 0 /\ ~p.faithful => root.touched \/ root.wheel # "installed"
  /\ p.at \in {"create capture", "write capture"} => (p.code = 0 => p.faithful)

Sound(p, all, dataset) ==
  /\ IsRecord(p) /\ "at" \in DOMAIN p
  /\ p.at \in Building \cup Evaluating \cup {"mkdir", "check frozen"} =>
       "root" \in DOMAIN p /\ p.root \in RunRoots
  /\ p.at \in {"probe", "create setup", "write setup"} => "content" \in DOMAIN p
  /\ p.at \in Evaluating => {"code", "faithful"} \subseteq DOMAIN p /\ p.faithful \in BOOLEAN
  /\ p.at \in Building => Built(p, all[p.root])
  /\ p.at \in Evaluating => Watched(p, all[p.root])
  /\ p.at \in Revealing => dataset \in Holdouts

RootSound(root) ==
  /\ IsRecord(root)
  /\ {"store", "ingested", "setup", "touched", "wheel"} \subseteq DOMAIN root
  /\ root.store = "none" => root.setup = Absent
  /\ root.setup.is = "whole" =>
       /\ root.store = "sealed"
       /\ root.ingested = root.setup.body.content
       /\ root.ingested = Cardinality(Sources)

RootsSound == roots = [r \in RunRoots |-> roots[r]] /\ \A r \in RunRoots : RootSound(roots[r])

OneBuilder == \A t, u \in Terminals :
  proc[t].at \in Building /\ proc[u].at \in Building /\ proc[t].root = proc[u].root => t = u

ProcsSound == /\ proc = [t \in Terminals |-> proc[t]]
              /\ \A t \in Terminals : Sound(proc[t], roots, holdout)
              /\ OneBuilder

PublishedSound ==
  /\ IsRecord(published) /\ {"dataset", "capture", "receipt"} \subseteq DOMAIN published
  /\ published.dataset => holdout \in Holdouts
  /\ published.capture.is = "whole" =>
       /\ published.capture.body.faithful \in BOOLEAN
       /\ published.capture.body.by = 0 => published.capture.body.faithful

VerifiedSound ==
  verified.verdict # "none" =>
    /\ holdout \in Holdouts
    /\ verified.code = 0 /\ verified.by = 0 =>
         (verified.verdict = "incremental_value_confirmed" <=> AddsValue(holdout))

HoldoutSound == holdout = <<>> \/ holdout \in Holdouts

EvidenceInv == RootsSound /\ ProcsSound /\ HoldoutSound /\ PublishedSound /\ VerifiedSound


\* A root may change under an evaluation only so far, and not at all, for
\* what it is built of, under a builder.
Tame(old, new) ==
  old.store = "sealed" => /\ new.store = "sealed"
                          /\ old.touched => new.touched
                          /\ old.wheel # "installed" => new.wheel # "installed"
SameStore(old, new) ==
  old.store = new.store /\ old.ingested = new.ingested /\ old.setup = new.setup

LEMMA SoundAcross ==
  ASSUME NEW p, NEW all, NEW dataset, Sound(p, roots, holdout),
         holdout \in Holdouts => dataset \in Holdouts,
         \A r \in RunRoots : Tame(roots[r], all[r]),
         p.at \in Building => SameStore(roots[p.root], all[p.root])
  PROVE  Sound(p, all, dataset)
  <1>1. p.at \in Building => Built(p, all[p.root])
    BY DEF Sound, Built, SameStore
  <1>2. p.at \in Evaluating => Watched(p, all[p.root])
    BY DEF Sound, Watched, Tame
  <1> QED BY <1>1, <1>2 DEF Sound

LEMMA ProcMoves ==
  ASSUME ProcsSound, NEW t \in Terminals, NEW p,
         proc' = [proc EXCEPT ![t] = p], Sound(p, roots', holdout'),
         holdout \in Holdouts => holdout' \in Holdouts,
         \A r \in RunRoots : Tame(roots[r], roots'[r]),
         \A u \in Terminals \ {t} : proc[u].at \in Building =>
           /\ SameStore(roots[proc[u].root], roots'[proc[u].root])
           /\ p.at \in Building => proc[u].root # p.root
  PROVE  ProcsSound'
  <1>1. proc' = [u \in Terminals |-> proc'[u]] /\ proc'[t] = p
        /\ \A u \in Terminals \ {t} : proc'[u] = proc[u]
    BY DEF ProcsSound
  <1>2. ASSUME NEW u \in Terminals \ {t} PROVE Sound(proc'[u], roots', holdout')
    <2>1. Sound(proc[u], roots, holdout)
      BY DEF ProcsSound
    <2>2. proc[u].at \in Building => SameStore(roots[proc[u].root], roots'[proc[u].root])
      OBVIOUS
    <2>3. Sound(proc[u], roots', holdout')
      BY <2>1, <2>2, SoundAcross
    <2> QED BY <1>1, <2>3
  <1>3. OneBuilder'
    BY <1>1 DEF ProcsSound, OneBuilder
  <1> QED BY <1>1, <1>2, <1>3 DEF ProcsSound

LEMMA ProcsStay ==
  ASSUME ProcsSound, UNCHANGED proc,
         holdout \in Holdouts => holdout' \in Holdouts,
         \A r \in RunRoots : Tame(roots[r], roots'[r]),
         \A u \in Terminals : proc[u].at \in Building =>
           SameStore(roots[proc[u].root], roots'[proc[u].root])
  PROVE  ProcsSound'
  <1>1. ASSUME NEW u \in Terminals PROVE Sound(proc[u], roots', holdout')
    <2>1. Sound(proc[u], roots, holdout)
      BY DEF ProcsSound
    <2> QED BY <2>1, SoundAcross
  <1> QED BY <1>1 DEF ProcsSound, OneBuilder

LEMMA Untouched ==
  ASSUME UNCHANGED roots
  PROVE  \A r : Tame(roots[r], roots'[r]) /\ SameStore(roots[r], roots'[r])
  BY DEF Tame, SameStore

LEMMA FieldSet ==
  ASSUME RootsSound, NEW r \in RunRoots, NEW field, NEW value, SetRoot(r, field, value)
  PROVE  /\ roots' = [q \in RunRoots |-> roots'[q]]
         /\ \A q \in RunRoots \ {r} : roots'[q] = roots[q]
         /\ IsRecord(roots'[r]) /\ DOMAIN roots'[r] = DOMAIN roots[r]
         /\ field \in DOMAIN roots[r] => roots'[r][field] = value
         /\ \A x \in DOMAIN roots[r] : x # field => roots'[r][x] = roots[r][x]
  <1> DEFINE root == [roots[r] EXCEPT ![field] = value]
  <1>1. roots' = [roots EXCEPT ![r] = root]
    BY DEF SetRoot
  <1>2. IsRecord(roots[r])
    BY DEF RootsSound, RootSound
  <1>3. /\ IsRecord(root) /\ DOMAIN root = DOMAIN roots[r]
        /\ field \in DOMAIN roots[r] => root[field] = value
        /\ \A x \in DOMAIN roots[r] : x # field => root[x] = roots[r][x]
    BY <1>2, RecordExcept
  <1> HIDE DEF root
  <1> QED BY <1>1, <1>3 DEF RootsSound

LEMMA RootsSoundAt ==
  ASSUME RootsSound, NEW r \in RunRoots,
         roots' = [q \in RunRoots |-> roots'[q]],
         \A q \in RunRoots \ {r} : roots'[q] = roots[q],
         RootSound(roots'[r])
  PROVE  RootsSound'
  BY DEF RootsSound

LEMMA Continued ==
  ASSUME ProcsSound, NEW t \in Terminals, NEW place, Continue(t, place), NEW p, p = proc'[t]
  PROVE  /\ proc' = [proc EXCEPT ![t] = p]
         /\ IsRecord(p) /\ DOMAIN p = DOMAIN proc[t] /\ p.at = place
         /\ \A x \in DOMAIN proc[t] : x # "at" => p[x] = proc[t][x]
  <1>1. IsRecord(proc[t]) /\ "at" \in DOMAIN proc[t]
    BY DEF ProcsSound, Sound
  <1> DEFINE q == [proc[t] EXCEPT !["at"] = place]
  <1>2. proc' = [proc EXCEPT ![t] = q]
    BY DEF Continue
  <1>3. p = q
    BY <1>2 DEF ProcsSound
  <1>4. /\ IsRecord(q) /\ DOMAIN q = DOMAIN proc[t] /\ q.at = place
        /\ \A x \in DOMAIN proc[t] : x # "at" => q[x] = proc[t][x]
    BY <1>1, RecordExcept
  <1> HIDE DEF q
  <1> QED BY <1>2, <1>3, <1>4

LEMMA IdleSound == ASSUME NEW all, NEW dataset PROVE Sound(Idle, all, dataset)
  BY DEF Sound, Idle, IsRecord, Building, Evaluating, Revealing

LEMMA Finished ==
  ASSUME ProcsSound, NEW t \in Terminals, Finish(t),
         holdout \in Holdouts => holdout' \in Holdouts,
         \A r \in RunRoots : Tame(roots[r], roots'[r]),
         \A u \in Terminals \ {t} : proc[u].at \in Building =>
           SameStore(roots[proc[u].root], roots'[proc[u].root])
  PROVE  ProcsSound'
  <1>1. Idle.at \notin Building
    BY DEF Idle, Building
  <1> QED BY <1>1, IdleSound, ProcMoves DEF Finish

LEMMA ArtifactsKept ==
  ASSUME HoldoutSound, PublishedSound, VerifiedSound,
         UNCHANGED <<published, verified, holdout>>
  PROVE  HoldoutSound' /\ PublishedSound' /\ VerifiedSound'
  BY DEF HoldoutSound, PublishedSound, VerifiedSound

\* What a builder finds, and what the root's changes mean for the others.
LEMMA BuilderAlone ==
  ASSUME ProcsSound, NEW t \in Terminals, proc[t].at \in Building
  PROVE  /\ Root(t) \in RunRoots
         /\ Built(proc[t], roots[Root(t)])
         /\ \A u \in Terminals \ {t} : proc[u].at \in Building =>
              proc[u].root # Root(t) /\ proc[u].root \in RunRoots
  BY DEF ProcsSound, Sound, OneBuilder, Root, Building

LEMMA BuilderMoves ==
  ASSUME ProcsSound, NEW t \in Terminals, proc[t].at \in Building,
         NEW p, proc' = [proc EXCEPT ![t] = p], Sound(p, roots', holdout'),
         p.at \in Building => p.root = Root(t),
         UNCHANGED holdout,
         \A q \in RunRoots \ {Root(t)} : roots'[q] = roots[q],
         Tame(roots[Root(t)], roots'[Root(t)])
  PROVE  ProcsSound'
  <1>1. \A r \in RunRoots : Tame(roots[r], roots'[r])
    BY DEF Tame
  <1>2. \A u \in Terminals \ {t} : proc[u].at \in Building =>
           /\ SameStore(roots[proc[u].root], roots'[proc[u].root])
           /\ p.at \in Building => proc[u].root # p.root
    BY BuilderAlone DEF SameStore
  <1> QED BY <1>1, <1>2, ProcMoves


\* A builder goes on to its next place; its root is as far as that.
LEMMA BuilderContinues ==
  ASSUME ProcsSound, RootsSound, NEW t \in Terminals, proc[t].at \in Building,
         NEW place \in Building, Continue(t, place), UNCHANGED holdout,
         \A q \in RunRoots \ {Root(t)} : roots'[q] = roots[q],
         Tame(roots[Root(t)], roots'[Root(t)]),
         \A p : /\ p.at = place
                /\ \A x \in DOMAIN proc[t] : x # "at" => p[x] = proc[t][x]
                => Built(p, roots'[Root(t)]),
         place \in {"probe", "create setup", "write setup"} => "content" \in DOMAIN proc[t]
  PROVE  ProcsSound'
  <1>1. PICK p : p = proc'[t]
    OBVIOUS
  <1>2. /\ proc' = [proc EXCEPT ![t] = p]
        /\ IsRecord(p) /\ DOMAIN p = DOMAIN proc[t] /\ p.at = place
        /\ \A x \in DOMAIN proc[t] : x # "at" => p[x] = proc[t][x]
    BY ONLY ProcsSound, t \in Terminals, Continue(t, place), <1>1, Continued
  <1>3. {"at", "root"} \subseteq DOMAIN proc[t] /\ proc[t].root \in RunRoots
    BY DEF ProcsSound, Sound, Building
  <1>4. p.root = proc[t].root
    BY <1>2, <1>3
  <1>5. Sound(p, roots', holdout')
    BY <1>2, <1>3, <1>4 DEF Sound, Root, Building, Evaluating, Revealing
  <1> QED BY <1>2, <1>4, <1>5, BuilderMoves DEF Root

LEMMA MakeRootSound ==
  ASSUME EvidenceInv, NEW t \in Terminals, MakeRoot(t)
  PROVE  EvidenceInv'
  <1> USE DEF EvidenceInv
  <1>0. HoldoutSound' /\ PublishedSound' /\ VerifiedSound'
    BY ArtifactsKept DEF MakeRoot
  <1>1. proc[t].at = "mkdir" /\ Root(t) \in RunRoots /\ "root" \in DOMAIN proc[t]
    BY DEF MakeRoot, Running, ProcsSound, Sound, Root
  <1>2. CASE Taken(Root(t))
    <2>1. SetRoot(Root(t), "store", "open") /\ Continue(t, "admit") /\ UNCHANGED holdout
      BY <1>2 DEF MakeRoot
    <2>2. roots[Root(t)].store = "none" /\ RootSound(roots[Root(t)])
      BY <1>1, <1>2 DEF Taken, RootsSound
    <2>3. /\ roots' = [q \in RunRoots |-> roots'[q]]
          /\ \A q \in RunRoots \ {Root(t)} : roots'[q] = roots[q]
          /\ IsRecord(roots'[Root(t)]) /\ DOMAIN roots'[Root(t)] = DOMAIN roots[Root(t)]
          /\ roots'[Root(t)].store = "open"
          /\ \A x \in DOMAIN roots[Root(t)] : x # "store" =>
                roots'[Root(t)][x] = roots[Root(t)][x]
      BY <1>1, <2>1, <2>2, FieldSet DEF RootSound
    <2>4. roots'[Root(t)].setup = Absent
      BY <2>2, <2>3 DEF RootSound
    <2>5. RootSound(roots'[Root(t)])
      BY <2>2, <2>3, <2>4 DEF RootSound, Absent
    <2>6. RootsSound'
      BY <1>1, <2>3, <2>5, RootsSoundAt
    <2>7. \A u \in Terminals : proc[u].at \in Building =>
             proc[u].root # Root(t) /\ proc[u].root \in RunRoots
      BY <2>2, BuilderAlone DEF Built, Root, Building
    <2>8. PICK p : p = proc'[t]
      OBVIOUS
    <2>9. /\ proc' = [proc EXCEPT ![t] = p]
          /\ IsRecord(p) /\ DOMAIN p = DOMAIN proc[t] /\ p.at = "admit"
          /\ \A x \in DOMAIN proc[t] : x # "at" => p[x] = proc[t][x]
      BY <2>1, <2>8, Continued
    <2>10. "at" \in DOMAIN proc[t] /\ p.root = Root(t)
      BY <1>1, <2>9 DEF ProcsSound, Sound, Root
    <2>11. Sound(p, roots', holdout')
      BY <1>1, <2>3, <2>4, <2>9, <2>10 DEF Sound, Built, Building, Evaluating, Revealing
    <2>12. \A r \in RunRoots : Tame(roots[r], roots'[r])
      BY <2>2, <2>3 DEF Tame
    <2>13. \A u \in Terminals \ {t} : proc[u].at \in Building =>
              SameStore(roots[proc[u].root], roots'[proc[u].root])
      BY <2>3, <2>7 DEF SameStore
    <2>14. \A u \in Terminals \ {t} : proc[u].at \in Building =>
              /\ SameStore(roots[proc[u].root], roots'[proc[u].root])
              /\ p.at \in Building => proc[u].root # p.root
      BY <2>7, <2>10, <2>13
    <2>15. holdout \in Holdouts => holdout' \in Holdouts
      BY <2>1
    <2>16. proc' = [proc EXCEPT ![t] = p]
      BY <2>9
    <2>17. ProcsSound'
      BY <2>11, <2>12, <2>14, <2>15, <2>16, ProcMoves
    <2> QED BY <1>0, <2>6, <2>17
  <1>3. CASE ~Taken(Root(t))
    <2>1. Finish(t) /\ UNCHANGED <<roots, holdout>>
      BY <1>3 DEF MakeRoot
    <2>2. ProcsSound'
      BY <2>1, Untouched, Finished
    <2> QED BY <1>0, <2>1, <2>2 DEF RootsSound
  <1> QED BY <1>2, <1>3

LEMMA QuitSound ==
  ASSUME EvidenceInv, NEW t \in Terminals, Finish(t),
         UNCHANGED <<roots, holdout, published, verified>>
  PROVE  EvidenceInv'
  <1>1. ProcsSound'
    BY Untouched, Finished DEF EvidenceInv
  <1> QED BY <1>1, ArtifactsKept DEF EvidenceInv, RootsSound

\* A builder changes a field of its root and goes on.
LEMMA FieldBuilt ==
  ASSUME EvidenceInv, NEW t \in Terminals, proc[t].at \in Building,
         NEW field, NEW value, SetRoot(Root(t), field, value)
  PROVE  /\ Root(t) \in RunRoots
         /\ RootSound(roots[Root(t)]) /\ Built(proc[t], roots[Root(t)])
         /\ roots' = [q \in RunRoots |-> roots'[q]]
         /\ \A q \in RunRoots \ {Root(t)} : roots'[q] = roots[q]
         /\ IsRecord(roots'[Root(t)])
         /\ DOMAIN roots'[Root(t)] = DOMAIN roots[Root(t)]
         /\ field \in DOMAIN roots[Root(t)] => roots'[Root(t)][field] = value
         /\ \A x \in DOMAIN roots[Root(t)] : x # field =>
               roots'[Root(t)][x] = roots[Root(t)][x]
  <1>1. Root(t) \in RunRoots /\ Built(proc[t], roots[Root(t)])
    BY BuilderAlone DEF EvidenceInv
  <1>2. RootSound(roots[Root(t)])
    BY <1>1 DEF EvidenceInv, RootsSound
  <1> QED BY <1>1, <1>2, FieldSet DEF EvidenceInv

LEMMA AdmitSound ==
  ASSUME EvidenceInv, NEW t \in Terminals, Admit(t)
  PROVE  EvidenceInv'
  <1> USE DEF EvidenceInv
  <1> DEFINE r == Root(t)
  <1>1. /\ proc[t].at = "admit" /\ proc[t].at \in Building /\ UNCHANGED holdout
        /\ SetRoot(r, "wheel", "installed") /\ Continue(t, "ingest")
    BY DEF Admit, Running, Building
  <1>2. /\ r \in RunRoots /\ RootSound(roots[r]) /\ Built(proc[t], roots[r])
        /\ roots' = [q \in RunRoots |-> roots'[q]]
        /\ \A q \in RunRoots \ {r} : roots'[q] = roots[q]
        /\ IsRecord(roots'[r]) /\ DOMAIN roots'[r] = DOMAIN roots[r]
        /\ \A x \in DOMAIN roots[r] : x # "wheel" => roots'[r][x] = roots[r][x]
    BY <1>1, FieldBuilt
  <1>3. HoldoutSound' /\ PublishedSound' /\ VerifiedSound'
    BY ArtifactsKept DEF Admit
  <1>4. roots[r].store = "open" /\ roots[r].setup = Absent
    BY <1>1, <1>2 DEF Built
  <1>5. /\ roots'[r].store = "open" /\ roots'[r].setup = Absent
        /\ roots'[r].ingested = roots[r].ingested
    BY <1>2, <1>4 DEF RootSound
  <1>6. RootSound(roots'[r])
    BY <1>2, <1>5 DEF RootSound, Absent
  <1>7. RootsSound'
    BY <1>2, <1>6, RootsSoundAt
  <1>8. Tame(roots[r], roots'[r])
    BY <1>4 DEF Tame
  <1>9. \A p : p.at = "ingest" => Built(p, roots'[r])
    BY <1>5 DEF Built
  <1>10. ProcsSound'
    BY <1>1, <1>2, <1>8, <1>9, BuilderContinues DEF Building
  <1> QED BY <1>3, <1>7, <1>10


LEMMA IngestSound ==
  ASSUME EvidenceInv, NEW t \in Terminals, Ingest(t)
  PROVE  EvidenceInv'
  <1> USE DEF EvidenceInv
  <1> DEFINE r == Root(t)
  <1>1. /\ proc[t].at = "ingest" /\ proc[t].at \in Building
        /\ UNCHANGED <<holdout, published, verified>>
    BY DEF Ingest, Running, Building
  <1>2. r \in RunRoots /\ Built(proc[t], roots[r]) /\ RootSound(roots[r])
    BY <1>1, BuilderAlone DEF RootsSound
  <1>3. roots[r].store = "open" /\ roots[r].setup = Absent
    BY <1>1, <1>2 DEF Built
  <1>4. HoldoutSound' /\ PublishedSound' /\ VerifiedSound'
    BY <1>1, ArtifactsKept
  <1>5. CASE proc[t].done < Cardinality(Sources)
    <2>1. /\ SetRoot(r, "ingested", roots[r].ingested + 1)
          /\ proc' = [proc EXCEPT ![t].done = @ + 1]
      BY <1>5 DEF Ingest
    <2>2. /\ roots' = [q \in RunRoots |-> roots'[q]]
          /\ \A q \in RunRoots \ {r} : roots'[q] = roots[q]
          /\ IsRecord(roots'[r]) /\ DOMAIN roots'[r] = DOMAIN roots[r]
          /\ \A x \in DOMAIN roots[r] : x # "ingested" => roots'[r][x] = roots[r][x]
      BY <1>1, <2>1, FieldBuilt
    <2>3. roots'[r].store = "open" /\ roots'[r].setup = Absent
      BY <1>2, <1>3, <2>2 DEF RootSound
    <2>4. RootSound(roots'[r])
      BY <1>2, <2>2, <2>3 DEF RootSound, Absent
    <2>5. RootsSound'
      BY <1>2, <2>2, <2>4, RootsSoundAt
    <2>6. Tame(roots[r], roots'[r])
      BY <1>3 DEF Tame
    <2> DEFINE p == [proc[t] EXCEPT !["done"] = proc[t].done + 1]
    <2>7. proc' = [proc EXCEPT ![t] = p]
      BY <2>1
    <2>8. IsRecord(proc[t]) /\ {"at", "root"} \subseteq DOMAIN proc[t] /\ proc[t].root = r
      BY <1>1 DEF ProcsSound, Sound, Root, Building
    <2>9. IsRecord(p) /\ DOMAIN p = DOMAIN proc[t] /\ p.at = "ingest" /\ p.root = r
      BY <1>1, <2>8, RecordExcept
    <2> HIDE DEF p
    <2>10. Built(p, roots'[r])
      BY <2>3, <2>9 DEF Built
    <2>11. Sound(p, roots', holdout')
      BY <1>2, <2>8, <2>9, <2>10 DEF Sound, Building, Evaluating, Revealing
    <2>12. ProcsSound'
      BY <1>1, <2>2, <2>6, <2>7, <2>9, <2>11, BuilderMoves
    <2> QED BY <1>4, <2>5, <2>12
  <1>6. CASE ~(proc[t].done < Cardinality(Sources))
    <2>1. /\ UNCHANGED roots
          /\ IF roots[r].ingested = Cardinality(Sources)
               THEN Continue(t, "readonly") ELSE Finish(t)
      BY <1>6 DEF Ingest
    <2>2. CASE Finish(t)
      BY <1>1, <2>1, <2>2, QuitSound
    <2>3. CASE roots[r].ingested = Cardinality(Sources) /\ Continue(t, "readonly")
      <3>1. \A p : p.at = "readonly" => Built(p, roots'[r])
        BY <1>3, <2>1, <2>3 DEF Built
      <3>2. Tame(roots[r], roots'[r])
        BY <2>1, Untouched
      <3>3. "readonly" \in Building
        BY DEF Building
      <3>4. ProcsSound'
        BY <1>1, <2>1, <2>3, <3>1, <3>2, <3>3, BuilderContinues
      <3> QED BY <1>4, <2>1, <3>4 DEF RootsSound
    <2> QED BY <2>1, <2>2, <2>3
  <1> QED BY <1>5, <1>6

LEMMA MakeReadOnlySound ==
  ASSUME EvidenceInv, NEW t \in Terminals, MakeReadOnly(t)
  PROVE  EvidenceInv'
  <1> USE DEF EvidenceInv
  <1> DEFINE r == Root(t)
  <1>1. /\ proc[t].at = "readonly" /\ proc[t].at \in Building /\ UNCHANGED holdout
        /\ SetRoot(r, "store", "readonly") /\ Continue(t, "reopen")
    BY DEF MakeReadOnly, Running, Building
  <1>2. /\ r \in RunRoots /\ RootSound(roots[r]) /\ Built(proc[t], roots[r])
        /\ roots' = [q \in RunRoots |-> roots'[q]]
        /\ \A q \in RunRoots \ {r} : roots'[q] = roots[q]
        /\ IsRecord(roots'[r]) /\ DOMAIN roots'[r] = DOMAIN roots[r]
        /\ "store" \in DOMAIN roots[r] => roots'[r].store = "readonly"
        /\ \A x \in DOMAIN roots[r] : x # "store" => roots'[r][x] = roots[r][x]
    BY <1>1, FieldBuilt
  <1>3. HoldoutSound' /\ PublishedSound' /\ VerifiedSound'
    BY ArtifactsKept DEF MakeReadOnly
  <1>4. /\ roots[r].store = "open" /\ roots[r].setup = Absent
        /\ roots[r].ingested = Cardinality(Sources)
    BY <1>1, <1>2 DEF Built
  <1>5. /\ roots'[r].store = "readonly" /\ roots'[r].setup = Absent
        /\ roots'[r].ingested = Cardinality(Sources)
    BY <1>2, <1>4 DEF RootSound
  <1>6. RootSound(roots'[r])
    BY <1>2, <1>5 DEF RootSound, Absent
  <1>7. RootsSound'
    BY <1>2, <1>6, RootsSoundAt
  <1>8. Tame(roots[r], roots'[r])
    BY <1>4 DEF Tame
  <1>9. \A p : p.at = "reopen" => Built(p, roots'[r])
    BY <1>5 DEF Built
  <1>10. "reopen" \in Building
    BY DEF Building
  <1>11. ProcsSound'
    BY <1>1, <1>2, <1>8, <1>9, <1>10, BuilderContinues
  <1> QED BY <1>3, <1>7, <1>11

LEMMA ReopenSound ==
  ASSUME EvidenceInv, NEW t \in Terminals, Reopen(t)
  PROVE  EvidenceInv'
  <1> USE DEF EvidenceInv
  <1> DEFINE r == Root(t)
  <1>1. /\ proc[t].at = "reopen" /\ proc[t].at \in Building
        /\ UNCHANGED <<roots, holdout, published, verified>>
        /\ Continue(t, "seal") \/ Finish(t)
    BY DEF Reopen, Running, Building
  <1>2. Built(proc[t], roots[r])
    BY <1>1, BuilderAlone
  <1>3. CASE Continue(t, "seal")
    <2>1. \A p : p.at = "seal" => Built(p, roots'[r])
      BY <1>1, <1>2 DEF Built
    <2>2. Tame(roots[r], roots'[r]) /\ "seal" \in Building
      BY <1>1, Untouched DEF Building
    <2>3. ProcsSound'
      BY <1>1, <1>3, <2>1, <2>2, BuilderContinues
    <2> QED BY <1>1, <2>3, ArtifactsKept DEF RootsSound
  <1> QED BY <1>1, <1>3, QuitSound

LEMMA SealSound ==
  ASSUME EvidenceInv, NEW t \in Terminals, Seal(t)
  PROVE  EvidenceInv'
  <1> USE DEF EvidenceInv
  <1> DEFINE r == Root(t)
  <1>1. /\ proc[t].at = "seal" /\ proc[t].at \in Building
        /\ UNCHANGED <<holdout, published, verified>>
    BY DEF Seal, Running, Building
  <1>2. CASE roots[r].store # "readonly"
    BY <1>1, <1>2, QuitSound DEF Seal
  <1>3. CASE roots[r].store = "readonly"
    <2> DEFINE p == [at |-> "probe", root |-> r, content |-> roots[r].ingested]
    <2>1. SetRoot(r, "store", "sealed") /\ proc' = [proc EXCEPT ![t] = p]
      BY <1>3 DEF Seal
    <2>2. /\ IsRecord(p) /\ {"at", "root", "content"} \subseteq DOMAIN p
          /\ p.at = "probe" /\ p.root = r /\ p.content = roots[r].ingested
      BY DEF IsRecord
    <2> HIDE DEF p
    <2>3. /\ r \in RunRoots /\ RootSound(roots[r]) /\ Built(proc[t], roots[r])
          /\ roots' = [q \in RunRoots |-> roots'[q]]
          /\ \A q \in RunRoots \ {r} : roots'[q] = roots[q]
          /\ IsRecord(roots'[r]) /\ DOMAIN roots'[r] = DOMAIN roots[r]
          /\ "store" \in DOMAIN roots[r] => roots'[r].store = "sealed"
          /\ \A x \in DOMAIN roots[r] : x # "store" => roots'[r][x] = roots[r][x]
      BY <1>1, <2>1, FieldBuilt
    <2>4. roots[r].setup = Absent /\ roots[r].ingested = Cardinality(Sources)
      BY <1>1, <2>3 DEF Built
    <2>5. /\ roots'[r].store = "sealed" /\ roots'[r].setup = Absent
          /\ roots'[r].ingested = Cardinality(Sources)
          /\ roots'[r].ingested = roots[r].ingested
      BY <2>3, <2>4 DEF RootSound
    <2>6. RootSound(roots'[r])
      BY <2>3, <2>5 DEF RootSound, Absent
    <2>7. RootsSound'
      BY <2>3, <2>6, RootsSoundAt
    <2>8. Tame(roots[r], roots'[r])
      BY <1>3 DEF Tame
    <2>9. Built(p, roots'[r])
      BY <2>2, <2>5 DEF Built
    <2>10. Sound(p, roots', holdout')
      BY <2>2, <2>3, <2>9 DEF Sound, Building, Evaluating, Revealing
    <2>11. ProcsSound'
      BY <1>1, <2>1, <2>2, <2>3, <2>8, <2>10, BuilderMoves
    <2> QED BY <1>1, <2>7, <2>11, ArtifactsKept
  <1> QED BY <1>2, <1>3

LEMMA ProbeSound ==
  ASSUME EvidenceInv, NEW t \in Terminals, Probe(t)
  PROVE  EvidenceInv'
  <1> USE DEF EvidenceInv
  <1> DEFINE r == Root(t)
  <1>1. /\ proc[t].at = "probe" /\ proc[t].at \in Building
        /\ UNCHANGED <<roots, holdout, published, verified>>
        /\ Continue(t, "create setup") \/ Finish(t)
    BY DEF Probe, Running, Building
  <1>2. Built(proc[t], roots[r]) /\ "content" \in DOMAIN proc[t]
    BY <1>1, BuilderAlone DEF ProcsSound, Sound
  <1>3. CASE Continue(t, "create setup")
    <2>1. \A p : /\ p.at = "create setup"
                 /\ \A x \in DOMAIN proc[t] : x # "at" => p[x] = proc[t][x]
                 => Built(p, roots'[r])
      BY <1>1, <1>2 DEF Built
    <2>2. Tame(roots[r], roots'[r]) /\ "create setup" \in Building
      BY <1>1, Untouched DEF Building
    <2>3. ProcsSound'
      BY <1>1, <1>2, <1>3, <2>1, <2>2, BuilderContinues
    <2> QED BY <1>1, <2>3, ArtifactsKept DEF RootsSound
  <1> QED BY <1>1, <1>3, QuitSound

LEMMA CreateSetupSound ==
  ASSUME EvidenceInv, NEW t \in Terminals, CreateSetup(t)
  PROVE  EvidenceInv'
  <1>0. proc[t].at \in Building
    BY DEF CreateSetup, Running, Building
  <1> USE DEF EvidenceInv
  <1> DEFINE r == Root(t)
  <1>1. /\ proc[t].at = "create setup" /\ proc[t].at \in Building
        /\ UNCHANGED <<holdout, published, verified>>
    BY DEF CreateSetup, Running, Building
  <1>2. CASE roots[r].setup # Absent
    BY <1>1, <1>2, QuitSound DEF CreateSetup
  <1>3. CASE roots[r].setup = Absent
    <2>1. SetRoot(r, "setup", Torn) /\ Continue(t, "write setup")
      BY <1>3 DEF CreateSetup
    <2>2. /\ r \in RunRoots /\ RootSound(roots[r]) /\ Built(proc[t], roots[r])
          /\ roots' = [q \in RunRoots |-> roots'[q]]
          /\ \A q \in RunRoots \ {r} : roots'[q] = roots[q]
          /\ IsRecord(roots'[r]) /\ DOMAIN roots'[r] = DOMAIN roots[r]
          /\ "setup" \in DOMAIN roots[r] => roots'[r].setup = Torn
          /\ \A x \in DOMAIN roots[r] : x # "setup" => roots'[r][x] = roots[r][x]
      <3>1. PICK field, value : field = "setup" /\ value = Torn /\ SetRoot(Root(t), field, value)
        BY <2>1
      <3> QED BY ONLY EvidenceInv, t \in Terminals, <1>0, <3>1, FieldBuilt
    <2>3. /\ roots[r].store = "sealed" /\ roots[r].ingested = Cardinality(Sources)
          /\ proc[t].content = roots[r].ingested /\ "content" \in DOMAIN proc[t]
      BY <1>1, <2>2 DEF Built, ProcsSound, Sound
    <2>4. /\ roots'[r].store = "sealed" /\ roots'[r].setup = Torn
          /\ roots'[r].ingested = roots[r].ingested
          /\ roots'[r].touched = roots[r].touched /\ roots'[r].wheel = roots[r].wheel
      BY <2>2, <2>3 DEF RootSound
    <2>5. RootSound(roots'[r])
      BY <2>2, <2>4 DEF RootSound, Torn
    <2>6. RootsSound'
      BY <2>2, <2>5, RootsSoundAt
    <2>7. Tame(roots[r], roots'[r])
      BY <2>4 DEF Tame
    <2>8. \A p : /\ p.at = "write setup"
                 /\ \A x \in DOMAIN proc[t] : x # "at" => p[x] = proc[t][x]
                 => Built(p, roots'[r])
      BY <2>3, <2>4 DEF Built
    <2>9. "write setup" \in Building
      BY DEF Building
    <2>10. ProcsSound'
      BY <1>1, <2>1, <2>2, <2>3, <2>7, <2>8, <2>9, BuilderContinues
    <2> QED BY <1>1, <2>6, <2>10, ArtifactsKept
  <1> QED BY <1>2, <1>3

\* The receipt is written by the one builder, and says what it sealed.
LEMMA WriteSetupSound ==
  ASSUME EvidenceInv, NEW t \in Terminals, WriteSetup(t)
  PROVE  EvidenceInv'
  <1>0. proc[t].at \in Building
    BY DEF WriteSetup, Running, Building
  <1> USE DEF EvidenceInv
  <1> DEFINE r == Root(t)
  <1>1. /\ proc[t].at = "write setup" /\ proc[t].at \in Building
        /\ UNCHANGED <<holdout, published, verified>> /\ Finish(t)
    BY DEF WriteSetup, Running, Building
  <1>2. PICK file : /\ SetRoot(r, "setup", file)
                    /\ file = Absent \/ file = Whole([content |-> proc[t].content])
    BY DEF WriteSetup
  <1>3. /\ r \in RunRoots /\ RootSound(roots[r]) /\ Built(proc[t], roots[r])
        /\ roots' = [q \in RunRoots |-> roots'[q]]
        /\ \A q \in RunRoots \ {r} : roots'[q] = roots[q]
        /\ IsRecord(roots'[r]) /\ DOMAIN roots'[r] = DOMAIN roots[r]
        /\ "setup" \in DOMAIN roots[r] => roots'[r].setup = file
        /\ \A x \in DOMAIN roots[r] : x # "setup" => roots'[r][x] = roots[r][x]
    BY ONLY EvidenceInv, t \in Terminals, <1>0, <1>2, FieldBuilt
  <1>4. /\ roots[r].store = "sealed" /\ roots[r].ingested = Cardinality(Sources)
        /\ proc[t].content = roots[r].ingested
    BY <1>1, <1>3 DEF Built
  <1>5. /\ roots'[r].store = "sealed" /\ roots'[r].setup = file
        /\ roots'[r].ingested = roots[r].ingested
        /\ roots'[r].touched = roots[r].touched /\ roots'[r].wheel = roots[r].wheel
    BY <1>3, <1>4 DEF RootSound
  <1>6. file.is = "whole" => file.body.content = roots[r].ingested
    BY <1>2, <1>4 DEF Absent, Whole
  <1>7. RootSound(roots'[r])
    BY <1>3, <1>4, <1>5, <1>6 DEF RootSound
  <1>8. RootsSound'
    BY <1>3, <1>7, RootsSoundAt
  <1>9. Tame(roots[r], roots'[r])
    BY <1>5 DEF Tame
  <1>10. Idle.at \notin Building
    BY DEF Idle, Building
  <1>11. proc' = [proc EXCEPT ![t] = Idle]
    BY <1>1 DEF Finish
  <1>12. ProcsSound'
    BY <1>1, <1>3, <1>9, <1>10, <1>11, IdleSound, BuilderMoves
  <1> QED BY <1>1, <1>8, <1>12, ArtifactsKept


\* A process at a place that is neither building nor evaluating nor revealing.
Plain(p) == /\ IsRecord(p) /\ "at" \in DOMAIN p
            /\ p.at \notin Building \cup Evaluating \cup Revealing
            /\ p.at \notin {"mkdir", "check frozen"}

LEMMA PlainSound ==
  ASSUME NEW p, Plain(p), NEW all, NEW dataset PROVE Sound(p, all, dataset)
  BY DEF Plain, Sound, Building

LEMMA OutsiderMoves ==
  ASSUME ProcsSound, NEW t \in Terminals, NEW p,
         proc' = [proc EXCEPT ![t] = p], Sound(p, roots', holdout'), p.at \notin Building,
         holdout \in Holdouts => holdout' \in Holdouts,
         \A r \in RunRoots : Tame(roots[r], roots'[r]) /\ SameStore(roots[r], roots'[r])
  PROVE  ProcsSound'
  <1>1. \A u \in Terminals \ {t} : proc[u].at \in Building =>
           SameStore(roots[proc[u].root], roots'[proc[u].root])
    BY DEF ProcsSound, Sound
  <1> QED BY <1>1, ProcMoves

LEMMA PlainMoves ==
  ASSUME ProcsSound, NEW t \in Terminals, NEW p,
         proc' = [proc EXCEPT ![t] = p], Plain(p),
         holdout \in Holdouts => holdout' \in Holdouts,
         \A r \in RunRoots : Tame(roots[r], roots'[r]) /\ SameStore(roots[r], roots'[r])
  PROVE  ProcsSound'
  <1>1. p.at \notin Building
    BY DEF Plain
  <1> QED BY <1>1, PlainSound, OutsiderMoves

LEMMA PlainContinues ==
  ASSUME ProcsSound, NEW t \in Terminals, NEW place, Continue(t, place),
         place \notin Building \cup Evaluating \cup Revealing \cup {"mkdir", "check frozen"},
         holdout \in Holdouts => holdout' \in Holdouts,
         \A r \in RunRoots : Tame(roots[r], roots'[r]) /\ SameStore(roots[r], roots'[r])
  PROVE  ProcsSound'
  <1>1. PICK p : p = proc'[t]
    OBVIOUS
  <1>2. /\ proc' = [proc EXCEPT ![t] = p]
        /\ IsRecord(p) /\ DOMAIN p = DOMAIN proc[t] /\ p.at = place
    BY ONLY ProcsSound, t \in Terminals, Continue(t, place), <1>1, Continued
  <1>3. "at" \in DOMAIN proc[t]
    BY DEF ProcsSound, Sound
  <1>4. Plain(p)
    BY <1>2, <1>3 DEF Plain
  <1> QED BY <1>2, <1>4, PlainMoves

LEMMA PlainFinish ==
  ASSUME ProcsSound, NEW t \in Terminals, Finish(t),
         holdout \in Holdouts => holdout' \in Holdouts,
         \A r \in RunRoots : Tame(roots[r], roots'[r]) /\ SameStore(roots[r], roots'[r])
  PROVE  ProcsSound'
  <1>1. Plain(Idle)
    BY DEF Plain, Idle, IsRecord, Building, Evaluating, Revealing
  <1> QED BY <1>1, PlainMoves DEF Finish

\* The pre-registration is not what a store is built of.
LEMMA PreregSet ==
  ASSUME RootsSound, NEW r, NEW file, SetRoot(r, "prereg", file)
  PROVE  /\ RootsSound'
         /\ \A q \in RunRoots : Tame(roots[q], roots'[q]) /\ SameStore(roots[q], roots'[q])
  <1>1. CASE r \in RunRoots
    <2>1. /\ roots' = [q \in RunRoots |-> roots'[q]]
          /\ \A q \in RunRoots \ {r} : roots'[q] = roots[q]
          /\ IsRecord(roots'[r]) /\ DOMAIN roots'[r] = DOMAIN roots[r]
          /\ \A x \in DOMAIN roots[r] : x # "prereg" => roots'[r][x] = roots[r][x]
      BY <1>1, FieldSet
    <2>2. RootSound(roots[r])
      BY <1>1 DEF RootsSound
    <2>3. /\ roots'[r].store = roots[r].store /\ roots'[r].ingested = roots[r].ingested
          /\ roots'[r].setup = roots[r].setup
          /\ roots'[r].touched = roots[r].touched /\ roots'[r].wheel = roots[r].wheel
      BY <2>1, <2>2 DEF RootSound
    <2>4. RootSound(roots'[r])
      BY <2>1, <2>2, <2>3 DEF RootSound
    <2>5. RootsSound'
      BY <1>1, <2>1, <2>4, RootsSoundAt
    <2> QED BY <2>1, <2>3, <2>5 DEF Tame, SameStore
  <1>2. CASE r \notin RunRoots
    <2>1. UNCHANGED roots
      BY <1>2 DEF RootsSound, SetRoot
    <2> QED BY <2>1, Untouched DEF RootsSound
  <1> QED BY <1>1, <1>2

LEMMA FreezeSound ==
  ASSUME EvidenceInv, NEW t \in Terminals,
         \/ HashPaths(t) \/ Scan(t)
         \/ CreatePreregistration(t) \/ WritePreregistration(t)
  PROVE  EvidenceInv'
  <1> USE DEF EvidenceInv
  <1>0. HoldoutSound' /\ PublishedSound' /\ VerifiedSound' /\ UNCHANGED holdout
    BY ArtifactsKept DEF HashPaths, Scan, CreatePreregistration, WritePreregistration
  <1>1. /\ RootsSound'
        /\ \A r \in RunRoots : Tame(roots[r], roots'[r]) /\ SameStore(roots[r], roots'[r])
    <2>1. CASE UNCHANGED roots
      BY <2>1, Untouched DEF RootsSound
    <2>2. CASE \E file : SetRoot(Root(t), "prereg", file)
      BY <2>2, PreregSet
    <2> QED BY <2>1, <2>2 DEF HashPaths, Scan, CreatePreregistration, WritePreregistration
  <1>2. CASE HashPaths(t)
    <2>1. PICK body : proc' = [proc EXCEPT ![t] =
                                 [at |-> "scan", root |-> Root(t), body |-> body]]
      BY <1>2 DEF HashPaths
    <2>2. Plain([at |-> "scan", root |-> Root(t), body |-> body])
      BY DEF Plain, IsRecord, Building, Evaluating, Revealing
    <2>3. ProcsSound'
      BY <1>0, <1>1, <2>1, <2>2, PlainMoves
    <2> QED BY <1>0, <1>1, <2>3
  <1>3. CASE Finish(t)
    BY <1>0, <1>1, <1>3, PlainFinish
  <1>4. CASE \E place \in {"create prereg", "write prereg"} : Continue(t, place)
    <2>1. PICK place \in {"create prereg", "write prereg"} : Continue(t, place)
      BY <1>4
    <2>2. place \notin Building \cup Evaluating \cup Revealing \cup {"mkdir", "check frozen"}
      BY DEF Building, Evaluating, Revealing
    <2>3. ProcsSound'
      BY <1>0, <1>1, <2>1, <2>2, PlainContinues
    <2> QED BY <1>0, <1>1, <2>3
  <1> QED BY <1>2, <1>3, <1>4 DEF Scan, CreatePreregistration, WritePreregistration

\* One dataset was revealed, and it stays the one.
LEMMA RevealSound ==
  ASSUME EvidenceInv, NEW t \in Terminals,
         ReadCustody(t) \/ CheckAgain(t) \/ WriteTemporary(t) \/ Link(t) \/ Unlink(t)
  PROVE  EvidenceInv'
  <1> USE DEF EvidenceInv
  <1>1. UNCHANGED <<roots, verified>>
    BY DEF ReadCustody, CheckAgain, WriteTemporary, Link, Unlink
  <1>2. /\ RootsSound'
        /\ \A r \in RunRoots : Tame(roots[r], roots'[r]) /\ SameStore(roots[r], roots'[r])
    BY <1>1, Untouched DEF RootsSound
  <1>3. /\ HoldoutSound'
        /\ holdout \in Holdouts => holdout' = holdout
    BY DatasetAssumption DEF HoldoutSound, ReadCustody, CheckAgain, WriteTemporary, Link, Unlink
  <1>4. VerifiedSound'
    BY <1>1, <1>3 DEF VerifiedSound
  <1>5. PublishedSound'
    <2>1. CASE Link(t)
      <3>1. holdout \in Holdouts /\ UNCHANGED holdout
        BY <2>1 DEF Link, Running, ProcsSound, Sound, Revealing
      <3>2. published' = [published EXCEPT !["dataset"] = TRUE]
        BY <2>1 DEF Link
      <3>3. /\ IsRecord(published') /\ DOMAIN published' = DOMAIN published
            /\ published'["capture"] = published["capture"]
        BY <3>2, RecordExcept DEF PublishedSound
      <3> QED BY <3>1, <3>3 DEF PublishedSound
    <2>2. CASE ~Link(t)
      <3>1. UNCHANGED published
        BY <2>2 DEF ReadCustody, CheckAgain, WriteTemporary, Unlink
      <3> QED BY <1>3, <3>1 DEF PublishedSound
    <2> QED BY <2>1, <2>2
  <1>6. CASE Finish(t)
    BY <1>2, <1>3, <1>4, <1>5, <1>6, PlainFinish
  <1>7. CASE ~Finish(t)
    <2>1. /\ holdout' \in Holdouts
          /\ \E place \in Revealing : Continue(t, place)
      <3>1. CASE ReadCustody(t)
        BY <1>3, <1>7, <3>1 DEF ReadCustody, HoldoutSound, Revealing
      <3>2. CASE ~ReadCustody(t)
        BY <1>7, <3>2 DEF CheckAgain, WriteTemporary, Link, Unlink, Running, ProcsSound,
                          Sound, Revealing
      <3> QED BY <3>1, <3>2
    <2>2. PICK place \in Revealing : Continue(t, place)
      BY <2>1
    <2>3. PICK p : p = proc'[t]
      OBVIOUS
    <2>4. /\ proc' = [proc EXCEPT ![t] = p]
          /\ IsRecord(p) /\ DOMAIN p = DOMAIN proc[t] /\ p.at = place
      BY ONLY EvidenceInv, t \in Terminals, <2>2, <2>3, Continued
    <2>5. "at" \in DOMAIN proc[t]
      BY DEF ProcsSound, Sound
    <2>6. Sound(p, roots', holdout') /\ p.at \notin Building
      BY <2>1, <2>4, <2>5 DEF Sound, Revealing, Building, Evaluating
    <2>7. ProcsSound'
      BY <1>2, <1>3, <2>4, <2>6, OutsiderMoves
    <2> QED BY <1>2, <1>3, <1>4, <1>5, <2>7
  <1> QED BY <1>6, <1>7


\* What an evaluation starts from is frozen, so it is faithful unless the
\* root shows why not.
LEMMA CheckFrozenSound ==
  ASSUME EvidenceInv, NEW t \in Terminals, CheckFrozen(t)
  PROVE  EvidenceInv'
  <1> USE DEF EvidenceInv
  <1> DEFINE p == [at |-> "capture", root |-> Root(t), code |-> proc[t].code,
                   case |-> 1, faithful |-> proc[t].code = 0]
  <1>1. /\ UNCHANGED <<roots, holdout, published, verified>>
        /\ proc[t].at = "check frozen" /\ Root(t) \in RunRoots
    BY DEF CheckFrozen, Running, ProcsSound, Sound, Root
  <1>2. CASE Finish(t)
    BY <1>1, <1>2, QuitSound
  <1>3. CASE ~Finish(t)
    <2>1. roots[Root(t)].store = "sealed" /\ proc' = [proc EXCEPT ![t] = p]
      BY <1>3 DEF CheckFrozen, Frozen, Authority, SealHolds
    <2>2. /\ IsRecord(p) /\ {"at", "root", "code", "faithful"} \subseteq DOMAIN p
          /\ p.at = "capture" /\ p.root = Root(t) /\ p.faithful \in BOOLEAN
          /\ p.code = 0 => p.faithful
      BY DEF IsRecord
    <2> HIDE DEF p
    <2>3. Watched(p, roots'[Root(t)])
      BY <1>1, <2>1, <2>2 DEF Watched
    <2>4. Sound(p, roots', holdout') /\ p.at \notin Building
      BY <1>1, <2>2, <2>3 DEF Sound, Building, Evaluating, Revealing
    <2>5. ProcsSound'
      BY <1>1, <2>1, <2>4, Untouched, OutsiderMoves
    <2> QED BY <1>1, <2>5, ArtifactsKept DEF RootsSound
  <1> QED BY <1>2, <1>3

\* Each case is captured from the store as it is; what happened to it stays
\* to be seen.
LEMMA CaptureSound ==
  ASSUME EvidenceInv, NEW t \in Terminals, Capture(t)
  PROVE  EvidenceInv'
  <1> USE DEF EvidenceInv
  <1> DEFINE r == Root(t)
             truth == proc[t].faithful /\ ~roots[r].touched /\ RuntimeHolds(r)
             place == IF proc[t].case = 4 THEN "check after" ELSE "capture"
             a == [proc[t] EXCEPT !["faithful"] = truth]
             b == [a EXCEPT !["case"] = a.case + 1]
             c == [b EXCEPT !["at"] = place]
  <1>1. /\ UNCHANGED <<roots, holdout, published, verified>>
        /\ proc[t].at = "capture"
    BY DEF Capture, Running
  <1>2. /\ IsRecord(proc[t]) /\ {"at", "root", "code", "faithful"} \subseteq DOMAIN proc[t]
        /\ proc[t].root = r /\ r \in RunRoots /\ Watched(proc[t], roots[r])
    BY <1>1 DEF ProcsSound, Sound, Root, Evaluating
  <1>3. proc' = [proc EXCEPT ![t] = c]
    BY ZenonT(40) DEF Capture, ProcsSound
  <1>4. truth \in BOOLEAN
    OBVIOUS
  <1>5. roots[r].store = "sealed"
        /\ (proc[t].code = 0 /\ ~truth => roots[r].touched \/ roots[r].wheel # "installed")
    BY <1>1, <1>2 DEF Watched, RuntimeHolds
  <1>6. place \in {"capture", "check after"}
    OBVIOUS
  <1> HIDE DEF truth, place
  <1>7. /\ IsRecord(a) /\ DOMAIN a = DOMAIN proc[t] /\ a.faithful = truth
        /\ a.root = r /\ a.code = proc[t].code
    BY <1>2, RecordExcept
  <1> HIDE DEF a
  <1>8. /\ IsRecord(b) /\ DOMAIN b = DOMAIN proc[t] /\ b.faithful = truth
        /\ b.root = r /\ b.code = proc[t].code
    BY <1>2, <1>7, RecordExcept
  <1> HIDE DEF b
  <1>9. /\ IsRecord(c) /\ DOMAIN c = DOMAIN proc[t] /\ c.faithful = truth
        /\ c.root = r /\ c.code = proc[t].code /\ c.at = place
    BY <1>2, <1>8, RecordExcept
  <1> HIDE DEF c
  <1>10. Watched(c, roots'[r])
    BY <1>1, <1>5, <1>6, <1>9 DEF Watched
  <1>11. Sound(c, roots', holdout') /\ c.at \notin Building
    BY <1>1, <1>2, <1>4, <1>6, <1>9, <1>10 DEF Sound, Building, Evaluating, Revealing
  <1>12. ProcsSound'
    BY <1>1, <1>3, <1>11, Untouched, OutsiderMoves
  <1> QED BY <1>1, <1>12, ArtifactsKept DEF RootsSound

\* An evaluation that is faithful, or not the frozen code's, goes on.
LEMMA EvaluationContinues ==
  ASSUME ProcsSound, NEW t \in Terminals, proc[t].at \in Evaluating,
         NEW place, Continue(t, place), place \in {"create capture", "write capture"},
         UNCHANGED <<roots, holdout>>,
         proc[t].code = 0 => proc[t].faithful
  PROVE  ProcsSound'
  <1>1. PICK p : p = proc'[t]
    OBVIOUS
  <1>2. /\ proc' = [proc EXCEPT ![t] = p]
        /\ IsRecord(p) /\ DOMAIN p = DOMAIN proc[t] /\ p.at = place
        /\ \A x \in DOMAIN proc[t] : x # "at" => p[x] = proc[t][x]
    BY ONLY ProcsSound, t \in Terminals, Continue(t, place), <1>1, Continued
  <1>3. /\ {"at", "root", "code", "faithful"} \subseteq DOMAIN proc[t]
        /\ proc[t].root \in RunRoots /\ proc[t].faithful \in BOOLEAN
    BY DEF ProcsSound, Sound
  <1>4. p.root = proc[t].root /\ p.code = proc[t].code /\ p.faithful = proc[t].faithful
    BY <1>2, <1>3
  <1>5. Watched(p, roots'[p.root])
    BY <1>2, <1>4 DEF Watched
  <1>6. Sound(p, roots', holdout') /\ p.at \notin Building
    BY <1>2, <1>3, <1>4, <1>5 DEF Sound, Building, Evaluating, Revealing
  <1> QED BY <1>2, <1>6, Untouched, OutsiderMoves

\* The check after the capture sees it.
LEMMA CheckAfterSound ==
  ASSUME EvidenceInv, NEW t \in Terminals, CheckAfter(t)
  PROVE  EvidenceInv'
  <1> USE DEF EvidenceInv
  <1> DEFINE r == Root(t)
  <1>1. /\ UNCHANGED <<roots, holdout, published, verified>>
        /\ proc[t].at = "check after"
    BY DEF CheckAfter, Running
  <1>2. CASE Finish(t)
    BY <1>1, <1>2, QuitSound
  <1>3. CASE Unchanged(r) /\ Continue(t, "create capture")
    <2>1. ~roots[r].touched /\ roots[r].wheel = "installed"
      BY <1>3 DEF Unchanged, Frozen, Authority, SealHolds, RuntimeHolds
    <2>2. proc[t].code = 0 => proc[t].faithful
      BY <1>1, <2>1 DEF ProcsSound, Sound, Watched, Root, Evaluating
    <2>3. Continue(t, "create capture") /\ proc[t].at \in Evaluating
      BY <1>1, <1>3 DEF Evaluating
    <2>4. ProcsSound'
      BY <1>1, <2>2, <2>3, EvaluationContinues
    <2> QED BY <1>1, <2>4, ArtifactsKept DEF RootsSound
  <1> QED BY <1>2, <1>3 DEF CheckAfter

LEMMA CaptureFile ==
  ASSUME PublishedSound, NEW file, published' = [published EXCEPT !["capture"] = file],
         UNCHANGED holdout,
         file.is = "whole" => /\ file.body.faithful \in BOOLEAN
                              /\ file.body.by = 0 => file.body.faithful
  PROVE  PublishedSound'
  <1>1. /\ IsRecord(published') /\ DOMAIN published' = DOMAIN published
        /\ published'["capture"] = file /\ published'["dataset"] = published["dataset"]
    BY RecordExcept DEF PublishedSound
  <1> QED BY <1>1 DEF PublishedSound

LEMMA ReceiptFile ==
  ASSUME PublishedSound, NEW file, published' = [published EXCEPT !["receipt"] = file],
         UNCHANGED holdout
  PROVE  PublishedSound'
  <1>1. /\ IsRecord(published') /\ DOMAIN published' = DOMAIN published
        /\ published'["capture"] = published["capture"]
        /\ published'["dataset"] = published["dataset"]
    BY RecordExcept DEF PublishedSound
  <1> QED BY <1>1 DEF PublishedSound

LEMMA CreateCaptureSound ==
  ASSUME EvidenceInv, NEW t \in Terminals, CreateCapture(t)
  PROVE  EvidenceInv'
  <1> USE DEF EvidenceInv
  <1>1. UNCHANGED <<roots, holdout, verified>> /\ proc[t].at = "create capture"
    BY DEF CreateCapture, Running
  <1>2. RootsSound' /\ HoldoutSound' /\ VerifiedSound'
    BY <1>1 DEF RootsSound, HoldoutSound, VerifiedSound
  <1>3. CASE Finish(t) /\ UNCHANGED published
    BY <1>1, <1>3, QuitSound
  <1>4. CASE published' = [published EXCEPT !.capture = Torn] /\ Continue(t, "write capture")
    <2>1. PublishedSound'
      <3>1. Torn.is # "whole"
        BY DEF Torn
      <3>2. published' = [published EXCEPT !["capture"] = Torn]
        BY <1>4
      <3> QED BY <1>1, <3>1, <3>2, CaptureFile
    <2>2. proc[t].code = 0 => proc[t].faithful
      BY <1>1 DEF ProcsSound, Sound, Watched, Evaluating
    <2>3. Continue(t, "write capture") /\ proc[t].at \in Evaluating
      BY <1>1, <1>4 DEF Evaluating
    <2>4. ProcsSound'
      BY <1>1, <2>2, <2>3, EvaluationContinues
    <2> QED BY <1>2, <2>1, <2>4
  <1> QED BY <1>3, <1>4 DEF CreateCapture

LEMMA WriteCaptureSound ==
  ASSUME EvidenceInv, NEW t \in Terminals, WriteCapture(t)
  PROVE  EvidenceInv'
  <1> USE DEF EvidenceInv
  <1>1. UNCHANGED <<roots, holdout, verified>> /\ proc[t].at = "write capture"
    BY DEF WriteCapture, Running
  <1>2. RootsSound' /\ HoldoutSound' /\ VerifiedSound'
    BY <1>1 DEF RootsSound, HoldoutSound, VerifiedSound
  <1>3. PublishedSound'
    <2> DEFINE body == [root |-> Root(t), content |-> roots[Root(t)].prereg.body.content,
                        by |-> proc[t].code, faithful |-> proc[t].faithful]
    <2>1. published' = [published EXCEPT !["capture"] = Whole(body)]
      BY DEF WriteCapture
    <2>2. proc[t].faithful \in BOOLEAN /\ (proc[t].code = 0 => proc[t].faithful)
      BY <1>1 DEF ProcsSound, Sound, Watched, Evaluating
    <2>3. body.by = proc[t].code /\ body.faithful = proc[t].faithful
      OBVIOUS
    <2> HIDE DEF body
    <2>4. Whole(body).body = body
      BY DEF Whole
    <2> QED BY <1>1, <2>1, <2>2, <2>3, <2>4, CaptureFile
  <1>4. ProcsSound'
    <2> DEFINE p == [at |-> "worker", root |-> Root(t), verdicts |-> <<>>]
    <2>1. proc' = [proc EXCEPT ![t] = p]
      BY DEF WriteCapture
    <2>2. Plain(p)
      BY DEF Plain, IsRecord, Building, Evaluating, Revealing
    <2> HIDE DEF p
    <2> QED BY <1>1, <2>1, <2>2, Untouched, PlainMoves
  <1> QED BY <1>2, <1>3, <1>4

LEMMA ReceiptSound ==
  ASSUME EvidenceInv, NEW t \in Terminals,
         Worker(t) \/ CreateReceipt(t) \/ WriteReceipt(t)
  PROVE  EvidenceInv'
  <1> USE DEF EvidenceInv
  <1>1. UNCHANGED <<roots, holdout, verified>>
    BY DEF Worker, CreateReceipt, WriteReceipt
  <1>2. RootsSound' /\ HoldoutSound' /\ VerifiedSound'
    BY <1>1 DEF RootsSound, HoldoutSound, VerifiedSound
  <1>3. PublishedSound'
    <2>1. UNCHANGED published \/ \E file : published' = [published EXCEPT !["receipt"] = file]
      BY DEF Worker, CreateReceipt, WriteReceipt
    <2>2. CASE UNCHANGED published
      BY <1>1, <2>2 DEF PublishedSound
    <2> QED BY <1>1, <2>1, <2>2, ReceiptFile
  <1>4. CASE Finish(t)
    BY <1>1, <1>2, <1>3, <1>4, Untouched, PlainFinish
  <1>5. CASE Worker(t) /\ ~Finish(t)
    <2> DEFINE verdicts == Append(proc[t].verdicts,
                                  Verdict(checkout.tree, published.capture.body))
               more == [proc[t] EXCEPT !["verdicts"] = verdicts]
               done == [at |-> "create receipt", root |-> Root(t), verdict |-> verdicts[1]]
    <2>1. proc' = [proc EXCEPT ![t] = more] \/ proc' = [proc EXCEPT ![t] = done]
      BY <1>5 DEF Worker
    <2> HIDE DEF verdicts
    <2>2. IsRecord(proc[t]) /\ "at" \in DOMAIN proc[t] /\ proc[t].at = "worker"
      BY <1>5 DEF ProcsSound, Sound, Worker, Running
    <2>3. IsRecord(more) /\ "at" \in DOMAIN more /\ more.at = "worker"
      BY <2>2, RecordExcept
    <2> HIDE DEF more
    <2>4. Plain(more)
      BY <2>3 DEF Plain, Building, Evaluating, Revealing
    <2>5. Plain(done)
      BY DEF Plain, IsRecord, Building, Evaluating, Revealing
    <2> HIDE DEF done
    <2>6. ProcsSound'
      BY <1>1, <2>1, <2>4, <2>5, Untouched, PlainMoves
    <2> QED BY <1>2, <1>3, <2>6
  <1>6. CASE CreateReceipt(t) /\ ~Finish(t)
    <2>1. "write receipt" \notin Building \cup Evaluating \cup Revealing
                                   \cup {"mkdir", "check frozen"}
      BY DEF Building, Evaluating, Revealing
    <2>2. Continue(t, "write receipt")
      BY <1>6 DEF CreateReceipt
    <2>3. ProcsSound'
      BY <1>1, <2>1, <2>2, Untouched, PlainContinues
    <2> QED BY <1>2, <1>3, <2>3
  <1> QED BY <1>4, <1>5, <1>6 DEF WriteReceipt


LEMMA StartSound ==
  ASSUME EvidenceInv, NEW t \in Terminals, NEW r \in RunRoots, Start(t, r)
  PROVE  EvidenceInv'
  <1> USE DEF EvidenceInv
  <1>1. UNCHANGED <<roots, holdout, published>>
    BY DEF Start, StartPrepare, StartFreeze, StartReveal, StartEvaluate, Verify
  <1>2. RootsSound' /\ HoldoutSound' /\ PublishedSound'
    BY <1>1 DEF RootsSound, HoldoutSound, PublishedSound
  <1>3. CASE Verify(t, r)
    <2>1. UNCHANGED proc
      BY <1>3 DEF Verify
    <2>2. \A u \in Terminals : proc[u].at \in Building =>
             SameStore(roots[proc[u].root], roots'[proc[u].root])
      BY <1>1, Untouched
    <2>3. ProcsSound'
      BY <1>1, <2>1, <2>2, Untouched, ProcsStay
    <2> DEFINE capture == published.capture.body
    <2>4. /\ published.dataset /\ published.capture.is = "whole"
          /\ Verdict(checkout.tree, capture) = published.receipt.body.verdict
      BY <1>3 DEF Verify, Verifiable, Bound, Recomputed
    <2>5. holdout \in Holdouts /\ (capture.by = 0 => capture.faithful = TRUE)
      BY <2>4 DEF PublishedSound
    <2>6. PICK v, code, by :
             /\ v = published.receipt.body.verdict /\ code = checkout.tree /\ by = capture.by
             /\ verified' = [verdict |-> v, code |-> code, by |-> by]
      BY <1>3 DEF Verify
    <2>7. code = 0 /\ by = 0 => v = Suite(holdout, TRUE)
      BY <2>4, <2>5, <2>6 DEF Verdict
    <2>8. (Suite(holdout, TRUE) = "incremental_value_confirmed") <=> AddsValue(holdout)
      BY <2>5, DatasetAssumption, SuiteExact DEF CaseOK
    <2>9. VerifiedSound'
      BY <1>1, <2>5, <2>6, <2>7, <2>8 DEF VerifiedSound
    <2> QED BY <1>2, <2>3, <2>9
  <1>4. CASE ~Verify(t, r)
    <2>1. VerifiedSound'
      BY <1>1, <1>4
      DEF VerifiedSound, Start, StartPrepare, StartFreeze, StartReveal, StartEvaluate
    <2>2. PICK p : /\ proc' = [proc EXCEPT ![t] = p]
                   /\ \/ p = [at |-> "mkdir", root |-> r, done |-> 0]
                      \/ p = [at |-> "hash", root |-> r, head |-> checkout.head]
                      \/ p = [at |-> "custody", root |-> r]
                      \/ p = [at |-> "check frozen", root |-> r, code |-> checkout.tree]
      BY <1>4 DEF Start, StartPrepare, StartFreeze, StartReveal, StartEvaluate, Begin
    <2>3. /\ IsRecord(p) /\ {"at", "root"} \subseteq DOMAIN p /\ p.root = r
          /\ p.at \in {"mkdir", "hash", "custody", "check frozen"}
      <3>1. CASE p = [at |-> "mkdir", root |-> r, done |-> 0]
        BY <3>1 DEF IsRecord
      <3>2. CASE p = [at |-> "hash", root |-> r, head |-> checkout.head]
        BY <3>2 DEF IsRecord
      <3>3. CASE p = [at |-> "custody", root |-> r]
        BY <3>3 DEF IsRecord
      <3>4. CASE p = [at |-> "check frozen", root |-> r, code |-> checkout.tree]
        BY <3>4 DEF IsRecord
      <3> QED BY <2>2, <3>1, <3>2, <3>3, <3>4
    <2>4. Sound(p, roots', holdout') /\ p.at \notin Building
      BY <2>3 DEF Sound, Building, Evaluating, Revealing
    <2>5. ProcsSound'
      BY <1>1, <2>2, <2>4, Untouched, OutsiderMoves
    <2> QED BY <1>2, <2>1, <2>5
  <1> QED BY <1>3, <1>4

\* A sealed store that is touched shows it; a root that is replaced is
\* nobody's.
LEMMA RootReplaced ==
  ASSUME EvidenceInv, NEW r \in RunRoots, Drift(r) \/ Discard(r)
  PROVE  EvidenceInv'
  <1> USE DEF EvidenceInv
  <1>1. HoldoutSound' /\ PublishedSound' /\ VerifiedSound' /\ UNCHANGED <<proc, holdout>>
    BY ArtifactsKept DEF Drift, Discard
  <1>2. RootSound(roots[r])
    BY DEF RootsSound
  <1>3. CASE Drift(r)
    <2>1. PICK field \in {"touched", "wheel"}, value \in {TRUE, "changed"} :
             /\ SetRoot(r, field, value)
             /\ value = IF field = "touched" THEN TRUE ELSE "changed"
      BY <1>3 DEF Drift
    <2>2. /\ roots' = [q \in RunRoots |-> roots'[q]]
          /\ \A q \in RunRoots \ {r} : roots'[q] = roots[q]
          /\ IsRecord(roots'[r]) /\ DOMAIN roots'[r] = DOMAIN roots[r]
          /\ field \in DOMAIN roots[r] => roots'[r][field] = value
          /\ \A x \in DOMAIN roots[r] : x # field => roots'[r][x] = roots[r][x]
      BY ONLY EvidenceInv, r \in RunRoots, <2>1, FieldSet
    <2>3. /\ SameStore(roots[r], roots'[r])
          /\ roots'[r].store = roots[r].store /\ roots'[r].setup = roots[r].setup
          /\ roots'[r].ingested = roots[r].ingested
      BY <1>2, <2>1, <2>2 DEF RootSound, SameStore
    <2>4. Tame(roots[r], roots'[r])
      BY <1>2, <2>1, <2>2, <2>3 DEF RootSound, Tame
    <2>5. RootSound(roots'[r])
      BY <1>2, <2>2, <2>3 DEF RootSound
    <2>6. RootsSound'
      BY <2>2, <2>5, RootsSoundAt
    <2>7. \A q \in RunRoots : Tame(roots[q], roots'[q]) /\ SameStore(roots[q], roots'[q])
      BY <2>2, <2>3, <2>4 DEF Tame, SameStore
    <2>8. \A u \in Terminals : proc[u].at \in Building => proc[u].root \in RunRoots
      BY DEF ProcsSound, Sound
    <2>9. ProcsSound'
      BY <1>1, <2>7, <2>8, ProcsStay
    <2> QED BY <1>1, <2>6, <2>9
  <1>4. CASE Discard(r)
    <2>1. /\ roots' = [q \in RunRoots |-> roots'[q]] /\ roots'[r] = FreshRoot
          /\ \A q \in RunRoots \ {r} : roots'[q] = roots[q]
      BY <1>4 DEF Discard, RootsSound
    <2>2. RootSound(FreshRoot)
      BY DEF RootSound, FreshRoot, Absent, IsRecord
    <2>3. RootsSound'
      BY <2>1, <2>2, RootsSoundAt
    <2>4. \A u \in Terminals :
             proc[u].at \in Building \cup Evaluating => proc[u].root # r
      <3>1. Idle.at \notin Building \cup Evaluating
        BY DEF Idle, Building, Evaluating
      <3> QED BY <1>4, <3>1 DEF Discard, InUse
    <2>5. ASSUME NEW u \in Terminals PROVE Sound(proc[u], roots', holdout')
      <3>1. Sound(proc[u], roots, holdout)
        BY DEF ProcsSound
      <3>2. proc[u].at \in Building \cup Evaluating =>
               roots'[proc[u].root] = roots[proc[u].root]
        BY <2>1, <2>4, <3>1 DEF Sound
      <3> QED BY <1>1, <3>1, <3>2 DEF Sound
    <2>6. ProcsSound'
      BY <1>1, <2>5 DEF ProcsSound, OneBuilder
    <2> QED BY <1>1, <2>3, <2>6
  <1> QED BY <1>3, <1>4

LEMMA EvidenceInit == Init => EvidenceInv
  <1> SUFFICES ASSUME Init PROVE EvidenceInv
    OBVIOUS
  <1>1. RootsSound
    <2>1. RootSound(FreshRoot)
      BY DEF RootSound, FreshRoot, Absent, IsRecord
    <2> QED BY <2>1 DEF Init, RootsSound
  <1>2. ProcsSound
    <2>1. proc = [t \in Terminals |-> Idle] /\ Idle.at \notin Building
      BY DEF Init, Idle, Building
    <2> QED BY <2>1, IdleSound DEF ProcsSound, OneBuilder
  <1>3. PublishedSound
    BY DEF Init, PublishedSound, IsRecord, Absent
  <1> QED BY <1>1, <1>2, <1>3 DEF Init, EvidenceInv, HoldoutSound, VerifiedSound

LEMMA EvidenceNext == EvidenceInv /\ [Next]_vars => EvidenceInv'
  <1> SUFFICES ASSUME EvidenceInv, [Next]_vars PROVE EvidenceInv'
    OBVIOUS
  <1>1. ASSUME NEW t \in Terminals, Step(t) PROVE EvidenceInv'
    BY <1>1, MakeRootSound, AdmitSound, IngestSound, MakeReadOnlySound, ReopenSound,
       SealSound, ProbeSound, CreateSetupSound, WriteSetupSound, FreezeSound, RevealSound,
       CheckFrozenSound, CaptureSound, CheckAfterSound, CreateCaptureSound,
       WriteCaptureSound, ReceiptSound
    DEF Step
  <1>2. ASSUME NEW t \in Terminals, Crash(t) PROVE EvidenceInv'
    BY <1>2, QuitSound DEF Crash
  <1>3. CASE Edit \/ Commit \/ Restore \/ UNCHANGED vars
    <2>1. UNCHANGED <<roots, holdout, published, proc, verified>>
      BY <1>3 DEF Edit, Commit, Restore, vars
    <2> QED BY <2>1 DEF EvidenceInv, RootsSound, ProcsSound, OneBuilder, HoldoutSound,
                        PublishedSound, VerifiedSound
  <1> QED BY <1>1, <1>2, <1>3, StartSound, RootReplaced DEF Next

THEOREM EvidenceInvariant == Spec => []EvidenceInv
  BY EvidenceInit, EvidenceNext, PTL DEF Spec

\* Whatever prepares run beside each other or are killed, a whole setup
\* receipt describes the sealed store beside it, and that store holds each
\* source once.
THEOREM SetupDescribesStoreAlways == Spec => []SetupDescribesStore
  <1>1. EvidenceInv => SetupDescribesStore
    BY DEF EvidenceInv, RootsSound, RootSound, SetupDescribesStore
  <1> QED BY <1>1, EvidenceInvariant, PTL

\* The evaluation agrees with a plain reading of the datasets, and what
\* unedited code verifies on a capture by unedited code is true of the one
\* dataset that was revealed: a drift during the capture is found by the
\* check after it.
THEOREM VerdictSoundAlways == Spec => []VerdictSound
  <1>1. SuiteAgrees
    <2> SUFFICES ASSUME NEW cases \in Samples \cup Holdouts
                 PROVE  (Suite(cases, TRUE) = "incremental_value_confirmed")
                          <=> AddsValue(cases)
      BY DEF SuiteAgrees
    <2>1. \A i \in 1..4 : CaseOK(cases[i])
      BY DatasetAssumption DEF CaseOK
    <2> QED BY <2>1, SuiteExact
  <1>2. EvidenceInv => VerdictSound
    BY <1>1 DEF EvidenceInv, VerifiedSound, VerdictSound
  <1> QED BY <1>2, EvidenceInvariant, PTL
=============================================================================
