------------------------------- MODULE Knowledge -------------------------------
(***************************************************************************)
(* What a Case comes to know: the collaboration thread beside the external *)
(* evidence an advisor promotes, both against the planning of the Case,    *)
(* and a reader that follows the messages or pages through the history of  *)
(* the facts while all of it moves on.                                     *)
(***************************************************************************)
EXTENDS Collaboration

CONSTANTS
    Members,         \* the participants that write
    PageLimit,       \* rows per page of the fact history
    MaxUndecided,    \* bound: messages that are not decided yet
    MaxRuns,         \* bound: planning runs
    MaxResearch      \* bound: research candidates imported

ASSUME MembersAssumption == Members \subseteq Participants
ASSUME LimitAssumption == PageLimit \in Nat \ {0}

VARIABLES
    research,        \* dra_research_candidates: the revision each is for
    findings,        \* external_evidence_verifications, by candidate
    reader           \* what it is about, its snapshot, its cursor and its rows

researchVars == <<research, findings>>
vars == <<caseVars, threadVars, factVars, researchVars, reader>>

Idle == [pc |-> "idle", snapshot |-> 0, after |-> 0, rows |-> << >>]

Init ==
    /\ CaseInit
    /\ CollaborationInit
    /\ research = << >>
    /\ findings = << >>
    /\ reader = Idle

-----------------------------------------------------------------------------
(* import_dra_research_candidate: for the revision the Case is planning.   *)
ImportResearch ==
    /\ Len(research) < MaxResearch
    /\ caseState = "planning"
    /\ research' = Append(research, revision)
    /\ UNCHANGED <<caseVars, threadVars, factVars, findings, reader>>

(* verify_and_promote_dra_candidate: of a candidate for the revision that  *)
(* is being planned, and that has no verdict.                              *)
Verifiable(c) ==
    /\ c \in DOMAIN research \ DOMAIN findings
    /\ research[c] = revision
    /\ caseState = "planning"

RejectResearch(c) ==
    /\ Verifiable(c)
    /\ findings' = Extend(findings, c, [decision |-> "reject", pack |-> NoPack])
    /\ UNCHANGED <<caseVars, threadVars, factVars, research, reader>>

(* A slip: no unique index stands between two approvals of a revision.     *)
PromoteAgain ==
    /\ caseState = "planning"
    /\ packs' = packs + 1
    /\ promoted' = [promoted EXCEPT ![revision] = packs + 1]
    /\ UNCHANGED <<caseState, revision, lineage, runs, current, reviews, briefs,
                   openBriefs, decisions>>

PromotePack == PromoteExternalEvidence

ApproveResearch(c) ==
    /\ Verifiable(c)
    /\ PromotePack
    /\ findings' = Extend(findings, c, [decision |-> "approve", pack |-> packs + 1])
    /\ UNCHANGED <<threadVars, factVars, research, reader>>

-----------------------------------------------------------------------------
(* Ascending(S): the numbers of S in order.                                *)
Ascending(S) == [i \in 1 .. Cardinality(S) |->
                    CHOOSE n \in S : Cardinality({m \in S : m < n}) = i - 1]

(* read_collaboration_messages: the messages after the cursor, in order.   *)
ReadMessages ==
    LET new == {n \in Committed : n > reader.after} IN
    /\ reader.pc \in {"idle", "following"}
    /\ new # {}
    /\ reader' = [reader EXCEPT !.pc = "following", !.after = Highest(new),
                                !.rows = @ \o Ascending(new)]
    /\ UNCHANGED <<caseVars, threadVars, factVars, researchVars>>

(* A slip: the history is whatever is superseded now.                      *)
HistoryNow(snapshot) == {f \in DOMAIN facts : Superseded(f)}

(* The history a snapshot holds: facts superseded by a verdict whose       *)
(* revision is the snapshot's or an earlier one.                           *)
History(snapshot) ==
    {f \in DOMAIN facts : \E g \in DOMAIN facts :
        facts[g].supersedes = f /\ verdicts[facts[g].source].rev <= snapshot}

(* ORDER BY fact_key, fact_version DESC, and the cursor's comparison.      *)
Precedes(f, g) ==
    \/ Rank[facts[f].key] < Rank[facts[g].key]
    \/ facts[f].key = facts[g].key /\ facts[f].version > facts[g].version

(* read_confirmed_facts reads the live revision in one statement ...       *)
OpenPage ==
    /\ reader.pc = "idle"
    /\ reader' = [reader EXCEPT !.pc = "page", !.snapshot = revision]
    /\ UNCHANGED <<caseVars, threadVars, factVars, researchVars>>

(* ... and a page of history in a later one; the cursor of the last row    *)
(* carries the snapshot on to the next call.                               *)
ReadPage ==
    LET rest == {f \in History(reader.snapshot) :
                     reader.after = NoFact \/ Precedes(reader.after, f)}
        page == {f \in rest : Cardinality({g \in rest : Precedes(g, f)}) < PageLimit}
        rows == [i \in 1 .. Cardinality(page) |->
                     CHOOSE f \in page : Cardinality({g \in page : Precedes(g, f)}) = i - 1] IN
    /\ reader.pc = "page"
    /\ reader' = [reader EXCEPT !.pc = IF page = rest THEN "done" ELSE "page",
                                !.after = IF page = rest THEN NoFact ELSE rows[PageLimit],
                                !.rows = @ \o rows]
    /\ UNCHANGED <<caseVars, threadVars, factVars, researchVars>>

ClosePages ==
    /\ reader.pc = "done"
    /\ reader' = Idle
    /\ UNCHANGED <<caseVars, threadVars, factVars, researchVars>>

-----------------------------------------------------------------------------
(* The Case goes on beside: a task is created and its run persisted, and   *)
(* the advisor reviews it.                                                 *)
BeginPlanning ==
    /\ AdmitsTask("synthetic", BaselinePack)
    /\ caseState = "intake"
    /\ StartPlanning

PersistRun ==
    /\ Len(runs) < MaxRuns
    /\ \E op \in Operations, pack \in 1 .. packs, outcome \in {"review_required", "blocked"} :
           /\ AdmitsTask(op, pack)
           /\ PersistPlanningResult(Len(runs) + 1, revision, pack, lineage[revision], outcome)

CaseStep ==
    /\ \/ BeginPlanning
       \/ PersistRun
       \/ \E r \in current, action \in ReviewActions : ReviewPlanningRun(r, action)
       \/ \E b \in openBriefs : DecideFamilyBrief(b)
    /\ UNCHANGED <<threadVars, factVars, researchVars, reader>>

(* Messages under way, not proposed from, or with a pending candidate.     *)
Undecided == {a.seq : a \in appends} \cup (Committed \ DOMAIN candidates)
             \cup {m \in DOMAIN candidates : Projected(m) = "pending"}

ThreadStep ==
    /\ \/ CreateThread
       \/ \E p \in Members : Cardinality(Undecided) < MaxUndecided /\ AppendMessage(p)
       \/ \E a \in appends : CommitMessage(a) \/ RollBackMessage(a)
       \/ \E m \in Committed, k \in FactKeys : Propose(m, k)
       \/ \E m \in DOMAIN candidates :
              \/ Expire(m) \/ RejectCandidate(m)
              \/ \E r \in current \cup {NoRun} : ConfirmCandidate(m, r)
    /\ UNCHANGED <<researchVars, reader>>

Next ==
    \/ ThreadStep
    \/ CaseStep
    \/ ImportResearch
    \/ \E c \in DOMAIN research : RejectResearch(c) \/ ApproveResearch(c)
    \/ ReadMessages
    \/ OpenPage \/ ReadPage \/ ClosePages

Spec == Init /\ [][Next]_vars

-----------------------------------------------------------------------------
(*                              Properties                                 *)

(* The fact a revision holds for a key: the last one confirmed up to it.   *)
FactAt(r, key) ==
    LET known == {f \in DOMAIN facts : facts[f].key = key /\ verdicts[facts[f].source].rev <= r} IN
    Highest(known)

(* Confirmed facts are what the verdicts say and nothing else: each comes  *)
(* from one confirming verdict that published the revision after the       *)
(* candidate's, each revision from one; the facts of a key are one chain   *)
(* of versions; and a revision refers to, and takes its preferences from,  *)
(* the last fact of every key.  (verify_memory_candidate and the           *)
(* confirmed_facts chain.)                                                 *)
FactsFollowVerdicts ==
    /\ \A f \in DOMAIN facts :
           LET v == verdicts[facts[f].source]
               older == {g \in 1 .. f - 1 : facts[g].key = facts[f].key} IN
           /\ facts[f].source \in DOMAIN verdicts
           /\ v.decision = "confirmed" /\ v.fact = f /\ v.rev = f + 1
           /\ v.rev = candidates[facts[f].source].rev + 1
           /\ facts[f].version = Cardinality(older) + 1
           /\ facts[f].supersedes = Highest(older)
    /\ revision = Len(facts) + 1
    /\ \A r \in 1 .. revision, k \in FactKeys :
           /\ refs[r][k] = FactAt(r, k)
           /\ preferences[r][k] = IF refs[r][k] = NoFact THEN FirstValue
                                  ELSE facts[refs[r][k]].source

(* A verdict is the last word, and whatever ran out of time or was         *)
(* overtaken by a revision never gets one: no reader sees a candidate come *)
(* back to life.                                                           *)
CandidateLifecycle ==
    [][\A m \in DOMAIN candidates :
        LET now == Projected(m) then == Projected(m)' IN
        now # then => \/ now = "pending"
                      \/ now = "expired" /\ then = "stale"]_vars

(* What a reader has is complete.  Numbers of messages have no gap and no   *)
(* message is numbered behind a reader's back: who read up to a cursor has  *)
(* every message up to it, for good.  And pages of the facts that share a   *)
(* snapshot are together the history of that snapshot, each row once,       *)
(* whatever is confirmed between them.                                      *)
ReadersComplete ==
    LET shown == {reader.rows[i] : i \in DOMAIN reader.rows} IN
    /\ Committed = 1 .. Cardinality(Committed)
    /\ reader.pc = "following" =>
           /\ reader.rows = Ascending({n \in Committed : n <= reader.after})
           /\ \A a \in appends : a.seq > reader.after
    /\ reader.pc \in {"page", "done"} =>
           /\ Cardinality(shown) = Len(reader.rows)
           /\ shown \subseteq History(reader.snapshot)
           /\ reader.pc = "done" => shown = {f \in DOMAIN facts :
                  FactAt(reader.snapshot, facts[f].key) > f}

(* A source pack beyond the baseline stands for one approved verdict, and  *)
(* a revision has at most one; so what a mixed run was planned on can      *)
(* always be told.                                                         *)
ApprovalsExact ==
    LET approved == {c \in DOMAIN findings : findings[c].decision = "approve"} IN
    /\ {findings[c].pack : c \in approved} = (BaselinePack + 1) .. packs
    /\ Cardinality(approved) = packs - BaselinePack
    /\ \A c \in approved : promoted[research[c]] = findings[c].pack
    /\ \A r \in DOMAIN runs : runs[r].pack > BaselinePack =>
           \E c \in approved : findings[c].pack = runs[r].pack /\ research[c] <= runs[r].rev
=============================================================================
