----------------------------- MODULE Collaboration -----------------------------
(***************************************************************************)
(* The collaboration thread of one Case: the messages of its participants, *)
(* the memory candidates proposed from them, the advisor's verdicts and    *)
(* the confirmed facts, each of which publishes a Case revision.  A        *)
(* handler is one transaction on the row it locks, hence one action; only  *)
(* append is two, its number taken and its row committed, for what others  *)
(* read in between.  A repeated key answers from the ledger and changes    *)
(* nothing.                                                                *)
(***************************************************************************)
EXTENDS StudentCase, FiniteSets

CONSTANTS
    FactKeys,      \* the fact keys in use, with the order reads sort them in
    Rank,          \*   (a number for each)
    MaxMessages    \* the limit on the messages of a thread, 1000 in the code

ASSUME RankAssumption ==
    /\ Rank \in [FactKeys -> Nat]
    /\ \A k, l \in FactKeys : Rank[k] = Rank[l] => k = l

VARIABLES
    thread,        \* whether the Case has its collaboration_threads row
    messages,      \* message_events committed: author, by sequence_no
    appends,       \* appends under way: author and number taken
    candidates,    \* memory_candidates, by the message each is proposed from
    expired,       \* the candidates that were past expires_at before anything else
    verdicts,      \* memory_candidate_verifications, by the same message
    facts,         \* confirmed_facts in insertion order; a fact's id is its index
    refs,          \* case_revision_confirmed_fact_refs: fact by key, by revision
    preferences    \* student and family preferences of a revision: for each key
                   \*   the message the value comes from

threadVars == <<thread, messages, appends>>
factVars == <<candidates, expired, verdicts, facts, refs, preferences>>

NoFact == 0
FirstValue == 0      \* the value the first revision of the Case started with

StudentKeys == {"student.intended_field", "student.preferred_countries", "student.intake"}
FamilyKeys == {"family.risk_tolerance", "family.japan_risk_accepted", "family.budget"}
ASSUME FactKeysAssumption == FactKeys \subseteq StudentKeys \cup FamilyKeys

RoleOf(key) == IF key \in StudentKeys THEN "student" ELSE "parent"
Participants == {"student", "parent", "advisor"}

(* The keys a revision may change under an existing planning run.          *)
PlanningKeys == {"student.preferred_countries", "family.budget", "student.intake"}

Committed == DOMAIN messages
Highest(numbers) == CHOOSE n \in numbers \cup {0} : \A m \in numbers : m <= n
Extend(f, x, y) == [z \in DOMAIN f \cup {x} |-> IF z = x THEN y ELSE f[z]]

CollaborationInit ==
    /\ thread = FALSE
    /\ messages = << >>
    /\ appends = {}
    /\ candidates = << >>
    /\ expired = {}
    /\ verdicts = << >>
    /\ facts = << >>
    /\ refs = [r \in Revisions |-> [k \in FactKeys |-> NoFact]]
    /\ preferences = [r \in Revisions |-> [k \in FactKeys |-> FirstValue]]

-----------------------------------------------------------------------------
(* create_collaboration_thread: under the Case lock, one thread for all    *)
(* who ask.                                                                *)
CreateThread ==
    /\ ~thread
    /\ thread' = TRUE
    /\ UNCHANGED <<messages, appends, factVars, caseVars>>

(* A slip: the number comes from a counter of its own, without the lock on *)
(* the thread.                                                             *)
TakeFromCounter(p) ==
    appends' = appends \cup
        {[by |-> p, seq |-> Highest(Committed \cup {a.seq : a \in appends}) + 1]}

(* append_collaboration_message: under the lock on the thread row the next *)
(* number is taken from the committed rows ...                             *)
TakeNumber(p) ==
    /\ appends = {}
    /\ Cardinality(Committed) < MaxMessages
    /\ appends' = {[by |-> p, seq |-> Highest(Committed) + 1]}

AppendMessage(p) ==
    /\ thread
    /\ TakeNumber(p)
    /\ UNCHANGED <<thread, messages, factVars, caseVars>>

(* ... and the row is there for others, and the lock free, at the commit.  *)
CommitMessage(a) ==
    /\ messages' = Extend(messages, a.seq, a.by)
    /\ appends' = appends \ {a}
    /\ UNCHANGED <<thread, factVars, caseVars>>

RollBackMessage(a) ==
    /\ appends' = appends \ {a}
    /\ UNCHANGED <<thread, messages, factVars, caseVars>>

-----------------------------------------------------------------------------
(* propose_memory_candidate: by the author of the message, for the current *)
(* revision, one per message.                                              *)
Propose(m, key) ==
    /\ m \in Committed \ DOMAIN candidates
    /\ messages[m] = RoleOf(key)
    /\ candidates' = Extend(candidates, m, [rev |-> revision, key |-> key])
    /\ UNCHANGED <<threadVars, expired, verdicts, facts, refs, preferences, caseVars>>

(* The state every read and replay projects for a candidate.               *)
Projected(m) ==
    CASE m \in DOMAIN verdicts -> verdicts[m].decision
      [] m \notin DOMAIN verdicts /\ candidates[m].rev # revision -> "stale"
      [] m \notin DOMAIN verdicts /\ candidates[m].rev = revision /\ m \in expired -> "expired"
      [] OTHER -> "pending"

(* Seven days have passed since the proposal (nobody looks at the time of  *)
(* a candidate that is decided or stale).                                  *)
Expire(m) ==
    /\ Projected(m) = "pending"
    /\ expired' = expired \cup {m}
    /\ UNCHANGED <<threadVars, candidates, verdicts, facts, refs, preferences, caseVars>>

(* A slip: a candidate may be decided after it expired.                    *)
DecidableLate(m) ==
    /\ m \in DOMAIN candidates \ DOMAIN verdicts
    /\ candidates[m].rev = revision
    /\ caseState \in {"intake", "planning"}

(* verify_memory_candidate.  The advisor names the revision he decides on; *)
(* it must be the candidate's and the Case's.                              *)
Decidable(m) ==
    /\ m \in DOMAIN candidates \ DOMAIN verdicts
    /\ candidates[m].rev = revision
    /\ m \notin expired
    /\ caseState \in {"intake", "planning"}

RejectCandidate(m) ==
    /\ Decidable(m)
    /\ verdicts' = Extend(verdicts, m, [decision |-> "rejected", fact |-> NoFact, rev |-> 0])
    /\ UNCHANGED <<threadVars, candidates, expired, facts, refs, preferences, caseVars>>

(* The head of a key's chain: the fact no other supersedes.                *)
Superseded(f) == \E g \in DOMAIN facts : facts[g].supersedes = f
Heads == {f \in DOMAIN facts : ~Superseded(f)}
HeadOf(key) ==
    IF \E f \in Heads : facts[f].key = key
    THEN CHOOSE f \in Heads : facts[f].key = key
    ELSE NoFact

(* What a fact may change when it replaces the run r: one of three keys,   *)
(* and the intake only once, of a run over the first pack (NV027).         *)
FactMayReplace(key, r) ==
    r # NoRun =>
        /\ key \in PlanningKeys
        /\ key = "student.intake" =>
               preferences[revision][key] = FirstValue /\ runs[r].pack = BaselinePack

(* A slip: the new revision refers to the new fact alone.                  *)
RefsOfNewFactOnly(key, fact) ==
    [k \in FactKeys |-> IF k = key THEN fact ELSE NoFact]

(* The facts the new revision refers to: the heads of the other keys and   *)
(* the new one.                                                            *)
RefsWith(key, fact) == [k \in FactKeys |-> IF k = key THEN fact ELSE HeadOf(k)]

(* Confirming writes verdict, fact, revision and references at once, and   *)
(* retires the run r the revision replaces, if there is one.               *)
ConfirmCandidate(m, r) ==
    LET key == candidates[m].key
        prior == HeadOf(key)
        fact == Len(facts) + 1
        next == revision + 1 IN
    /\ Decidable(m)
    /\ FactMayReplace(key, r)
    /\ PublishRevision(r)
    /\ verdicts' = Extend(verdicts, m, [decision |-> "confirmed", fact |-> fact, rev |-> next])
    /\ facts' = Append(facts,
           [key |-> key, source |-> m, supersedes |-> prior,
            version |-> IF prior = NoFact THEN 1 ELSE facts[prior].version + 1])
    /\ refs' = [refs EXCEPT ![next] = RefsWith(key, fact)]
    /\ preferences' = [preferences EXCEPT ![next] = [preferences[revision] EXCEPT ![key] = m]]
    /\ UNCHANGED <<threadVars, candidates, expired>>
=============================================================================
