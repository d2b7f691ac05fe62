------------------------------ MODULE KnowledgeProofs ------------------------------
(***************************************************************************)
(* What a Case knows: facts follow verdicts, what a reader has is          *)
(* complete, and every promoted pack stands for one approval.              *)
(***************************************************************************)
EXTENDS Knowledge, SequenceTheorems, FiniteSetTheorems, WellFoundedInduction, TLAPS

(***************************************************************************)
(* What the rows of thread, facts and research look like: the part of the  *)
(* invariant that says no more than the tables do.                         *)
(***************************************************************************)
FactRows == [key : FactKeys, source : Nat, supersedes : Nat, version : Nat]

Shape ==
    /\ CaseTypeOK
    /\ facts \in Seq(FactRows)
    /\ refs \in [Revisions -> [FactKeys -> Nat]]
    /\ preferences \in [Revisions -> [FactKeys -> Nat]]
    /\ DOMAIN verdicts \subseteq DOMAIN candidates
    /\ DOMAIN candidates \subseteq Committed
    /\ \A m \in DOMAIN candidates : candidates[m].key \in FactKeys

(* The thread: numbers without a gap, and at most one append under way,    *)
(* which holds the next number.                                            *)
Numbered ==
    /\ IsFiniteSet(Committed)
    /\ Committed = 1 .. Cardinality(Committed)
    /\ \A a \in appends : a.seq = Cardinality(Committed) + 1
    /\ \A a, b \in appends : a = b

(* The reader of messages has a prefix of the thread.                      *)
Following ==
    /\ DOMAIN reader = DOMAIN Idle
    /\ reader.pc \in {"idle", "following", "page", "done"}
    /\ reader.pc = "idle" => reader = Idle
    /\ reader.pc = "following" =>
           /\ reader.after \in Nat /\ reader.after <= Cardinality(Committed)
           /\ reader.rows = [i \in 1 .. reader.after |-> i]

(* The reader of the fact history has a prefix of its snapshot's history,  *)
(* up to its cursor.                                                       *)
ReadSoFar == {f \in History(reader.snapshot) :
                 reader.pc = "page" => /\ reader.after # NoFact
                                       /\ ~Precedes(reader.after, f)}

Paging ==
    reader.pc \in {"page", "done"} =>
        /\ reader.snapshot \in 1 .. revision
        /\ reader.rows \in Seq(Nat)
        /\ \A i, j \in DOMAIN reader.rows : reader.rows[i] = reader.rows[j] => i = j
        /\ {reader.rows[i] : i \in DOMAIN reader.rows} = ReadSoFar
        /\ reader.after \in {NoFact} \cup ReadSoFar

(* Every promoted pack goes back to the approval of its revision.          *)
Promotions ==
    /\ packs \in Nat \ {0}
    /\ research \in Seq(Nat)
    /\ \A c \in DOMAIN research : research[c] \in 1 .. revision
    /\ DOMAIN findings \subseteq DOMAIN research
    /\ \A r \in DOMAIN runs : runs[r].pack \in 1 .. packs

KnowledgeInv == /\ Shape /\ Numbered /\ Following /\ Paging /\ Promotions
                /\ FactsFollowVerdicts /\ ApprovalsExact

USE DEF NoRun, NoPack, NoFact, BaselinePack, FirstValue
USE OperationsAssumption, MaxRevisionAssumption

-----------------------------------------------------------------------------
(*                        Least and greatest numbers                       *)

(* A set of naturals that is not empty has a least member.                 *)
LEMMA Least ==
  ASSUME NEW S \in SUBSET Nat, S # {}
  PROVE  \E x \in S : \A y \in S : x <= y
<1> DEFINE R == OpToRel(<, Nat)
<1>1. IsWellFoundedOn(R, Nat)
  BY NatLessThanWellFounded
<1>2. \A y, x \in Nat : <<y, x>> \in R <=> y < x
  BY DEF OpToRel
<1> HIDE DEF R
<1>3. \E x \in S : \A y \in S : ~(<<y, x>> \in R)
  BY <1>1, WFMin, Zenon
<1>4. PICK x \in S : \A y \in S : ~(<<y, x>> \in R)
  BY <1>3
<1>5. \A y \in S : ~(y < x)
  BY <1>2, <1>4, Zenon
<1> QED BY <1>5

(* Highest(S) is the greatest member of a bounded set, or 0 for none.      *)
LEMMA HighestIsGreatest ==
  ASSUME NEW S \in SUBSET Nat, NEW n \in Nat, \A s \in S : s <= n
  PROVE  /\ Highest(S) \in S \cup {0} /\ Highest(S) \in Nat
         /\ \A s \in S : s <= Highest(S)
<1> DEFINE U == {k \in Nat : \A s \in S : s <= k}
<1>1. PICK u \in U : \A k \in U : u <= k
  <2>1. n \in U
    OBVIOUS
  <2>2. U \in SUBSET Nat /\ U # {}
    BY <2>1
  <2> HIDE DEF U
  <2> QED BY <2>2, Least
<1>2. u \in S \cup {0}
  <2>1. SUFFICES ASSUME u \notin S, u # 0
                 PROVE  FALSE
    OBVIOUS
  <2>2. u - 1 \in U
    BY <2>1
  <2> QED BY <1>1, <2>2
<1>3. \A s \in S : s <= u
  BY DEF U
<1>4. \E h \in S \cup {0} : \A m \in S : m <= h
  BY <1>2, <1>3
<1>5. Highest(S) \in S \cup {0} /\ \A m \in S : m <= Highest(S)
  BY <1>4, Zenon DEF Highest
<1>6. \A h \in S \cup {0} : h \in Nat
  OBVIOUS
<1> QED BY <1>5, <1>6, Zenon

(* ... and it is determined by that.                                       *)
LEMMA HighestIs ==
  ASSUME NEW S \in SUBSET Nat, NEW h \in S, \A s \in S : s <= h
  PROVE  Highest(S) = h
<1>1. h \in Nat
  OBVIOUS
<1>2. /\ Highest(S) \in S \cup {0} /\ Highest(S) \in Nat
      /\ \A s \in S : s <= Highest(S)
  BY <1>1, HighestIsGreatest
<1>3. Highest(S) <= h /\ h <= Highest(S)
  BY <1>1, <1>2
<1> QED BY <1>1, <1>2, <1>3

(* No number at all counts as 0.                                           *)
LEMMA HighestOfNone == Highest({}) = 0
  BY DEF Highest

-----------------------------------------------------------------------------
(*                        The chain of a key's facts                       *)

Of(key) == {f \in DOMAIN facts : facts[f].key = key}
Older(f) == {g \in 1 .. f - 1 : facts[g].key = facts[f].key}

(* What the rows of the facts are.                                         *)
LEMMA FactShape ==
  ASSUME Shape
  PROVE  /\ Len(facts) \in Nat /\ DOMAIN facts = 1 .. Len(facts)
         /\ \A f \in DOMAIN facts : /\ facts[f] \in FactRows
                                    /\ facts[f].key \in FactKeys
                                    /\ facts[f].source \in Nat
                                    /\ facts[f].supersedes \in Nat
                                    /\ facts[f].version \in Nat
<1>1. facts \in Seq(FactRows)
  BY DEF Shape
<1>2. \A row \in FactRows : /\ row.key \in FactKeys /\ row.source \in Nat
                            /\ row.supersedes \in Nat /\ row.version \in Nat
  BY DEF FactRows
<1> HIDE DEF FactRows
<1> QED BY <1>1, <1>2

(* A fact supersedes the last one of its key before it, if there is one.   *)
LEMMA ChainLink ==
  ASSUME Shape, FactsFollowVerdicts, NEW f \in DOMAIN facts
  PROVE  /\ Older(f) \in SUBSET Nat
         /\ facts[f].supersedes \in Older(f) \cup {0}
         /\ \A g \in Older(f) : g <= facts[f].supersedes
         /\ facts[f].version = Cardinality(Older(f)) + 1
         /\ IsFiniteSet(Older(f))
<1>1. f \in Nat /\ f >= 1
  BY FactShape
<1>2. Older(f) \in SUBSET Nat /\ \A g \in Older(f) : g <= f
  BY <1>1 DEF Older
<1>3. facts[f].supersedes = Highest(Older(f)) /\ facts[f].version = Cardinality(Older(f)) + 1
  BY DEF FactsFollowVerdicts, Older
<1>4. IsFiniteSet(Older(f))
  BY <1>1, <1>2, FS_BoundedSetOfNaturals
<1> QED BY <1>1, <1>2, <1>3, <1>4, HighestIsGreatest

(* Hence who is followed by a fact of his key is superseded by the first.  *)
LEMMA ChainUp ==
  ASSUME Shape, FactsFollowVerdicts, NEW f \in DOMAIN facts, NEW h \in DOMAIN facts,
         f < h, facts[h].key = facts[f].key
  PROVE  \E g \in DOMAIN facts : g <= h /\ facts[g].supersedes = f
<1> DEFINE S == {g \in DOMAIN facts : f < g /\ facts[g].key = facts[f].key}
<1>1. DOMAIN facts = 1 .. Len(facts) /\ Len(facts) \in Nat
  BY FactShape
<1>2. S \in SUBSET Nat /\ h \in S
  BY <1>1
<1>3. PICK g \in S : \A y \in S : g <= y
  <2> HIDE DEF S
  <2> QED BY <1>2, Least
<1>4. f \in Older(g)
  BY <1>1 DEF Older
<1>5. \A y \in Older(g) : y <= f
  BY <1>1, <1>3 DEF Older
<1>6. /\ facts[g].supersedes \in Older(g) \cup {0} /\ f <= facts[g].supersedes
      /\ facts[g].supersedes \in Nat
  BY <1>4, ChainLink, FactShape
<1>7. facts[g].supersedes = f
  BY <1>1, <1>5, <1>6
<1> QED BY <1>2, <1>3, <1>7

(* HeadOf finds the last fact of a key.                                    *)
LEMMA HeadIsLast ==
  ASSUME Shape, FactsFollowVerdicts, NEW key
  PROVE  /\ HeadOf(key) = Highest(Of(key))
         /\ HeadOf(key) \in Of(key) \cup {0}
         /\ \A f \in Of(key) : f <= HeadOf(key)
         /\ Of(key) = {} => HeadOf(key) = 0
<1>1. DOMAIN facts = 1 .. Len(facts) /\ Len(facts) \in Nat
  BY FactShape
<1>2. Of(key) \in SUBSET Nat /\ \A f \in Of(key) : f <= Len(facts)
  BY <1>1 DEF Of
<1> DEFINE h == Highest(Of(key))
<1>3. h \in Of(key) \cup {0} /\ h \in Nat /\ \A f \in Of(key) : f <= h
  BY <1>1, <1>2, HighestIsGreatest
<1>4. CASE Of(key) = {}
  <2>1. HeadOf(key) = 0
    BY <1>4 DEF HeadOf, Heads, Of
  <2> QED BY <1>4, <2>1, HighestOfNone
<1>5. CASE Of(key) # {}
  <2> HIDE DEF h
  <2>1. h \in Of(key) /\ h >= 1
    BY <1>1, <1>3, <1>5 DEF Of
  <2>2. ~Superseded(h)
    <3> SUFFICES ASSUME NEW g \in DOMAIN facts, facts[g].supersedes = h
                 PROVE  FALSE
      BY DEF Superseded
    <3>1. h \in Older(g)
      BY <2>1, ChainLink
    <3>2. g \in Of(key) /\ h < g
      BY <1>1, <2>1, <3>1 DEF Older, Of
    <3> QED BY <1>1, <1>3, <3>2
  <2>3. h \in Heads /\ facts[h].key = key
    BY <2>1, <2>2 DEF Heads, Of
  <2>4. ASSUME NEW f \in Heads, facts[f].key = key
        PROVE  f = h
    <3>1. f \in DOMAIN facts /\ ~Superseded(f) /\ f <= h
      BY <1>3, <2>4 DEF Heads, Of
    <3>2. ~(f < h)
      BY <2>1, <2>4, <3>1, ChainUp DEF Superseded, Of
    <3> QED BY <1>1, <1>3, <3>1, <3>2
  <2>5. HeadOf(key) = h
    BY <2>3, <2>4 DEF HeadOf
  <2> QED BY <1>3, <1>5, <2>5 DEF h
<1> QED BY <1>4, <1>5

-----------------------------------------------------------------------------
(*                      Confirming, and what it leaves alone               *)

(* The row verify_memory_candidate adds to the facts.                      *)
NewFact(m) ==
    LET key == candidates[m].key
        prior == HeadOf(key) IN
    [key |-> key, source |-> m, supersedes |-> prior,
     version |-> IF prior = NoFact THEN 1 ELSE facts[prior].version + 1]

(* What a confirmation writes, with the locals of the code expanded.       *)
LEMMA ConfirmWrites ==
  ASSUME Shape, NEW m \in DOMAIN candidates, NEW r, ConfirmCandidate(m, r)
  PROVE  /\ Decidable(m) /\ PublishRevision(r)
         /\ facts' = Append(facts, NewFact(m))
         /\ verdicts' = Extend(verdicts, m, [decision |-> "confirmed", fact |-> Len(facts) + 1,
                                             rev |-> revision + 1])
         /\ refs' = [refs EXCEPT ![revision + 1] = RefsWith(candidates[m].key, Len(facts) + 1)]
         /\ preferences' = [preferences EXCEPT ![revision + 1] =
                               [preferences[revision] EXCEPT ![candidates[m].key] = m]]
         /\ UNCHANGED <<threadVars, candidates, expired>>
  BY DEF ConfirmCandidate, NewFact

(* The new row has the shape of the table.                                 *)
LEMMA NewFactShape ==
  ASSUME Shape, Numbered, FactsFollowVerdicts, NEW m \in DOMAIN candidates
  PROVE  NewFact(m) \in FactRows
<1>1. m \in Nat /\ candidates[m].key \in FactKeys
  <2>1. m \in Committed
    BY DEF Shape
  <2>2. Cardinality(Committed) \in Nat
    BY FS_CardinalityType DEF Numbered
  <2> QED BY <2>1, <2>2 DEF Numbered, Shape
<1> DEFINE prior == HeadOf(candidates[m].key)
<1>2. prior \in {0} \cup DOMAIN facts
  BY HeadIsLast DEF Of
<1>3. prior \in Nat /\ (prior # 0 => facts[prior].version \in Nat)
  BY <1>2, FactShape
<1> HIDE DEF prior
<1>4. (IF prior = 0 THEN 1 ELSE facts[prior].version + 1) \in Nat
  BY <1>3
<1> QED BY <1>1, <1>3, <1>4 DEF NewFact, FactRows, prior

(* A confirmation keeps the shape of the rows.                             *)
LEMMA ConfirmShape ==
  ASSUME Shape, Numbered, FactsFollowVerdicts, NEW m \in DOMAIN candidates,
         NEW r \in current \cup {NoRun}, ConfirmCandidate(m, r)
  PROVE  Shape'
<1>1. r \in Nat
  <2>1. current \subseteq Nat
    BY DEF Shape, CaseTypeOK
  <2> QED BY <2>1
<1>2. PublishRevision(r)
  BY ConfirmWrites
<1>3. revision \in Revisions /\ revision + 1 \in Revisions
  BY <1>2 DEF Shape, CaseTypeOK, PublishRevision, Revisions
<1>4. CaseTypeOK'
  <2>1. lineage' \in [Revisions -> Nat] /\ revision' \in Revisions /\ current' \subseteq Nat
    BY <1>1, <1>2, <1>3 DEF Shape, CaseTypeOK, PublishRevision
  <2> QED BY <1>2, <2>1 DEF Shape, CaseTypeOK, PublishRevision
<1>5. NewFact(m) \in FactRows
  BY NewFactShape
<1>6. facts' \in Seq(FactRows)
  <2>1. facts' = Append(facts, NewFact(m))
    BY ConfirmWrites
  <2> QED BY <1>5, <2>1, AppendProperties DEF Shape
<1> DEFINE key == candidates[m].key
           n == Len(facts) + 1
<1>7. key \in FactKeys /\ m \in Nat /\ n \in Nat
  <2>1. NewFact(m).source = m /\ NewFact(m).key = key
    BY DEF NewFact
  <2> QED BY <1>5, <2>1, FactShape DEF FactRows
<1> HIDE DEF key, n
<1>8. refs' \in [Revisions -> [FactKeys -> Nat]]
  <2>1. ASSUME NEW k
        PROVE  HeadOf(k) \in Nat
    <3>1. HeadOf(k) \in Of(k) \cup {0}
      BY HeadIsLast
    <3>2. Of(k) \subseteq Nat
      BY FactShape DEF Of
    <3> QED BY <3>1, <3>2
  <2>2. RefsWith(key, n) \in [FactKeys -> Nat]
    BY <1>7, <2>1 DEF RefsWith
  <2>3. refs' = [refs EXCEPT ![revision + 1] = RefsWith(key, n)]
    BY ConfirmWrites DEF key, n
  <2> QED BY <2>2, <2>3 DEF Shape
<1>9. preferences' \in [Revisions -> [FactKeys -> Nat]]
  <2> DEFINE new == [preferences[revision] EXCEPT ![key] = m]
  <2>1. new \in [FactKeys -> Nat]
    BY <1>3, <1>7 DEF Shape
  <2>2. preferences' = [preferences EXCEPT ![revision + 1] = new]
    BY ConfirmWrites DEF key
  <2> HIDE DEF new
  <2> QED BY <2>1, <2>2 DEF Shape
<1>10. DOMAIN verdicts' = DOMAIN verdicts \cup {m}
  <2>1. verdicts' = Extend(verdicts, m, [decision |-> "confirmed", fact |-> Len(facts) + 1,
                                         rev |-> revision + 1])
    BY ConfirmWrites
  <2> QED BY <2>1 DEF Extend
<1>11. UNCHANGED <<messages, candidates>>
  BY ConfirmWrites DEF threadVars
<1> QED BY <1>4, <1>6, <1>8, <1>9, <1>10, <1>11 DEF Shape, Committed

(* The rows that were there stay what they were.                           *)
LEMMA ConfirmKeepsRows ==
  ASSUME Shape, NEW m \in DOMAIN candidates, NEW r, ConfirmCandidate(m, r)
  PROVE  /\ Len(facts') = Len(facts) + 1
         /\ DOMAIN facts' = DOMAIN facts \cup {Len(facts) + 1}
         /\ facts'[Len(facts) + 1] = NewFact(m)
         /\ \A f \in DOMAIN facts : facts'[f] = facts[f]
         /\ \A v \in DOMAIN verdicts : verdicts'[v] = verdicts[v]
         /\ m \in DOMAIN verdicts' /\ verdicts'[m].decision = "confirmed"
         /\ verdicts'[m].fact = Len(facts) + 1 /\ verdicts'[m].rev = revision + 1
<1>1. /\ facts' = Append(facts, NewFact(m)) /\ facts \in Seq(FactRows)
      /\ m \notin DOMAIN verdicts
      /\ verdicts' = Extend(verdicts, m, [decision |-> "confirmed", fact |-> Len(facts) + 1,
                                             rev |-> revision + 1])
  BY ConfirmWrites DEF Shape, Decidable
<1>2. DOMAIN facts = 1 .. Len(facts) /\ Len(facts) \in Nat
  BY FactShape
<1>3. /\ Len(facts') = Len(facts) + 1
      /\ facts'[Len(facts) + 1] = NewFact(m)
      /\ \A f \in 1 .. Len(facts) : facts'[f] = facts[f]
      /\ DOMAIN facts' = 1 .. Len(facts) + 1
  BY <1>1, <1>2
<1>4. 1 .. Len(facts) + 1 = 1 .. Len(facts) \cup {Len(facts) + 1}
  BY <1>2
<1>5. /\ m \in DOMAIN verdicts' /\ \A v \in DOMAIN verdicts : verdicts'[v] = verdicts[v]
      /\ verdicts'[m] = [decision |-> "confirmed", fact |-> Len(facts) + 1, rev |-> revision + 1]
  BY <1>1 DEF Extend
<1> QED BY <1>2, <1>3, <1>4, <1>5

(* FactsFollowVerdicts, clause by clause.                                  *)
FactExact(f) ==
    LET v == verdicts[facts[f].source] IN
    /\ facts[f].source \in DOMAIN verdicts
    /\ v.decision = "confirmed" /\ v.fact = f /\ v.rev = f + 1
    /\ v.rev = candidates[facts[f].source].rev + 1
    /\ facts[f].version = Cardinality(Older(f)) + 1
    /\ facts[f].supersedes = Highest(Older(f))

RevisionExact(r, k) ==
    /\ refs[r][k] = FactAt(r, k)
    /\ preferences[r][k] = IF refs[r][k] = NoFact THEN FirstValue
                           ELSE facts[refs[r][k]].source

(* FactsFollowVerdicts, fact by fact and revision by revision.             *)
LEMMA FactsByClause ==
  FactsFollowVerdicts <=> /\ \A f \in DOMAIN facts : FactExact(f)
                          /\ revision = Len(facts) + 1
                          /\ \A r \in 1 .. revision, k \in FactKeys : RevisionExact(r, k)
  BY DEF FactsFollowVerdicts, FactExact, RevisionExact, Older

(* The facts a revision knows of a key.                                    *)
KnownAt(r, key) == {f \in Of(key) : f + 1 <= r}

(* The verdict of fact f published revision f + 1, so numbers tell what a  *)
(* revision knew.                                                          *)
LEMMA FactAtByNumber ==
  ASSUME \A f \in DOMAIN facts : FactExact(f), NEW r, NEW key
  PROVE  FactAt(r, key) = Highest(KnownAt(r, key))
<1>1. \A f \in DOMAIN facts : verdicts[facts[f].source].rev = f + 1
  BY DEF FactExact
<1>2. {f \in DOMAIN facts : facts[f].key = key /\ verdicts[facts[f].source].rev <= r}
        = KnownAt(r, key)
  BY <1>1 DEF KnownAt, Of
<1> QED BY <1>2 DEF FactAt

(* Confirming publishes a fact that follows from its verdict ...           *)
LEMMA ConfirmFacts ==
  ASSUME Shape, Numbered, FactsFollowVerdicts, NEW m \in DOMAIN candidates, NEW r,
         ConfirmCandidate(m, r)
  PROVE  /\ \A f \in DOMAIN facts' : FactExact(f)'
         /\ revision' = Len(facts') + 1
<1>0. PICK n, key, prior : n = Len(facts) + 1 /\ key = candidates[m].key /\ prior = HeadOf(key)
  OBVIOUS
<1>1. /\ n \in Nat /\ n >= 1 /\ DOMAIN facts = 1 .. n - 1 /\ revision = n
  BY <1>0, FactShape, FactsByClause
<1>2. /\ revision' = revision + 1 /\ candidates' = candidates /\ candidates[m].rev = revision
  BY ConfirmWrites DEF PublishRevision, Decidable
<1>3. /\ Len(facts') = n /\ DOMAIN facts' = DOMAIN facts \cup {n}
      /\ facts'[n] = NewFact(m)
      /\ \A f \in DOMAIN facts : facts'[f] = facts[f]
      /\ \A v \in DOMAIN verdicts : verdicts'[v] = verdicts[v]
      /\ m \in DOMAIN verdicts' /\ verdicts'[m].decision = "confirmed"
      /\ verdicts'[m].fact = n /\ verdicts'[m].rev = revision + 1
  BY <1>0, ConfirmKeepsRows
<1>4. DOMAIN verdicts \subseteq DOMAIN verdicts'
  <2>1. verdicts' = Extend(verdicts, m, [decision |-> "confirmed", fact |-> Len(facts) + 1,
                                             rev |-> revision + 1])
    BY ConfirmWrites
  <2> QED BY <2>1 DEF Extend
<1>5. ASSUME NEW f \in DOMAIN facts
      PROVE  FactExact(f)'
  <2>1. Older(f)' = Older(f)
    BY <1>1, <1>3 DEF Older
  <2>2. FactExact(f)
    BY FactsByClause
  <2> QED BY <1>2, <1>3, <1>4, <2>1, <2>2 DEF FactExact
<1>6. FactExact(n)'
  <2>1. /\ NewFact(m).source = m /\ NewFact(m).key = key /\ NewFact(m).supersedes = prior
        /\ NewFact(m).version = IF prior = 0 THEN 1 ELSE facts[prior].version + 1
    BY <1>0 DEF NewFact
  <2>2. Older(n)' = Of(key)
    BY <1>1, <1>3, <2>1 DEF Older, Of
  <2>3. prior = Highest(Of(key)) /\ prior \in Of(key) \cup {0}
        /\ (\A f \in Of(key) : f <= prior) /\ (Of(key) = {} => prior = 0)
    BY <1>0, HeadIsLast
  <2>4. NewFact(m).version = Cardinality(Of(key)) + 1
    <3>1. CASE Of(key) = {}
      BY <2>1, <2>3, <3>1, FS_EmptySet
    <3>2. CASE Of(key) # {}
      <4>1. prior \in Of(key) /\ prior # 0 /\ prior \in DOMAIN facts /\ prior \in Nat
        <5>1. \A f \in Of(key) : f \in DOMAIN facts /\ f \in Nat /\ f >= 1
          BY <1>1 DEF Of
        <5>2. PICK f \in Of(key) : TRUE
          BY <3>2
        <5>3. prior # 0
          BY <2>3, <5>1, <5>2
        <5> QED BY <2>3, <5>1, <5>3
      <4>2. Of(key) = Older(prior) \cup {prior} /\ prior \notin Older(prior)
        <5>1. facts[prior].key = key
          BY <4>1 DEF Of
        <5>2. ASSUME NEW f
              PROVE  f \in Of(key) <=> f \in Older(prior) \/ f = prior
          <6>1. f \in Of(key) => f \in Nat /\ f >= 1 /\ f <= prior /\ facts[f].key = key
            BY <1>1, <2>3 DEF Of
          <6>2. f \in Older(prior) => f \in DOMAIN facts /\ facts[f].key = key
            BY <1>1, <4>1, <5>1 DEF Older
          <6> QED BY <4>1, <5>1, <6>1, <6>2 DEF Of, Older
        <5>3. prior \notin Older(prior)
          BY <4>1 DEF Older
        <5> QED BY <5>2, <5>3
      <4>3. facts[prior].version = Cardinality(Older(prior)) + 1 /\ IsFiniteSet(Older(prior))
        BY <4>1, ChainLink
      <4>4. Cardinality(Of(key)) = Cardinality(Older(prior)) + 1
        BY <4>2, <4>3, FS_AddElement
      <4> QED BY <2>1, <4>1, <4>3, <4>4
    <3> QED BY <3>1, <3>2
  <2>5. verdicts'[m].rev = n + 1
    BY <1>1, <1>3
  <2> QED BY <1>1, <1>2, <1>3, <2>1, <2>2, <2>3, <2>4, <2>5 DEF FactExact
<1> QED BY <1>1, <1>2, <1>3, <1>5, <1>6

(* The last fact a revision knows of a key is one of the key's facts.      *)
LEMMA KnownIsBounded ==
  ASSUME Shape, NEW r, NEW key
  PROVE  /\ Highest(KnownAt(r, key)) \in KnownAt(r, key) \cup {0}
         /\ KnownAt(r, key) \subseteq Of(key) /\ Of(key) \subseteq DOMAIN facts
<1>1. KnownAt(r, key) \in SUBSET Nat /\ \A f \in KnownAt(r, key) : f <= Len(facts)
  BY FactShape DEF KnownAt, Of
<1> QED BY <1>1, FactShape, HighestIsGreatest DEF KnownAt, Of

(* ... and a revision that refers to the last fact of every key, the       *)
(* earlier revisions to what they referred to before.                      *)
LEMMA ConfirmRevisions ==
  ASSUME Shape, Numbered, FactsFollowVerdicts, NEW m \in DOMAIN candidates, NEW r,
         ConfirmCandidate(m, r)
  PROVE  \A s \in 1 .. revision', k \in FactKeys : RevisionExact(s, k)'
<1>0. PICK n, key : n = Len(facts) + 1 /\ key = candidates[m].key
  OBVIOUS
<1>1. /\ n \in Nat /\ n >= 1 /\ DOMAIN facts = 1 .. n - 1 /\ revision = n
      /\ revision \in Revisions /\ revision + 1 \in Revisions
  <2>1. PublishRevision(r) /\ revision \in Revisions
    BY ConfirmWrites DEF Shape, CaseTypeOK
  <2>2. revision + 1 \in Revisions
    BY <2>1 DEF PublishRevision, Revisions
  <2> QED BY <1>0, <2>1, <2>2, FactShape, FactsByClause
<1>2. /\ revision' = n + 1
      /\ refs' = [refs EXCEPT ![n + 1] = RefsWith(key, n)]
      /\ preferences' = [preferences EXCEPT ![n + 1] = [preferences[n] EXCEPT ![key] = m]]
  BY <1>0, <1>1, ConfirmWrites DEF PublishRevision
<1>3. /\ DOMAIN facts' = DOMAIN facts \cup {n}
      /\ facts'[n].key = key /\ facts'[n].source = m
      /\ \A f \in DOMAIN facts : facts'[f] = facts[f]
  <2>1. facts'[n] = NewFact(m) /\ NewFact(m).key = key /\ NewFact(m).source = m
    BY <1>0, ConfirmKeepsRows DEF NewFact
  <2> QED BY <1>0, <2>1, ConfirmKeepsRows
<1>4. \A s, k : FactAt(s, k)' = Highest(KnownAt(s, k)')
  <2>1. \A f \in DOMAIN facts' : FactExact(f)'
    BY ConfirmFacts
  <2>2. \A f \in DOMAIN facts' : verdicts'[facts'[f].source].rev = f + 1
    BY <2>1 DEF FactExact
  <2>3. TAKE s, k
  <2>4. {f \in DOMAIN facts' : facts'[f].key = k /\ verdicts'[facts'[f].source].rev <= s}
          = KnownAt(s, k)'
    BY <2>2 DEF KnownAt, Of
  <2> QED BY <2>4 DEF FactAt
<1>5. \A s, k : FactAt(s, k) = Highest(KnownAt(s, k))
  BY FactAtByNumber, FactsByClause
<1>6. /\ refs \in [Revisions -> [FactKeys -> Nat]]
      /\ preferences \in [Revisions -> [FactKeys -> Nat]]
  BY DEF Shape
<1>7. ASSUME NEW s \in 1 .. n, NEW k \in FactKeys
      PROVE  RevisionExact(s, k)'
  <2>1. KnownAt(s, k)' = KnownAt(s, k)
    BY <1>1, <1>3, <1>7 DEF KnownAt, Of
  <2>2. s \in Revisions /\ s # n + 1
    BY <1>1 DEF Revisions
  <2>3. refs'[s] = refs[s] /\ preferences'[s] = preferences[s]
    BY <1>2, <1>6, <2>2
  <2>4. RevisionExact(s, k)
    BY <1>1, FactsByClause
  <2>5. refs[s][k] \in DOMAIN facts \cup {0}
    BY <1>5, <2>4, KnownIsBounded DEF RevisionExact
  <2>6. refs[s][k] # 0 => facts'[refs[s][k]] = facts[refs[s][k]]
    BY <1>3, <2>5
  <2>7. FactAt(s, k)' = FactAt(s, k)
    BY <1>4, <1>5, <2>1
  <2> QED BY <2>3, <2>4, <2>6, <2>7 DEF RevisionExact
<1>8. ASSUME NEW k \in FactKeys
      PROVE  RevisionExact(n + 1, k)'
  <2>1. refs'[n + 1] = RefsWith(key, n)
    BY <1>1, <1>2, <1>6
  <2>2. preferences'[n + 1] = [preferences[n] EXCEPT ![key] = m]
    BY <1>1, <1>2, <1>6
  <2>3. CASE k = key
    <3>1. KnownAt(n + 1, k)' = Of(key) \cup {n}
      BY <1>1, <1>3, <2>3 DEF KnownAt, Of
    <3>2. Of(key) \cup {n} \in SUBSET Nat /\ \A f \in Of(key) \cup {n} : f <= n
      BY <1>1 DEF Of
    <3>3. Highest(Of(key) \cup {n}) = n
      BY <3>2, HighestIs
    <3>4. refs'[n + 1][k] = n
      BY <2>1, <2>3 DEF RefsWith
    <3>5. preferences'[n + 1][k] = m
      BY <1>1, <1>6, <2>2, <2>3
    <3>6. FactAt(n + 1, k)' = n
      BY <1>4, <3>1, <3>3
    <3>7. n # 0 /\ facts'[n].source = m
      BY <1>1, <1>3
    <3> QED BY <3>4, <3>5, <3>6, <3>7 DEF RevisionExact
  <2>4. CASE k # key
    <3>1. KnownAt(n + 1, k)' = Of(k) /\ KnownAt(n, k) = Of(k)
      BY <1>1, <1>3, <2>4 DEF KnownAt, Of
    <3>2. refs'[n + 1][k] = HeadOf(k)
      BY <2>1, <2>4 DEF RefsWith
    <3>3. HeadOf(k) = Highest(Of(k))
      BY HeadIsLast
    <3>4. preferences'[n + 1][k] = preferences[n][k]
      BY <1>1, <1>6, <2>2, <2>4
    <3>5. RevisionExact(n, k)
      BY <1>1, FactsByClause
    <3>6. refs[n][k] = Highest(Of(k))
      BY <1>5, <3>1, <3>5 DEF RevisionExact
    <3>7. refs'[n + 1][k] = refs[n][k]
      BY <3>2, <3>3, <3>6
    <3>8. refs[n][k] \in DOMAIN facts \cup {0}
      BY <1>1, <3>1, <3>6, KnownIsBounded
    <3>9. refs[n][k] # 0 => facts'[refs[n][k]] = facts[refs[n][k]]
      BY <1>3, <3>8
    <3>10. refs'[n + 1][k] = FactAt(n + 1, k)'
      BY <1>4, <3>1, <3>2, <3>3
    <3> QED BY <3>4, <3>5, <3>7, <3>9, <3>10 DEF RevisionExact
  <2> QED BY <2>3, <2>4
<1>9. 1 .. revision' = 1 .. n \cup {n + 1}
  BY <1>1, <1>2
<1> QED BY <1>7, <1>8, <1>9

(* A confirmation keeps the facts what the verdicts say.                   *)
LEMMA ConfirmFollows ==
  ASSUME Shape, Numbered, FactsFollowVerdicts, NEW m \in DOMAIN candidates, NEW r,
         ConfirmCandidate(m, r)
  PROVE  FactsFollowVerdicts'
<1>1. /\ \A f \in DOMAIN facts' : FactExact(f)'
      /\ revision' = Len(facts') + 1
      /\ \A s \in 1 .. revision', k \in FactKeys : RevisionExact(s, k)'
  BY ConfirmFacts, ConfirmRevisions
<1> QED BY <1>1 DEF FactsFollowVerdicts, FactExact, RevisionExact, Older

-----------------------------------------------------------------------------
(*                      Everybody else leaves the facts                    *)

(* The rest of the thread: nobody but a verdict touches facts or verdicts, *)
(* and a rejecting verdict is not one any fact comes from.                 *)
LEMMA OthersKeepFacts ==
  ASSUME Shape, FactsFollowVerdicts, UNCHANGED <<facts, refs, preferences, revision>>,
         \A v \in DOMAIN verdicts : v \in DOMAIN verdicts' /\ verdicts'[v] = verdicts[v],
         \A m \in DOMAIN candidates : candidates'[m] = candidates[m]
  PROVE  FactsFollowVerdicts'
<1>1. \A f \in DOMAIN facts : FactExact(f)
  BY FactsByClause
<1>2. /\ \A f \in DOMAIN facts' : FactExact(f)'
      /\ \A f \in DOMAIN facts' : verdicts'[facts'[f].source] = verdicts[facts[f].source]
  <2>1. ASSUME NEW f \in DOMAIN facts'
        PROVE  FactExact(f)' /\ verdicts'[facts'[f].source] = verdicts[facts[f].source]
    <3>1. FactExact(f) /\ facts[f].source \in DOMAIN verdicts
      BY <1>1 DEF FactExact
    <3>2. facts[f].source \in DOMAIN candidates
      BY <3>1 DEF Shape
    <3> QED BY <3>1, <3>2 DEF FactExact, Older
  <2> QED BY <2>1
<1>3. \A r, k : FactAt(r, k)' = FactAt(r, k)
  <2> TAKE r, k
  <2>1. {f \in DOMAIN facts' : facts'[f].key = k /\ verdicts'[facts'[f].source].rev <= r}
          = {f \in DOMAIN facts : facts[f].key = k /\ verdicts[facts[f].source].rev <= r}
    BY <1>2
  <2> QED BY <2>1 DEF FactAt
<1>4. \A r \in 1 .. revision, k \in FactKeys : RevisionExact(r, k)
  BY FactsByClause
<1>5. \A r \in 1 .. revision', k \in FactKeys : RevisionExact(r, k)'
  BY <1>3, <1>4 DEF RevisionExact
<1>6. revision' = Len(facts') + 1
  BY FactsByClause
<1> QED BY <1>2, <1>5, <1>6 DEF FactsFollowVerdicts, FactExact, RevisionExact, Older

(* The handlers of the Case keep its rows well formed.                     *)
LEMMA CaseShape ==
  ASSUME CaseTypeOK, CaseStep
  PROVE  CaseTypeOK' /\ revision' = revision
<1>1. CASE BeginPlanning
  BY <1>1 DEF BeginPlanning, StartPlanning, CaseTypeOK, CaseStates
<1>2. CASE PersistRun
  <2>1. PICK op \in Operations, pack \in 1 .. packs, outcome \in {"review_required", "blocked"} :
           PersistPlanningResult(Len(runs) + 1, revision, pack, lineage[revision], outcome)
    BY <1>2 DEF PersistRun
  <2> DEFINE Row == [task : Nat, rev : Revisions, pack : Nat, state : RunStates,
                     supersedes : Nat]
             row == [task |-> Len(runs) + 1, rev |-> revision, pack |-> pack,
                     state |-> outcome, supersedes |-> lineage[revision]]
  <2>2. runs \in Seq(Row) /\ Len(runs) \in Nat
    BY DEF CaseTypeOK
  <2>3. row \in Row
    <3>1. /\ revision \in Revisions /\ lineage[revision] \in Nat /\ pack \in Nat
          /\ outcome \in RunStates
      BY DEF CaseTypeOK, RunStates
    <3> QED BY <2>2, <3>1
  <2>4. runs' = Append(runs, row)
    BY <2>1 DEF PersistPlanningResult
  <2> HIDE DEF Row, row
  <2>5. runs' \in Seq(Row)
    BY <2>2, <2>3, <2>4, AppendProperties
  <2>6. current' \subseteq Nat
    <3>1. current \subseteq Nat
      BY DEF CaseTypeOK
    <3>2. current' = current \cup {Len(runs) + 1}
      BY <2>1 DEF PersistPlanningResult
    <3>3. Len(runs) + 1 \in Nat
      BY <2>2
    <3> QED BY <3>1, <3>2, <3>3
  <2> QED BY <2>1, <2>5, <2>6 DEF PersistPlanningResult, CaseTypeOK, CaseStates, Row
<1>3. ASSUME NEW r \in current, NEW action \in ReviewActions, ReviewPlanningRun(r, action)
      PROVE  CaseTypeOK' /\ revision' = revision
  <2> DEFINE row == [run |-> r, action |-> action]
  <2>1. current \subseteq Nat /\ reviews \subseteq [run : Nat, action : ReviewActions]
        /\ briefs \subseteq Nat /\ openBriefs \subseteq Nat
    BY DEF CaseTypeOK
  <2>2. row \in [run : Nat, action : ReviewActions] /\ r \in Nat
    BY <2>1
  <2>3. reviews' = reviews \cup {row}
    BY <1>3 DEF ReviewPlanningRun
  <2>4. briefs' \subseteq Nat /\ openBriefs' \subseteq Nat
    BY <1>3, <2>1, <2>2 DEF ReviewPlanningRun
  <2> HIDE DEF row
  <2>5. reviews' \subseteq [run : Nat, action : ReviewActions]
    BY <2>1, <2>2, <2>3
  <2> QED BY <1>3, <2>4, <2>5 DEF ReviewPlanningRun, CaseTypeOK, CaseStates
<1>4. ASSUME NEW b \in openBriefs, DecideFamilyBrief(b)
      PROVE  CaseTypeOK' /\ revision' = revision
  BY <1>4 DEF DecideFamilyBrief, CaseTypeOK, CaseStates
<1> QED BY <1>1, <1>2, <1>3, <1>4 DEF CaseStep

(* Promoting evidence keeps the shape of the Case and its revision.        *)
LEMMA PromoteShape ==
  ASSUME CaseTypeOK, PromoteExternalEvidence
  PROVE  CaseTypeOK' /\ revision' = revision
  BY DEF PromoteExternalEvidence, CaseTypeOK

(* Initially there is one revision, and nothing known.                     *)
LEMMA InitKnowledge == Init => KnowledgeInv
<1> SUFFICES ASSUME Init PROVE KnowledgeInv
  OBVIOUS
<1>1. CaseTypeOK
  BY DEF Init, CaseInit, CaseTypeOK, CaseStates, Revisions
<1>2. /\ facts = << >> /\ refs = [r \in Revisions |-> [k \in FactKeys |-> NoFact]]
      /\ preferences = [r \in Revisions |-> [k \in FactKeys |-> FirstValue]]
      /\ messages = << >> /\ candidates = << >> /\ verdicts = << >> /\ appends = {}
      /\ research = << >> /\ findings = << >> /\ reader = Idle
  BY DEF Init, CollaborationInit
<1>3. Shape
  BY <1>1, <1>2 DEF Shape
<1>4. Committed = {} /\ Cardinality(Committed) = 0 /\ IsFiniteSet(Committed)
  BY <1>2, FS_EmptySet DEF Committed
<1>5. Numbered
  BY <1>2, <1>4 DEF Numbered
<1>6. Following /\ Paging
  BY <1>2 DEF Following, Paging, Idle
<1>7. revision = 1 /\ packs = 1 /\ runs = << >>
  BY DEF Init, CaseInit
<1>8. Promotions
  BY <1>2, <1>7 DEF Promotions
<1>9. FactsFollowVerdicts
  <2>1. \A k : FactAt(1, k) = 0
    <3>1. \A k : {f \in DOMAIN facts : facts[f].key = k /\ verdicts[facts[f].source].rev <= 1} = {}
      BY <1>2
    <3> QED BY <3>1, HighestOfNone DEF FactAt
  <2>2. 1 \in Revisions
    BY DEF Revisions
  <2>3. \A r \in 1 .. revision, k \in FactKeys : RevisionExact(r, k)
    BY <1>2, <1>7, <2>1, <2>2 DEF RevisionExact
  <2> QED BY <1>2, <1>7, <2>3, FactsByClause
<1>10. ApprovalsExact
  <2>1. {c \in DOMAIN findings : findings[c].decision = "approve"} = {}
    BY <1>2
  <2>2. Cardinality({}) = 0
    BY FS_EmptySet
  <2> QED BY <1>2, <1>7, <2>1, <2>2 DEF ApprovalsExact
<1> QED BY <1>3, <1>5, <1>6, <1>8, <1>9, <1>10 DEF KnowledgeInv

(* Every step keeps the rows well formed and the facts true.               *)
LEMMA NextFacts ==
  ASSUME Shape, Numbered, FactsFollowVerdicts, [Next]_vars
  PROVE  Shape' /\ FactsFollowVerdicts'
<1> USE DEF factVars, threadVars, researchVars, caseVars
<1>1. ASSUME UNCHANGED factVars, CaseTypeOK', revision' = revision, Committed \subseteq Committed'
      PROVE  Shape' /\ FactsFollowVerdicts'
  BY <1>1, OthersKeepFacts DEF Shape
<1>2. CASE CreateThread \/ (\E p \in Members : AppendMessage(p))
           \/ (\E a \in appends : CommitMessage(a) \/ RollBackMessage(a))
  <2>1. Committed \subseteq Committed'
    BY <1>2 DEF CreateThread, AppendMessage, CommitMessage, RollBackMessage, Committed, Extend
  <2>2. UNCHANGED factVars /\ CaseTypeOK' /\ revision' = revision
    BY <1>2 DEF CreateThread, AppendMessage, CommitMessage, RollBackMessage, Shape, CaseTypeOK
  <2> QED BY <1>1, <2>1, <2>2
<1>3. ASSUME NEW m \in Committed, NEW k \in FactKeys, Propose(m, k)
      PROVE  Shape' /\ FactsFollowVerdicts'
  <2>1. /\ DOMAIN candidates' = DOMAIN candidates \cup {m}
        /\ candidates'[m].key = k
        /\ \A n \in DOMAIN candidates : candidates'[n] = candidates[n]
    BY <1>3 DEF Propose, Extend
  <2>2. Shape'
    BY <1>3, <2>1 DEF Propose, Shape, CaseTypeOK, Committed
  <2>3. FactsFollowVerdicts'
    BY <1>3, <2>1, OthersKeepFacts DEF Propose
  <2> QED BY <2>2, <2>3
<1>4. ASSUME NEW m \in DOMAIN candidates, Expire(m)
      PROVE  Shape' /\ FactsFollowVerdicts'
  <2>1. Shape'
    BY <1>4 DEF Expire, Shape, CaseTypeOK, Committed
  <2> QED BY <1>4, <2>1, OthersKeepFacts DEF Expire
<1>5. ASSUME NEW m \in DOMAIN candidates, RejectCandidate(m)
      PROVE  Shape' /\ FactsFollowVerdicts'
  <2>1. /\ DOMAIN verdicts' = DOMAIN verdicts \cup {m}
        /\ \A v \in DOMAIN verdicts : verdicts'[v] = verdicts[v]
    BY <1>5 DEF RejectCandidate, Decidable, Extend
  <2>2. Shape'
    BY <1>5, <2>1 DEF RejectCandidate, Shape, CaseTypeOK, Committed
  <2> QED BY <1>5, <2>1, <2>2, OthersKeepFacts DEF RejectCandidate
<1>6. ASSUME NEW m \in DOMAIN candidates, NEW r \in current \cup {NoRun}, ConfirmCandidate(m, r)
      PROVE  Shape' /\ FactsFollowVerdicts'
  BY <1>6, ConfirmShape, ConfirmFollows
<1>7. CASE CaseStep
  BY <1>1, <1>7, CaseShape DEF CaseStep, Shape, Committed
<1>8. ASSUME NEW c \in DOMAIN research, RejectResearch(c) \/ ApproveResearch(c)
      PROVE  Shape' /\ FactsFollowVerdicts'
  <2>1. UNCHANGED factVars /\ CaseTypeOK' /\ revision' = revision /\ Committed' = Committed
    BY <1>8, PromoteShape
    DEF RejectResearch, ApproveResearch, PromotePack, Shape, CaseTypeOK, Committed
  <2> QED BY <1>1, <2>1
<1>9. CASE ImportResearch \/ ReadMessages \/ OpenPage \/ ReadPage \/ ClosePages \/ UNCHANGED vars
  <2>1. UNCHANGED factVars /\ CaseTypeOK' /\ revision' = revision /\ Committed' = Committed
    BY <1>9 DEF ImportResearch, ReadMessages, OpenPage, ReadPage, ClosePages, vars,
                Shape, CaseTypeOK, Committed
  <2> QED BY <1>1, <2>1
<1> QED BY <1>2, <1>3, <1>4, <1>5, <1>6, <1>7, <1>8, <1>9 DEF Next, ThreadStep

-----------------------------------------------------------------------------
(*                       The thread and its reader                         *)

(* Highest and Ascending over an initial segment.                          *)
LEMMA Segment ==
  ASSUME NEW n \in Nat
  PROVE  Highest(1 .. n) = n
<1>1. CASE n = 0
  <2>1. 1 .. n = {}
    BY <1>1
  <2> QED BY <1>1, <2>1, HighestOfNone
<1>2. CASE n # 0
  <2>1. (1 .. n) \in SUBSET Nat /\ n \in 1 .. n /\ \A k \in 1 .. n : k <= n
    BY <1>2
  <2> QED BY <2>1, HighestIs
<1> QED BY <1>1, <1>2

(* The numbers of a segment in order.                                      *)
LEMMA AscendingSegment ==
  ASSUME NEW a \in Nat, NEW b \in Nat, a <= b
  PROVE  Ascending(a + 1 .. b) = [i \in 1 .. b - a |-> a + i]
<1> DEFINE S == a + 1 .. b
<1>0. \A m, n \in Int : Cardinality(m .. n) = IF m > n THEN 0 ELSE n - m + 1
  BY FS_Interval
<1>1. Cardinality(S) = b - a
  <2>1. a + 1 \in Int /\ b \in Int
    OBVIOUS
  <2>2. Cardinality(a + 1 .. b) = IF a + 1 > b THEN 0 ELSE b - (a + 1) + 1
    BY <1>0, <2>1
  <2> QED BY <2>2
<1>2. ASSUME NEW i \in 1 .. b - a
      PROVE  (CHOOSE n \in S : Cardinality({m \in S : m < n}) = i - 1) = a + i
  <2>1. ASSUME NEW n \in S
        PROVE  Cardinality({m \in S : m < n}) = n - a - 1
    <3>1. {m \in S : m < n} = a + 1 .. n - 1
      OBVIOUS
    <3>2. a + 1 \in Int /\ n - 1 \in Int /\ n \in Nat /\ n > a
      OBVIOUS
    <3>3. Cardinality(a + 1 .. n - 1) = IF a + 1 > n - 1 THEN 0 ELSE (n - 1) - (a + 1) + 1
      BY <1>0, <3>2
    <3>4. Cardinality(a + 1 .. n - 1) = n - a - 1
      BY <3>2, <3>3
    <3> QED BY <3>1, <3>4
  <2>2. a + i \in S
    OBVIOUS
  <2>3. \A n \in S : Cardinality({m \in S : m < n}) = i - 1 <=> n = a + i
    BY <2>1
  <2> HIDE DEF S
  <2> QED BY <2>2, <2>3
<1> QED BY <1>1, <1>2 DEF Ascending

(* The numbers are given out one at a time, without a gap.                 *)
LEMMA NextNumbered ==
  ASSUME Numbered, [Next]_vars
  PROVE  /\ Numbered'
         /\ Committed \subseteq Committed' /\ Cardinality(Committed) <= Cardinality(Committed')
<1> DEFINE n == Cardinality(Committed)
<1>1. n \in Nat /\ Committed = 1 .. n /\ IsFiniteSet(Committed)
  BY FS_CardinalityType DEF Numbered
<1>2. ASSUME UNCHANGED messages, appends' \subseteq appends
      PROVE  Numbered' /\ Committed' = Committed
  BY <1>2 DEF Numbered, Committed
<1>3. ASSUME NEW p \in Members, AppendMessage(p)
      PROVE  Numbered' /\ Committed' = Committed
  <2>1. Highest(Committed) = n
    BY <1>1, Segment
  <2>2. appends' = {[by |-> p, seq |-> n + 1]} /\ messages' = messages
    BY <1>3, <2>1 DEF AppendMessage, TakeNumber
  <2> QED BY <2>2 DEF Numbered, Committed
<1>4. ASSUME NEW a \in appends, CommitMessage(a)
      PROVE  Numbered' /\ Committed' = Committed \cup {n + 1} /\ Cardinality(Committed') = n + 1
  <2>1. a.seq = n + 1 /\ appends = {a}
    BY DEF Numbered
  <2>2. Committed' = Committed \cup {n + 1} /\ appends' = {}
    BY <1>4, <2>1 DEF CommitMessage, Extend, Committed
  <2>3. n + 1 \notin Committed
    BY <1>1
  <2>4. IsFiniteSet(Committed \cup {n + 1}) /\ Cardinality(Committed \cup {n + 1}) = n + 1
    BY <1>1, <2>3, FS_AddElement
  <2>5. Committed \cup {n + 1} = 1 .. n + 1
    BY <1>1
  <2> HIDE DEF n
  <2> QED BY <2>2, <2>4, <2>5 DEF Numbered
<1>5. ASSUME \/ CreateThread \/ \E a \in appends : RollBackMessage(a)
             \/ \E m \in Committed, k \in FactKeys : Propose(m, k)
             \/ \E m \in DOMAIN candidates :
                   \/ Expire(m) \/ RejectCandidate(m)
                   \/ \E r \in current \cup {NoRun} : ConfirmCandidate(m, r)
      PROVE  Numbered' /\ Committed' = Committed
  <2>1. UNCHANGED messages /\ appends' \subseteq appends
    BY <1>5 DEF CreateThread, RollBackMessage, Propose, Expire, RejectCandidate,
       ConfirmCandidate, threadVars
  <2> QED BY <1>2, <2>1
<1>6. ASSUME ~ThreadStep, [Next]_vars
      PROVE  Numbered' /\ Committed' = Committed
  <2>1. UNCHANGED threadVars
    BY <1>6 DEF Next, CaseStep, ImportResearch, RejectResearch, ApproveResearch, ReadMessages,
       OpenPage, ReadPage, ClosePages, vars
  <2> QED BY <1>2, <2>1 DEF threadVars
<1> HIDE DEF n
<1>7. ASSUME ThreadStep
      PROVE  \/ Numbered' /\ Committed' = Committed
             \/ Numbered' /\ Committed' = Committed \cup {n + 1} /\ Cardinality(Committed') = n + 1
  BY <1>3, <1>4, <1>5, <1>7, Zenon DEF ThreadStep
<1>8. \/ Numbered' /\ Committed' = Committed
      \/ Numbered' /\ Committed' = Committed \cup {n + 1} /\ Cardinality(Committed') = n + 1
  BY <1>6, <1>7
<1> QED BY <1>1, <1>8 DEF n

(* A reader that follows has a prefix of the numbered messages.            *)
LEMMA Prolong ==
  ASSUME NEW a \in Nat, NEW b \in Nat, a <= b
  PROVE  [i \in 1 .. a |-> i] \o [i \in 1 .. b - a |-> a + i] = [i \in 1 .. b |-> i]
<1> DEFINE s == [i \in 1 .. a |-> i]
           t == [i \in 1 .. b - a |-> a + i]
           u == [i \in 1 .. b |-> i]
<1>1. s \in Seq(Nat) /\ Len(s) = a /\ t \in Seq(Nat) /\ Len(t) = b - a
  OBVIOUS
<1>2. u \in Seq(Nat) /\ Len(u) = b
  OBVIOUS
<1>3. /\ s \o t \in Seq(Nat) /\ Len(s \o t) = b
      /\ \A i \in 1 .. b : (s \o t)[i] = IF i <= a THEN s[i] ELSE t[i - a]
  BY <1>1, ConcatProperties
<1>4. \A i \in 1 .. b : (s \o t)[i] = u[i]
  BY <1>3
<1> HIDE DEF s, t, u
<1>5. s \o t = u
  BY <1>2, <1>3, <1>4, SeqEqual
<1> QED BY <1>5 DEF s, t, u

(* Every step leaves the reader of messages with a prefix of the thread.   *)
LEMMA NextFollowing ==
  ASSUME Numbered, Following, [Next]_vars
  PROVE  Following'
<1> DEFINE n == Cardinality(Committed)
<1>1. n \in Nat /\ Committed = 1 .. n
  BY FS_CardinalityType DEF Numbered
<1>2. Numbered' /\ n <= Cardinality(Committed')
  BY NextNumbered
<1>3. Cardinality(Committed') \in Nat
  BY <1>2, FS_CardinalityType DEF Numbered
<1>4. CASE UNCHANGED reader
  BY <1>1, <1>2, <1>3, <1>4 DEF Following
<1>5. CASE ReadMessages
  <2>1. PICK a \in Nat : /\ a = reader.after /\ a <= n
                         /\ reader.rows = [i \in 1 .. a |-> i]
    <3>1. CASE reader.pc = "idle"
      <4>1. reader.after = 0 /\ reader.rows = << >>
        BY <3>1 DEF Following, Idle
      <4>2. [i \in 1 .. 0 |-> i] = << >>
        OBVIOUS
      <4> QED BY <1>1, <4>1, <4>2
    <3>2. CASE reader.pc = "following"
      BY <3>2 DEF Following
    <3> QED BY <1>5, <3>1, <3>2 DEF ReadMessages
  <2> DEFINE new == {k \in Committed : k > reader.after}
  <2>2. new = a + 1 .. n /\ new # {}
    <3>1. new = a + 1 .. n
      BY <1>1, <2>1
    <3> QED BY <1>5, <3>1 DEF ReadMessages
  <2>3. a + 1 <= n
    BY <1>1, <2>1, <2>2
  <2>4. Highest(new) = n
    <3>1. new \in SUBSET Nat /\ n \in new /\ \A k \in new : k <= n
      BY <1>1, <2>1, <2>2, <2>3
    <3> HIDE DEF new
    <3> QED BY <3>1, HighestIs
  <2>5. Ascending(new) = [i \in 1 .. n - a |-> a + i]
    BY <1>1, <2>1, <2>2, AscendingSegment
  <2>6. reader' = [reader EXCEPT !.pc = "following", !.after = Highest(new),
                                 !.rows = @ \o Ascending(new)]
    BY <1>5 DEF ReadMessages
  <2>7. reader.rows \o Ascending(new) = [i \in 1 .. n |-> i]
    <3>1. [i \in 1 .. a |-> i] \o [i \in 1 .. n - a |-> a + i] = [i \in 1 .. n |-> i]
      BY <1>1, <2>1, Prolong
    <3> HIDE DEF new, n
    <3> QED BY <2>1, <2>5, <3>1, Zenon
  <2>8. DOMAIN reader = {"pc", "snapshot", "after", "rows"}
    BY DEF Following, Idle
  <2> HIDE DEF new, n
  <2> QED BY <1>1, <1>2, <2>4, <2>6, <2>7, <2>8 DEF Following
<1>6. CASE OpenPage \/ ReadPage \/ ClosePages
  <2>1. DOMAIN reader = {"pc", "snapshot", "after", "rows"}
    BY DEF Following, Idle
  <2>2. CASE OpenPage
    <3>1. DOMAIN reader' = DOMAIN reader /\ reader'.pc = "page"
      BY <2>1, <2>2 DEF OpenPage
    <3> QED BY <2>1, <3>1 DEF Following, Idle
  <2>3. CASE ReadPage
    <3>1. PICK pc, after, rows : reader' = [reader EXCEPT !.pc = pc, !.after = after,
                                                          !.rows = rows]
      BY <2>3 DEF ReadPage
    <3>2. DOMAIN reader' = DOMAIN reader
      BY <2>1, <3>1
    <3>3. reader'.pc \in {"page", "done"}
      BY <2>1, <2>3 DEF ReadPage
    <3> QED BY <2>1, <3>2, <3>3 DEF Following, Idle
  <2>4. CASE ClosePages
    <3>1. reader' = Idle
      BY <2>4 DEF ClosePages
    <3> QED BY <3>1 DEF Following, Idle
  <2> QED BY <1>6, <2>2, <2>3, <2>4
<1>7. UNCHANGED reader \/ ReadMessages \/ OpenPage \/ ReadPage \/ ClosePages
  BY DEF Next, ThreadStep, CaseStep, ImportResearch, RejectResearch, ApproveResearch, vars
<1> QED BY <1>4, <1>5, <1>6, <1>7

-----------------------------------------------------------------------------
(*                      The order of the fact history                      *)

Order(S) == \A f, g, h \in S : /\ ~Precedes(f, f)
                               /\ Precedes(f, g) /\ Precedes(g, h) => Precedes(f, h)
                               /\ f # g => Precedes(f, g) \/ Precedes(g, f)

(* Versions grow along the facts of a key ...                              *)
LEMMA VersionsGrow ==
  ASSUME Shape, FactsFollowVerdicts, NEW f \in DOMAIN facts, NEW g \in DOMAIN facts,
         facts[f].key = facts[g].key, f < g
  PROVE  facts[f].version < facts[g].version
<1>1. f \in Nat /\ g \in Nat
  BY FactShape
<1>2. Older(f) \subseteq Older(g) /\ f \in Older(g) /\ f \notin Older(f)
  BY <1>1, FactShape DEF Older
<1>3. /\ IsFiniteSet(Older(f)) /\ facts[f].version = Cardinality(Older(f)) + 1
      /\ IsFiniteSet(Older(g)) /\ facts[g].version = Cardinality(Older(g)) + 1
  BY ChainLink
<1>4. Cardinality(Older(f)) <= Cardinality(Older(g)) /\ Cardinality(Older(f)) # Cardinality(Older(g))
  BY <1>2, <1>3, FS_Subset
<1>5. Cardinality(Older(f)) \in Nat /\ Cardinality(Older(g)) \in Nat
  BY <1>3, FS_CardinalityType
<1> QED BY <1>3, <1>4, <1>5

(* ... so ORDER BY fact_key, fact_version DESC leaves no two facts tied.   *)
LEMMA PrecedesOrders ==
  ASSUME Shape, FactsFollowVerdicts
  PROVE  Order(DOMAIN facts)
<1>1. \A f \in DOMAIN facts : /\ f \in Nat /\ facts[f].version \in Nat
                              /\ facts[f].key \in FactKeys /\ Rank[facts[f].key] \in Nat
  BY FactShape, RankAssumption
<1>2. ASSUME NEW f \in DOMAIN facts, NEW g \in DOMAIN facts, f # g
      PROVE  Precedes(f, g) \/ Precedes(g, f)
  <2>1. CASE facts[f].key = facts[g].key
    <3>1. f < g \/ g < f
      BY <1>1, <1>2
    <3> QED BY <1>1, <2>1, <3>1, VersionsGrow DEF Precedes
  <2>2. CASE facts[f].key # facts[g].key
    <3>1. Rank[facts[f].key] # Rank[facts[g].key]
      BY <1>1, <2>2, RankAssumption
    <3> QED BY <1>1, <3>1 DEF Precedes
  <2> QED BY <2>1, <2>2
<1>3. ASSUME NEW f \in DOMAIN facts, NEW g \in DOMAIN facts, NEW h \in DOMAIN facts,
             Precedes(f, g), Precedes(g, h)
      PROVE  Precedes(f, h)
  BY <1>1, <1>3 DEF Precedes
<1>4. ASSUME NEW f \in DOMAIN facts
      PROVE  ~Precedes(f, f)
  BY <1>1, <1>4 DEF Precedes
<1> QED BY <1>2, <1>3, <1>4 DEF Order

(* The place of a row in a set of rows.                                    *)
Place(S, f) == Cardinality({g \in S : Precedes(g, f)})

(* The place of a row is below the number of rows, and grows along them.   *)
LEMMA PlaceGrows ==
  ASSUME NEW S, IsFiniteSet(S), Order(S), NEW f \in S
  PROVE  /\ Place(S, f) \in 0 .. Cardinality(S) - 1
         /\ \A g \in S : Precedes(f, g) => Place(S, f) < Place(S, g)
<1> DEFINE Before(x) == {y \in S : Precedes(y, x)}
<1>1. \A x : IsFiniteSet(Before(x)) /\ Cardinality(Before(x)) \in Nat
             /\ Cardinality(Before(x)) <= Cardinality(S)
  BY FS_Subset, FS_CardinalityType
<1>2. Cardinality(S) \in Nat
  BY FS_CardinalityType
<1>3. Cardinality(Before(f)) # Cardinality(S)
  <2>1. f \notin Before(f)
    BY DEF Order
  <2>2. Before(f) # S /\ Before(f) \in SUBSET S
    BY <2>1
  <2> HIDE DEF Before
  <2> QED BY <2>2, FS_Subset
<1>4. ASSUME NEW g \in S, Precedes(f, g)
      PROVE  Cardinality(Before(f)) < Cardinality(Before(g))
  <2>1. Before(f) \in SUBSET Before(g)
    BY <1>4 DEF Order
  <2>2. f \in Before(g) /\ f \notin Before(f)
    BY <1>4 DEF Order
  <2>3. Before(f) # Before(g)
    BY <2>2
  <2>4. /\ IsFiniteSet(Before(g))
        /\ Cardinality(Before(f)) \in Nat /\ Cardinality(Before(g)) \in Nat
    BY <1>1
  <2> HIDE DEF Before
  <2>5. Cardinality(Before(f)) <= Cardinality(Before(g))
        /\ Cardinality(Before(g)) # Cardinality(Before(f))
    BY <2>1, <2>3, <2>4, FS_Subset
  <2> QED BY <2>4, <2>5
<1>5. \A x : Place(S, x) = Cardinality(Before(x))
  BY DEF Place
<1> HIDE DEF Before
<1> QED BY <1>1, <1>2, <1>3, <1>4, <1>5

(* Every place is taken, by one row.                                       *)
LEMMA PlacesTaken ==
  ASSUME NEW S, IsFiniteSet(S), Order(S)
  PROVE  /\ \A f, g \in S : Place(S, f) = Place(S, g) => f = g
         /\ \A i \in 0 .. Cardinality(S) - 1 : \E f \in S : Place(S, f) = i
<1> DEFINE n == Cardinality(S)
           r == [f \in S |-> Place(S, f)]
<1>1. n \in Nat
  BY FS_CardinalityType
<1>2. \A f \in S : Place(S, f) \in 0 .. n - 1
  BY PlaceGrows
<1>3. ASSUME NEW f \in S, NEW g \in S, Place(S, f) = Place(S, g)
      PROVE  f = g
  <2>1. ~Precedes(f, g) /\ ~Precedes(g, f)
    <3>1. Place(S, f) \in Int
      BY <1>2
    <3>2. Precedes(f, g) => Place(S, f) < Place(S, g)
      BY PlaceGrows
    <3>3. Precedes(g, f) => Place(S, g) < Place(S, f)
      BY PlaceGrows
    <3> QED BY <1>3, <3>1, <3>2, <3>3
  <2> QED BY <2>1 DEF Order
<1>4. r \in Injection(S, 0 .. n - 1)
  <2>1. r \in [S -> 0 .. n - 1]
    BY <1>2
  <2>2. \A f, g \in S : r[f] = r[g] => f = g
    BY <1>3
  <2> HIDE DEF r
  <2> QED BY <2>1, <2>2 DEF Injection, IsInjective
<1>5. IsFiniteSet(0 .. n - 1) /\ Cardinality(0 .. n - 1) = n
  <2>1. 0 \in Int /\ n - 1 \in Int
    BY <1>1
  <2>2. /\ IsFiniteSet(0 .. n - 1)
        /\ Cardinality(0 .. n - 1) = IF 0 > n - 1 THEN 0 ELSE (n - 1) - 0 + 1
    BY <2>1, FS_Interval
  <2> QED BY <1>1, <2>2
<1> HIDE DEF r
<1>6. r \in Surjection(S, 0 .. n - 1)
  BY <1>4, <1>5, FS_Injection
<1>7. \A i \in 0 .. n - 1 : \E f \in S : r[f] = i
  BY <1>6 DEF Surjection
<1>8. \A i \in 0 .. n - 1 : \E f \in S : Place(S, f) = i
  BY <1>7 DEF r
<1> QED BY <1>3, <1>8

(* The rows a page takes from the rest of the history.                     *)
PageOf(rest) == {f \in rest : Place(rest, f) < PageLimit}
RowsOf(page) == [i \in 1 .. Cardinality(page) |-> CHOOSE f \in page : Place(page, f) = i - 1]

(* A page is closed below, so places in it are places in the rest.         *)
LEMMA PagePlaces ==
  ASSUME NEW rest, IsFiniteSet(rest), Order(rest)
  PROVE  /\ PageOf(rest) \subseteq rest /\ IsFiniteSet(PageOf(rest)) /\ Order(PageOf(rest))
         /\ \A f \in PageOf(rest) : Place(PageOf(rest), f) = Place(rest, f)
<1> DEFINE page == PageOf(rest)
<1>1. page \subseteq rest /\ IsFiniteSet(page)
  BY FS_Subset DEF PageOf
<1>2. ASSUME NEW f \in page
      PROVE  Place(page, f) = Place(rest, f)
  <2>1. Place(rest, f) < PageLimit /\ f \in rest
    BY DEF PageOf
  <2>2. \A g \in rest : Place(rest, g) \in Int
    BY PlaceGrows, FS_CardinalityType
  <2>3. \A g \in rest : Precedes(g, f) => Place(rest, g) < Place(rest, f)
    BY <2>1, PlaceGrows
  <2>4. \A g \in rest : Precedes(g, f) => g \in page
    BY <2>1, <2>2, <2>3, LimitAssumption DEF PageOf
  <2>5. {g \in page : Precedes(g, f)} = {g \in rest : Precedes(g, f)}
    BY <1>1, <2>4
  <2> QED BY <2>5 DEF Place
<1> QED BY <1>1, <1>2 DEF Order

(* The rows of a page are its facts, each once ...                         *)
LEMMA RowsEnumerate ==
  ASSUME NEW page \in SUBSET Nat, IsFiniteSet(page), Order(page)
  PROVE  /\ RowsOf(page) \in Seq(Nat) /\ Len(RowsOf(page)) = Cardinality(page)
         /\ \A i \in 1 .. Cardinality(page) :
                RowsOf(page)[i] \in page /\ Place(page, RowsOf(page)[i]) = i - 1
         /\ \A f \in page : \E i \in 1 .. Cardinality(page) : RowsOf(page)[i] = f
<1> DEFINE n == Cardinality(page)
           rows == RowsOf(page)
<1>1. n \in Nat
  BY FS_CardinalityType
<1>2. ASSUME NEW i \in 1 .. n
      PROVE  rows[i] \in page /\ Place(page, rows[i]) = i - 1
  <2>1. i - 1 \in 0 .. n - 1
    BY <1>1
  <2>2. \E f \in page : Place(page, f) = i - 1
    BY <2>1, PlacesTaken
  <2>3. rows[i] = CHOOSE f \in page : Place(page, f) = i - 1
    BY DEF RowsOf
  <2> QED BY <2>2, <2>3
<1>3. rows = [i \in 1 .. n |-> rows[i]]
  BY DEF RowsOf
<1> HIDE DEF rows
<1>4. rows \in Seq(Nat) /\ Len(rows) = n
  <2>1. rows \in [1 .. n -> Nat]
    BY <1>2, <1>3
  <2> QED BY <1>1, <2>1
<1>5. ASSUME NEW f \in page
      PROVE  \E i \in 1 .. n : rows[i] = f
  <2>1. Place(page, f) \in 0 .. n - 1
    BY PlaceGrows
  <2>2. \A p \in 0 .. n - 1 : p + 1 \in 1 .. n /\ p + 1 - 1 = p
    BY <1>1
  <2> DEFINE i == Place(page, f) + 1
  <2>3. i \in 1 .. n /\ i - 1 = Place(page, f)
    BY <2>1, <2>2
  <2> HIDE DEF i
  <2>4. rows[i] \in page /\ Place(page, rows[i]) = Place(page, f)
    BY <1>2, <2>3
  <2> QED BY <2>3, <2>4, PlacesTaken
<1> QED BY <1>2, <1>4, <1>5 DEF rows

(* ... and when something is left, the cursor is the last of a full page,  *)
(* and what is left comes after it.                                        *)
LEMMA PageEnds ==
  ASSUME NEW rest \in SUBSET Nat, IsFiniteSet(rest), Order(rest), PageOf(rest) # rest
  PROVE  LET last == RowsOf(PageOf(rest))[PageLimit] IN
         /\ last \in PageOf(rest)
         /\ \A f \in PageOf(rest) : ~Precedes(last, f)
         /\ \A f \in rest \ PageOf(rest) : Precedes(last, f)
<1> DEFINE page == PageOf(rest)
           n == Cardinality(page)
           last == RowsOf(page)[PageLimit]
<1>1. /\ page \in SUBSET Nat /\ page \subseteq rest /\ IsFiniteSet(page) /\ Order(page)
      /\ \A f \in page : Place(page, f) = Place(rest, f)
  BY PagePlaces
<1>2. /\ \A f \in rest : Place(rest, f) \in 0 .. Cardinality(rest) - 1
      /\ \A f, g \in rest : Precedes(f, g) => Place(rest, f) < Place(rest, g)
      /\ Cardinality(rest) \in Nat
  BY PlaceGrows, FS_CardinalityType
<1>3. PICK x \in rest : Place(rest, x) >= PageLimit
  <2>1. PICK x \in rest : x \notin page
    BY <1>1
  <2>2. Place(rest, x) \in Int
    BY <1>2
  <2> QED BY <2>1, <2>2, LimitAssumption DEF PageOf
<1>4. PageLimit - 1 \in 0 .. Cardinality(rest) - 1
  BY <1>2, <1>3, LimitAssumption
<1>5. PICK f \in rest : Place(rest, f) = PageLimit - 1
  BY <1>4, PlacesTaken
<1>6. f \in page
  BY <1>5, LimitAssumption DEF PageOf
<1>7. PICK i \in 1 .. n : RowsOf(page)[i] = f /\ Place(page, f) = i - 1
  <2>1. \E i \in 1 .. n : RowsOf(page)[i] = f
    BY <1>1, <1>6, RowsEnumerate
  <2>2. \A i \in 1 .. n : Place(page, RowsOf(page)[i]) = i - 1
    BY <1>1, RowsEnumerate
  <2> HIDE DEF page, n
  <2> QED BY <2>1, <2>2
<1>8. last = f
  <2>1. n \in Nat
    BY <1>1, FS_CardinalityType
  <2>2. i - 1 = PageLimit - 1
    BY <1>1, <1>5, <1>6, <1>7
  <2>3. i = PageLimit
    BY <2>1, <2>2, LimitAssumption
  <2> QED BY <1>7, <2>3
<1>9. ASSUME NEW g \in page
      PROVE  ~Precedes(f, g)
  <2>1. Place(rest, g) < PageLimit /\ Place(rest, g) \in Int /\ g \in rest
    BY <1>1, <1>2 DEF PageOf
  <2>2. Precedes(f, g) => PageLimit - 1 < Place(rest, g)
    BY <1>2, <1>5, <2>1
  <2> QED BY <2>1, <2>2, LimitAssumption
<1>10. ASSUME NEW g \in rest \ page
       PROVE  Precedes(f, g)
  <2>1. Place(rest, g) >= PageLimit /\ Place(rest, g) \in Int
    BY <1>2, LimitAssumption DEF PageOf
  <2>2. ~Precedes(g, f)
    BY <1>2, <1>5, <2>1, LimitAssumption
  <2>3. f # g
    BY <1>6
  <2> QED BY <1>5, <2>2, <2>3 DEF Order
<1> QED BY <1>6, <1>8, <1>9, <1>10

-----------------------------------------------------------------------------
(*                       The reader of the fact history                    *)

(* The history of a snapshot, by number: the facts superseded before it.   *)
LEMMA HistoryByNumber ==
  ASSUME Shape, FactsFollowVerdicts, NEW s \in Nat
  PROVE  /\ History(s) = {f \in DOMAIN facts :
                             \E g \in DOMAIN facts : facts[g].supersedes = f /\ g + 1 <= s}
         /\ History(s) \in SUBSET Nat /\ IsFiniteSet(History(s)) /\ Order(History(s))
         /\ 0 \notin History(s)
<1>1. \A g \in DOMAIN facts : verdicts[facts[g].source].rev = g + 1
  BY FactsByClause DEF FactExact
<1>2. History(s) = {f \in DOMAIN facts :
                       \E g \in DOMAIN facts : facts[g].supersedes = f /\ g + 1 <= s}
  BY <1>1 DEF History
<1>3. History(s) \subseteq DOMAIN facts
  BY DEF History
<1>4. DOMAIN facts = 1 .. Len(facts) /\ Len(facts) \in Nat
  BY FactShape
<1>5. IsFiniteSet(DOMAIN facts)
  BY <1>4, FS_Interval
<1>6. IsFiniteSet(History(s))
  BY <1>3, <1>5, FS_Subset
<1>7. Order(History(s))
  BY <1>3, PrecedesOrders DEF Order
<1> QED BY <1>2, <1>3, <1>4, <1>6, <1>7

(* It is what FactsFollowVerdicts makes of the last facts of a revision.   *)
LEMMA HistoryIsSuperseded ==
  ASSUME Shape, FactsFollowVerdicts, NEW s \in Nat
  PROVE  History(s) = {f \in DOMAIN facts : FactAt(s, facts[f].key) > f}
<1>1. DOMAIN facts = 1 .. Len(facts) /\ Len(facts) \in Nat
  BY FactShape
<1> SUFFICES ASSUME NEW f \in DOMAIN facts
             PROVE  f \in History(s) <=> FactAt(s, facts[f].key) > f
  BY DEF History
<1> DEFINE K == KnownAt(s, facts[f].key)
           h == Highest(K)
<1>2. FactAt(s, facts[f].key) = h
  BY FactAtByNumber, FactsByClause
<1>3. K \in SUBSET Nat /\ \A k \in K : k <= Len(facts)
  BY <1>1 DEF KnownAt, Of
<1>4. h \in K \cup {0} /\ h \in Nat /\ \A k \in K : k <= h
  BY <1>1, <1>3, HighestIsGreatest
<1>5. ASSUME f \in History(s)
      PROVE  h > f
  <2>1. PICK g \in DOMAIN facts : facts[g].supersedes = f /\ g + 1 <= s
    BY <1>5, HistoryByNumber
  <2>2. f \in Older(g)
    BY <1>1, <2>1, ChainLink
  <2>3. f < g /\ facts[g].key = facts[f].key
    BY <1>1, <2>2 DEF Older
  <2>4. g \in K
    BY <2>1, <2>3 DEF KnownAt, Of
  <2> HIDE DEF h, K
  <2> QED BY <1>1, <1>4, <2>3, <2>4
<1>6. ASSUME h > f
      PROVE  f \in History(s)
  <2>1. h \in K
    BY <1>1, <1>4, <1>6
  <2>2. h \in DOMAIN facts /\ facts[h].key = facts[f].key /\ h + 1 <= s
    BY <2>1 DEF KnownAt, Of
  <2>3. PICK g \in DOMAIN facts : g <= h /\ facts[g].supersedes = f
    BY <1>6, <2>2, ChainUp
  <2>4. g + 1 <= s
    BY <1>1, <1>4, <2>2, <2>3
  <2> QED BY <2>3, <2>4, HistoryByNumber
<1> QED BY <1>2, <1>5, <1>6

(* A step adds facts or leaves them; what a snapshot holds is settled.     *)
LEMMA FactsGrow ==
  ASSUME Shape, [Next]_vars
  PROVE  Len(facts) <= Len(facts') /\ \A f \in DOMAIN facts : facts'[f] = facts[f]
<1>1. CASE UNCHANGED facts
  BY <1>1, FactShape
<1>2. ASSUME NEW m \in DOMAIN candidates, NEW r, ConfirmCandidate(m, r)
      PROVE  Len(facts) <= Len(facts') /\ \A f \in DOMAIN facts : facts'[f] = facts[f]
  BY <1>2, ConfirmKeepsRows, FactShape
<1>3. \/ UNCHANGED facts
      \/ \E m \in DOMAIN candidates, r \in current \cup {NoRun} : ConfirmCandidate(m, r)
  BY DEF Next, ThreadStep, CreateThread, AppendMessage, CommitMessage, RollBackMessage, Propose,
     Expire, RejectCandidate, CaseStep, ImportResearch, RejectResearch, ApproveResearch,
     ReadMessages, OpenPage, ReadPage, ClosePages, vars, factVars
<1> QED BY <1>1, <1>2, <1>3

(* The history of a snapshot that was published does not change, nor does  *)
(* the order of its rows.                                                  *)
LEMMA SnapshotStands ==
  ASSUME Shape, FactsFollowVerdicts, Shape', FactsFollowVerdicts', [Next]_vars,
         NEW s \in 1 .. revision
  PROVE  /\ History(s)' = History(s) /\ revision <= revision'
         /\ \A f, g \in History(s) : Precedes(f, g)' <=> Precedes(f, g)
<1>1. /\ DOMAIN facts = 1 .. Len(facts) /\ Len(facts) \in Nat
      /\ DOMAIN facts' = 1 .. Len(facts') /\ Len(facts') \in Nat
  BY FactShape DEF Shape
<1>2. Len(facts) <= Len(facts') /\ \A f \in DOMAIN facts : facts'[f] = facts[f]
  BY FactsGrow
<1>3. revision = Len(facts) + 1 /\ revision' = Len(facts') + 1
  BY DEF FactsFollowVerdicts
<1>4. \A g \in DOMAIN facts' : verdicts'[facts'[g].source].rev = g + 1
  BY DEF FactsFollowVerdicts
<1>5. s \in Nat
  BY <1>1, <1>3
<1>6. \A f : f \in History(s)' <=>
         f \in DOMAIN facts' /\ \E g \in DOMAIN facts' : facts'[g].supersedes = f /\ g + 1 <= s
  BY <1>4 DEF History
<1>7. \A f : f \in History(s) <=>
         f \in DOMAIN facts /\ \E g \in DOMAIN facts : facts[g].supersedes = f /\ g + 1 <= s
  BY <1>5, HistoryByNumber
<1>8. \A g \in DOMAIN facts' : g + 1 <= s => g \in DOMAIN facts
  BY <1>1, <1>2, <1>3
<1>9. ASSUME NEW g \in DOMAIN facts
      PROVE  facts[g].supersedes = 0 \/ facts[g].supersedes \in DOMAIN facts
  <2>1. facts[g].supersedes \in Older(g) \cup {0}
    BY ChainLink
  <2>2. Older(g) \subseteq DOMAIN facts
    BY <1>1 DEF Older
  <2> QED BY <2>1, <2>2
<1>10. 0 \notin DOMAIN facts' /\ DOMAIN facts \subseteq DOMAIN facts'
  BY <1>1, <1>2
<1>11. \A f : f \in History(s)' <=> f \in History(s)
  BY <1>2, <1>6, <1>7, <1>8, <1>9, <1>10
<1>12. History(s) \subseteq DOMAIN facts
  BY DEF History
<1>13. \A f, g \in History(s) : Precedes(f, g)' <=> Precedes(f, g)
  BY <1>2, <1>12 DEF Precedes
<1>14. History(s)' = History(s)
  BY <1>11 DEF History
<1>15. revision <= revision'
  BY <1>1, <1>2, <1>3
<1> QED BY <1>13, <1>14, <1>15

(* What the reader holds so far, by what is left of its history.           *)
RestOf == {f \in History(reader.snapshot) :
               reader.after = NoFact \/ Precedes(reader.after, f)}

(* Two parts of an enumeration that share nothing are one enumeration.     *)
LEMMA JoinRows ==
  ASSUME NEW s \in Seq(Nat), NEW t \in Seq(Nat),
         \A i, j \in DOMAIN s : s[i] = s[j] => i = j,
         \A i, j \in DOMAIN t : t[i] = t[j] => i = j,
         \A i \in DOMAIN s, j \in DOMAIN t : s[i] # t[j]
  PROVE  /\ s \o t \in Seq(Nat)
         /\ \A i, j \in DOMAIN (s \o t) : (s \o t)[i] = (s \o t)[j] => i = j
         /\ {(s \o t)[i] : i \in DOMAIN (s \o t)}
              = {s[i] : i \in DOMAIN s} \cup {t[i] : i \in DOMAIN t}
<1> DEFINE u == s \o t
           a == Len(s)
           b == Len(t)
<1>1. /\ a \in Nat /\ b \in Nat /\ DOMAIN s = 1 .. a /\ DOMAIN t = 1 .. b
  OBVIOUS
<1>2. /\ u \in Seq(Nat) /\ Len(u) = a + b
      /\ \A i \in 1 .. a + b : u[i] = IF i <= a THEN s[i] ELSE t[i - a]
  BY ConcatProperties
<1>3. DOMAIN u = 1 .. a + b
  BY <1>2
<1> HIDE DEF u, a, b
<1>4. ASSUME NEW i \in DOMAIN u, NEW j \in DOMAIN u, u[i] = u[j]
      PROVE  i = j
  <2>1. CASE i <= a /\ j <= a
    BY <1>1, <1>2, <1>3, <1>4, <2>1
  <2>2. CASE i > a /\ j > a
    <3>1. i - a \in DOMAIN t /\ j - a \in DOMAIN t /\ u[i] = t[i - a] /\ u[j] = t[j - a]
      BY <1>1, <1>2, <1>3, <2>2
    <3>2. i - a = j - a
      BY <1>4, <3>1
    <3> QED BY <1>1, <1>3, <3>2
  <2>3. CASE i <= a /\ j > a
    <3>1. i \in DOMAIN s /\ j - a \in DOMAIN t /\ u[i] = s[i] /\ u[j] = t[j - a]
      BY <1>1, <1>2, <1>3, <2>3
    <3> QED BY <1>4, <3>1
  <2>4. CASE i > a /\ j <= a
    <3>1. j \in DOMAIN s /\ i - a \in DOMAIN t /\ u[j] = s[j] /\ u[i] = t[i - a]
      BY <1>1, <1>2, <1>3, <2>4
    <3> QED BY <1>4, <3>1
  <2> QED BY <1>1, <1>3, <2>1, <2>2, <2>3, <2>4
<1>5. ASSUME NEW x
      PROVE  (\E i \in DOMAIN u : u[i] = x) <=> \/ \E i \in DOMAIN s : s[i] = x
                                                \/ \E i \in DOMAIN t : t[i] = x
  <2>1. ASSUME NEW i \in DOMAIN s
        PROVE  i \in DOMAIN u /\ u[i] = s[i]
    BY <1>1, <1>2, <1>3
  <2>2. ASSUME NEW i \in DOMAIN t
        PROVE  i + a \in DOMAIN u /\ u[i + a] = t[i]
    <3>1. i + a \in 1 .. a + b /\ ~(i + a <= a) /\ (i + a) - a = i
      BY <1>1
    <3> QED BY <1>2, <1>3, <3>1
  <2>3. ASSUME NEW i \in DOMAIN u
        PROVE  \/ i \in DOMAIN s /\ u[i] = s[i]
               \/ i - a \in DOMAIN t /\ u[i] = t[i - a]
    BY <1>1, <1>2, <1>3
  <2> QED BY <2>1, <2>2, <2>3
<1>6. {u[i] : i \in DOMAIN u} = {s[i] : i \in DOMAIN s} \cup {t[i] : i \in DOMAIN t}
  <2>1. ASSUME NEW i \in DOMAIN u
        PROVE  u[i] \in {s[j] : j \in DOMAIN s} \cup {t[j] : j \in DOMAIN t}
    <3>1. \/ \E j \in DOMAIN s : s[j] = u[i]
          \/ \E j \in DOMAIN t : t[j] = u[i]
      BY <1>5
    <3> QED BY <3>1
  <2>2. ASSUME NEW j \in DOMAIN s
        PROVE  s[j] \in {u[i] : i \in DOMAIN u}
    <3>1. \E i \in DOMAIN u : u[i] = s[j]
      BY <1>5
    <3> QED BY <3>1
  <2>3. ASSUME NEW j \in DOMAIN t
        PROVE  t[j] \in {u[i] : i \in DOMAIN u}
    <3>1. \E i \in DOMAIN u : u[i] = t[j]
      BY <1>5
    <3> QED BY <3>1
  <2> QED BY <2>1, <2>2, <2>3
<1> QED BY <1>2, <1>4, <1>6 DEF u

(* The next page goes on where the reader is, and leaves the cursor at its *)
(* end.                                                                    *)
LEMMA PageReads ==
  ASSUME Shape, FactsFollowVerdicts, Following, Paging, ReadPage
  PROVE  Paging'
<1> DEFINE H == History(reader.snapshot)
           page == PageOf(RestOf)
           rows == RowsOf(page)
           read == ReadSoFar
<1>1. reader.pc = "page" /\ reader.snapshot \in 1 .. revision /\ reader.snapshot \in Nat
  BY DEF ReadPage, Paging, Shape, CaseTypeOK, Revisions
<1>2. H \in SUBSET Nat /\ IsFiniteSet(H) /\ Order(H) /\ 0 \notin H
  BY <1>1, HistoryByNumber
<1>3. /\ read = {f \in H : reader.after # 0 /\ ~Precedes(reader.after, f)}
      /\ RestOf = {f \in H : reader.after = 0 \/ Precedes(reader.after, f)}
  BY <1>1 DEF ReadSoFar, RestOf
<1>4. read \cup RestOf = H /\ read \cap RestOf = {}
  BY <1>3
<1>5. RestOf \in SUBSET Nat /\ IsFiniteSet(RestOf) /\ Order(RestOf)
  BY <1>2, <1>4, FS_Subset DEF Order
<1>6. page \in SUBSET Nat /\ page \subseteq RestOf /\ IsFiniteSet(page) /\ Order(page)
  BY <1>5, PagePlaces
<1>7. reader' = [reader EXCEPT !.pc = IF page = RestOf THEN "done" ELSE "page",
                               !.after = IF page = RestOf THEN NoFact ELSE rows[PageLimit],
                               !.rows = @ \o rows]
  BY DEF ReadPage, RestOf, PageOf, RowsOf, Place
<1>8. DOMAIN reader = {"pc", "snapshot", "after", "rows"}
  BY DEF Following, Idle
<1>9. /\ reader'.pc = IF page = RestOf THEN "done" ELSE "page"
      /\ reader'.after = IF page = RestOf THEN 0 ELSE rows[PageLimit]
      /\ reader'.rows = reader.rows \o rows
      /\ reader'.snapshot = reader.snapshot
  <2> HIDE DEF page, rows
  <2> QED BY <1>7, <1>8
<1>10. /\ reader.rows \in Seq(Nat)
       /\ \A i, j \in DOMAIN reader.rows : reader.rows[i] = reader.rows[j] => i = j
       /\ {reader.rows[i] : i \in DOMAIN reader.rows} = read
       /\ reader.after \in {0} \cup read
  BY <1>1 DEF Paging
<1>11. /\ rows \in Seq(Nat) /\ Len(rows) = Cardinality(page)
       /\ \A i \in 1 .. Cardinality(page) : rows[i] \in page /\ Place(page, rows[i]) = i - 1
       /\ \A f \in page : \E i \in 1 .. Cardinality(page) : rows[i] = f
  BY <1>6, RowsEnumerate
<1>12. DOMAIN rows = 1 .. Cardinality(page)
  BY <1>11
<1>13. {rows[i] : i \in DOMAIN rows} = page
  BY <1>11, <1>12
<1>14. \A i, j \in DOMAIN rows : rows[i] = rows[j] => i = j
  <2>1. Cardinality(page) \in Nat
    BY <1>6, FS_CardinalityType
  <2> HIDE DEF rows, page
  <2>2. ASSUME NEW i \in DOMAIN rows, NEW j \in DOMAIN rows, rows[i] = rows[j]
        PROVE  i = j
    <3>1. i - 1 = j - 1 /\ i \in Int /\ j \in Int
      BY <1>11, <1>12, <2>1, <2>2
    <3> QED BY <3>1
  <2> QED BY <2>2
<1>15. \A i \in DOMAIN reader.rows, j \in DOMAIN rows : reader.rows[i] # rows[j]
  <2>1. ASSUME NEW i \in DOMAIN reader.rows, NEW j \in DOMAIN rows
        PROVE  reader.rows[i] # rows[j]
    <3>1. reader.rows[i] \in read
      BY <1>10
    <3>2. rows[j] \in RestOf
      BY <1>6, <1>11, <1>12
    <3> QED BY <1>4, <3>1, <3>2
  <2> QED BY <2>1
<1>16. H' = H /\ (\A f, g : Precedes(f, g)' <=> Precedes(f, g)) /\ revision' = revision
  BY <1>9 DEF ReadPage, History, Precedes, factVars, caseVars
<1>17. ReadSoFar' = read \cup page
  <2>1. ReadSoFar' = {f \in H : reader'.pc = "page" => /\ reader'.after # 0
                                                       /\ ~Precedes(reader'.after, f)}
    BY <1>16 DEF ReadSoFar
  <2>2. CASE page = RestOf
    BY <1>4, <1>9, <2>1, <2>2
  <2>3. CASE page # RestOf
    <3> DEFINE last == rows[PageLimit]
    <3>1. /\ last \in page /\ \A f \in page : ~Precedes(last, f)
          /\ \A f \in RestOf \ page : Precedes(last, f)
      BY <1>5, <2>3, PageEnds
    <3>2. last # 0 /\ last \in H
      BY <1>2, <1>4, <1>6, <3>1
    <3>3. ASSUME NEW f \in read
          PROVE  ~Precedes(last, f)
      <4>1. reader.after \in H /\ reader.after # 0 /\ ~Precedes(reader.after, f) /\ f \in H
        BY <1>3, <1>10
      <4>2. Precedes(reader.after, last)
        BY <1>3, <1>6, <3>1, <4>1
      <4> HIDE DEF last
      <4> QED BY <1>2, <3>2, <4>1, <4>2 DEF Order
    <3>4. reader'.pc = "page" /\ reader'.after = last
      BY <1>9, <2>3
    <3> HIDE DEF last, page, rows
    <3>5. \A f \in H : ~Precedes(last, f) <=> f \in read \cup page
      BY <1>4, <3>1, <3>3
    <3>6. read \cup page \subseteq H
      BY <1>4, <1>6
    <3> QED BY <2>1, <3>2, <3>4, <3>5, <3>6
  <2> QED BY <2>2, <2>3
<1>18. reader'.after \in {0} \cup ReadSoFar'
  <2>1. CASE page = RestOf
    BY <1>9, <2>1
  <2>2. CASE page # RestOf
    BY <1>5, <1>9, <1>17, <2>2, PageEnds
  <2> QED BY <2>1, <2>2
<1>19. /\ reader.rows \o rows \in Seq(Nat)
       /\ \A i, j \in DOMAIN (reader.rows \o rows) :
             (reader.rows \o rows)[i] = (reader.rows \o rows)[j] => i = j
       /\ {(reader.rows \o rows)[i] : i \in DOMAIN (reader.rows \o rows)} = read \cup page
  <2> HIDE DEF rows, page, read
  <2> QED BY <1>10, <1>11, <1>13, <1>14, <1>15, JoinRows
<1> HIDE DEF rows, page
<1>20. reader'.snapshot \in 1 .. revision'
  BY <1>1, <1>9, <1>16
<1>21. /\ reader'.rows \in Seq(Nat)
       /\ \A i, j \in DOMAIN reader'.rows : reader'.rows[i] = reader'.rows[j] => i = j
       /\ {reader'.rows[i] : i \in DOMAIN reader'.rows} = ReadSoFar'
  BY <1>9, <1>17, <1>19
<1> QED BY <1>18, <1>20, <1>21 DEF Paging

(* Whatever else happens, a reader of pages keeps what it has: the history *)
(* of its snapshot is settled, and so is its order.                        *)
LEMMA PagesStand ==
  ASSUME Shape, FactsFollowVerdicts, Paging, Shape', FactsFollowVerdicts', [Next]_vars,
         UNCHANGED reader
  PROVE  Paging'
<1> SUFFICES ASSUME reader.pc \in {"page", "done"} PROVE Paging'
  BY DEF Paging
<1>1. /\ reader.snapshot \in 1 .. revision
      /\ reader.rows \in Seq(Nat)
      /\ \A i, j \in DOMAIN reader.rows : reader.rows[i] = reader.rows[j] => i = j
      /\ {reader.rows[i] : i \in DOMAIN reader.rows} = ReadSoFar
      /\ reader.after \in {NoFact} \cup ReadSoFar
  BY DEF Paging
<1>2. PICK s : s = reader.snapshot
  OBVIOUS
<1>3. s \in 1 .. revision
  BY <1>1, <1>2
<1>4. /\ History(s)' = History(s) /\ revision <= revision'
      /\ \A f, g \in History(s) : Precedes(f, g)' <=> Precedes(f, g)
  BY <1>3, SnapshotStands
<1>5. revision \in Int /\ revision' \in Int
  BY DEF Shape, CaseTypeOK, Revisions
<1>6. s \in 1 .. revision'
  BY <1>3, <1>4, <1>5
<1>7. ReadSoFar' = {f \in History(s) : reader.pc = "page" => /\ reader.after # NoFact
                                                             /\ ~Precedes(reader.after, f)'}
  BY <1>2, <1>4 DEF ReadSoFar
<1>8. ReadSoFar = {f \in History(s) : reader.pc = "page" => /\ reader.after # NoFact
                                                            /\ ~Precedes(reader.after, f)}
  BY <1>2 DEF ReadSoFar
<1>9. reader.after = NoFact \/ reader.after \in History(s)
  BY <1>1, <1>8
<1>10. ReadSoFar' = ReadSoFar
  BY <1>4, <1>7, <1>8, <1>9
<1> QED BY <1>1, <1>2, <1>6, <1>10 DEF Paging

(* Every step keeps what a reader of pages has a prefix of its history.    *)
LEMMA NextPaging ==
  ASSUME Shape, FactsFollowVerdicts, Following, Paging, Shape', FactsFollowVerdicts', [Next]_vars
  PROVE  Paging'
<1>1. CASE UNCHANGED reader
  BY <1>1, PagesStand
<1>2. CASE OpenPage
  <2>1. /\ reader = Idle /\ reader' = [Idle EXCEPT !.pc = "page", !.snapshot = revision]
        /\ revision' = revision
    BY <1>2 DEF OpenPage, Following, caseVars
  <2>2. /\ reader'.pc = "page" /\ reader'.snapshot = revision /\ reader'.after = 0
        /\ reader'.rows = << >>
    BY <2>1 DEF Idle
  <2>3. ReadSoFar' = {}
    BY <2>2 DEF ReadSoFar, NoFact
  <2>4. revision' \in 1 .. revision'
    BY DEF Shape, CaseTypeOK, Revisions
  <2>5. /\ << >> \in Seq(Nat) /\ DOMAIN << >> = {}
        /\ {<< >>[i] : i \in DOMAIN << >>} = {}
    OBVIOUS
  <2>6. /\ reader'.rows \in Seq(Nat) /\ DOMAIN reader'.rows = {}
        /\ {reader'.rows[i] : i \in DOMAIN reader'.rows} = {}
    BY <2>2, <2>5
  <2>7. reader'.snapshot \in 1 .. revision' /\ reader'.after \in {NoFact}
    BY <2>1, <2>2, <2>4 DEF NoFact
  <2>8. /\ \A i, j \in DOMAIN reader'.rows : reader'.rows[i] = reader'.rows[j] => i = j
        /\ {reader'.rows[i] : i \in DOMAIN reader'.rows} = ReadSoFar'
        /\ reader'.after \in {NoFact} \cup ReadSoFar'
    BY <2>3, <2>6, <2>7
  <2> QED BY <2>6, <2>7, <2>8 DEF Paging
<1>3. CASE ReadPage
  BY <1>3, PageReads
<1>4. CASE ReadMessages
  <2>1. reader'.pc = "following"
    BY <1>4 DEF ReadMessages, Following, Idle
  <2> QED BY <2>1 DEF Paging
<1>5. CASE ClosePages
  <2>1. reader'.pc = "idle"
    BY <1>5 DEF ClosePages, Idle
  <2> QED BY <2>1 DEF Paging
<1> QED BY <1>1, <1>2, <1>3, <1>4, <1>5 DEF Next, ThreadStep, CaseStep, ImportResearch,
           RejectResearch, ApproveResearch, vars

-----------------------------------------------------------------------------
(*                          Promotions and approvals                        *)

(* The findings that approve, and ApprovalsExact by what it says of them.   *)
Approved == {c \in DOMAIN findings : findings[c].decision = "approve"}

(* A step that leaves the approvals, packs and promotions alone leaves them *)
(* exact, whatever it adds to the research and the runs.                    *)
LEMMA ApprovalsStand ==
  ASSUME Promotions, ApprovalsExact, UNCHANGED <<packs, promoted>>, Approved' = Approved,
         \A c \in Approved : findings'[c] = findings[c],
         \A c \in DOMAIN research : c \in DOMAIN research' /\ research'[c] = research[c],
         \A r \in DOMAIN runs' : \/ r \in DOMAIN runs /\ runs'[r] = runs[r]
                                 \/ \E c \in Approved : /\ findings[c].pack = runs'[r].pack
                                                        /\ research[c] <= runs'[r].rev
                                 \/ ~(runs'[r].pack > BaselinePack)
  PROVE  ApprovalsExact'
<1>1. Approved \subseteq DOMAIN research
  BY DEF Approved, Promotions
<1>2. /\ {findings[c].pack : c \in Approved} = (BaselinePack + 1) .. packs
      /\ Cardinality(Approved) = packs - BaselinePack
      /\ \A c \in Approved : promoted[research[c]] = findings[c].pack
      /\ \A r \in DOMAIN runs : runs[r].pack > BaselinePack =>
             \E c \in Approved : findings[c].pack = runs[r].pack /\ research[c] <= runs[r].rev
  BY DEF ApprovalsExact, Approved
<1>3. \A c \in Approved : research'[c] = research[c]
  BY <1>1
<1>4. \A c \in Approved : promoted'[research'[c]] = findings'[c].pack
  BY <1>2, <1>3
<1>5. ASSUME NEW r \in DOMAIN runs', runs'[r].pack > BaselinePack
      PROVE  \E c \in Approved : findings'[c].pack = runs'[r].pack /\ research'[c] <= runs'[r].rev
  <2>1. CASE r \in DOMAIN runs /\ runs'[r] = runs[r]
    BY <1>2, <1>3, <1>5, <2>1
  <2>2. CASE \E c \in Approved : findings[c].pack = runs'[r].pack /\ research[c] <= runs'[r].rev
    BY <1>3, <2>2
  <2>3. CASE ~(runs'[r].pack > BaselinePack)
    BY <1>5, <2>3
  <2> QED BY <2>1, <2>2, <2>3
<1>6. /\ {findings'[c].pack : c \in Approved'} = (BaselinePack + 1) .. packs'
      /\ Cardinality(Approved') = packs' - BaselinePack
      /\ \A c \in Approved' : promoted'[research'[c]] = findings'[c].pack
      /\ \A r \in DOMAIN runs' : runs'[r].pack > BaselinePack =>
             \E c \in Approved' : findings'[c].pack = runs'[r].pack /\ research'[c] <= runs'[r].rev
  BY <1>1, <1>2, <1>4, <1>5
<1> QED BY <1>6 DEF ApprovalsExact, Approved

(* Approvals are findings about candidates: there are finitely many, and    *)
(* each candidate is for a revision the Case has had.                       *)
LEMMA ApprovalsFinite ==
  ASSUME Promotions
  PROVE  /\ IsFiniteSet(Approved) /\ Approved \subseteq DOMAIN research
         /\ \A c \in Approved : research[c] \in 1 .. revision
<1>1. DOMAIN research = 1 .. Len(research) /\ Len(research) \in Nat
  BY DEF Promotions
<1>2. IsFiniteSet(DOMAIN research)
  BY <1>1, FS_Interval
<1>3. Approved \subseteq DOMAIN research
  BY DEF Approved, Promotions
<1> QED BY <1>2, <1>3, FS_Subset DEF Promotions

(* A rejection adds a finding that approves nothing.                        *)
LEMMA RejectKeeps ==
  ASSUME Promotions, ApprovalsExact, NEW c \in DOMAIN research, RejectResearch(c)
  PROVE  Promotions' /\ ApprovalsExact'
<1>1. /\ UNCHANGED <<packs, promoted, runs, research, revision>>
      /\ findings' = Extend(findings, c, [decision |-> "reject", pack |-> NoPack])
      /\ c \notin DOMAIN findings
  BY DEF RejectResearch, Verifiable, caseVars
<1>2. /\ DOMAIN findings' = DOMAIN findings \cup {c}
      /\ findings'[c].decision = "reject"
      /\ \A d \in DOMAIN findings : findings'[d] = findings[d]
  BY <1>1 DEF Extend
<1>3. Approved' = Approved /\ \A d \in Approved : findings'[d] = findings[d]
  BY <1>1, <1>2 DEF Approved
<1>4. Promotions'
  BY <1>1, <1>2 DEF Promotions
<1>5. ApprovalsExact'
  BY <1>1, <1>3, ApprovalsStand
<1> QED BY <1>4, <1>5

(* An approval adds one: no earlier one is for the same revision, since     *)
(* nothing was promoted for it.                                             *)
LEMMA ApproveCounts ==
  ASSUME CaseTypeOK, Promotions, ApprovalsExact, NEW c \in DOMAIN research, ApproveResearch(c)
  PROVE  Promotions' /\ ApprovalsExact'
<1>1. /\ UNCHANGED <<runs, research, revision>>
      /\ findings' = Extend(findings, c, [decision |-> "approve", pack |-> packs + 1])
      /\ c \notin DOMAIN findings /\ research[c] = revision
      /\ promoted[revision] = 0 /\ packs' = packs + 1
      /\ promoted' = [promoted EXCEPT ![revision] = packs + 1]
  BY DEF ApproveResearch, Verifiable, PromotePack, PromoteExternalEvidence, NoPack
<1>2. /\ DOMAIN findings' = DOMAIN findings \cup {c}
      /\ findings'[c] = [decision |-> "approve", pack |-> packs + 1]
      /\ \A d \in DOMAIN findings : findings'[d] = findings[d]
  BY <1>1 DEF Extend
<1>3. /\ Approved' = Approved \cup {c} /\ c \notin Approved
      /\ \A d \in Approved : findings'[d] = findings[d]
  BY <1>1, <1>2 DEF Approved
<1>4. /\ {findings[d].pack : d \in Approved} = 2 .. packs
      /\ Cardinality(Approved) = packs - 1
      /\ \A d \in Approved : promoted[research[d]] = findings[d].pack
      /\ \A r \in DOMAIN runs : runs[r].pack > 1 =>
             \E d \in Approved : findings[d].pack = runs[r].pack /\ research[d] <= runs[r].rev
  BY DEF ApprovalsExact, Approved, BaselinePack
<1>5. packs \in Nat \ {0} /\ revision \in Revisions /\ promoted \in [Revisions -> Nat]
  BY DEF Promotions, CaseTypeOK
<1>6. Promotions'
  <2>1. packs' \in Nat \ {0}
    BY <1>1, <1>5
  <2>2. \A r \in DOMAIN runs' : runs'[r].pack \in 1 .. packs'
    BY <1>1, <1>5 DEF Promotions
  <2>3. DOMAIN findings' \subseteq DOMAIN research'
    BY <1>1, <1>2 DEF Promotions
  <2> QED BY <1>1, <2>1, <2>2, <2>3 DEF Promotions
<1>7. {findings'[d].pack : d \in Approved'} = 2 .. packs'
  <2>1. {findings'[d].pack : d \in Approved'} = {findings[d].pack : d \in Approved} \cup {packs + 1}
    BY <1>2, <1>3
  <2>2. (2 .. packs) \cup {packs + 1} = 2 .. packs + 1
    BY <1>5
  <2> QED BY <1>1, <1>4, <2>1, <2>2
<1>8. Cardinality(Approved') = packs' - 1
  <2>1. Cardinality(Approved') = Cardinality(Approved) + 1
    BY <1>3, ApprovalsFinite, FS_AddElement
  <2> QED BY <1>1, <1>4, <1>5, <2>1
<1>9. ASSUME NEW d \in Approved'
      PROVE  promoted'[research'[d]] = findings'[d].pack
  <2>1. CASE d = c
    BY <1>1, <1>2, <1>5, <2>1
  <2>2. CASE d # c
    <3>1. d \in Approved
      BY <1>3, <2>2
    <3>2. promoted[research[d]] = findings[d].pack /\ findings[d].pack \in 2 .. packs
      BY <1>4, <3>1
    <3>3. research[d] # revision
      BY <1>1, <1>5, <3>2
    <3>4. promoted'[research[d]] = promoted[research[d]]
      BY <1>1, <1>5, <3>3, <3>1, ApprovalsFinite
    <3> QED BY <1>1, <1>3, <3>1, <3>2, <3>4
  <2> QED BY <2>1, <2>2
<1>10. ASSUME NEW r \in DOMAIN runs', runs'[r].pack > 1
       PROVE  \E d \in Approved' : findings'[d].pack = runs'[r].pack /\ research'[d] <= runs'[r].rev
  BY <1>1, <1>3, <1>4, <1>10
<1> QED BY <1>6, <1>7, <1>8, <1>9, <1>10 DEF ApprovalsExact, Approved, BaselinePack

(* A run is planned on a pack there is, for the revision that is planned.   *)
LEMMA RunCounts ==
  ASSUME CaseTypeOK, Promotions, ApprovalsExact, PersistRun, UNCHANGED researchVars
  PROVE  Promotions' /\ ApprovalsExact'
<1>1. PICK op \in Operations, pack \in 1 .. packs, outcome \in {"review_required", "blocked"} :
          PersistPlanningResult(Len(runs) + 1, revision, pack, lineage[revision], outcome)
  BY DEF PersistRun
<1>2. PICK run : run = [task |-> Len(runs) + 1, rev |-> revision, pack |-> pack,
                        state |-> outcome, supersedes |-> lineage[revision]]
  OBVIOUS
<1>3. /\ runs' = Append(runs, run)
      /\ UNCHANGED <<packs, promoted, research, findings, revision>>
  BY <1>1, <1>2 DEF PersistPlanningResult, researchVars
<1>4. run.pack = pack /\ run.rev = revision
  BY <1>2
<1>5. PICK R : runs \in Seq(R)
  BY DEF CaseTypeOK
<1>6. \A r \in DOMAIN runs' : \/ r \in DOMAIN runs /\ runs'[r] = runs[r]
                              \/ runs'[r] = run
  BY <1>3, <1>5
<1>7. Promotions'
  BY <1>3, <1>4, <1>6 DEF Promotions
<1>8. pack > BaselinePack => \E c \in Approved : findings[c].pack = pack /\ research[c] <= revision
  <2>1. ASSUME pack > BaselinePack
        PROVE  \E c \in Approved : findings[c].pack = pack /\ research[c] <= revision
    <3>1. pack \in (BaselinePack + 1) .. packs
      BY <2>1 DEF BaselinePack, Promotions
    <3>2. PICK c \in Approved : findings[c].pack = pack
      BY <3>1 DEF ApprovalsExact, Approved
    <3>3. research[c] \in 1 .. revision
      BY ApprovalsFinite
    <3> QED BY <3>2, <3>3
  <2> QED BY <2>1
<1>9. \A r \in DOMAIN runs' : \/ r \in DOMAIN runs /\ runs'[r] = runs[r]
                              \/ \E c \in Approved : /\ findings[c].pack = runs'[r].pack
                                                     /\ research[c] <= runs'[r].rev
                              \/ ~(runs'[r].pack > BaselinePack)
  BY <1>4, <1>6, <1>8
<1>10. Approved' = Approved /\ \A c \in Approved : findings'[c] = findings[c]
  BY <1>3 DEF Approved
<1> QED BY <1>3, <1>7, <1>9, <1>10, ApprovalsStand

(* Every step keeps promotions and approvals exact.                         *)
LEMMA NextPromotions ==
  ASSUME Shape, Shape', Promotions, ApprovalsExact, [Next]_vars
  PROVE  Promotions' /\ ApprovalsExact'
<1>1. ASSUME UNCHANGED <<packs, promoted, runs, findings>>, revision' \in Nat, revision <= revision',
             \/ UNCHANGED research
             \/ research' = Append(research, revision)
      PROVE  Promotions' /\ ApprovalsExact'
  <2>1. \A c \in DOMAIN research : c \in DOMAIN research' /\ research'[c] = research[c]
    BY <1>1 DEF Promotions
  <2>2. revision \in 1 .. revision
    BY DEF Shape, CaseTypeOK, Revisions
  <2>3. research' \in Seq(Nat) /\ \A c \in DOMAIN research' : research'[c] \in 1 .. revision
    <3>1. research \in Seq(Nat) /\ \A c \in DOMAIN research : research[c] \in 1 .. revision
      BY DEF Promotions
    <3>2. revision \in Nat
      BY DEF Shape, CaseTypeOK, Revisions
    <3>3. CASE UNCHANGED research
      BY <3>1, <3>3
    <3>4. CASE research' = Append(research, revision)
      BY <2>2, <3>1, <3>2, <3>4
    <3> QED BY <1>1, <3>3, <3>4
  <2>4. Promotions'
    <3>1. \A c \in DOMAIN research' : research'[c] \in 1 .. revision'
      BY <1>1, <2>2, <2>3
    <3> QED BY <1>1, <2>1, <2>3, <3>1 DEF Promotions
  <2>5. Approved' = Approved /\ \A c \in Approved : findings'[c] = findings[c]
    BY <1>1 DEF Approved
  <2>6. ApprovalsExact'
    BY <1>1, <2>1, <2>5, ApprovalsStand
  <2> QED BY <2>4, <2>6
<1>2. CaseTypeOK /\ revision \in Nat /\ revision' \in Nat
  <2>1. CaseTypeOK /\ CaseTypeOK'
    BY DEF Shape
  <2>2. revision \in 1 .. MaxRevision /\ revision' \in 1 .. MaxRevision
    BY <2>1 DEF CaseTypeOK, Revisions
  <2> QED BY <2>1, <2>2
<1>3. CASE UNCHANGED <<packs, promoted, runs, findings, revision, research>>
  <2>1. UNCHANGED <<packs, promoted, runs, findings>> /\ UNCHANGED research
    BY <1>3
  <2>2. revision' = revision /\ revision <= revision'
    BY <1>2, <1>3
  <2> QED BY <1>1, <1>2, <2>1, <2>2
<1>4. CASE ImportResearch
  <2>1. /\ UNCHANGED <<packs, promoted, runs, findings, revision>>
        /\ research' = Append(research, revision)
    BY <1>4 DEF ImportResearch, caseVars
  <2>2. revision <= revision'
    BY <1>2, <2>1
  <2> QED BY <1>1, <1>2, <2>1, <2>2
<1>5. ASSUME NEW c \in DOMAIN research, RejectResearch(c) \/ ApproveResearch(c)
      PROVE  Promotions' /\ ApprovalsExact'
  BY <1>2, <1>5, RejectKeeps, ApproveCounts
<1>6. CASE CaseStep
  <2>1. UNCHANGED researchVars
    BY <1>6 DEF CaseStep
  <2>2. CASE PersistRun
    BY <1>2, <2>1, <2>2, RunCounts
  <2>3. CASE ~PersistRun
    <3>1. UNCHANGED <<packs, promoted, runs, revision>>
      BY <1>6, <2>3 DEF CaseStep, BeginPlanning, StartPlanning, ReviewPlanningRun, DecideFamilyBrief
    <3> QED BY <1>3, <2>1, <3>1 DEF researchVars
  <2> QED BY <2>2, <2>3
<1>7. CASE ThreadStep
  <2>1. UNCHANGED researchVars
    BY <1>7 DEF ThreadStep
  <2>2. ASSUME NEW m, NEW r, ConfirmCandidate(m, r)
        PROVE  UNCHANGED <<packs, promoted, runs>> /\ revision' = revision + 1
    BY <2>2 DEF ConfirmCandidate, PublishRevision
  <2>3. \/ UNCHANGED caseVars
        \/ \E m, r : ConfirmCandidate(m, r)
    <3>1. CASE \E m \in DOMAIN candidates, r \in current \cup {NoRun} : ConfirmCandidate(m, r)
      BY <3>1
    <3>2. CASE \E m \in DOMAIN candidates : Expire(m) \/ RejectCandidate(m)
      BY <3>2 DEF Expire, RejectCandidate
    <3>3. CASE \/ CreateThread
               \/ \E p \in Members : Cardinality(Undecided) < MaxUndecided /\ AppendMessage(p)
               \/ \E a \in appends : CommitMessage(a) \/ RollBackMessage(a)
               \/ \E m \in Committed, k \in FactKeys : Propose(m, k)
      BY <3>3 DEF CreateThread, AppendMessage, CommitMessage, RollBackMessage, Propose
    <3> QED BY <1>7, <3>1, <3>2, <3>3 DEF ThreadStep
  <2>4. UNCHANGED <<packs, promoted, runs>> /\ (revision' = revision \/ revision' = revision + 1)
    BY <2>2, <2>3 DEF caseVars
  <2>5. revision <= revision'
    BY <1>2, <2>4
  <2> QED BY <1>1, <1>2, <2>1, <2>4, <2>5 DEF researchVars
<1>8. CASE ReadMessages \/ OpenPage \/ ReadPage \/ ClosePages \/ UNCHANGED vars
  BY <1>3, <1>8 DEF ReadMessages, OpenPage, ReadPage, ClosePages, caseVars, researchVars, vars
<1> QED BY <1>4, <1>5, <1>6, <1>7, <1>8 DEF Next

-----------------------------------------------------------------------------
(*                                Theorems                                  *)

(* The invariant: facts, thread, readers and approvals, kept together.      *)
THEOREM KnowledgeInvariant == Spec => []KnowledgeInv
<1>1. KnowledgeInv /\ [Next]_vars => KnowledgeInv'
  <2> SUFFICES ASSUME KnowledgeInv, [Next]_vars PROVE KnowledgeInv'
    OBVIOUS
  <2>1. /\ Shape /\ Numbered /\ Following /\ Paging /\ Promotions
        /\ FactsFollowVerdicts /\ ApprovalsExact
    BY DEF KnowledgeInv
  <2>2. Shape' /\ FactsFollowVerdicts'
    BY <2>1, NextFacts
  <2>3. Numbered' /\ Following'
    BY <2>1, NextNumbered, NextFollowing
  <2>4. Paging'
    BY <2>1, <2>2, NextPaging
  <2>5. Promotions' /\ ApprovalsExact'
    BY <2>1, <2>2, NextPromotions
  <2> QED BY <2>2, <2>3, <2>4, <2>5 DEF KnowledgeInv
<1> QED BY <1>1, InitKnowledge, PTL DEF Spec

(* Confirmed facts are what the verdicts say and nothing else, whatever     *)
(* expires, is overtaken or is planned meanwhile (verify_memory_candidate). *)
THEOREM FactsFollowVerdictsAlways == Spec => []FactsFollowVerdicts
<1>1. KnowledgeInv => FactsFollowVerdicts
  BY DEF KnowledgeInv
<1> QED BY <1>1, KnowledgeInvariant, PTL

(* Every pack beyond the baseline stands for one approved verdict, and a    *)
(* revision has at most one (verify_and_promote_dra_candidate).             *)
THEOREM ApprovalsExactAlways == Spec => []ApprovalsExact
<1>1. KnowledgeInv => ApprovalsExact
  BY DEF KnowledgeInv
<1> QED BY <1>1, KnowledgeInvariant, PTL

(* The rows of a sequence without repetition are as many as it is long.     *)
LEMMA RowsCounted ==
  ASSUME NEW s \in Seq(Nat), \A i, j \in DOMAIN s : s[i] = s[j] => i = j
  PROVE  Cardinality({s[i] : i \in DOMAIN s}) = Len(s)
<1> DEFINE T == {s[i] : i \in DOMAIN s}
           n == Len(s)
           g == [i \in 1 .. n |-> s[i]]
<1>1. n \in Nat /\ DOMAIN s = 1 .. n
  OBVIOUS
<1>2. g \in Bijection(1 .. n, T)
  <2>1. g \in [1 .. n -> T]
    BY <1>1
  <2>2. \A i, j \in 1 .. n : g[i] = g[j] => i = j
    BY <1>1
  <2>3. \A t \in T : \E i \in 1 .. n : g[i] = t
    BY <1>1
  <2> QED BY <2>1, <2>2, <2>3 DEF Bijection, Injection, Surjection, IsInjective
<1>3. IsFiniteSet(1 .. n) /\ Cardinality(1 .. n) = n
  BY <1>1, FS_Interval
<1>4. ExistsBijection(1 .. n, T)
  BY <1>2 DEF ExistsBijection
<1>5. Cardinality(T) = Cardinality(1 .. n)
  BY <1>3, <1>4, FS_Bijection
<1> QED BY <1>3, <1>5

(* Whoever follows the messages has all of them up to the cursor, and whoever *)
(* pages through the facts gets the history of the snapshot, each row once    *)
(* (read_collaboration_messages, read_confirmed_facts).                       *)
THEOREM ReadersCompleteAlways == Spec => []ReadersComplete
<1>1. ASSUME KnowledgeInv
      PROVE  ReadersComplete
  <2> DEFINE shown == {reader.rows[i] : i \in DOMAIN reader.rows}
  <2>1. Shape /\ Numbered /\ Following /\ Paging /\ FactsFollowVerdicts
    BY <1>1 DEF KnowledgeInv
  <2>2. Committed = 1 .. Cardinality(Committed) /\ Cardinality(Committed) \in Nat
    BY <2>1, FS_CardinalityType DEF Numbered
  <2>3. ASSUME reader.pc = "following"
        PROVE  /\ reader.rows = Ascending({n \in Committed : n <= reader.after})
               /\ \A a \in appends : a.seq > reader.after
    <3>1. PICK c : c = reader.after
      OBVIOUS
    <3>2. /\ c \in Nat /\ c <= Cardinality(Committed)
          /\ reader.rows = [i \in 1 .. c |-> i]
      BY <2>1, <2>3, <3>1 DEF Following
    <3>3. {n \in Committed : n <= c} = 0 + 1 .. c
      BY <2>2, <3>2
    <3>4. Ascending(0 + 1 .. c) = [i \in 1 .. c - 0 |-> 0 + i]
      BY <3>2, AscendingSegment
    <3>5. [i \in 1 .. c - 0 |-> 0 + i] = [i \in 1 .. c |-> i]
      BY <3>2
    <3>6. \A a \in appends : a.seq > c
      BY <2>1, <2>2, <3>2 DEF Numbered
    <3> QED BY <3>1, <3>2, <3>3, <3>4, <3>5, <3>6
  <2>4. ASSUME reader.pc \in {"page", "done"}
        PROVE  /\ Cardinality(shown) = Len(reader.rows)
               /\ shown \subseteq History(reader.snapshot)
               /\ reader.pc = "done" => shown = {f \in DOMAIN facts :
                      FactAt(reader.snapshot, facts[f].key) > f}
    <3>1. /\ reader.snapshot \in 1 .. revision
          /\ reader.rows \in Seq(Nat)
          /\ \A i, j \in DOMAIN reader.rows : reader.rows[i] = reader.rows[j] => i = j
          /\ shown = ReadSoFar
      BY <2>1, <2>4 DEF Paging
    <3>2. Cardinality(shown) = Len(reader.rows)
      BY <3>1, RowsCounted
    <3>3. shown \subseteq History(reader.snapshot)
      BY <3>1 DEF ReadSoFar
    <3>4. reader.snapshot \in Nat
      BY <2>1, <3>1 DEF Shape, CaseTypeOK, Revisions
    <3>5. History(reader.snapshot) = {f \in DOMAIN facts :
              FactAt(reader.snapshot, facts[f].key) > f}
      BY <2>1, <3>4, HistoryIsSuperseded
    <3>6. reader.pc = "done" => ReadSoFar = History(reader.snapshot)
      BY DEF ReadSoFar
    <3> QED BY <3>1, <3>2, <3>3, <3>5, <3>6
  <2> QED BY <2>2, <2>3, <2>4 DEF ReadersComplete
<1> QED BY <1>1, KnowledgeInvariant, PTL

(* No candidate is for a revision that is still to come.                    *)
Aged == \A m \in DOMAIN candidates : candidates[m].rev \in 1 .. revision

(* What a step may do to the row of a candidate and to its verdict.         *)
LEMMA CandidatesMove ==
  ASSUME Shape, Shape', [Next]_vars
  PROVE  /\ revision <= revision' /\ revision \in Nat /\ revision' \in Nat
         /\ \A m \in DOMAIN candidates : m \in DOMAIN candidates' /\ candidates'[m] = candidates[m]
         /\ \A m \in DOMAIN candidates' \ DOMAIN candidates : candidates'[m].rev = revision
         /\ \A m \in DOMAIN verdicts : m \in DOMAIN verdicts' /\ verdicts'[m] = verdicts[m]
         /\ \A m \in DOMAIN verdicts' \ DOMAIN verdicts : Projected(m) = "pending"
         /\ expired \subseteq expired'
         /\ \A m \in expired' \ expired : Projected(m) = "pending"
<1> DEFINE Goal == /\ revision <= revision'
                   /\ \A m \in DOMAIN candidates :
                         m \in DOMAIN candidates' /\ candidates'[m] = candidates[m]
                   /\ \A m \in DOMAIN candidates' \ DOMAIN candidates : candidates'[m].rev = revision
                   /\ \A m \in DOMAIN verdicts : m \in DOMAIN verdicts' /\ verdicts'[m] = verdicts[m]
                   /\ \A m \in DOMAIN verdicts' \ DOMAIN verdicts : Projected(m) = "pending"
                   /\ expired \subseteq expired'
                   /\ \A m \in expired' \ expired : Projected(m) = "pending"
<1>1. revision \in Nat /\ revision' \in Nat
  <2>1. CaseTypeOK /\ CaseTypeOK'
    BY DEF Shape
  <2>2. revision \in 1 .. MaxRevision /\ revision' \in 1 .. MaxRevision
    BY <2>1 DEF CaseTypeOK, Revisions
  <2> QED BY <2>2
<1> SUFFICES Goal
  BY <1>1
<1>2. ASSUME NEW m \in DOMAIN candidates, Decidable(m)
      PROVE  Projected(m) = "pending"
  BY <1>2 DEF Decidable, Projected
<1>3. CASE UNCHANGED <<revision, candidates, verdicts, expired>>
  BY <1>1, <1>3
<1>4. ASSUME NEW m \in Committed, NEW k \in FactKeys, Propose(m, k)
      PROVE  Goal
  BY <1>1, <1>4 DEF Propose, Extend, caseVars
<1>5. ASSUME NEW m \in DOMAIN candidates, Expire(m)
      PROVE  Goal
  BY <1>1, <1>5 DEF Expire, caseVars
<1>6. ASSUME NEW m \in DOMAIN candidates, RejectCandidate(m)
      PROVE  Goal
  <2>1. /\ Decidable(m) /\ revision' = revision /\ UNCHANGED <<candidates, expired>>
        /\ DOMAIN verdicts' = DOMAIN verdicts \cup {m}
        /\ \A v \in DOMAIN verdicts : v # m => verdicts'[v] = verdicts[v]
    BY <1>6 DEF RejectCandidate, Extend, caseVars
  <2>2. m \notin DOMAIN verdicts
    BY <2>1 DEF Decidable
  <2> QED BY <1>1, <1>2, <2>1, <2>2
<1>7. ASSUME NEW m \in DOMAIN candidates, NEW r, ConfirmCandidate(m, r)
      PROVE  Goal
  <2>1. /\ Decidable(m) /\ revision' = revision + 1 /\ UNCHANGED <<candidates, expired>>
        /\ DOMAIN verdicts' = DOMAIN verdicts \cup {m}
        /\ \A v \in DOMAIN verdicts : v # m => verdicts'[v] = verdicts[v]
    BY <1>7 DEF ConfirmCandidate, PublishRevision, Extend
  <2>2. m \notin DOMAIN verdicts
    BY <2>1 DEF Decidable
  <2> QED BY <1>1, <1>2, <2>1, <2>2
<1> HIDE DEF Goal
<1>8. CASE ThreadStep
  <2>1. CASE \/ CreateThread
             \/ \E p \in Members : Cardinality(Undecided) < MaxUndecided /\ AppendMessage(p)
             \/ \E a \in appends : CommitMessage(a) \/ RollBackMessage(a)
    BY <1>3, <2>1 DEF CreateThread, AppendMessage, CommitMessage, RollBackMessage, factVars, caseVars
  <2>2. CASE \E m \in Committed, k \in FactKeys : Propose(m, k)
    BY <1>4, <2>2
  <2>3. CASE \E m \in DOMAIN candidates : Expire(m) \/ RejectCandidate(m)
    BY <1>5, <1>6, <2>3
  <2>4. CASE \E m \in DOMAIN candidates, r \in current \cup {NoRun} : ConfirmCandidate(m, r)
    BY <1>7, <2>4
  <2> QED BY <1>8, <2>1, <2>2, <2>3, <2>4 DEF ThreadStep
<1>9. CASE CaseStep
  <2>1. revision' = revision
    BY <1>9, CaseShape DEF Shape
  <2> QED BY <1>3, <1>9, <2>1 DEF CaseStep, factVars
<1>10. CASE \E c \in DOMAIN research : RejectResearch(c) \/ ApproveResearch(c)
  BY <1>3, <1>10 DEF RejectResearch, ApproveResearch, PromotePack, PromoteExternalEvidence,
     factVars, caseVars
<1>11. CASE ImportResearch \/ ReadMessages \/ OpenPage \/ ReadPage \/ ClosePages \/ UNCHANGED vars
  BY <1>3, <1>11 DEF ImportResearch, ReadMessages, OpenPage, ReadPage, ClosePages, vars,
     factVars, caseVars
<1> QED BY <1>8, <1>9, <1>10, <1>11 DEF Next

(* A verdict is the last word, and what ran out of time or was overtaken by *)
(* a revision never gets one, for any number of messages and revisions      *)
(* (verify_memory_candidate and the projection of every read).              *)
THEOREM CandidateLifecycleAlways == Spec => CandidateLifecycle
<1> DEFINE Lives == \A m \in DOMAIN candidates :
        LET now == Projected(m) then == Projected(m)' IN
        now # then => \/ now = "pending"
                      \/ now = "expired" /\ then = "stale"
<1>1. Init => Aged
  BY DEF Init, CollaborationInit, Aged
<1>2. ASSUME Shape, Shape', Aged, [Next]_vars
      PROVE  Aged' /\ Lives
  <2>1. PICK n, p : n = revision /\ p = revision'
    OBVIOUS
  <2>2. /\ n \in Nat /\ p \in Nat /\ n <= p
        /\ \A m \in DOMAIN candidates : m \in DOMAIN candidates' /\ candidates'[m] = candidates[m]
        /\ \A m \in DOMAIN candidates' \ DOMAIN candidates : candidates'[m].rev = n
        /\ \A m \in DOMAIN verdicts : m \in DOMAIN verdicts' /\ verdicts'[m] = verdicts[m]
        /\ \A m \in DOMAIN verdicts' \ DOMAIN verdicts : Projected(m) = "pending"
        /\ expired \subseteq expired'
        /\ \A m \in expired' \ expired : Projected(m) = "pending"
    BY <1>2, <2>1, CandidatesMove
  <2>3. \A m \in DOMAIN candidates : candidates[m].rev \in 1 .. n
    BY <1>2, <2>1 DEF Aged
  <2>4. n >= 1
    BY <1>2, <2>1 DEF Shape, CaseTypeOK, Revisions
  <2>5. \A m \in DOMAIN candidates' : candidates'[m].rev \in 1 .. p
    BY <2>2, <2>3, <2>4
  <2>6. Aged'
    BY <2>1, <2>5 DEF Aged
  <2>7. ASSUME NEW m \in DOMAIN candidates, Projected(m) # Projected(m)', Projected(m) # "pending"
        PROVE  Projected(m) = "expired" /\ Projected(m)' = "stale"
    <3>1. m \notin DOMAIN verdicts /\ m \notin DOMAIN verdicts'
      BY <2>2, <2>7 DEF Projected
    <3>2. candidates'[m].rev = candidates[m].rev /\ candidates[m].rev \in 1 .. n
      BY <2>2, <2>3
    <3>3. CASE candidates[m].rev # n
      <4>1. candidates[m].rev # p
        BY <2>2, <3>2, <3>3
      <4>2. Projected(m) = "stale" /\ Projected(m)' = "stale"
        BY <2>1, <3>1, <3>2, <3>3, <4>1 DEF Projected
      <4> QED BY <2>7, <4>2
    <3>4. CASE candidates[m].rev = n /\ m \in expired
      <4>1. Projected(m) = "expired" /\ m \in expired'
        BY <2>1, <2>2, <3>1, <3>4 DEF Projected
      <4>2. Projected(m)' = IF n # p THEN "stale" ELSE "expired"
        BY <2>1, <3>1, <3>2, <3>4, <4>1 DEF Projected
      <4> QED BY <2>7, <4>1, <4>2
    <3>5. CASE candidates[m].rev = n /\ m \notin expired
      <4>1. Projected(m) = "pending"
        BY <2>1, <3>1, <3>5 DEF Projected
      <4> QED BY <2>7, <4>1
    <3> QED BY <3>3, <3>4, <3>5
  <2> QED BY <2>6, <2>7
<1>3. KnowledgeInv => Shape
  BY DEF KnowledgeInv
<1>4. Spec => [][Lives]_vars
  BY <1>1, <1>2, <1>3, KnowledgeInvariant, PTL DEF Spec
<1> QED BY <1>4 DEF CandidateLifecycle
==============================================================================
