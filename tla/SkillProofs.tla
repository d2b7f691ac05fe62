----------------------------- MODULE SkillProofs -----------------------------
(***************************************************************************)
(* For every number of versions, connections, keys and every assignment of *)
(* scopes: the chain of activations stays justified by the rows before it, *)
(* never widens the scope, pins follow it, and a command takes effect once *)
(* per key although its key is looked up before it waits.                  *)
(***************************************************************************)
EXTENDS SkillActivation, SequenceTheorems, TLAPS

(* A command that activates was read from the catalogue while the chain had *)
(* room for one more event.                                                 *)
CallsFit ==
    \A s \in Servers :
        /\ call[s] # NoCall
        /\ call[s].command.op \in {"promote", "rollback"}
        => call[s].command.sequence < MaxEvents

(* What a command on record has left behind. *)
RecordsDone ==
    \A c \in records :
        /\ c.op = "propose" => base[c.version] # 0
        /\ c.op = "evaluate" => evaluation[c.version] # "none"
        /\ c.op \in {"promote", "rollback"} => c.sequence < Len(chain)

LEMMA VersionFacts == /\ Seed \in Versions
                      /\ Versions \subseteq Nat
                      /\ 0 \notin Versions
                      /\ 0 \in 0 .. MaxVersion
                      /\ Versions \subseteq 0 .. MaxVersion
  BY VersionsAssumption DEF Versions, Seed

(* Each kind of command has the fields its guard reads. *)
LEMMA CommandFields ==
  ASSUME NEW c \in Commands
  PROVE  /\ c.op \in {"propose", "evaluate", "promote", "rollback", "create"}
         /\ c.op # "create" => c.version \in Versions
         /\ c.op \in {"promote", "rollback"} => c.sequence \in Nat
  BY DEF Commands, Propose, Evaluate, Activate, Create

(* The chain as a function on 1 .. Len(chain), and its last event. *)
LEMMA ChainFacts ==
  ASSUME SkillTypeOK
  PROVE  /\ chain \in Seq(Events)
         /\ Len(chain) \in Nat \ {0}
         /\ DOMAIN chain = 1 .. Len(chain)
         /\ \A i \in 1 .. Len(chain) : chain[i] \in Events /\ chain[i].version \in Versions
         /\ Active = chain[Len(chain)]
         /\ Active.version \in Versions
<1>1. chain \in Seq(Events) /\ Len(chain) \in Nat \ {0}
  BY BoundsAssumption DEF SkillTypeOK
<1>2. DOMAIN chain = 1 .. Len(chain) /\ chain \in [1 .. Len(chain) -> Events]
  BY <1>1, LenProperties
<1>3. \A e \in Events : e.version \in Versions
  BY DEF Events
<1> QED BY <1>1, <1>2, <1>3 DEF Active

(* What one more activation changes. *)
LEMMA Grown ==
  ASSUME SkillTypeOK, NEW e \in Events, chain' = Append(chain, e)
  PROVE  /\ chain' \in Seq(Events)
         /\ Len(chain') = Len(chain) + 1
         /\ DOMAIN chain' = 1 .. Len(chain) + 1
         /\ \A i \in 1 .. Len(chain) : chain'[i] = chain[i]
         /\ chain'[Len(chain) + 1] = e
<1>1. chain \in Seq(Events) /\ Len(chain) \in Nat
  BY ChainFacts
<1>2. chain' \in Seq(Events) /\ Len(chain') = Len(chain) + 1
  BY <1>1, AppendProperties
<1>3. DOMAIN chain' = 1 .. Len(chain')
  BY <1>2, LenProperties
<1> QED BY <1>1, <1>2, <1>3, AppendProperties

(* The same for a pin. *)
LEMMA Pinned ==
  ASSUME SkillTypeOK, NEW e \in Pins, pins' = Append(pins, e)
  PROVE  /\ pins' \in Seq(Pins)
         /\ Len(pins) \in Nat
         /\ DOMAIN pins = 1 .. Len(pins)
         /\ DOMAIN pins' = 1 .. Len(pins) + 1
         /\ \A i \in 1 .. Len(pins) : pins'[i] = pins[i] /\ pins[i] \in Pins
         /\ pins'[Len(pins) + 1] = e
<1>1. pins \in Seq(Pins)
  BY DEF SkillTypeOK
<1>2. Len(pins) \in Nat /\ DOMAIN pins = 1 .. Len(pins) /\ pins \in [1 .. Len(pins) -> Pins]
  BY <1>1, LenProperties
<1>3. pins' \in Seq(Pins) /\ Len(pins') = Len(pins) + 1
  BY <1>1, AppendProperties
<1>4. DOMAIN pins' = 1 .. Len(pins')
  BY <1>3, LenProperties
<1> QED BY <1>1, <1>2, <1>3, <1>4, AppendProperties

(* A step either leaves every row but the versions alone, or is the commit  *)
(* of the command some connection entered.                                  *)
Quiet == UNCHANGED <<base, evaluation, chain, pins, records>>

LEMMA Steps ==
  ASSUME [SkillNext]_skillVars
  PROVE  Quiet \/ \E s \in Servers : Accept(s)
  BY DEF SkillNext, skillVars, RegisterVersion, Enter, Leave, Quiet

(* The command a connection holds. *)
LEMMA Held ==
  ASSUME SkillTypeOK, NEW s \in Servers, call[s] # NoCall
  PROVE  /\ call[s] \in [command : Commands, seen : Versions]
         /\ call[s].command \in Commands
  BY DEF SkillTypeOK

-----------------------------------------------------------------------------
LEMMA TypeInit == SkillInit => SkillTypeOK /\ CallsFit
<1> SUFFICES ASSUME SkillInit PROVE SkillTypeOK /\ CallsFit
  OBVIOUS
<1>1. [kind |-> "seed", version |-> Seed, previous |-> 0] \in Events
  BY VersionFacts DEF Events, Kinds
<1>2. chain \in Seq(Events) /\ Len(chain) = 1
  BY <1>1 DEF SkillInit
<1>3. pins \in Seq(Pins)
  BY DEF SkillInit
<1>4. CallsFit
  BY DEF SkillInit, CallsFit
<1> QED
  BY <1>2, <1>3, <1>4, VersionFacts, BoundsAssumption DEF SkillInit, SkillTypeOK, Statuses

(* The five commits, each with the guard it passed and the rows it wrote. *)
Proposed(c) == /\ MayPropose(c)
               /\ base' = [base EXCEPT ![c.version] = Active.version]
               /\ UNCHANGED <<evaluation, chain, pins>>
Evaluated(c) == /\ MayEvaluate(c)
                /\ evaluation' = [evaluation EXCEPT ![c.version] = Outcome(c.version)]
                /\ UNCHANGED <<base, chain, pins>>
Activated(c) == /\ c.op = "promote" => MayPromote(c)
                /\ c.op = "rollback" => MayRollBack(c)
                /\ Append1([kind |-> c.op, version |-> c.version, previous |-> Active.version])
Created(c) == /\ c \notin records
              /\ pins' = Append(pins, Pin(c))
              /\ UNCHANGED <<base, evaluation, chain>>

LEMMA Commits ==
  ASSUME SkillTypeOK, NEW s \in Servers, Accept(s), NEW c, c = call[s].command
  PROVE  /\ call[s] # NoCall
         /\ c \in Commands
         /\ records' = records \cup {c}
         /\ call' = [call EXCEPT ![s] = NoCall]
         /\ registered' = registered
         /\ \/ c.op = "propose" /\ Proposed(c)
            \/ c.op = "evaluate" /\ Evaluated(c)
            \/ c.op \in {"promote", "rollback"} /\ Activated(c)
            \/ c.op = "create" /\ Created(c)
<1>1. call[s] # NoCall /\ records' = records \cup {c} /\ call' = [call EXCEPT ![s] = NoCall]
      /\ registered' = registered
      /\ Accepts(c, call[s].seen) /\ Write(c)
  BY DEF Accept
<1>2. c \in Commands
  BY <1>1, Held
<1>3. c.op \in {"propose", "evaluate", "promote", "rollback", "create"}
  BY <1>2, CommandFields
<1>4. CASE c.op = "propose"
  BY <1>1, <1>2, <1>4 DEF Accepts, Write, Proposed
<1>5. CASE c.op = "evaluate"
  BY <1>1, <1>2, <1>5 DEF Accepts, Write, Evaluated
<1>6. CASE c.op = "promote" \/ c.op = "rollback"
  BY <1>1, <1>2, <1>6 DEF Accepts, Write, Activated
<1>7. CASE c.op = "create"
  BY <1>1, <1>2, <1>7 DEF Accepts, Write, Created, MayCreate
<1> QED BY <1>3, <1>4, <1>5, <1>6, <1>7

(* An activation adds an event of the declared shape, within the bound. *)
LEMMA ActivationFits ==
  ASSUME SkillTypeOK, NEW c \in Commands, c.op \in {"promote", "rollback"}, Activated(c)
  PROVE  /\ c.sequence = Len(chain)
         /\ [kind |-> c.op, version |-> c.version, previous |-> Active.version] \in Events
         /\ chain' = Append(chain, [kind |-> c.op, version |-> c.version,
                                    previous |-> Active.version])
         /\ UNCHANGED <<base, evaluation, pins>>
<1>1. c.version \in Versions /\ Active.version \in Versions
  BY CommandFields, ChainFacts
<1>2. Current(c)
  BY DEF Activated, MayPromote, MayRollBack
<1> QED BY <1>1, <1>2, VersionFacts DEF Current, Activated, Append1, Events, Kinds

(* What a commit of promote or rollback does to the chain. *)
LEMMA ActivationGrows ==
  ASSUME SkillTypeOK, NEW c \in Commands, c.op \in {"promote", "rollback"}, Activated(c)
  PROVE  /\ c.sequence = Len(chain) /\ Len(chain) \in Nat
         /\ Len(chain') = Len(chain) + 1
         /\ DOMAIN chain = 1 .. Len(chain)
         /\ DOMAIN chain' = 1 .. Len(chain) + 1
         /\ \A i \in 1 .. Len(chain) : chain'[i] = chain[i]
         /\ UNCHANGED <<base, evaluation, pins>>
<1> DEFINE e == [kind |-> c.op, version |-> c.version, previous |-> Active.version]
<1>1. c.sequence = Len(chain) /\ e \in Events /\ chain' = Append(chain, e)
      /\ UNCHANGED <<base, evaluation, pins>>
  BY ActivationFits
<1>2. Len(chain) \in Nat /\ DOMAIN chain = 1 .. Len(chain)
  BY ChainFacts
<1> HIDE DEF e
<1> QED BY <1>1, <1>2, Grown

-----------------------------------------------------------------------------
(* Types: the only bound at stake is that of the chain. *)
LEMMA TypeStep == SkillTypeOK /\ CallsFit /\ [SkillNext]_skillVars => SkillTypeOK' /\ CallsFit'
<1> SUFFICES ASSUME SkillTypeOK, CallsFit, [SkillNext]_skillVars PROVE SkillTypeOK' /\ CallsFit'
  OBVIOUS
<1>1. CASE UNCHANGED skillVars
  BY <1>1 DEF skillVars, SkillTypeOK, CallsFit
<1>2. ASSUME NEW v \in Versions, RegisterVersion(v) PROVE SkillTypeOK' /\ CallsFit'
  BY <1>2 DEF RegisterVersion, SkillTypeOK, CallsFit
<1>3. ASSUME NEW s \in Servers, NEW c \in Readable, Enter(s, c) PROVE SkillTypeOK' /\ CallsFit'
  <2>1. c \in Commands /\ Active.version \in Versions
    BY ChainFacts DEF Readable
  <2>2. [command |-> c, seen |-> Active.version] \in [command : Commands, seen : Versions]
    BY <2>1
  <2>3. SkillTypeOK'
    BY <1>3, <2>2 DEF Enter, SkillTypeOK
  <2>4. c.op \in {"promote", "rollback"} => c.sequence < MaxEvents
    BY <1>3, <2>1, ChainFacts, BoundsAssumption, CommandFields DEF Enter, Readable
  <2>5. call' = [call EXCEPT ![s] = [command |-> c, seen |-> Active.version]]
    BY <1>3 DEF Enter
  <2>6. CallsFit'
    BY <2>4, <2>5 DEF CallsFit, SkillTypeOK
  <2> QED BY <2>3, <2>6
<1>4. ASSUME NEW s \in Servers, Accept(s) PROVE SkillTypeOK' /\ CallsFit'
  <2> DEFINE c == call[s].command
  <2>1. /\ call[s] # NoCall /\ c \in Commands /\ records' = records \cup {c}
        /\ call' = [call EXCEPT ![s] = NoCall] /\ registered' = registered
    BY <1>4, Commits
  <2>2. /\ registered' \subseteq Versions /\ records' \subseteq Commands
        /\ call' \in [Servers -> {NoCall} \cup [command : Commands, seen : Versions]]
    BY <2>1 DEF SkillTypeOK
  <2>3. CallsFit'
    BY <2>1 DEF CallsFit, SkillTypeOK
  <2>4. c.op # "create" => c.version \in Versions
    BY <2>1, CommandFields
  <2>5. CASE c.op = "propose" /\ Proposed(c)
    BY <2>2, <2>3, <2>4, <2>5, ChainFacts, VersionFacts DEF Proposed, SkillTypeOK
  <2>6. CASE c.op = "evaluate" /\ Evaluated(c)
    BY <2>2, <2>3, <2>4, <2>6 DEF Evaluated, SkillTypeOK, Outcome, Statuses
  <2>7. CASE c.op \in {"promote", "rollback"} /\ Activated(c)
    <3>1. /\ c.sequence = Len(chain) /\ chain' \in Seq(Events) /\ Len(chain') = Len(chain) + 1
          /\ UNCHANGED <<base, evaluation, pins>>
      BY <2>1, <2>7, ActivationFits, Grown
    <3>2. c.sequence < MaxEvents
      BY <2>1, <2>7 DEF CallsFit
    <3>3. Len(chain') \in 1 .. MaxEvents
      BY <3>1, <3>2, ChainFacts, BoundsAssumption
    <3> QED BY <2>2, <2>3, <3>1, <3>3 DEF SkillTypeOK
  <2>8. CASE c.op = "create" /\ Created(c)
    <3>1. c.key \in TaskKeys
      BY <2>1, <2>8 DEF Commands, Propose, Evaluate, Activate, Create
    <3>2. Pin(c) \in Pins
      BY <3>1, ChainFacts DEF Pin, Pins, SkillTypeOK
    <3>3. pins' \in Seq(Pins) /\ UNCHANGED <<base, evaluation, chain>>
      BY <2>8, <3>2, Pinned DEF Created
    <3> QED BY <2>2, <2>3, <3>3 DEF SkillTypeOK
  <2> QED BY <1>4, <2>5, <2>6, <2>7, <2>8, Commits
<1>5. ASSUME NEW s \in Servers, Leave(s) PROVE SkillTypeOK' /\ CallsFit'
  BY <1>5 DEF Leave, SkillTypeOK, CallsFit
<1> QED BY <1>1, <1>2, <1>3, <1>4, <1>5 DEF SkillNext

(* Rows, records and calls keep their shape, for any versions,     *)
(* scopes, keys and connections, and the chain stays within its bound       *)
(* (tables and functions of migration 0008).                                *)
THEOREM SkillsTyped == SkillSpec => []SkillTypeOK
<1>1. SkillInit => SkillTypeOK /\ CallsFit
  BY TypeInit
<1>2. SkillTypeOK /\ CallsFit /\ [SkillNext]_skillVars => (SkillTypeOK /\ CallsFit)'
  BY TypeStep
<1> QED BY <1>1, <1>2, PTL DEF SkillSpec

-----------------------------------------------------------------------------
(* The rows an event rests on are never overwritten: a candidate's base is  *)
(* set once, and its evaluation too.                                        *)
Kept == /\ \A v \in Versions : base[v] # 0 => base'[v] = base[v]
        /\ \A v \in Versions : evaluation[v] # "none" => evaluation'[v] = evaluation[v]

LEMMA ChainStep == SkillTypeOK /\ ChainJustified /\ [SkillNext]_skillVars => ChainJustified'
<1> SUFFICES ASSUME SkillTypeOK, ChainJustified, [SkillNext]_skillVars PROVE ChainJustified'
  OBVIOUS
<1>1. CASE Quiet
  BY <1>1 DEF Quiet, ChainJustified
<1>2. ASSUME NEW s \in Servers, Accept(s) PROVE ChainJustified'
  <2> DEFINE c == call[s].command
  <2>1. c \in Commands
    BY <1>2, Commits
  <2>2. c.op # "create" => c.version \in Versions
    BY <2>1, CommandFields
  <2>3. ASSUME Kept, chain' = chain PROVE ChainJustified'
    <3>1. \A i \in DOMAIN chain \ {1} : /\ i \in 1 .. Len(chain) /\ i - 1 \in 1 .. Len(chain)
                                        /\ chain[i].version \in Versions
                                        /\ chain[i - 1].version \in Versions
      BY ChainFacts
    <3>2. \A i \in DOMAIN chain \ {1} :
            chain[i].kind = "promote" => /\ base'[chain[i].version] = base[chain[i].version]
                                         /\ evaluation'[chain[i].version] = "passed"
      <4> SUFFICES ASSUME NEW i \in DOMAIN chain \ {1}, chain[i].kind = "promote"
                   PROVE  /\ base'[chain[i].version] = base[chain[i].version]
                          /\ evaluation'[chain[i].version] = "passed"
        OBVIOUS
      <4>1. /\ base[chain[i].version] = chain[i - 1].version
            /\ evaluation[chain[i].version] = "passed"
        BY DEF ChainJustified
      <4>2. chain[i].version \in Versions /\ chain[i - 1].version # 0
        BY <3>1, VersionFacts
      <4> QED BY <2>3, <4>1, <4>2 DEF Kept
    <3> QED BY <2>3, <3>2 DEF ChainJustified
  <2>4. CASE c.op = "propose" /\ Proposed(c)
    BY <2>2, <2>3, <2>4 DEF Proposed, MayPropose, Kept, SkillTypeOK
  <2>5. CASE c.op = "evaluate" /\ Evaluated(c)
    BY <2>2, <2>3, <2>5 DEF Evaluated, MayEvaluate, Kept, SkillTypeOK
  <2>6. CASE c.op \in {"promote", "rollback"} /\ Activated(c)
    <3> DEFINE e == [kind |-> c.op, version |-> c.version, previous |-> Active.version]
    <3>1. /\ e \in Events /\ chain' = Append(chain, e) /\ UNCHANGED <<base, evaluation>>
      BY <2>1, <2>6, ActivationFits
    <3>2. /\ DOMAIN chain' = 1 .. Len(chain) + 1
          /\ \A i \in 1 .. Len(chain) : chain'[i] = chain[i]
          /\ chain'[Len(chain) + 1] = e
      BY <3>1, Grown
    <3>3. Len(chain) \in Nat \ {0} /\ DOMAIN chain = 1 .. Len(chain)
          /\ Active = chain[Len(chain)]
      BY ChainFacts
    <3>4. /\ e.previous = chain[Len(chain)].version
          /\ e.version # e.previous
          /\ e.kind = "promote" => /\ base[e.version] = e.previous
                                   /\ evaluation[e.version] = "passed"
                                   /\ e.version > e.previous
          /\ e.kind = "rollback" => \E j \in 1 .. Len(chain) : chain[j].version = e.version
          /\ e.kind # "seed"
      <4>1. Active.version \in Nat /\ c.version \in Nat
        BY <2>2, <2>6, ChainFacts, VersionFacts
      <4>2. CASE c.op = "promote"
        BY <2>6, <3>3, <4>1, <4>2 DEF Activated, MayPromote
      <4>3. CASE c.op = "rollback"
        BY <2>6, <3>3, <4>1, <4>3 DEF Activated, MayRollBack
      <4> QED BY <2>6, <4>2, <4>3
    <3>5. SUFFICES ASSUME NEW i \in DOMAIN chain' \ {1}
                   PROVE  LET d == chain'[i] IN
                          /\ d.previous = chain'[i - 1].version
                          /\ d.version # d.previous
                          /\ d.kind = "promote" => /\ base'[d.version] = d.previous
                                                   /\ evaluation'[d.version] = "passed"
                                                   /\ d.version > d.previous
                          /\ d.kind = "rollback" =>
                               \E j \in 1 .. i - 1 : chain'[j].version = d.version
                          /\ d.kind # "seed"
      BY DEF ChainJustified
    <3>6. i \in Nat /\ i >= 2 /\ i - 1 \in 1 .. Len(chain) /\ chain'[i - 1] = chain[i - 1]
          /\ \A j \in 1 .. i - 1 : chain'[j] = chain[j]
      BY <3>2, <3>3
    <3>7. CASE i = Len(chain) + 1
      BY <3>1, <3>2, <3>3, <3>4, <3>6, <3>7
    <3>8. CASE i # Len(chain) + 1
      <4>1. i \in DOMAIN chain \ {1} /\ chain'[i] = chain[i]
        BY <3>2, <3>3, <3>6, <3>8
      <4> QED BY <3>1, <3>6, <4>1 DEF ChainJustified
    <3> QED BY <3>7, <3>8
  <2>7. CASE c.op = "create" /\ Created(c)
    BY <2>3, <2>7 DEF Created, Kept
  <2> QED BY <1>2, <2>4, <2>5, <2>6, <2>7, Commits
<1> QED BY <1>1, <1>2, Steps

(* Every activation is vouched for by the rows before it, for any number of *)
(* versions and connections (promote_skill_change_candidate,                *)
(* rollback_skill_activation).                                              *)
THEOREM ChainJustifiedAlways == SkillSpec => []ChainJustified
<1>1. SkillInit => ChainJustified
  BY DEF SkillInit, ChainJustified
<1>2. SkillTypeOK /\ SkillTypeOK' /\ ChainJustified /\ [SkillNext]_skillVars => ChainJustified'
  BY ChainStep
<1> QED BY <1>1, <1>2, SkillsTyped, PTL DEF SkillSpec

-----------------------------------------------------------------------------
LEMMA ScopeStep == SkillTypeOK /\ ScopeNeverGrows /\ [SkillNext]_skillVars => ScopeNeverGrows'
<1> SUFFICES ASSUME SkillTypeOK, ScopeNeverGrows, [SkillNext]_skillVars PROVE ScopeNeverGrows'
  OBVIOUS
<1>1. CASE chain' = chain
  BY <1>1 DEF ScopeNeverGrows
<1>2. ASSUME NEW s \in Servers, Accept(s), chain' # chain PROVE ScopeNeverGrows'
  <2> DEFINE c == call[s].command
             e == [kind |-> c.op, version |-> c.version, previous |-> Active.version]
  <2>1. c \in Commands /\ c.op \in {"promote", "rollback"} /\ Activated(c)
    BY <1>2, Commits DEF Proposed, Evaluated, Created
  <2>2. e \in Events /\ chain' = Append(chain, e)
    BY <2>1, ActivationFits
  <2>3. /\ Len(chain) \in DOMAIN chain /\ Active = chain[Len(chain)]
        /\ DOMAIN chain = 1 .. Len(chain) /\ Len(chain) \in Nat
    BY ChainFacts
  <2>4. Scope[c.version] \subseteq Scope[Seed]
    <3>1. CASE c.op = "promote"
      BY <2>1, <2>3, <3>1 DEF Activated, MayPromote, ScopeNeverGrows
    <3>2. CASE c.op = "rollback"
      BY <2>1, <3>2 DEF Activated, MayRollBack, ScopeNeverGrows
    <3> QED BY <2>1, <3>1, <3>2
  <2>5. /\ DOMAIN chain' = 1 .. Len(chain) + 1
        /\ \A i \in 1 .. Len(chain) : chain'[i] = chain[i]
        /\ chain'[Len(chain) + 1] = e
    BY <2>2, Grown
  <2>6. \A i \in DOMAIN chain' : i \in DOMAIN chain \/ i = Len(chain) + 1
    BY <2>3, <2>5
  <2>7. ASSUME NEW i \in 1 .. Len(chain)
        PROVE  \/ Scope[c.version] \subseteq Scope[chain[i].version]
               \/ \E k \in i + 1 .. Len(chain) + 1 : chain'[k].kind = "rollback"
    <3>1. CASE c.op = "rollback"
      <4>1. Len(chain) + 1 \in i + 1 .. Len(chain) + 1
        BY <2>3
      <4> QED BY <2>5, <3>1, <4>1
    <3>2. CASE c.op = "promote"
      <4>1. Scope[c.version] \subseteq Scope[chain[Len(chain)].version]
        BY <2>1, <2>3, <3>2 DEF Activated, MayPromote
      <4>2. CASE i = Len(chain)
        BY <4>1, <4>2
      <4>3. CASE i # Len(chain)
        <5>1. i \in 1 .. Len(chain) - 1
          <6>1. Len(chain) \in Nat
            BY ChainFacts
          <6> QED BY <4>3, <6>1
        <5>2. \/ Scope[chain[Len(chain)].version] \subseteq Scope[chain[i].version]
              \/ \E k \in i + 1 .. Len(chain) : chain[k].kind = "rollback"
          BY <2>3, <5>1 DEF ScopeNeverGrows
        <5>3. \A k \in i + 1 .. Len(chain) :
                 k \in 1 .. Len(chain) /\ k \in i + 1 .. Len(chain) + 1
          BY <2>3
        <5> QED BY <2>5, <4>1, <5>2, <5>3
      <4> QED BY <4>2, <4>3
    <3> QED BY <2>1, <3>1, <3>2
  <2>8. ASSUME NEW j \in DOMAIN chain'
        PROVE  /\ Scope[chain'[j].version] \subseteq Scope[Seed]
               /\ \A i \in 1 .. j - 1 :
                     \/ Scope[chain'[j].version] \subseteq Scope[chain'[i].version]
                     \/ \E k \in i + 1 .. j : chain'[k].kind = "rollback"
    <3>1. CASE j \in DOMAIN chain
      <4>1. \A i \in 1 .. j - 1 : /\ i \in 1 .. Len(chain)
                                  /\ \A k \in i + 1 .. j : k \in 1 .. Len(chain)
        BY <2>3, <3>1
      <4>2. chain'[j] = chain[j]
        BY <2>3, <2>5, <3>1
      <4>3. \A k \in 1 .. Len(chain) : chain'[k] = chain[k]
        BY <2>5
      <4>4. /\ Scope[chain[j].version] \subseteq Scope[Seed]
            /\ \A i \in 1 .. j - 1 :
                  \/ Scope[chain[j].version] \subseteq Scope[chain[i].version]
                  \/ \E k \in i + 1 .. j : chain[k].kind = "rollback"
        BY <3>1 DEF ScopeNeverGrows
      <4> QED BY <4>1, <4>2, <4>3, <4>4
    <3>2. CASE j = Len(chain) + 1
      <4>1. \A i \in 1 .. j - 1 : i \in 1 .. Len(chain) /\ chain'[i] = chain[i]
        BY <2>3, <2>5, <3>2
      <4>2. chain'[j].version = c.version
        BY <2>5, <3>2
      <4> QED BY <2>4, <2>7, <3>2, <4>1, <4>2
    <3> QED BY <2>6, <3>1, <3>2
  <2> QED BY <2>8 DEF ScopeNeverGrows
<1> QED BY <1>1, <1>2, Steps DEF Quiet

(* No chain of promotions and rollbacks adds a tool or a data scope to the  *)
(* seeded one, for any assignment of scopes to versions (NV020).            *)
THEOREM ScopeNeverGrowsAlways == SkillSpec => []ScopeNeverGrows
<1>1. SkillInit => ScopeNeverGrows
  BY DEF SkillInit, ScopeNeverGrows
<1>2. SkillTypeOK /\ ScopeNeverGrows /\ [SkillNext]_skillVars => ScopeNeverGrows'
  BY ScopeStep
<1> QED BY <1>1, <1>2, SkillsTyped, PTL DEF SkillSpec

-----------------------------------------------------------------------------
LEMMA PinStep == SkillTypeOK /\ PinsFollowChain /\ [SkillNext]_skillVars => PinsFollowChain'
<1> SUFFICES ASSUME SkillTypeOK, PinsFollowChain, [SkillNext]_skillVars PROVE PinsFollowChain'
  OBVIOUS
<1>1. CASE chain' = chain /\ pins' = pins
  BY <1>1 DEF PinsFollowChain
<1>2. ASSUME NEW s \in Servers, Accept(s) PROVE PinsFollowChain'
  <2> DEFINE c == call[s].command
  <2>1. c \in Commands
    BY <1>2, Commits
  <2>2. CASE c.op \in {"promote", "rollback"} /\ Activated(c)
    <3>1. /\ DOMAIN chain \subseteq DOMAIN chain' /\ pins' = pins
          /\ \A i \in DOMAIN chain : chain'[i] = chain[i]
      BY <2>1, <2>2, ActivationGrows
    <3> QED BY <3>1 DEF PinsFollowChain
  <2>3. CASE c.op = "create" /\ Created(c)
    <3>1. c.key \in TaskKeys
      BY <2>1, <2>3 DEF Commands, Propose, Evaluate, Activate, Create
    <3>2. Pin(c) \in Pins
      BY <3>1, ChainFacts DEF Pin, Pins, SkillTypeOK
    <3>3. pins' = Append(pins, Pin(c)) /\ chain' = chain
      BY <2>3 DEF Created
    <3>4. /\ Len(pins) \in Nat
          /\ DOMAIN pins = 1 .. Len(pins)
          /\ DOMAIN pins' = 1 .. Len(pins) + 1
          /\ \A i \in 1 .. Len(pins) : pins'[i] = pins[i] /\ pins[i] \in Pins
          /\ pins'[Len(pins) + 1] = Pin(c)
      BY <3>2, <3>3, Pinned
    <3>5. /\ Pin(c).sequence = Len(chain) /\ Pin(c).sequence \in DOMAIN chain
          /\ Pin(c).version = chain[Pin(c).sequence].version
      BY ChainFacts DEF Pin
    <3>6. \A t \in DOMAIN pins : pins[t].sequence <= Len(chain)
      BY ChainFacts DEF PinsFollowChain
    <3>7. \A t \in DOMAIN pins' : t \in DOMAIN pins \/ t = Len(pins) + 1
      BY <3>4
    <3>8. ASSUME NEW t \in DOMAIN pins'
          PROVE  /\ pins'[t].sequence \in DOMAIN chain
                 /\ pins'[t].version = chain[pins'[t].sequence].version
      BY <3>4, <3>5, <3>7 DEF PinsFollowChain
    <3>9. ASSUME NEW t \in DOMAIN pins', NEW u \in DOMAIN pins', t < u
          PROVE  pins'[t].sequence <= pins'[u].sequence
      <4>1. t \in DOMAIN pins
        BY <3>4, <3>9
      <4>2. CASE u \in DOMAIN pins
        BY <3>4, <3>9, <4>1, <4>2 DEF PinsFollowChain
      <4>3. CASE u = Len(pins) + 1
        BY <3>4, <3>5, <3>6, <4>1, <4>3
      <4> QED BY <3>7, <4>2, <4>3
    <3> QED BY <3>3, <3>8, <3>9 DEF PinsFollowChain
  <2> QED BY <1>1, <1>2, <2>2, <2>3, Commits DEF Proposed, Evaluated
<1> QED BY <1>1, <1>2, Steps DEF Quiet

(* A task pins an activation that exists, with its version, and pins follow *)
(* the chain in the order of creation (create_agent_task, 0017:600).        *)
THEOREM PinsFollowChainAlways == SkillSpec => []PinsFollowChain
<1>1. SkillInit => PinsFollowChain
  BY DEF SkillInit, PinsFollowChain
<1>2. SkillTypeOK /\ PinsFollowChain /\ [SkillNext]_skillVars => PinsFollowChain'
  BY PinStep
<1> QED BY <1>1, <1>2, SkillsTyped, PTL DEF SkillSpec

-----------------------------------------------------------------------------
(* A command on record finds its own trace when a second copy gets its turn. *)
LEMMA RecordStep == SkillTypeOK /\ RecordsDone /\ [SkillNext]_skillVars => RecordsDone'
<1> SUFFICES ASSUME SkillTypeOK, RecordsDone, [SkillNext]_skillVars PROVE RecordsDone'
  OBVIOUS
<1>1. CASE Quiet
  BY <1>1 DEF Quiet, RecordsDone
<1>2. ASSUME NEW s \in Servers, Accept(s) PROVE RecordsDone'
  <2> DEFINE c == call[s].command
  <2>1. c \in Commands /\ records' = records \cup {c}
    BY <1>2, Commits
  <2>2. \A d \in records \cup {c} : d \in Commands
    BY <2>1 DEF SkillTypeOK
  <2>3. /\ Kept
        /\ Len(chain') \in Nat /\ Len(chain') >= Len(chain)
        /\ c.op = "propose" => base'[c.version] # 0
        /\ c.op = "evaluate" => evaluation'[c.version] # "none"
        /\ c.op \in {"promote", "rollback"} => c.sequence < Len(chain')
    <3>1. c.op # "create" => c.version \in Versions
      BY <2>1, CommandFields
    <3>2. CASE c.op = "propose" /\ Proposed(c)
      BY <3>1, <3>2, ChainFacts, VersionFacts DEF Proposed, MayPropose, Kept, SkillTypeOK
    <3>3. CASE c.op = "evaluate" /\ Evaluated(c)
      BY <3>1, <3>3, ChainFacts DEF Evaluated, MayEvaluate, Kept, SkillTypeOK, Outcome
    <3>4. CASE c.op \in {"promote", "rollback"} /\ Activated(c)
      BY <2>1, <3>4, ActivationGrows DEF Kept
    <3>5. CASE c.op = "create" /\ Created(c)
      BY <3>5, ChainFacts DEF Created, Kept
    <3> QED BY <1>2, <3>2, <3>3, <3>4, <3>5, Commits
  <2>4. ASSUME NEW d \in records
        PROVE  /\ d.op = "propose" => base'[d.version] # 0
               /\ d.op = "evaluate" => evaluation'[d.version] # "none"
               /\ d.op \in {"promote", "rollback"} => d.sequence < Len(chain')
    <3>1. d \in Commands
      BY <2>2
    <3>2. /\ d.op # "create" => d.version \in Versions
          /\ d.op \in {"promote", "rollback"} => d.sequence \in Nat
      BY <3>1, CommandFields
    <3> QED BY <2>3, <2>4, <3>2, ChainFacts DEF RecordsDone, Kept
  <2> QED BY <2>1, <2>3, <2>4 DEF RecordsDone
<1> QED BY <1>1, <1>2, Steps

(* A command takes effect at most once per key, for any number of           *)
(* connections that wait with a copy of it (the lookups at 0008:658, :701,  *)
(* :736 and :780 come before the wait).                                     *)
THEOREM EffectOnceAlways == SkillSpec => EffectOnce
<1>1. SkillInit => RecordsDone
  BY DEF SkillInit, RecordsDone
<1>2. SkillTypeOK /\ RecordsDone /\ [SkillNext]_skillVars => RecordsDone'
  BY RecordStep
<1>3. SkillTypeOK /\ RecordsDone
      => [\A s \in Servers : Accept(s) => call[s].command \notin records]_skillVars
  <2> SUFFICES ASSUME SkillTypeOK, RecordsDone, NEW s \in Servers, Accept(s)
               PROVE  call[s].command \notin records
    OBVIOUS
  <2> DEFINE c == call[s].command
  <2>1. c \in Commands
    BY Commits
  <2>2. CASE c.op = "propose" /\ Proposed(c)
    BY <2>2 DEF Proposed, MayPropose, RecordsDone
  <2>3. CASE c.op = "evaluate" /\ Evaluated(c)
    BY <2>3 DEF Evaluated, MayEvaluate, RecordsDone
  <2>4. CASE c.op \in {"promote", "rollback"} /\ Activated(c)
    <3>1. c.sequence = Len(chain) /\ Len(chain) \in Nat
      BY <2>1, <2>4, ActivationGrows
    <3> QED BY <2>4, <3>1 DEF RecordsDone
  <2>5. CASE c.op = "create" /\ Created(c)
    BY <2>5 DEF Created
  <2> QED BY <2>2, <2>3, <2>4, <2>5, Commits
<1> QED BY <1>1, <1>2, <1>3, SkillsTyped, PTL DEF SkillSpec, EffectOnce
=============================================================================
