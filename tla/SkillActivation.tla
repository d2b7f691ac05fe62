--------------------------- MODULE SkillActivation ---------------------------
(***************************************************************************)
(* Which version of the planning Skill is active: registration of the      *)
(* versions packaged with the code, change candidates, their evaluation,   *)
(* and the append-only chain of activation events (seed, promote,          *)
(* rollback), with the tasks that pin the active event (migration 0008).   *)
(*                                                                         *)
(* A command is served in two steps.  Enter is the service and the part of *)
(* the function before it waits: promote, rollback, propose and evaluate   *)
(* look their idempotency key up, task creation reads the active version   *)
(* from the catalogue.  Accept is the part under the row lock of the Skill  *)
(* definition (promote and rollback FOR UPDATE, propose and create FOR     *)
(* SHARE) or, for evaluate, up to the unique index on the candidate.       *)
(* Between the two anybody else may commit.                                *)
(***************************************************************************)
EXTENDS Naturals, Sequences

CONSTANTS
    MaxVersion,        \* versions are 1 .. MaxVersion, ordered as the semantic versions are
    Supported,    \* the versions in the packaged runtime manifest
    Scope,        \* tools and data scopes of a version
    Passing,      \* the versions whose deterministic evaluation passes
    Keys,         \* tell two submissions of one body apart; a key belongs to one body
    TaskKeys,     \* the same for the creation of a task
    Servers,      \* connections that serve commands
    NoCall,       \* an idle connection
    MaxEvents,    \* bound on the chain
    MaxTasks      \* bound on the tasks created

Versions == 1 .. MaxVersion
Seed == 1

ASSUME VersionsAssumption == MaxVersion \in Nat \ {0}
ASSUME ManifestAssumption == Supported \subseteq Versions /\ Passing \subseteq Versions
ASSUME BoundsAssumption == MaxEvents \in Nat \ {0} /\ MaxTasks \in Nat

VARIABLES
    registered,   \* skill_versions
    base,         \* skill_change_candidates: base of the candidate for a version, 0 is none
    evaluation,   \* skill_evaluation_results of that candidate
    chain,        \* skill_activation_events by activation_sequence
    pins,         \* the pinned columns of agent_tasks in order of creation
    records,      \* idempotency_records: the commands that took effect
    call          \* the command each connection has entered

skillVars == <<registered, base, evaluation, chain, pins, records, call>>

-----------------------------------------------------------------------------
Statuses == {"none", "passed", "failed"}
Kinds == {"seed", "promote", "rollback"}

Propose == [op : {"propose"}, version : Versions, key : Keys]
Evaluate == [op : {"evaluate"}, version : Versions, key : Keys]
Activate == [op : {"promote", "rollback"}, version : Versions, key : Keys,
             active : Versions, sequence : 1 .. MaxEvents]
Create == [op : {"create"}, key : TaskKeys]
Commands == Propose \cup Evaluate \cup Activate \cup Create

Events == [kind : Kinds, version : Versions, previous : 0 .. MaxVersion]
Pins == [sequence : 1 .. MaxEvents, version : Versions, key : TaskKeys]

Active == chain[Len(chain)]

(* The references a caller can have read from the catalogue, now or earlier. *)
Readable == { c \in Commands :
                c.op \in {"promote", "rollback"}
                  => /\ c.sequence \in DOMAIN chain
                     /\ c.active = chain[c.sequence].version }

SkillTypeOK ==
    /\ registered \subseteq Versions
    /\ base \in [Versions -> 0 .. MaxVersion]
    /\ evaluation \in [Versions -> Statuses]
    /\ chain \in Seq(Events)
    /\ Len(chain) \in 1 .. MaxEvents
    /\ pins \in Seq(Pins)
    /\ records \subseteq Commands
    /\ call \in [Servers -> {NoCall} \cup [command : Commands, seen : Versions]]

SkillInit ==
    /\ registered = {Seed}
    /\ base = [v \in Versions |-> 0]
    /\ evaluation = [v \in Versions |-> "none"]
    /\ chain = <<[kind |-> "seed", version |-> Seed, previous |-> 0]>>
    /\ pins = <<>>
    /\ records = {}
    /\ call = [s \in Servers |-> NoCall]

-----------------------------------------------------------------------------
(* The rows a command needs, once it holds its lock. *)
(* A slip: no unique index keeps one candidate per version. *)
ProposeAgain(c) ==
    /\ c.version \in registered \ {Seed}
    /\ Active.version # c.version

MayPropose(c) ==
    /\ c.version \in registered \ {Seed}
    /\ Active.version # c.version
    /\ base[c.version] = 0

MayEvaluate(c) ==
    /\ base[c.version] # 0
    /\ evaluation[c.version] = "none"

Current(c) == c.sequence = Len(chain) /\ c.active = Active.version

(* A slip: the candidate is not compared with the version active now. *)
PromoteAnyBase(c) ==
    /\ base[c.version] # 0
    /\ Current(c)
    /\ evaluation[c.version] = "passed"
    /\ c.version > Active.version
    /\ Scope[c.version] \subseteq Scope[Active.version]

(* A slip: the scope of the candidate is not compared. *)
PromoteAnyScope(c) ==
    /\ base[c.version] # 0
    /\ Current(c)
    /\ base[c.version] = Active.version
    /\ evaluation[c.version] = "passed"
    /\ c.version > Active.version

MayPromote(c) ==
    /\ base[c.version] # 0
    /\ Current(c)
    /\ base[c.version] = Active.version
    /\ evaluation[c.version] = "passed"
    /\ c.version > Active.version
    /\ Scope[c.version] \subseteq Scope[Active.version]

MayRollBack(c) ==
    /\ Current(c)
    /\ c.version # Active.version
    /\ \E i \in DOMAIN chain : chain[i].version = c.version

(* create_agent_task takes an advisory lock on the key before it looks it   *)
(* up, and compares the active version with the one its caller resolved.   *)
MayCreate(c, seen) == c \notin records /\ seen = Active.version

Accepts(c, seen) ==
    \/ c.op = "propose" /\ MayPropose(c)
    \/ c.op = "evaluate" /\ MayEvaluate(c)
    \/ c.op = "promote" /\ MayPromote(c)
    \/ c.op = "rollback" /\ MayRollBack(c)
    \/ c.op = "create" /\ MayCreate(c, seen)

(* A slip: the activation is found by its version, not as the latest one. *)
PinFirst(c) ==
    LET i == CHOOSE i \in DOMAIN chain :
                 /\ chain[i].version = Active.version
                 /\ \A j \in 1 .. i - 1 : chain[j].version # Active.version
    IN [sequence |-> i, version |-> Active.version, key |-> c.key]

Pin(c) == [sequence |-> Len(chain), version |-> Active.version, key |-> c.key]

(* The writes. *)
(* The assertions of the packaged dataset, evaluated before the function is called. *)
Outcome(v) == IF v \in Passing THEN "passed" ELSE "failed"

Append1(event) == chain' = Append(chain, event) /\ UNCHANGED <<base, evaluation, pins>>

Write(c) ==
    \/ /\ c.op = "propose"
       /\ base' = [base EXCEPT ![c.version] = Active.version]
       /\ UNCHANGED <<evaluation, chain, pins>>
    \/ /\ c.op = "evaluate"
       /\ evaluation' = [evaluation EXCEPT
                           ![c.version] = Outcome(c.version)]
       /\ UNCHANGED <<base, chain, pins>>
    \/ /\ c.op \in {"promote", "rollback"}
       /\ Append1([kind |-> c.op, version |-> c.version, previous |-> Active.version])
    \/ /\ c.op = "create"
       /\ pins' = Append(pins, Pin(c))
       /\ UNCHANGED <<base, evaluation, chain>>

-----------------------------------------------------------------------------
(* register_skill_version.py, run by an operator. *)
RegisterVersion(v) ==
    /\ v \in Supported \ registered
    /\ registered' = registered \cup {v}
    /\ UNCHANGED <<base, evaluation, chain, pins, records, call>>

(* The service refuses a version the packaged registry does not know. *)
Packaged(c) == IF c.op = "create" THEN Active.version \in Supported
                                  ELSE c.version \in Supported

(* A command on record is answered with what the first call did and changes *)
(* nothing, so only the commands that are not on record enter.              *)
Enter(s, c) ==
    /\ call[s] = NoCall
    /\ c \notin records
    /\ Packaged(c)
    /\ c.op \in {"promote", "rollback"} => Len(chain) < MaxEvents
    /\ c.op = "create" => Len(pins) < MaxTasks
    /\ call' = [call EXCEPT ![s] = [command |-> c, seen |-> Active.version]]
    /\ UNCHANGED <<registered, base, evaluation, chain, pins, records>>

Accept(s) ==
    LET c == call[s].command IN
    /\ call[s] # NoCall
    /\ Accepts(c, call[s].seen)
    /\ Write(c)
    /\ records' = records \cup {c}
    /\ call' = [call EXCEPT ![s] = NoCall]
    /\ UNCHANGED registered

(* The rows refuse the command (create finds its key after all), the        *)
(* connection breaks or the caller goes away: the transaction rolls back.   *)
Leave(s) ==
    /\ call[s] # NoCall
    /\ call' = [call EXCEPT ![s] = NoCall]
    /\ UNCHANGED <<registered, base, evaluation, chain, pins, records>>

SkillNext ==
    \/ \E v \in Versions : RegisterVersion(v)
    \/ \E s \in Servers : \/ \E c \in Readable : Enter(s, c)
                          \/ Accept(s)
                          \/ Leave(s)

SkillSpec == SkillInit /\ [][SkillNext]_skillVars

-----------------------------------------------------------------------------
(* Every activation is vouched for by the rows before it: the chain has no  *)
(* gap and no fork; a promoted version was proposed against the version it  *)
(* replaces, is newer and passed its evaluation; a rollback goes to another *)
(* version that was active before.  Base and evaluation were written by     *)
(* earlier commands, while other promotions and rollbacks were committed    *)
(* (promote_skill_change_candidate, rollback_skill_activation).             *)
ChainJustified ==
    \A i \in DOMAIN chain \ {1} :
        LET e == chain[i] IN
        /\ e.previous = chain[i - 1].version
        /\ e.version # e.previous
        /\ e.kind = "promote" => /\ base[e.version] = e.previous
                                 /\ evaluation[e.version] = "passed"
                                 /\ e.version > e.previous
        /\ e.kind = "rollback" => \E j \in 1 .. i - 1 : chain[j].version = e.version
        /\ e.kind # "seed"

(* No sequence of promotions and rollbacks activates a tool or a data scope *)
(* the seeded version does not have, and one that an active version lacked  *)
(* comes back through a rollback only, although each promotion is compared  *)
(* with the version active at its own time alone (0008:760, NV020).         *)
ScopeNeverGrows ==
    \A j \in DOMAIN chain :
        /\ Scope[chain[j].version] \subseteq Scope[Seed]
        /\ \A i \in 1 .. j - 1 :
              \/ Scope[chain[j].version] \subseteq Scope[chain[i].version]
              \/ \E k \in i + 1 .. j : chain[k].kind = "rollback"

(* A task pins an activation that exists, with the version it activated,    *)
(* and no task created later pins an older one: creation and activation     *)
(* are linearized by the lock on the definition (0017:600).                 *)
PinsFollowChain ==
    /\ \A t \in DOMAIN pins : /\ pins[t].sequence \in DOMAIN chain
                              /\ pins[t].version = chain[pins[t].sequence].version
    /\ \A t, u \in DOMAIN pins : t < u => pins[t].sequence <= pins[u].sequence

(* A command takes effect at most once per idempotency key, although every  *)
(* function but create_agent_task looks the key up before it waits: the     *)
(* expected sequence and the unique indexes decide for the second copy.     *)
EffectOnce == [][\A s \in Servers : Accept(s) => call[s].command \notin records]_skillVars
=============================================================================
