----------------------------- MODULE DemoDatabase -----------------------------
(* The demo database between its writers: the migrations, which alembic     *)
(* moves up and down one at a time, the seed (scripts/seed_demo.py and the  *)
(* functions it calls), which compose runs before every start of the api    *)
(* and the worker, and the people who work on what was seeded in between.   *)
(*                                                                          *)
(* A Case is what the seed compares of it: a record of its state, its       *)
(* revision and the rows that hang on it.  The two plan execution Cases     *)
(* and the two planning revision Cases are seeded by one function each and  *)
(* stand here as one Case each.  The seed runs in one transaction           *)
(* (engine.begin), so a step of it is whole or did not happen.              *)
EXTENDS Naturals

CONSTANT MaxMoves      \* bound: how often people act

VARIABLES
    schema,     \* the migration the database is at
    db,         \* what the tables hold
    touched,    \* what people did, by Case
    moves       \* how often people acted

demoVars == <<schema, db, touched, moves>>

OldestSchema == 6      \* bound: the migration the model starts at and goes down to
LatestSchema == 17

DemoCases == {"default", "connected", "plan", "revision", "intake",
              "primary", "active", "stale", "expired"}
Conversations == {"primary", "active", "stale", "expired"}

NoDemoCase == [state |-> "none", revision |-> 0, thread |-> FALSE, talk |-> FALSE,
               offer |-> FALSE, chains |-> 0, runs |-> 0, task |-> "none", pin |-> 0,
               retried |-> FALSE, lineage |-> FALSE, executed |-> FALSE]
Here(d, c) == d.cases[c].state # "none"

(* activation is the current activation of the planning Skill, 0 where the *)
(* catalog is empty; ok turns FALSE where a statement of the seed raises.  *)
EmptyDatabase == [cases |-> [c \in DemoCases |-> NoDemoCase], principals |-> {},
                  packs |-> {}, activation |-> 0, research |-> {}, ok |-> TRUE]

DemoInit ==
    /\ schema = OldestSchema
    /\ db = EmptyDatabase
    /\ touched = [c \in DemoCases |-> {}]
    /\ moves = 0

Require(d, holds) == [d EXCEPT !.ok = @ /\ holds]

(* What the migrations bring, for the guards below.                         *)
HasTalk == schema >= 7              \* threads, messages, candidates, facts
HasCatalog == schema >= 8           \* Skills, and the pins of tasks
HasExplicitStart == schema >= 9     \* planning started from an intake Case
HasLineage == schema >= 12          \* runs sent back and superseded
HasCountriesSeed == schema >= 13
HasExecutions == schema >= 14
HasScenarioKeys == schema >= 15     \* the principals of the plan Cases
HasRetries == schema >= 16          \* and the seed of the budget
HasIntake == schema >= 17
-------------------------------------------------------------------------------
(* The seed: identity, Skills, default and connected Case                   *)

(* The scenario principals need the keys that 0015 admits.                  *)
SeedIdentity(d, scenario) ==
    LET all == {"basic"} \cup IF scenario THEN {"scenario"} ELSE {}
    IN Require([d EXCEPT !.principals = @ \cup all], scenario => HasScenarioKeys)

(* Only seed rows are counted, so later versions and activations do not     *)
(* disturb it: activation 1 is and stays the seed's.                        *)
SeedSkills(d) ==
    Require([d EXCEPT !.activation = IF @ = 0 THEN 1 ELSE @], HasCatalog)

(* INSERT ... ON CONFLICT DO NOTHING, and current_revision only where NULL. *)
Planted(d, c, state) ==
    IF Here(d, c) THEN d
    ELSE [d EXCEPT !.cases[c] = [NoDemoCase EXCEPT !.state = state, !.revision = 1]]

SeedDefaultCase(d) ==
    [Planted(d, "default", "planning") EXCEPT !.packs = @ \cup {"baseline"}]

(* A run that ends in review_required takes its Case to the advisor.        *)
RunAdded(d, c) == [d EXCEPT !.cases[c].runs = @ + 1, !.cases[c].state = "advisor_review"]

SeedDefaultRun(d) == IF d.cases["default"].runs > 0 THEN d ELSE RunAdded(d, "default")

SeedTaskCase(d) == Planted(d, "connected", "planning")
-------------------------------------------------------------------------------
(* The seed: plan execution Cases                                           *)

(* The Case has one run and it is the default Case's.                       *)
ExactSnapshot(d, c) == d.cases[c].runs = 1 /\ d.cases["default"].runs > 0

ExactPlan(d) ==
    /\ HasExecutions
    /\ ExactSnapshot(d, "plan")
    /\ d.cases["plan"].state = "plan_ready"
    /\ d.cases["plan"].revision = 1
    /\ ~d.cases["plan"].executed

(* The run comes with its review, the review with a brief.                  *)
ApprovedPlan(d) == RunAdded(Planted(d, "plan", "planning"), "plan")

(* The handoffs: advisor, family, timeline.                                 *)
Hand(e, from, to) ==
    [Require(e, e.cases["plan"].state = from) EXCEPT !.cases["plan"].state = to]
HandedOver(d) ==
    Hand(Hand(Hand(d, "advisor_review", "family_review"), "family_review", "decided"),
         "decided", "plan_ready")

SeedPlan(d) ==
    LET e == IF Here(d, "plan") THEN d ELSE HandedOver(ApprovedPlan(d))
    IN Require(e, ExactPlan(e))
-------------------------------------------------------------------------------
(* The seed: planning revision Cases                                        *)

SeedThread(d, c) == [d EXCEPT !.cases[c].thread = TRUE]

(* seed_demo_planning_revision_fact: message, candidate, verification and   *)
(* fact, inserted into a new thread or found there and compared.            *)
FactReady(d, c) ==
    /\ d.cases[c].state = "planning"
    /\ d.cases[c].revision = 1
    /\ d.cases[c].thread
ExactFact(d, c) == d.cases[c].chains = 1 /\ ~d.cases[c].talk
CountriesFact(d) ==
    LET e == IF d.cases["revision"].chains > 0 \/ d.cases["revision"].talk THEN d
             ELSE [d EXCEPT !.cases["revision"].chains = 1]
    IN Require(e, HasCountriesSeed /\ FactReady(e, "revision") /\ ExactFact(e, "revision"))

(* seed_demo_intake_revision does the same for the intake Case.             *)
IntakeReady(d) == FactReady(d, "intake")
ExactIntakeFact(d) == ExactFact(d, "intake")
IntakeFact(d) ==
    LET e == IF d.cases["intake"].chains > 0 \/ d.cases["intake"].talk THEN d
             ELSE [d EXCEPT !.cases["intake"].chains = 1]
    IN Require(e, HasIntake /\ IntakeReady(e) /\ ExactIntakeFact(e))

(* seed_demo_planning_revision_budget: the second fact, on a Case without   *)
(* work and beside the exact first one.                                     *)
BudgetReady(d) ==
    /\ FactReady(d, "revision")
    /\ ~d.cases["revision"].lineage
    /\ d.cases["revision"].runs = 0
    /\ d.cases["revision"].task = "none"
ExactBudgetFacts(d) == d.cases["revision"].chains = 2 /\ ~d.cases["revision"].talk
BudgetFact(d) ==
    LET e == IF d.cases["revision"].chains > 1 \/ d.cases["revision"].talk THEN d
             ELSE [d EXCEPT !.cases["revision"].chains = @ + 1]
    IN Require(e, HasRetries /\ BudgetReady(e) /\ ExactBudgetFacts(e))

(* A copy of the default Case's run.                                        *)
ClonedSnapshot(d, c) == Require(d, d.cases["default"].runs > 0 /\ d.cases[c].runs = 0)

(* The task that made it, without a pin; the run's end moves the Case.      *)
ReviewedTask(d, c) == [RunAdded(d, c) EXCEPT !.cases[c].task = "waiting", !.cases[c].pin = 0]

BuiltRevision(d, c) ==
    LET started == SeedThread(Planted(d, c, "planning"), c)
        facts == IF c = "intake" THEN IntakeFact(started)
                 ELSE BudgetFact(CountriesFact(started))
    IN ReviewedTask(ClonedSnapshot(facts, c), c)

(* Every table is counted: one row more and the seed refuses.  The rows of  *)
(* the first fact are counted among all of the intake Case; those of the    *)
(* planning revision Case where the budget's are.                           *)
ExactCase(d, c) ==
    /\ d.cases[c].state = "advisor_review"
    /\ d.cases[c].revision = 1
    /\ ~d.cases[c].lineage
    /\ d.cases[c].thread
ExactConversation(d, c) ==
    /\ d.cases[c].chains > 0
    /\ c = "intake" => d.cases[c].chains = 1 /\ ~d.cases[c].talk
ExactBudget(d) == d.cases["revision"].chains = 2 /\ ~d.cases["revision"].talk
ExactTask(d, c) ==
    /\ d.cases[c].task = "waiting"
    /\ d.cases[c].pin = 0
    /\ ~d.cases[c].retried
ExactRevision(d, c) ==
    /\ HasLineage          \* the columns it reads
    /\ ExactCase(d, c)
    /\ ExactConversation(d, c)
    /\ c = "revision" => ExactBudget(d)
    /\ ExactSnapshot(d, c)
    /\ ExactTask(d, c)

SeedRevision(d, c) ==
    IF Here(d, c) THEN Require(d, ExactRevision(d, c)) ELSE BuiltRevision(d, c)

(* assert_controlled_intake_source: the pack, its entries and its evidence. *)
ControlledSource(d) == HasIntake /\ "intake" \in d.packs
SeedIntakeSource(d) ==
    LET e == [d EXCEPT !.packs = @ \cup {"intake"}] IN Require(e, ControlledSource(e))
-------------------------------------------------------------------------------
(* The seed: conversations                                                  *)

ConversationCases(d) ==
    LET opening == [primary |-> "intake", active |-> "planning",
                    stale |-> "intake", expired |-> "intake"]
        e == Planted(Planted(Planted(Planted(d, "primary", "intake"), "active", "planning"),
                             "stale", "intake"), "expired", "intake")
    IN Require(e, \A c \in Conversations :
                     /\ e.cases[c].state = opening[c]
                     /\ e.cases[c].revision \in {1} \cup (IF c = "stale" THEN {2} ELSE {}))

(* 0008: a task that 0007 seeded stays as it was and unpinned.              *)
LegacyTask(d) == d.cases["active"].task = "waiting" /\ d.cases["active"].pin = 0
ExactLegacyTask(d) == LegacyTask(d) /\ d.cases["active"].runs = 0

(* 0007's seed_demo_collaboration: the task of the active Case; 0008 wraps  *)
(* it and compares a task it finds with an unpinned one ...                 *)
SeedActiveTask(d) ==
    LET e == IF d.cases["active"].task # "none" THEN d
             ELSE [d EXCEPT !.cases["active"].task = "waiting"]
    IN Require(e, /\ e.cases["active"].task = "waiting"
                  /\ e.cases["active"].runs = 0
                  /\ "baseline" \in e.packs)
WrappedActiveTask(d) ==
    Require(SeedActiveTask(d), d.cases["active"].task # "none" => ExactLegacyTask(d))

(* ... and the message and candidate of the stale and the expired one.      *)
SeedOffer(d, c) == [SeedThread(d, c) EXCEPT !.cases[c].offer = TRUE]

(* A slip: the task is pinned to the activation in force.                  *)
CurrentPin(d) == d.activation

(* 0008's seed_demo_pinned_collaboration_task: the seed's activation, and   *)
(* not the current one.                                                     *)
SeedPin(d) == 1

SeedPinnedTask(d) ==
    LET active == d.cases["active"]
        e == IF active.task # "none" THEN d
             ELSE [d EXCEPT !.cases["active"].task = "waiting",
                            !.cases["active"].pin = SeedPin(d)]
    IN Require(e, /\ d.activation > 0
                  /\ active.state = "planning" /\ active.revision = 1 /\ active.thread
                  /\ "baseline" \in d.packs
                  /\ e.cases["active"].task = "waiting"
                  /\ e.cases["active"].pin = SeedPin(d)
                  /\ e.cases["active"].runs = 0)

(* classify_active_task_pin: a legacy task is compared, any other needs the *)
(* pin, which a seed without Skills does not have.                          *)
SeedActive(d, skills) ==
    LET e == SeedThread(d, "active") IN
    IF ~HasCatalog THEN SeedActiveTask(e)
    ELSE IF LegacyTask(d) THEN WrappedActiveTask(e)
    ELSE Require(SeedPinnedTask(e), skills)

PublishStale(d) ==
    IF d.cases["stale"].revision # 1 THEN d ELSE [d EXCEPT !.cases["stale"].revision = 2]

SeedCollaboration(d, skills) ==
    LET opened == SeedThread(ConversationCases(d), "primary")
        offered == SeedOffer(SeedOffer(SeedActive(opened, skills), "stale"), "expired")
        e == PublishStale(offered)
    IN Require(e, HasTalk /\ e.cases["default"] = d.cases["default"])
-------------------------------------------------------------------------------
(* The seed                                                                 *)

(* The command line: --identity-only leaves "planning" out, --without-x     *)
(* leaves x out, --with-intake-revision puts "intake" in.                   *)
Parts == {"planning", "skills", "plan", "revision", "intake", "collaboration"}
Seeds == { f \in SUBSET Parts : "planning" \notin f => f \subseteq {"plan"} }

Part(f, part, with, without) == IF part \in f THEN with ELSE without

SeedDemo(f, start) ==
    LET d0 == Require(start, "intake" \in f => {"planning", "skills"} \subseteq f)
        d1 == SeedIdentity(d0, "plan" \in f)
        d2 == Part(f, "skills", SeedSkills(d1), d1)
        d3 == SeedTaskCase(SeedDefaultRun(SeedDefaultCase(d2)))
        d4 == Part(f, "plan", SeedPlan(d3), d3)
        d5 == Part(f, "revision", SeedRevision(d4, "revision"), d4)
        d6 == Part(f, "intake", SeedRevision(SeedIntakeSource(d5), "intake"), d5)
    IN IF "planning" \notin f THEN d1
       ELSE Part(f, "collaboration", SeedCollaboration(d6, "skills" \in f), d6)

(* A statement that raises rolls all of it back.                            *)
RunSeed(f) ==
    LET d == SeedDemo(f, db) IN
    /\ d.ok
    /\ db' = d
    /\ UNCHANGED <<schema, touched, moves>>
-------------------------------------------------------------------------------
(* The migrations                                                           *)

SeededRows(d) == {d.cases[c] : c \in {c \in DemoCases : Here(d, c)}}

(* What a downgrade finds, and refuses to lose.                             *)
IntakeHistory(d) == "intake" \in d.packs \/ Here(d, "intake")
RetryHistory(d) == \E r \in SeededRows(d) : r.retried
ScenarioIdentity(d) == "scenario" \in d.principals
ExecutionHistory(d) == \E r \in SeededRows(d) : r.executed
LineageHistory(d) == \E r \in SeededRows(d) : r.lineage
StrictHistory(d) == "strict" \in d.research
LiveHistory(d) == "v0.1.6" \in d.research
PinHistory(d) == \E r \in SeededRows(d) : r.pin > 0
TaskPinsOnly(d) == PinHistory(d)         \* a slip: not the catalog
SkillHistory(d) == PinHistory(d) \/ d.activation > 1
TalkHistory(d) == \E r \in SeededRows(d) : r.thread \/ r.talk \/ r.offer \/ r.chains > 0

(* The migrations with a guard, by the level they take away.                *)
Guarded(d, level) ==
    \/ level = 17 /\ IntakeHistory(d)
    \/ level = 16 /\ RetryHistory(d)
    \/ level = 15 /\ ScenarioIdentity(d)
    \/ level = 14 /\ ExecutionHistory(d)
    \/ level = 12 /\ LineageHistory(d)
    \/ level = 11 /\ StrictHistory(d)
    \/ level = 10 /\ LiveHistory(d)
    \/ level = 8 /\ SkillHistory(d)
    \/ level = 7 /\ TalkHistory(d)

(* The columns and tables that go with a level.                             *)
WithoutRetries(r) == [r EXCEPT !.retried = FALSE]
WithoutExecutions(r) == [r EXCEPT !.executed = FALSE]
WithoutLineage(r) == [r EXCEPT !.lineage = FALSE]
WithoutPins(r) == [r EXCEPT !.pin = 0]
WithoutTalk(r) == [r EXCEPT !.thread = FALSE, !.talk = FALSE, !.offer = FALSE, !.chains = 0]

RowBelow(r, level) ==
    IF level = 16 THEN WithoutRetries(r)
    ELSE IF level = 14 THEN WithoutExecutions(r)
    ELSE IF level = 12 THEN WithoutLineage(r)
    ELSE IF level = 8 THEN WithoutPins(r)
    ELSE IF level = 7 THEN WithoutTalk(r) ELSE r

Downgraded(d, level) ==
    [d EXCEPT !.cases = [c \in DemoCases |-> RowBelow(d.cases[c], level)],
              !.activation = IF level = 8 THEN 0 ELSE @]

(* 0008 cancels the work in flight that has no pin: legacy_unpinned.        *)
Unpinned(r) == r.task = "queued" /\ r.pin = 0
RowAbove(r, level) == IF level = 8 /\ Unpinned(r) THEN [r EXCEPT !.task = "cancelled"] ELSE r
Upgraded(d, level) == [d EXCEPT !.cases = [c \in DemoCases |-> RowAbove(d.cases[c], level)]]

Upgrade ==
    /\ schema < LatestSchema
    /\ schema' = schema + 1
    /\ db' = Upgraded(db, schema + 1)
    /\ UNCHANGED <<touched, moves>>

Downgrade ==
    /\ schema > OldestSchema
    /\ ~Guarded(db, schema)
    /\ schema' = schema - 1
    /\ db' = Downgraded(db, schema)
    /\ UNCHANGED <<touched, moves>>
-------------------------------------------------------------------------------
(* People                                                                   *)

ActOn(c, what, record) ==
    /\ moves < MaxMoves
    /\ Here(db, c)
    /\ db' = [db EXCEPT !.cases[c] = record]
    /\ touched' = [touched EXCEPT ![c] = @ \cup {what}]
    /\ moves' = moves + 1
    /\ UNCHANGED schema

(* A message, in a thread the advisor opened.                               *)
Talk(c) ==
    /\ HasTalk
    /\ ActOn(c, "talk", [db.cases[c] EXCEPT !.thread = TRUE, !.talk = TRUE])

Spoken(r) == [r EXCEPT !.thread = TRUE, !.talk = TRUE, !.chains = @ + 1, !.revision = @ + 1]

(* A fact confirmed before there is work on the Case.                       *)
ConfirmDemoFact(c) ==
    /\ HasTalk
    /\ db.cases[c].state \in {"intake", "planning"}
    /\ db.cases[c].task \notin {"queued", "waiting"}
    /\ ActOn(c, "work", Spoken(db.cases[c]))

(* The run sent back, and a fact confirmed that replaces it.                *)
SendBack(c) ==
    /\ HasLineage
    /\ db.cases[c].state = "advisor_review"
    /\ ActOn(c, "work", [Spoken(db.cases[c]) EXCEPT !.lineage = TRUE, !.state = "planning",
                                                   !.task = "done"])

CurrentSkill == IF HasCatalog THEN db.activation ELSE 0

(* A planning task that is queued, or ends in a run, or fails.              *)
PlanDemoCase(c, ends) ==
    LET r == db.cases[c]
        pinned == [r EXCEPT !.pin = IF r.task = "queued" THEN @ ELSE CurrentSkill,
                            !.task = ends]
    IN
    /\ r.state = "planning" \/ (HasExplicitStart /\ r.state = "intake")
    /\ r.task # "waiting"
    /\ r.task = "queued" => ends # "queued"
    /\ HasCatalog => db.activation > 0
    /\ ActOn(c, "work", IF ends = "waiting"
                        THEN [pinned EXCEPT !.runs = @ + 1, !.state = "advisor_review"]
                        ELSE [pinned EXCEPT !.state = "planning"])

RetryDemoTask(c) ==
    /\ HasRetries
    /\ db.cases[c].task = "failed"
    /\ ActOn(c, "work", [db.cases[c] EXCEPT !.task = "waiting", !.retried = TRUE,
                                           !.pin = CurrentSkill, !.runs = @ + 1,
                                           !.state = "advisor_review"])

StartDemoPlan(c) ==
    /\ HasExecutions
    /\ db.cases[c].state = "plan_ready"
    /\ ~db.cases[c].executed
    /\ ActOn(c, "work", [db.cases[c] EXCEPT !.executed = TRUE])

PromoteDemoSkill ==
    /\ moves < MaxMoves
    /\ HasCatalog /\ db.activation > 0
    /\ db' = [db EXCEPT !.activation = @ + 1]
    /\ moves' = moves + 1
    /\ UNCHANGED <<schema, touched>>

(* The kind of candidate the import of that level writes.                   *)
ImportedKind == IF schema >= 11 THEN "strict" ELSE IF schema = 10 THEN "v0.1.6" ELSE "v0.1.3"

ImportDemoResearch ==
    /\ moves < MaxMoves
    /\ \E c \in DemoCases : db.cases[c].state = "planning"
    /\ db' = [db EXCEPT !.research = @ \cup {ImportedKind}]
    /\ moves' = moves + 1
    /\ UNCHANGED <<schema, touched>>

People ==
    \/ \E c \in DemoCases : Talk(c) \/ ConfirmDemoFact(c) \/ SendBack(c)
                            \/ RetryDemoTask(c) \/ StartDemoPlan(c)
    \/ \E c \in DemoCases, ends \in {"queued", "failed", "waiting"} : PlanDemoCase(c, ends)
    \/ PromoteDemoSkill
    \/ ImportDemoResearch

DemoNext ==
    \/ \E f \in Seeds : RunSeed(f)
    \/ Upgrade
    \/ Downgrade
    \/ People

DemoSpec == DemoInit /\ [][DemoNext]_demoVars
-------------------------------------------------------------------------------
(* Properties                                                               *)

(* What a seed of these parts leaves behind, and the levels they need.      *)
Asked(f) == {"default", "connected"} \cup (f \cap {"plan", "revision", "intake"})
                \cup (IF "collaboration" \in f THEN Conversations ELSE {})
Level == [planning |-> OldestSchema, collaboration |-> 7, skills |-> 8, plan |-> 15,
          revision |-> 16, intake |-> 17]
Serves(f) == \A part \in f : schema >= Level[part]

SeededBefore(f) ==
    /\ "planning" \in f
    /\ \A c \in Asked(f) : Here(db, c)
    /\ "skills" \in f => db.activation > 0
    /\ \/ "intake" \in f
       \/ "collaboration" \in f /\ db.cases["active"].pin > 0
       => "skills" \in f

(* A planning revision or intake Case is to be found as it was left, a plan *)
(* and a conversation may have been talked about.                           *)
Undisturbed(f) ==
    \A c \in Asked(f) \ {"default", "connected"} :
        touched[c] \subseteq IF c \in {"revision", "intake"} THEN {} ELSE {"talk"}

(* "Repeated default seed is idempotent", "exact initial replay is a no-op; *)
(* a drifted or progressed Case refuses" (docs/operations): a seed that was *)
(* run is accepted again, and changes nothing, exactly while nobody worked  *)
(* on the Cases it compares, whatever migrations ran up and down in         *)
(* between, whatever Skill was promoted and whatever happened elsewhere.    *)
SeedRepeatable ==
    \A f \in Seeds : SeededBefore(f) /\ Serves(f) =>
        LET again == SeedDemo(f, db) IN
        /\ again.ok <=> Undisturbed(f)
        /\ again.ok => again = db

(* The rows a level has the columns, the constraints and the functions for. *)
SchemaServes ==
    /\ IntakeHistory(db) => schema = 17
    /\ RetryHistory(db) => schema >= 16
    /\ ScenarioIdentity(db) => schema >= 15
    /\ ExecutionHistory(db) => schema >= 14
    /\ LineageHistory(db) => schema >= 12
    /\ StrictHistory(db) => schema >= 11
    /\ LiveHistory(db) => schema >= 10
    /\ SkillHistory(db) => schema >= 8
    /\ (\E r \in SeededRows(db) : Unpinned(r)) => schema < 8
    /\ TalkHistory(db) => schema >= 7

(* "Preserve existing volumes and history": what people did is not undone:  *)
(* no migration and no seed changes a Case people acted on (but for the     *)
(* task in flight without a pin, which the catalog's arrival cancels), takes *)
(* back a promotion or loses research, and the database never holds a row   *)
(* its schema has no place for.                                             *)
HistoryKept ==
    /\ []SchemaServes
    /\ [][moves' = moves =>
            /\ \A c \in DemoCases : touched[c] # {} =>
                   \/ db'.cases[c] = db.cases[c]
                   \/ /\ schema = 7 /\ schema' = 8 /\ Unpinned(db.cases[c])
                      /\ db'.cases[c] = [db.cases[c] EXCEPT !.task = "cancelled"]
            /\ db.activation > 1 => db'.activation = db.activation
            /\ db.research \subseteq db'.research]_demoVars
===============================================================================
