# Night Voyager in TLA+

Night Voyager plans a student's studies abroad under the authority of people: an
advisor starts planning work, a worker process computes a planning run from
governed evidence, the advisor reviews it, the family decides, and the accepted plan
is followed up checkpoint by checkpoint. The authority lives in PostgreSQL: every
command is a `SECURITY DEFINER` function of `migrations/versions/0001` to `0017`,
called by a thin Python service (`src/night_voyager`) behind an HTTP interface with a
browser client (`web/`). Around it stand a controller that proves the system against a
live research producer, and an offline evaluation of evidence with a sealed dataset.

This directory holds TLA+ models of that code, the TLC configurations that check
them, and proofs checked by TLAPS. Paths below are relative to the repository.

- [1 Inventory](#1-inventory)
- [2 Plan](#2-plan)
- [3 The modules and the code](#3-the-modules-and-the-code)
- [4 The runs](#4-the-runs)
- [5 Fairness](#5-fairness)
- [6 The proofs](#6-the-proofs)
- [7 Not modelled](#7-not-modelled)
- [8 Findings](#8-findings)

To check: `tlc -workers 2 -config lease.cfg MCTasks.tla` (section 4 lists the other
pairs), `tlapm TaskProofs.tla` (section 6 lists the other proof modules).

## 1 Inventory

For each component: its state, its operations, whom it meets, what is hard, and what
makes it correct. `PROJECT.json` repeats the list with files and status, and lists
every hazard at its line.

### Durable agent tasks (`tasks/`, migrations 0004, 0008, 0016, 0017): modelled

*State.* `agent_tasks` (pinned columns, and state, generation, owner, lease, result,
code), `internal.agent_task_dispatch` (the queue: `available_at` per active task),
`agent_executions` (one row per lease generation), `agent_task_events` (numbered,
append only).
*Operations.* create, retry, cancel (advisor); claim, start, heartbeat, fail, finalize
(worker).
*Interaction.* create reads and moves the Case; finalize persists a planning run and
hands the Case to the advisor; the fact confirmation of the collaboration component
reads the live tasks.
*Hard.* A lease of 60 s with a heartbeat every 15 s, generations as fences, at most
three attempts, crashes between any two transactions, commands against workers.
*Correct when* one holder per generation, rows, queue, executions and events agree, no
live lease is taken away, one live task per revision, every task settles.

### Worker process (`tasks/worker.py`, `worker.py`, `adapters/`, `planning/`): modelled

*State.* The claim in memory, the heartbeat task, the adapter's answer.
*Operations.* `run_once` (claim, load, start, run the adapter next to the heartbeat,
fail or finalize) and `run_forever` (poll every second, tolerate transient errors).
*Hard.* What it holds is stale the moment it is read; a heartbeat failure surfaces
only after the answer; any unmapped database error ends the process.
*Correct when* an answer that is persisted is still the answer to the Case's question.

### Student Case and planning (0002, 0003, 0012, 0017, `decision/`, `planning/`): modelled

*State.* The Case's state and revision, preferences per revision, revision lineage,
planning runs and the current one, reviews, briefs, decisions and timeline plans, source
packs.
*Operations.* compute and persist a result, review (approve, reject, request a
revision), decide, publish the next revision.
*Hard.* The state is spread over rows written by different commands over many
revisions; each command trusts what earlier ones left; the price of an intake is in the
source pack a task pins, which is found along the lineage and not in the revision.
*Correct when* the current run is unique and belongs to the current revision, lineage
is a chain of sent-back runs, every Case state is backed by its rows, a run recommends
exactly what its revision and the evidence warrant, and a comparison shows no change
that the changed fact does not explain.

### Collaboration (0007, 0017, `collaboration/`): modelled

*State.* Threads, messages, memory candidates with an expiry, verifications, facts,
references and preferences of revisions.
*Operations.* open a thread, post, propose a fact, verify (confirm or reject); paged reads.
*Hard.* Numbers are taken before rows are committed; expiry against confirmation; a
confirmation publishes a Case revision while others read page by page.
*Correct when* a verdict is the last word, facts are what the verdicts say, and no
reader misses a row.

### DRA candidates and promotion (0005, 0006, 0010, 0011, `dra/`): modelled

*State.* Research candidates, verifications, promoted source pack versions.
*Operations.* import, verify and promote (approve or reject), project an outcome.
*Hard.* Advisory locks and unique indexes decide between concurrent approvals.
*Correct when* a pack stands for one approval, and a revision has at most one.

### DRA live controller and receipts (`dra/live_*.py`, `scripts/verify_dra_live_closure.py`): modelled

*State.* A directory of receipts, each written once (`O_EXCL`, `link`), the captured
artifact, a marker while source bytes lie open, the remote run and the rows of the API.
*Operations.* Stage 1: freeze, preflight, capture, reconcile, resume, select and import,
clean up. Stages 2 to 4: promote, review, decide, evaluate.
*Hard.* A kill or an interrupt between any two writes, lost and late answers, others who
act first, commands repeated by an operator who sees nothing but receipts.
*Correct when* the producer runs once, receipts tell the truth, bytes are never left
unguarded, and the advised commands lead to an end (Stage 1; Stages 2 to 4 do not begin
from the receipt Stage 1 writes, section 8).

### Versioned Skills (0008, `skills/`): modelled

*State.* Registered versions, change candidates, evaluations, the chain of activations.
*Operations.* register, propose, evaluate, promote, roll back; tasks pin the active version.
*Hard.* Base versions go stale between evaluation and promotion; keys are looked up
before the definition is locked.
*Correct when* the chain is linear, each activation was evaluated against its base, the
scope never grows, and a key has one effect.

### Timeline execution (0014, `timeline_execution/`): modelled

*State.* One execution per timeline plan, ordered checkpoints, attestations,
verifications, reassessments, mutation receipts, row versions.
*Operations.* start, attest (progress, completion or blocked), verify or request an
update, request reassessment; reads.
*Interaction.* It starts from the timeline plan of the family decision and changes
nothing of the Case; the plan page in the browser is its client.
*Hard.* Three roles, each acting on versions read earlier; requests that are delayed,
repeated and lost; a timestamp taken before the row lock orders the attestations.
*Correct when* checkpoints advance in order, only the latest attestation is verified,
terminal states are terminal, a command takes effect once and a refusal is final.

### Plan page in the browser (`web/lib/plan-execution`): partly modelled

*State.* What a tab shows, the command it keeps until it knows the outcome, an envelope
in session storage with the key of that command.
*Operations.* connect, switch role, start, attest, verify, reassess, recover.
*Hard.* A lost answer, a refused command, a reload, another person's step in between.
*Correct when* its own success is never taken for a conflict, no command that took
effect is dropped as refused, and no command is kept for ever.
One tab per caller without changes of role or session is modelled.

### Connected demo: projections, collaboration page and demo page (`connected_demo/`, `web/lib`): modelled

*State.* Projections of the Case computed twice by separate code (journey status,
advisor ledger); in the browser reducers, an envelope in session storage with pending
keys, a session cookie all tabs share.
*Operations.* connect, post and propose a budget, change roles, confirm, hand over;
create and retry tasks, review, revise, decide, follow the stream, recover, reload.
*Hard.* Every await may be answered by another session; a lost command is served late;
what is shown was read in pieces.
*Correct when* both projections agree and offer what is accepted, nothing is said or
asked twice or under another role, what reaches planning is what was said, and the plan
is reached when the faults end.

### Task event stream (`tasks/streaming.py`): modelled with the tab that follows it

*State.* A cursor per client; the log and the task state read per page.
*Hard.* The task settles between two pages; the client resumes anywhere.
*Correct when* the tab learns of the end of every task it follows.

### Identity and demo sessions (0001, 0015, `identity/`): partly modelled

*State.* Sessions with digest, CSRF digest, expiry and revocation.
*Operations.* bootstrap, mint, resolve, rotate, revoke.
*Hard.* Two tabs share one cookie. *Correct when* a command is refused unless cookie and
token belong together. Row-level security is left out.

### Command idempotency (0002 to 0017): partly modelled

*State.* `idempotency_records` by actor, operation and key hash.
*Hard.* A response is lost after the commit; the same key is used concurrently; checks
made before the key is looked up turn a replay into an error.
*Correct when* a command takes effect once and a replay answers what the first did.
The keys of the timeline commands, the Skill activations, the collaboration commands and
the commands of the demo are modelled.

### Evidence loop (`evidence_loop/`, five scripts): partly modelled

*State.* A checkout, run roots with a sealed store and receipts, the published dataset,
capture and terminal receipt.
*Operations.* prepare, freeze, reveal, evaluate, verify; people edit, commit, restore.
*Hard.* Checks and what relies on them are apart; two terminals; kills; one reveal only.
*Correct when* nothing is frozen after the reveal, receipts describe what they name, and
a verified verdict is true of the dataset.

### Demo database (`scripts/seed_demo.py`, migrations up and down): modelled

*State.* The schema's level and the seeded Cases with what hangs on them, the catalog of
Skills, source packs, research candidates, principals.
*Operations.* seed (any combination of its options), upgrade and downgrade by one level;
meanwhile people talk, confirm, plan, retry, send back, start a plan, promote a Skill.
*Hard.* The seed is run again at every start, on whatever people and migrations left; a
downgrade has to notice every row its level cannot hold.
*Correct when* a seed is repeated without effect where nobody worked on its Cases and
refused where they did, and neither it nor a migration undoes what people did.

### Without a model

HTTP interface, database access and configuration (no state of their own); the other
scripts, presentation texts.

## 2 Plan

The Case and the tasks came first: they carry the product's authority and nearly all of
its concurrency. All of the table is written.

| # | module | composes | questions |
|---|---|---|---|
| 1 | `StudentCase` | | rows of one Case |
| 2 | `AgentTasks` | `StudentCase`, workers, time | leases, queue, fences, Case under work |
| 3 | `TaskContract`, `TaskRefinement` | `AgentTasks` | public statuses |
| 4 | `TimelineExecution`, `TimelineCalls` | rows, callers, calls under way | order of checkpoints, latest attestation, terminal states, keys |
| | `PlanProgress`, `TimelineRefinement` | `TimelineCalls` | a plan that only advances |
| | `PlanExecutionTabs` | `TimelineExecution`, tabs | receipts, refusals, recovery |
| 5 | `SkillActivation` | pins of tasks, `PlanningScenarios` | linear chain, stale candidates, scope, keys |
| 6 | `LiveCapture`, `LiveClosure` | | crash and resume at every step, receipts |
| 7 | `Collaboration`, `Knowledge` | `StudentCase`, readers, promotion | expiry, numbering, pages, packs |
| 8 | `JourneyProjection` | `AgentTasks` | two projections of the same rows |
| 9 | `DemoJourney`, `BudgetJourney` | sessions, keys, stream, two pages | once, by whom, and to the end |
| 10 | `EvidenceLoop`, `EvidenceProcedure` | | one reveal, frozen code, true verdicts, one evaluation |
| 11 | `PlanningPolicy`, `PlanningScenarios`, `PlanRevisions` | `StudentCase` | what runs and comparisons say |
| 12 | `DemoDatabase` | seed, migrations, people | repeated seeds, guarded downgrades |
| 13 | the `*Proofs` modules | one model each | the safety properties for every value of the constants |

Abstract specifications: `TaskContract` for the tasks, `PlanProgress` for the timeline.

Runs keep two or three instances of each kind (two workers, two or three tasks, three
revisions or checkpoints), as in section 4.

What could follow: `BudgetAsSaid` of the demo as a theorem, and a reader in three statements in
front of `TimelineCalls` (the torn read of `read_timeline_execution`, section 7).

## 3 The modules and the code

| module | content |
|---|---|
| `StudentCase.tla` | the rows of one Case and the functions that change them |
| `AgentTasks.tla` | tasks, queue, executions, events, worker memory, time; `Spec`, `FairSpec` |
| `TaskProperties.tla` | the properties of `AgentTasks` |
| `TaskContract.tla` | what the public statuses promise, without leases and workers |
| `TaskRefinement.tla` | `AgentTasks` seen as `TaskContract` |
| `JourneyProjection.tla` | status and ledger of the connected demo as functions of the rows |
| `MCTasks.tla` | all of these for TLC, with worker symmetry |
| `TimelineExecution.tla` | the rows of one execution, the checks and writes of the four commands |
| `TimelineCalls.tla` | commands as calls that are delayed, repeated, lost; the properties; `Spec` |
| `PlanProgress.tla` | what the plan page promises, without versions and keys |
| `TimelineRefinement.tla` | `TimelineCalls` seen as `PlanProgress` |
| `PlanExecutionTabs.tla` | the browser's tabs in front of `TimelineExecution`; `TabSpec`, `FairTabSpec` |
| `SkillActivation.tla` | versions, candidates, evaluations, activations, pins; `SkillSpec` |
| `LiveCapture.tla`, `LiveClosure.tla` | Stage 1 and Stages 2 to 4 of the live closure; `ClosureSpec`, `LiveSpec` |
| `Collaboration.tla` | thread, candidates, verdicts and facts of one Case |
| `Knowledge.tla` | the thread beside promoted evidence, a planned Case and a reader; `Spec` |
| `DemoJourney.tla` | sessions, keys, stream and the demo page of one tab |
| `BudgetJourney.tla` | the collaboration page before it, and the composition; `TabSpec` |
| `EvidenceLoop.tla` | the five commands of the evidence loop; `Spec` |
| `EvidenceProcedure.tla` | how its design lets people give them: no second evaluation is counted on; `LiveSpec` |
| `PlanningPolicy.tla` | `evaluate_planning_run` as an operator |
| `PlanningScenarios.tla` | packs, fixtures, inputs of both operations, Skill assertions |
| `PlanRevisions.tla` | what runs say over several revisions; `Spec` |
| `DemoDatabase.tla` | the demo database between seed, migrations and people; `DemoSpec` |
| `MCCapture`, `MCEvidence` | values of constants for TLC |
| `MCKnowledge`, `MCRevisions` | values, and two or three specifications side by side: a behaviour is one of one of them. TLC counts each side (and `ProcedureNext`) as one action; under their own specifications every action of them fires |
| `TaskProofs` | theorems about `AgentTasks`, its contract and `JourneyProjection` |
| `TimelineProofs` | theorems about `TimelineCalls` and its refinement of `PlanProgress` |
| `SkillProofs`, `EvidenceProofs` | theorems about `SkillActivation` and `EvidenceLoop` |
| `CaptureProofs`, `ClosureProofs` | theorems about `LiveCapture` and `LiveClosure` |
| `KnowledgeProofs` | theorems about `Knowledge` |
| `DemoProofs` | theorems about `PlanRevisions`, `DemoJourney`, `BudgetJourney` and `DemoDatabase` |

**Grain.** A database function is one transaction that locks the rows it decides on, so
it is one action. Between the transactions of a worker (`load`, `start`, each
heartbeat, the adapter's snapshot, `fail` or `finalize`) everything else can happen.
Where a function reads something before it waits for its lock, and decides on it
afterwards, it is two actions (`TimelineCalls`, `SkillActivation`, the number of a
message in `Collaboration`). A script or a browser function is one action per await or
per file it touches.
Operators introduced by a comment "A slip: ..." are the plausible mistakes the
properties were tried against; they take no part in the specification.

### Tasks and the Case

**Rows.** `pin` holds the columns of `agent_tasks` no statement changes after creation
(operation, Case revision, pack version, predecessor run, retried task) and `task` the
ones that change. A planning run is identified by its place in `runs`, 0 is NULL. `gen`
is both `lease_generation` and `attempt_count`: the code always increments them
together. `execs[t][g]` is the execution of generation `g`. Of an event only the code
is kept, its number is its place in the log.

**Time.** `lease` and `dispatch` count the ticks left until `lease_expires_at` and
`available_at`; a row can be claimed at 0 and the fence (`Fenced`) needs a positive
lease, which is the code's `lease_expires_at>clock_timestamp()`. One clock, the
database's, is used by all functions.

| action | code |
|---|---|
| `CreateTask`, `InsertTask` | `create_agent_task`, 0017:574 |
| `RetryTask` | `retry_agent_task`, 0016:56, with `project_agent_task_retry_eligible` |
| `CancelTask` | `cancel_agent_task`, 0004:152 |
| `ClaimQueued`, `ReclaimExpired`, `ExhaustExpired` | `claim_agent_task`, 0008:1351 |
| `LoadTask` | `PostgresWorkerTaskRepository.load` and the check of the Skill pin |
| `StartTask`, `Heartbeat`, `FailTask`, `FinalizeTask` | the functions at 0004:215 to 276 |
| `AdapterAnswers` | the adapter with the snapshot function 0017:700 |
| `HeartbeatBreaks`, `DiscardAnswer`, `LeaseLost`, `Abandon`, `FinalizeRefused` | the error paths of `run_once`, a crash, a refused result |
| `Review`, `Decide` | `review_planning_run`, `decide_family_brief`, 0003 |
| `Promote` | `verify_and_promote_dra_candidate`, approving, 0005:182 |
| `ConfirmFact` | `verify_memory_candidate`, confirming, 0017:242 |

**Left out of an action on purpose.** Expected versions sent by clients: the models
always pick the current one, a wrong one is an error without effect. Replays through
the idempotency ledger: they answer without effect. Branches no state reaches: the push
of a queue row whose lease is live (`DispatchExact`, proved, shows the row is never due
then), the deletion of a queue row of a settled task (same reason), a claim of a task with
an invalid pin (pins are written once, with foreign keys to rows that are never deleted),
the replay branch of finalize (the worker draws a fresh run id). The task state
`succeeded` and the Case state `decided` are never committed and do not appear.
An adapter answers any outcome `evaluate_planning_run` can give, provided its snapshot
loads, or a failure code of each class the code distinguishes (retried, timed out,
evidence gap, failed); which outcome it is, is the question of `PlanRevisions`.

**Projections** (`JourneyProjection`). `JourneyPhase` is `_journey_phase`, `FirstLedger`
and `Ledger` are the two versions of the advisor ledger (`connected_demo/postgres.py:290`
and `:484`, `Versioned` being what the second does to the first) with the checks of `LedgerReadable` (`:987`), `FirstValid` and `LedgerValid` are
the validators of `models.py:204` and `:368`, `BrowserAccepts` is `phaseValid` of
`contracts.ts`. Reads are functions of the state.

### What a run says

`PlanningPolicy` translates `evaluate_planning_run` guard by guard; `PlanningScenarios` has the
two checked-in packs, the scenarios each must pass whenever it is loaded, and the inputs
made for a synthetic task (`synthetic.py`) and a mixed one (`mixed.py`). `PlanRevisions` puts
them behind the commands of `StudentCase`. Amounts are in units of 10,000 minor (3055 is the
cost in the baseline pack, 3264 the one of the intake delay pack, which is number 17; the
baseline packs are 1 to `packs`); periods and currency of the budget have one value; facts
that do not reach the policy are left out. Tasks are reduced to one pinned at a time, which
answers once or is dropped, because `AgentTasks` shows that one at a time works. The same
operators compute the expected results of the assertions by which a version of the planning
Skill is evaluated (`SkillPasses`); `MCRevisions` takes the versions
that may be promoted from it.

### The timeline

A command is a request body of one caller and carries the versions its
author saw (`ev`, `cv`). The idempotency key is looked up by caller, operation and key,
with the hash of the body checked; the browser gives the same body the same key
(`idempotencyFor`), so caller and body stand for the key and one `receipts` entry for the
receipt with its `idempotency_records` row. A call is a command on its way, with what the
function reads before it waits for the row lock: `v_now` and `CURRENT_DATE`.

| operator | code |
|---|---|
| `Start`, `MayStart` | `start_timeline_execution`, 0014:355 |
| `Attest`, `MayAttest` | `attest_timeline_checkpoint`, 0014:489 |
| `Verify`, `MayVerify`, `AfterVerification` | `verify_timeline_checkpoint`, 0014:628 |
| `Reassess`, `MayReassess`, `HandOver` | `request_timeline_reassessment`, 0014:783 |
| `Replay`, `Accept`, `Refuse` | the three ways each of these ends: known key, first execution, raised error |
| `Commands`, `View` | what `read_timeline_execution` (0014:946) lets a caller refer to |
| `Issue`, `Repeat`, `Lose`, `Serve...` | requests and answers between a caller and the service |
| `Buttons`, `Act` | `canAttest`, `canVerify`, `canReassess` of the workspace (the last one whatever the controller's state), `runMutation` |
| `Recover`, `RecoverByReading`, `Reload` | `recover`, the effect on load |
| `GetReceipt`, `Confirm`, `GetRefusal`, `Refresh` | their continuations, `receiptReconciles`, `loadAuthority` |

`TimelineCalls` is wider than the page: any script with a session may send any kind,
action and reference for what it read. `PlanExecutionTabs` sends only what the buttons of
the workspace offer. In both, `created_at` of an attestation is counted in attestations
committed when the function was entered (equal counts leave the order open, which is
what `Latest` returns), and the date in due dates passed, which increase along the
milestones (`decision/policy.py:72`, checked again by 0003). The Case revision an
execution is pinned to does not change here. A wrong Case, an unassigned caller, a
malformed body and a mismatched key are errors without effect and left out. The reason
code of a blocker is payload. A read is one step: the contexts read around it differ only
in the execution id, which is set once, and where that can matter (`Confirm`) it is
modelled. `read_timeline_execution` itself consists of several statements with their own
snapshots; a mixture it notices (NV006, or a current action that contradicts the rows) is
a `ReadFails`, and one it does not notice carries an execution version that has passed, so
that its commands are refused as any other stale ones.

### Skills

A command is served in two steps: `Enter` is what the function reads before it waits
(its key, the active version), `Accept` what it does under the lock of the definition;
`Leave` is every way of ending without effect. The answer to a replay changes nothing and is
not a step of its own. `Scope` is a constant: any assignment of tools and data scopes to
versions. A task creation looks its key up under the lock and is in the model for its pin.

### Collaboration and external evidence

`AppendMessage` takes a number (`TakeNumber`) and commits later, because readers see the row
only then; everything else is one action (`Propose`, `RejectCandidate`, `ConfirmCandidate`,
`Expire`, `ImportResearch`, `RejectResearch`, `ApproveResearch`). The value of a fact is the
message it comes from. `Projected` is the state a reader is shown, computed from row, clock
and revision. The reader follows messages with a cursor, or pages through the history of the
facts under one snapshot revision (`OpenPage`, `ReadPage`), one row per page in the run so
that every confirmation falls between two pages. Planning is in it (`BeginPlanning`,
`PersistRun`, `CaseStep`) as far as verdicts and packs depend on it.

### The live closure

`LiveCapture` is one run of the producer for one frozen intent. Every command is a process
that ends in the publication of one receipt; between any two of its steps it may be killed,
or interrupted by the signal that `main` turns into the removal of the artifact. Producer
and API are external: a run per key, a candidate per key, answers that get lost. `Advice` is
`inspect_recovery`. `LiveClosure` has the four mutations of Stages 2 to 4, each of which reads
the authority, posts when it finds nothing, and on a transport failure leaves an ambiguous
receipt and reads again; a post given up may still arrive, a rival may act first, a task may
fail. The source bytes are a snapshot with the marker that guards it. `CaptureSchema` is the
version of the capture receipt Stage 2 finds (`Readable`: only version 1 is read). Rehearsals and candidate freezing compute
reports and are left out.

### The tab

`DemoJourney` is the page from task_ready to plan_ready, `BudgetJourney` the collaboration page
before it and the two together: `HandOver` is `continueCollaborationAsAdvisorFamily`, and a tab
may as well begin on the second page, or come to the first with the envelope of the second.

| variable | code |
|---|---|
| `case` / `talk` | the Case as a journey phase / the thread with candidates, current fact and served keys |
| `jar` | the session cookie: role, whether it lives, whether another tab set it |
| `records`, `late` / `posts` | idempotency records / commands the tab has given up that may still be served |
| `store` / `book` | the envelope in `sessionStorage` of either page, with keys and csrf token |
| `view`, `job`, `again` / `form`, `call`, `redo` | reducer, running asynchronous function, `retryAction` of either page |
| `stream` | the EventSource with its cursor and page, and the server's side of it |
| `asked`, `typed` | what the person did, for the properties only |

One asynchronous function runs at a time: the pages disable their buttons meanwhile, except
for propose and confirm of the collaboration page, whose double clicks are left out.
Consecutive reads of one function without a step between them that depends on the first are
one read; the ledger is read apart from thread, candidates and facts. A reload is free where
the screen fails or offers nothing (demo page), and a fault otherwise. Another tab is what it
does to the cookie; another person is what they write, decide or start. A request may be lost
before or after it is served, and one given up may be served later, even after its session
was revoked. A proposal is of a kind (`Kinds`): an intake, an intake no pack answers for, whose
confirmation is refused with nothing written (`Founded`), or a fact an advisor's page can only
confirm. Its body names revision and value, and a key belongs to a body (`SavedKeys`, `Binding`),
so the same value is the same request for as long as the envelope lives, rejected or not. A
changed proposal, a rejection and a switch to prepare a fact are detours from the same budget as
the faults, `MaxFaults`; a value after a rejected one (`Spent`) is none. Budgets are the one old envelopes had and
another. A parent proposes for revision 1 (the page has no other), "rejected" stands for an
expired candidate, too. Envelopes of version 2, the limit of 1000 messages and the
validation of the form are left out, and another person starts the task only after the
confirmation. What only the first page reads is forgotten at the hand-over.

### The evidence loop

The commands run in two terminals on one checkout and several run roots; a check and the
step that relies on it are separate steps, and a command refused by its first checks is a
stutter. Files are `Absent`, `Torn` (created and not yet written) or `Whole`. A version of the
code is a number, 0 being the modelled one: an edited evaluator may claim anything. Which
dataset is in custody is chosen when it is first read. `seen`, `by` and `faithful` are notes for the
properties. `EvidenceProcedure` adds `given`, whether the evaluation was begun, which tells what
the design lets people repeat. Nobody removes a generated file from the checkout. Paging and ranking of the
native search are payload; `Suite` is the evaluation of a dataset of four cases.

### The demo database

`schema` is the migration the database is at, `db` what the tables hold of each seeded Case,
`touched` and `moves` what people did. `SeedDemo` composes the functions of
`scripts/seed_demo.py` in the order `seed` calls them, with the database functions they call
(those of 0007, 0008, 0013, 0016 and 0017); `Require` is a statement that raises, and
`RunSeed` commits only a seed in which none did, since it runs in one transaction. `Guarded`
is what each `downgrade()` counts before it drops anything, `Downgraded` what goes with a
level, `Upgraded` the cancelling of unpinned work by 0008. `People` are the commands of the
other models as far as the seed or a guard can see them. The two plan execution Cases and
the two planning revision Cases come from one function each and stand as one Case each.
The model starts at migration 6 (`OldestSchema`): before it there is no seed of today's form.

## 4 The runs

| run | module, cfg | instance | distinct states |
|---|---|---|---|
| `lease` | `MCTasks`, `lease.cfg` | 1 task, 2 workers, 3 attempts, lease of 4 ticks | 38 thousand |
| `case` | `MCTasks`, `case.cfg` | 3 tasks, both operations, 2 workers, 2 revisions | 1.06 million |
| `family` | `MCTasks`, `family.cfg` | 2 tasks, 2 revisions | a counterexample |
| `remedy` | `MCTasks`, `remedy.cfg` | 3 tasks, both operations, 1 worker, 3 revisions | a counterexample |
| `revisions` | `MCRevisions`, `revisions.cfg` | 4 revisions, 4 scopes, 3 intakes, 6 budgets; demo database with 2 moves; 3 Skill versions, 2 connections, 4 activations, 2 tasks | 544 thousand |
| `timeline` | `TimelineRefinement`, `timeline.cfg` | student, parent, advisor; 2 checkpoints, 5 versions, 2 calls under way | 414 thousand |
| `tabs` | `PlanExecutionTabs`, `tabs.cfg` | parent, advisor; 1 checkpoint, 4 versions, 1 orphan | 80 thousand |
| `knowledge` | `MCKnowledge`, `knowledge.cfg` | 3 messages, 2 fact keys, 4 revisions, 2 candidates; 4 mutations of Stages 2 to 4 with rivals, 3 faults | 1.84 million |
| `capture` | `MCCapture`, `capture.cfg` | 2 attempt identifiers, 3 run versions, 2 faults | 194 thousand |
| `closure` | `LiveClosure`, `closure.cfg` | the receipt of a strict capture, no faults, no rivals | a counterexample |
| `demo` | `BudgetJourney`, `demo.cfg` | one tab, both pages, 2 faults or detours | 767 thousand |
| `evidence` | `MCEvidence`, `evidence.cfg` | 2 terminals, 2 run roots, 1 fault; 65,536 datasets | 390 thousand |

**lease** asks whether the places that describe a lease (row, queue, execution, event log,
memory of the workers) agree. `OneHolder`: two workers never hold one generation, and only
the newest claim passes the fence. `HistoryTruthful`: executions and events are the exact
history of the attempts. `LeaseRespected`: a live lease ends only by its holder or a cancel.
`ImplementsContract`: with `ProjectTaskStatus`, the projection of `tasks/policy.py`, every
fair behaviour is one of `TaskContract`: bounded attempts, one settlement with at most one
run, and it does settle. Three attempts are the code's limit, four ticks the code's ratio of
lease to heartbeat; one task is enough because leases of different tasks meet only in a
worker's memory, and two workers give the stale holder and the new one. A third worker would
be a second stale holder; the theorems of section 6 cover any number.

**case** asks whether work in flight belongs to the Case it finds: `WorkFresh` (an active task
owns the Case's present state; an answer is not stale when it is persisted, although snapshot
and persistence are different transactions; the refusal NV014 of `verify_memory_candidate`
never decides anything its lineage check does not decide already); `RecordsAgree` (task and run find each
other, a retry repeats once and the same, a mixed task rests on the pack approved for its
revision, the lineage is a chain of sent-back runs, every Case state is backed by its rows). Of
what the demo tells people: `LedgerAgrees`, both
projections tell the same phase and pass every check, and `OffersAccepted`, what a phase
offers is accepted. `ContractSteps`, the steps of the contract with several tasks, is proved
(section 6) and has no run of its own. Three
tasks allow a task, its retry and one more, or two revisions with a retry. One attempt:
attempts are `lease`'s question; a stale worker still exists since a lease may expire, be
exhausted, or be cancelled under it. **family** and **remedy** are described in section 8;
three revisions and three tasks are what a plan, a revised plan and a third task beside its
blocked run take, and the people of `remedy` use every command as often as they can.

**revisions** asks what the runs say. `RunsJustified`: a run goes to the advisor exactly when
its revision wants Australia, in an intake the evidence reaches, at a price its budget covers.
`ComparisonExplained`: what changed between two plans is explained by the one fact that
changed. The budgets lie on both sides of each boundary (a preferred 2720 with 2000 basis
points is exactly 3264, with 1999 just below; 3055 with a ceiling of 3055). Four revisions
allow the intake to be delayed, kept and changed again. The same run has the demo database
and the Skills beside it (`SideSpec`: a behaviour is one of `PlanRevisions`, one of
`DemoDatabase` or one of `SkillActivation`, never a mixture). `SeedRepeatable`: a seed that was run is accepted again, and changes nothing, exactly
while nobody worked on the Cases it compares, whatever migrations ran up and down and whatever
Skill was promoted in between. `HistoryKept`: no seed and no migration undoes what people did,
and the database never holds a row its schema has no place for. Two moves allow a task and its
retry, or work on one Case beside talk on another, with any seeds and migrations around them.
Of the Skills (`revisions`, too): `ChainJustified`, every activation is vouched for by earlier rows, whatever was
committed while a command waited; `ScopeNeverGrows`, along any chain of promotions and
rollbacks; `EffectOnce`, although the key is looked up before the lock. Three versions, the
second with one tool less, and four activations allow a promotion over a narrower version
and a return. Two connections are any two commands that race.

**timeline** asks whether the record of a plan stays true when commands arrive late, twice
or not at all. `CommitOrder`: although `created_at` is read before the lock, its order is
that of the commits, and only the version checks make it so. `RecordSound`: the advisor's
signature is on the last thing the family said, and receipts are the complete history.
`HandoffProven`: the proof of a hand-over still holds, and nothing moves afterwards.
`ImplementsProgress`: the rows move as `PlanProgress` says. Two checkpoints have a student's
and a parent's one, a successor and a last one; five versions are what a plan needs from its
start to its completion, or to an update request followed by a second completion and its
verification, or to a blocker and a hand-over at either checkpoint; two calls under way are
enough for any two commands to race and for a command to race its own repetition. The
theorems of section 6 have none of these bounds.

**tabs** puts the browser in front of the same handlers, with requests that fail in
transport and are served afterwards (`orphans`). `ReceiptsReconcile`: the comparison of a
receipt with a later view never fails, whatever others did in between.
`DropsOnlyUndone`: a command dropped as stale has no receipt, although earlier answers to
it were lost. `CommandsSettle`: under the fairness of section 5 no command is kept for ever;
it is confirmed, dropped, or given up by an advisor whose reassessment button, live beside
Revalidate (`Buttons`), puts another command in its place, and whose page then shows what
became of both. After a hand-over a tab may keep its command (section 8).
One checkpoint and two people give every refusal; four versions are a start and three more
steps; one orphan per moment is enough for a late first copy to meet its repetition.

**knowledge**: `FactsFollowVerdicts`, `CandidateLifecycle` (a candidate never comes back to
life for a reader), `ReadersComplete` (a reader that followed or paged has every row once),
`ApprovalsExact` (a pack stands for one approval). Three messages give a candidate that is
overtaken, one that is confirmed and one that supersedes it; pages of one row put every
confirmation between two pages. Beside it, and not mixed with it (`SideSpec` of `MCKnowledge`),
run Stages 2 to 4: `ReceiptsTruthful`, a stage receipt is for the result asked for, and
`SourceGuarded`, nothing but a kill leaves opened bytes behind, and never without their marker.
They start from a capture receipt of version 1, the one the stages read: with the receipt Stage 1
writes today they stop at the first step, and the question would not be asked (**closure**).
The theorems hold for either.

**capture**: `OneRun`, the producer is started once and for the frozen attempt;
`ReceiptsTruthful`, receipts have their parents and the capture receipt comes after the
import and the removal of the text; `Settles`, whoever follows `inspect_recovery` comes to a
capture or failure receipt. Two and three faults allow a fault in the recovery of the first.
**closure** is the chain as it runs, from the receipt that is written; see section 8.

**demo**: `ActsAsMeant`, no command is committed more often than the person asked, nor signed
by another role than the tab acted for; `BudgetAsSaid`, the tab says a budget no more often
than the person does, and hands over the confirmed candidate of that message, amount and
revision; `ReachesPlan`, when the faults end the tab gets to plan_ready. `ReachesPlan` names its
exceptions: proposals only the person can tell apart and an intake nothing is known of, which
somebody has to reject (`Undecidable`); a rejected value whose keys are still in hand and which
fails for ever when it is proposed again (`Spent`); and the dead ends of the collaboration page
(`Stranded`, `Overtaken`; section 8). Without any one of them the run is violated. Two faults
allow a fault in the recovery of another.

**evidence**: `SetupDescribesStore`, `FrozenBeforeReveal`, `VerdictSound` (with `SuiteAgrees`:
on 65,536 datasets the evaluation confirms exactly what a plain reading of added value does),
`LoopConcludes`: the loop ends in a verified verdict, or in a dataset that was used and gave none
(`Retired`), which the design then retires for good; the latter only after a fault, or when the
evaluation began while another command still ran in the other terminal. Nobody is counted on to
give `evaluate` a second time (section 5).

**Deadlock.** Passing runs set `CHECK_DEADLOCK FALSE` where the system rests: when the plan is
ready, when a timeline is completed or handed over, or when a bound is reached with
everything settled. In `capture` an operator can always give a command.

**Bounds.** `MaxTasks`, `MaxRevision` and `LeaseTicks` are bounds of the model,
`MaxAttempts` is 3 in the code, `Milestones` is 4, `MaxMessages` is 1000. They stop creation,
publication and the clock's grain, never a worker. `MaxVersion` and `LastVersion` stop new commands of
the timeline, `MaxCalls` and `MaxOrphans` bound what is under way at one time, `MaxEvents`,
`MaxUndecided`, `MaxRuns`, `MaxResearch` and `MaxMoves` what is created or done,
`OldestSchema` how far migrations go down, and `MaxFaults` how often something goes wrong; a call once issued is always served.

**Mutants.** For each property `PROJECT.json` names a definition and a slip of it
with which TLC finds the property violated.

## 5 Fairness

`Fairness` of `AgentTasks` has three parts. Time passes (`WF` of `Tick`). A due task is
eventually claimed (`WF` of `Claim` for each task): `run_forever` polls every second, the
claim takes the row with the earliest `available_at`, and since a task that is requeued goes
behind those already due no task is overtaken for ever; at least one worker runs, as the
restart policy of `compose.yaml` provides. A worker that holds a claim takes its next
step (`WF` of `WorkerStep`): the adapters of this repository are local computations
that return. Nothing is assumed of heartbeats, crashes, transient errors or people:
they may happen always or never. Tasks settle all the same because a claim
costs an attempt and attempts are bounded.

`TabFairness` of `PlanExecutionTabs` says that the transport is not down for ever: a tab that
keeps asking is answered at last (`SF` of `GetReceipt` or `GetRefusal`) and so are its
reads (`SF` of `Confirm` and `Refresh`, since each may fail any number of times), that its
person presses Revalidate (`WF` of `Recover` and `RecoverByReading`) and that the server
ends what it began (`WF` of `ServeOrphan`). Nobody has to act, to reload, or to change
role, nor to press or leave alone the reassessment button beside Revalidate. `CommandsSettle`
needs the strong form: with weak fairness every request may fail.

`LiveSpec` of `LiveCapture` and `LiveClosure`: the producer, the API and the worker go on, a
process runs unless it is killed (`WF`), and the operator gives the advised or missing command
whenever there is a chance to (`SF`, because a running process excludes another one), with a
new copy of the source bytes where Stage 2 asks for it. This is what the runbook asks of an
operator; following anything else is allowed and not assumed. The counterexample of `closure`
holds under it: no repetition helps.

`DiligentSpec` of `TaskProperties`, for `remedy` only, adds to `FairSpec` people who use every
command that could help whenever the Case accepts it (`SF` of `CreateTask`, `RetryTask`,
`Promote`, `ConfirmFact` and `Review`). More can not be asked of them, so what they do not reach
cannot be reached.

`TabFairness`: worker, browser and server go on, the person presses what is on the screen
(`WF`), reloads a page of the plan that fails, has lost its stream or offers nothing (`SF`),
and a session another tab left in the cookie expires (`WF`; it does after thirty minutes). The
collaboration page is never reloaded by fairness: its own recovery must do.

`LiveSpec` of `EvidenceProcedure`: a command runs on (`WF`), an edit is committed or undone, a run
root that has become useless before the reveal is replaced (`WF`), and every command is given
again on every run root (`SF`), `evaluate` only until it has begun once. The scripts would start
it again on a revealed dataset, and the recovery text of `evaluate_evidence_loop.py:56` asks for
just that ("rerun the exact documented command"); but the design of 2026-07-31 makes the reveal
one-shot (:350-353, "no retry or repair uses revealed holdouts"), so a second evaluation is
allowed in the model and never counted on.

## 6 The proofs

All theorems are about `Spec` for arbitrary constants, under the assumptions named in
the modules. For `AgentTasks`: the operations are among the two of the code, `MaxRevision`,
`MaxTasks`, `MaxAttempts` and `LeaseTicks` are positive naturals, and `NoWorker` is no worker.

*How a run and a theorem meet.* A run checks a property on one instance, the theorem with the
same property holds for every value of the constants; `PROJECT.json` lists the pairs. Each
inductive invariant is built of named parts; the parts that can be evaluated were checked by
TLC on the instances of section 4 before they were proved.

*Type correctness* (`TaskProofs`, `TypeCorrect`). `TypeOK` is not inductive by itself:
a reclaim writes generation `gen + 1`, which has its type only because a queued task has
attempts left. `TypeInv == TypeOK /\ AttemptsBounded` adds that a queued task has
used fewer than `MaxAttempts`; every path back to `queued` is guarded by
`AttemptsLeft`.

*Ownership* (`OneLiveTaskAlways`, `ActiveTaskOwnsCaseAlways`). The
two are inductive together, given the types. A new task is the only live one of its
revision because of `NoLiveTask`. The Case cannot move under an active task because
every command that moves it needs a state an active task excludes, except publication,
where `NothingBlocksRevision` forbids active tasks, and persistence, whose own task is
the only live one of the revision and settles in the same step.

*Leases* (`DispatchExactAlways`, `OneHolderAlways`,
`LeaseRespectedAlways`). `LeaseInv` joins `DispatchExact`, `OneHolder` and
`MemoryShape` (an idle worker holds no task, another one holds a real generation of a
real task). A claim takes a due row; by `DispatchExact` its lease, if any, has ended, so
the step takes no live lease. The new generation exceeds all those remembered by
`OneHolder`, so it is held by one worker. `LeaseRespected` is then an action property
under this invariant, one step per action.

*History* (`HistoryTruthfulAlways`). `History` says of each task that its executions are those
of its generations, all but the newest given up, and that its events begin with the creation,
end with what its state says, and count its attempts. It speaks of one task at a time, so a
step that leaves a task alone keeps it (`HistoryStep`), and one lemma per kind of step appends
the event and closes the execution.

*The timeline* (`TimelineProofs`, about `Spec` of `TimelineCalls`, for any
callers with disjoint roles, any positive number of checkpoints and any bounds). The idea
behind all of it is that every accepted command raises the version of the execution, and
that no command under way knows a version that does not exist yet: of all commands that
know a version, one can be accepted. `TypeInv` joins to `TypeOK` that no command under way
is ahead of the version or of the date, and that rows agree (a reassessment is on record
exactly when the execution waits for one; before the start every checkpoint is pending).
On it rest

- `CommitOrderAlways`. `Timed`: attestation number `a` is dated `a - 1`, because a call
  that could still be accepted was entered after the last commit: had another attestation
  been committed since, the version it knows would have passed.
- `RefusalFinalAlways`. `Settled`: a command whose author was told "no" has no receipt and
  cannot be accepted any more. A refusal rests on a state that is left for good, or on a
  version that has passed; the date is the exception the property names.
- `HandoffProvenAlways`, `StopsForGoodAlways`. A blocked checkpoint accepts no attestation
  and no verification, so the last attestation stays the blocker (`BlockedLast`), and
  after the hand-over nothing is accepted (`Handed`).
- `OneOpenAlways`. Preserved by each command given `WorkingAt(i)`, the shape of the
  checkpoints around the open one.
- `RecordSoundAlways`. `Signed`: the last attestation of a checkpoint is what its state follows
  from, and an attestation is verified once. `Receipted`: receipt number `r` is the one that
  made version `r`, and the version of the checkpoint a command knew is the one the receipt
  before it on that checkpoint left, so the receipts can be read as a complete history.
- `ImplementsProgressAlways`. Every step of the rows is a step of `PlanProgress` or a
  stutter, with the number of verified checkpoints as the milestones passed. Since checkpoints
  are verified in order that number is the ordinal before the open one (`OneOpenCheckpoint`).

*The tabs* (`TimelineProofs`, about `TabSpec` of `PlanExecutionTabs`: `TabsTyped`,
`ReceiptsReconcileAlways`, `DropsOnlyUndoneAlways`, for any callers, checkpoints, orphans and
reloads). `ReceiptHolds` says what a receipt reports of the rows as they are now; it stays true
because versions only grow and a reassessment stays on record (`Grown`, `ReceiptsKeepHolding`), so
it holds whenever the tab reads. `Sent` adds that a tab which confirms a command has it among the
receipts, and that it keeps one command at most, so the call it waits for is of that command: a
refused one is not `Done`, which is all `DropsOnlyUndone` asks.

*Skills* (`SkillProofs`: `SkillsTyped`, `ChainJustifiedAlways`, `ScopeNeverGrowsAlways`,
`PinsFollowChainAlways`, `EffectOnceAlways`, for any versions, scopes, keys and connections).
What a command read before its lock constrains nothing; what it compares under the lock
does: its expected sequence is the length of the chain, or the row it inserts is new. `base`
and `evaluation` are written once, so what vouched for an activation stays.
`EffectOnce` follows because a record with the key means that sequence or row was used.

*The evidence loop* (`EvidenceProofs`, for any terminals, run roots, sources, datasets and
faults). `FrozenBeforeRevealAlways`: Digests taken with the dataset present are held only by a command that
has the scan still before it (`ProcOK`), and the dataset stays in the checkout until that scan,
which then refuses. `SetupDescribesStoreAlways`: `RootsSound` and `ProcsSound` say how far a
store is at each place of the command that builds it; `mkdir` makes it the only builder
(`OneBuilder`), and nothing that can happen to a root while it is built touches what the receipt
will say (`Tame`). `VerdictSoundAlways`: a capture that is not what the frozen code makes of the
sealed store is found out by the check after it (`Watched`), so a verdict by the frozen
code is that of the suite on a faithful capture; `SuiteExact` proves, for every dataset of four
well-formed cases (`DatasetAssumption`), that it confirms exactly what a plain reading of added
value does, which the run shows for 65,536.

*Records and the contract* (`TaskProofs`). `RecordsAgreeAlways`: the parts of
`RecordsAgree` are not inductive, because a row is judged by the rows it names. `RecordInv`
adds that only runs that exist are named (`RunsKnown`), that rows of tasks are filled in order
and a pin names the predecessor its revision has and that run's pack (`PinsSound`), and that
every promotion made a new version for one revision (`PacksSound`). `OneLiveTask` then
excludes that a second task adds a run to a revision. `WorkFreshAlways` needs in addition that a
computed result was read with the pack the operation asks for (`AnswersPinned`): while the lease
is live the task is active, so by ownership the Case has not moved since the adapter read it.
`NothingReplacesUnreviewableAlways`: a blocked or failed run keeps the Case `planning` (`UnreviewablePlans`), a
second result is refused while it is current, and what else leaves `planning` needs a run that
was reviewed; one step per action. It is no promise of the code but the reason why
`BlockedRunRemediable` fails (section 8). `ContractStepsAlways`: every step is a step of `TaskContract` or a stutter. The
contract numbers a result by counting those there are, the code appends a run; that the runs are
in bijection with the tasks that have a result (`RunsNumbered`) makes the numbers equal.

*What the demo tells* (`OffersAcceptedAlways`, `LedgerAgreesAlways`). The projections look at
some of the rows and conclude what the others say, so the rows have to say a little more than
`RecordInv` (`OffersBacked`): whoever is asked has a brief, a Case that plans again has an
answer to its run, and a live task is the last of its revision, so that the task they look at
is the one the Case waits for. The situations of a Case then exclude each other, and both
theorems go through them one by one: the phase, what it offers and why the guard of that
command holds, and for the ledger each part of each validator.

*Stage 1* (`CaptureProofs`: `OneRunAlways`, `ReceiptsTruthfulAlways`, for any attempt identifiers,
run versions and faults). A receipt is published some steps after what it reports was seen.
`CaptureInv` therefore has two halves: `Authority` (receipts, the producer's runs and the API's
candidate agree) and `CommandSound` (at each place of a command, it knows nothing the
authority does not hold). Nothing the producer or the API does on its own takes back what a
command relies on (`run` only advances, a ready run is final), so a kill or a fault at any place
leaves the first half as it was.

*Stages 2 to 4* (`ClosureProofs`: `ReceiptsTruthfulAlways`, `SourceGuardedAlways`, for any rivals,
outcomes, faults and either version of the capture receipt). The same shape: an effect that is ours stays ours, which `Based` keeps for
the mutations a stage builds on, and the marker stands wherever bytes lie open
(`SnapshotGuarded`); `SourceGuarded` is an action property under that invariant.

*The thread and the evidence* (`KnowledgeProofs`: `FactsFollowVerdictsAlways`,
`ReadersCompleteAlways`, `ApprovalsExactAlways`, `CandidateLifecycleAlways`, for any keys, members,
page limit and bounds). `Numbered`: at most one append holds a number, the next one, so the
committed messages are `1 .. n` and a cursor misses none. `Paging`: what the reader of facts has
is the history of its snapshot up to its cursor, in the order of the query; a page adds the
least of the rest (`Least`), and since a fact belongs to the revision that confirmed it a later
confirmation adds nothing to an older snapshot. `Promotions` numbers the packs.

*Runs over revisions* (`DemoProofs`: `RunsJustifiedAlways`, `ComparisonExplainedAlways`, for
any scopes, intakes and budgets). First the policy alone: the inputs
made for either operation have one item per claim, so no input is a fault, and
`evaluate_planning_run` gives each route exactly what `RoutesOn` says of pack and preferences, a
definition without evidence or guards in order. Then the rows: `RevisionInv` says that a run is
what the policy said of its revision and pack (`Judged`), that consecutive revisions differ in
one fact (`OneFactRevised`), that the lineage has no gap (`LineageKept`) and the pack is the one
the lineage asks for (`RunsPinned`, `WorkPinned`). The price of an intake is in the pack, and that
the pack of a delayed intake goes exactly with the revisions that delayed it, or follow one
that did (`DelayExact`), is why a run's price is that of its own intake.

*The browser tab* (`DemoProofs`: `TabActsAsMeant`, and `JourneyActsAsMeant` for the page of the plan
alone, for any number of faults). A commit that
happens twice needs two keys for one click, and a wrong signature needs a cookie the csrf token
still fits; neither shows at the step where it goes wrong. `JourneyInv` follows both: each place
of a job says which role it is about, which key is saved and what a retry would repeat
(`RoleKept`, `Repeats`, `RetryBound`, `OneRetryKey`), the token in memory fits no cookie of another
role (`CookieFits`), every key saved, on its way or committed is below the number of times its
command was asked (`KeysAsked`), and rows with one key are one row (`RecordsDiffer`).
The rows of a command are then in injection with the numbers below `asked`. The collaboration
page writes none of this; `FirstPage` says what it hands over: nothing of the plan page has
happened, and when the tab leaves, a live cookie is the advisor's.

*The demo database* (`DemoProofs`: `DatabaseInvAlways`, `SeedRepeatableAlways`,
`HistoryKeptAlways`, about `DemoSpec`, for any number of seeds, migrations and acts of people).
A seed is run again on what people and migrations made of the rows since, so what it will find
has to be known. `DatabaseInv` says it: `Looks`, a Case looks as the people who worked on it left
it, and as the seed made it if nobody did; `RowFits`, which columns can hold something at a level
of the schema; `Rooted` and `Shelved`, what stands in the database beside the Cases. Then each
part of the seed is read twice. The first time it adds Cases and changes none it finds (`Sown`);
the second time it finds its own rows, changes nothing, and objects exactly if somebody worked on
a Case it compares (`Alike`), which is `SeedRepeatable`. For `HistoryKept`: where the guard of a
downgrade lets it through, no row has anything the downgrade would take (`UnguardedSame`), and
an
upgrade changes a row in one way, which `HistoryKept` names: 0008 cancels a task queued without a pin.

*Assumptions.* Besides positive bounds: roles are disjoint, `NoWorker` is no worker, ranks of
fact keys tell them apart, scopes are sets of supported countries that are not empty, budgets
pass the checks of their model, versions that pass are versions, a dataset's cases speak of the
public sources, and the number of the delay pack is beyond the packs in use (`PacksAssumption`,
which lets `DemoProofs` speak of up to fifteen revisions and no more). TLC evaluates each of them on the instances of the runs.

*Only model-checked.* Liveness and the liveness part of `ImplementsContract` (`CommandsSettle`,
`Settles`, `ReachesPlan`, `LoopConcludes`), which the prover does not reach. Of the
browser `BudgetAsSaid`, which has no proof yet.

## 7 Not modelled

One Case and its tasks are modelled: Cases share only the numbering of source packs.
Row-level security, hashing, JSON validation and wording are left out; they restrict who may
call, or what a payload is, and no property here is about them.

*Row locks within a transaction.* `claim_agent_task` locks queue row then task row; cancel,
heartbeat, fail and finalize lock task row then queue row. Such a pair can form a cycle, which
PostgreSQL resolves by aborting one; a worker whose transaction is aborted is `Abandon`, and an
aborted command of the API is an error to its caller, who may send it again.

*Torn reads.* A read is one step; see the timeline in section 3 for what a mixture leads to.

*The HTTP interface, database access and configuration* keep no state of their own. The seed and
the migrations are modelled as far as they meet what people did (`DemoDatabase`); the other
*scripts* run once, alone, against an empty or finished system; *presentation* is text and layout.
*Development evaluation, readiness reports and the read-only consumer contracts* of the evidence
component compute a report from one input. The *plan page's* change of role or session works as on
the pages that are modelled.

*Of the plan page* a change of role while a command is kept is left out with `switchRole`: a tab
is its caller's for good, and what the envelope keeps of the other role is not followed.

*Of the demo page* a proposal of countries stands with the budget: both are what an advisor's page
can only confirm. The 409 a task creation answers when its intake has no evidence
(`tasks/postgres.py:298`) is out, since a confirmed intake of the model has evidence.

## 8 Findings

**`family` (a defect, with a counterexample).** `_versioned_advisor_ledger`
(`connected_demo/postgres.py:537`) replaces the phase of a revised run by
`revision_review_required` whenever the task still needs the advisor's review and the
revision has a predecessor, and so also when the run is approved and its brief is with the
family. `_validate_revision_projection` then refuses the ledger and the read fails, while
`journey_status` calls the same rows `family_review`, and the design
(`2026-07-14-m5-connected-advisor-family-demo-design.md:135`) says the ledger shows "advisor
completion plus current family-safe Brief identity". The browser hides it by reading as the
parent in that phase.

**`remedy` (documentation and code differ).** The state matrix gives `revision_blocked`, the phase of a
blocked successor, the primary action "remediate Evidence/facts"
(`state-and-interaction-matrix.md:46`). `BlockedRunRemediable` says that people who keep using
what the Case accepts, have a task left to try and cancel none see such a run replaced, and TLC
shows they do not: the run stays current, `planning_runs_one_current_per_case` (0002:87) refuses every other run for the Case, a
confirmed fact retires only a run whose review asked for a revision (0017:383), and a run that
is not `review_required` gets no review (0003:185). What people add is still accepted: a later
task runs and its result ends in an unmapped database error, attempt after attempt.
`NothingReplacesUnreviewable`, proved for any bounds (section 6), is the reason.

**`closure` (documentation and code differ).** The runbook lists Stages 1 to 4 as a resumable
transcript in which `promote` goes on from the capture receipt
(`dra-consumer-proof.md:176-184`). The commands freeze strict intents only
(`verify_dra_live_closure.py:520`, `:990`), for which Stage 1 publishes a receipt of version 2
(`live_controller.py:1353-1370`); `promote` (`:182`) and `evaluate`
(`verify_dra_live_closure.py:1220`) read version 1. `Closes` is violated without a fault, a rival
or a failing task: repeating the stages never gets past `promote`. From a receipt of version 1 they close.

**Observed without a run.** What follows was met while modelling. Some of it can be seen by
putting the named definition into a cfg; none of it is checked by a run.

*Tasks and Case.*
- A review that rejects leaves the dead end of `remedy` (0003, line 41).
- After `request_revision` of a mixed run no later run can succeed, because its pack is for
  the revision before.
- Confirming an unchanged budget or the same countries under a planned revision publishes a
  revision whose comparison has nothing to explain (`RevisionComparable` of `PlanRevisions`;
  decision record 0012). The intake 2028-02 before the first run leads to a blocked run.
- `read_confirmed_facts` reads live revision, heads and history in three statements.

*Skills.* Promote and rollback look a key up before they take the lock, so the second of two
equal commands is told NV019 and not given its receipt (0008, line 735; the plan of
2026-07-16, line 1090, expects a replay). It takes no effect twice, which is `EffectOnce`.

*The plan page.* A stale tab repeats a request whose refusal (NV026) it has already read
(`StaleTabRefreshes` of `PlanExecutionTabs`; `api.ts:43`). A start that is recovered is taken
for a changed session and dropped although it took effect (`OnlySessionsChange`). The
reassessment button stays live beside Revalidate (`PlanExecutionWorkspace.tsx:63`, `:155`) and
`runMutation` (`use-plan-execution.ts:421`) then forgets the command kept so far: whether a lost
verification took effect is told by the next view only, not by its receipt.

*The collaboration page.*
- A session, or the answer to its mint, lost after a message whose budget is not the default
  leaves the page without a way on: "legacy collaboration identity is ambiguous"
  (`use-collaboration-demo.ts:124`), where `state-and-interaction-matrix.md:66` offers "explicit
  retry or re-auth". So does a session lost after the confirmation, and a candidate another
  tab decided while this one was in `advisor_reviewing`.
- Recovery in `thread_ready` adopts what it finds without saving it, and Propose then does
  nothing (line 539). The parent always proposes for revision 1.
- Proposing the same value again after a rejection reuses the keys and fails for ever
  (`docs/reference/collaboration-and-confirmed-facts.md:189`).

*The demo page.* The event stream has no error handler: when a reconnection is refused,
`task_streaming` stays until a reload. After the session has expired, the status check in
`transitionRole` repeats the failing read, again until a reload. A session of another role,
minted by another tab, makes the ledger a 404 and the page repeats `transport_failure`. Two
undecided candidates leave `pendingRevisionCandidate` null. A value that was rejected and is
proposed again has the body, and so the keys, of the first time (`revision.ts:94-100`,
`use-connected-demo.ts:647`): message and proposal are replayed, nothing is pending, and the page
fails for ever (`Spent`), where `collaboration-and-confirmed-facts.md:187-190` says "the student
can propose a replacement"; another value can be. Confirming an intake no pack answers for is
refused (`intake_evidence_unavailable`, `use-connected-demo.ts:64`, `:487`) and writes nothing, so
the candidate waits for a rejection.

*The live closure.* `capture-live` given again after its receipt fetches the text again,
until publication finds the conflict (`ImportRepeatable` and `ConsumedHonest` of
`LiveCapture`). Both mutations of
the review stage write `review-ambiguous.json`, so that the second ambiguous outcome ends with an
error and no receipt (`live_controller.py:402`); the stage can be repeated.

*The evidence loop.*
- Once a capture exists `evaluate` is refused for ever (`evaluate_evidence_loop.py:499`), which
  is not what its recovery text at line 56 tells the operator; before that a second evaluation of a
  revealed dataset would run, against the one-shot rule of the design (:350-353, and :1649-1659 on
  the run that was retired so). Drift after the reveal is
  refused at the command line without the `evaluation_invalid` receipt of the design, an
  exhausted budget raises `mke_capture_inconclusive` without one, and a capture always records
  its selection as complete.
- Novelty is by identifier in `evaluate_case_document` and by value in `evaluate_case`, and
  the expected values of the committed holdout's decoy and conflict occur in no source text.
- A torn pre-registration is never removed by `freeze`. A reveal that is killed leaves its
  `.holdout-reveal-*` directory: the search of `freeze` for a revealed dataset does not look
  there, and as an untracked file it makes the commands after it refuse the checkout.
