# Verification of the inventory engine

This directory holds TLA+ models of `src/dsio_inventory_engine`, the TLC
configurations that check them on small instances, and the proofs TLAPS checks.
Paths below are relative to that package unless they say otherwise.

## 1. The system

The engine is one Python package. A Platform (another service) claims a Run for
one site and dispatches it; the engine prepares the site's input from the sealed
documents of the source systems, classifies its items, calculates a
product-stock-inventory (PSI) projection with a baseline, a recommendation and
optional challengers, seals the result, and tells the Platform to publish it.
Beside the Run there are development tools that search, choose and compare
replenishment policies, and a store of relational rows for reports.

| Component | State it keeps | Operations | Talks to |
|---|---|---|---|
| run lifecycle: `run_inventory/runtime_execution.py`, `result_pipeline.py` | per execution: `row_version`, the result in hand | `InventoryRuntimeWorker.execute`, `InventoryResultPipelineHandler.execute`, `acknowledge_publication`, `verify_runtime_result` | Platform (HTTP), evidence store, orchestrator |
| evidence store: `infrastructure/sqlite/inventory_evidence.py`, `inventory_evidence/` | artifacts (write-once), outbox rows (unique per Run/Attempt) | `commit`, `commit_artifacts`, `find_outbox`, `mark_published`, `list_pending`, read-and-verify | SQLite |
| platform client: `infrastructure/http/platform_lifecycle.py` | none | `append_event`, `publish` | Platform |
| input preparation: `prepare_inventory/`, `infrastructure/canonical_snapshot_publisher.py` | snapshot files of a site (write-once) | map the pinned documents, cut off stock and movements, admit, publish, bind to a claim | sources, contracts |
| orchestrator: `run_inventory/psi_orchestrator.py`, `result_artifacts.py` | none (one deterministic attempt) | admit, baseline, mathematical, PPO and stress children, seal, check, compare | PSI kernel, recommendation, costs |
| PSI kernel: `simulate_inventory/`, `recommend_replenishment/` | stock, order pipeline, demand horizon | one step per week, order guard, order cut-off, policies | prepared input |
| classification: `classify_inventory/`, `inventory_contracts/`, `run_inventory/classification_stage.py`, `infrastructure/postgresql/` | snapshots, lineage, run events | load closed weeks, compute classes, derive and admit policies, publish a snapshot, record stage events | PostgreSQL |
| policy choice: `recommend_replenishment/application/policy_*.py`, `catalog_*.py`, `evaluate_replenishment/catalog_comparison.py`, `*/policy_segmentation.py` | files and an append-only directory of artifacts | search, select, compare, study catalogues and learned ranges on held-out periods | PSI kernel, classification |
| costs: `calculate_landed_cost/`, `run_inventory/landed_cost_pipeline.py`, `inventory_evidence/run_cost.py` | cost evidence of a Run | price a shipment, seal, verify | trade records, evidence store |
| target results and projection: `recommend_replenishment/application/target_durable.py`, `run_inventory/*target*`, `inventory_evidence/projection*.py` | target files, evidence artifacts, relational tables | seal and calculate a target input, recover, project, repair, write | file system, SQLite |
| robustness catalogue: `evaluate_replenishment/robustness/`, `infrastructure/robustness_*` | resource pool (files, reservation, quarantine), job queue, durable catalogue | execute a catalogue under a deadline, publish artifacts, recover, purge | file system, worker processes |
| contracts: `inventory_contracts/` | none | parse, validate and seal every document | everyone |
| learned policy: `learned/`, `training/` | model artifacts | train, evaluate, shadow execution | recommendation |
| entry points: `entrypoints/` | none | command lines and FastAPI application | the above |

Hard behaviours: at-least-once dispatch with concurrent executions; calls to the
Platform whose answer is lost; crashes between the commit and the publication;
row-version compare-and-set with stale bases; documents read one after the other
while their sources move on; a file-system quota shared by processes that may die
at any system call; deadlines that race results; results that are only files
between two programs; writers of one set of tables; evidence that must be believed
years later from its rows alone; weekly arithmetic at the edges of the horizon.


## 2. What makes each part correct

| Part | Correct when | Where |
|---|---|---|
| run lifecycle, Platform client | one result is sealed per Run/Attempt; nothing else is announced, exposed or acknowledged, in this order; a review is never bypassed; a redispatch ends what a crash left | `RunLifecycle`, `SealedPublication` |
| evidence store, orchestrator | an optional child that fails changes nothing but itself; the store holds one execution whole or nothing; a verification accepts one execution only | `ResultBundle` |
| input preparation | a plan that runs is the stock at the cutoff, the demand and the supply still to come and the terms in force; a restarted producer never runs into its own files | `InputPreparation`, `PreparedPlanning` |
| PSI kernel | stock and orders are conserved; orders are received once and fit the capacity of every later week; the recommendation serves customers no worse than the baseline | `PsiPlanning` |
| result check | what ran honestly is sealed; what a later reader accepts was computed from the input it names; a comparison is of like with like | `PsiEvidence` |
| landed cost | no hindsight in a price; a shipment is priced whole; a saving accounts for every order; a cost that is read is the one that was sealed | `LandedCost`, `RunCost` |
| classification | no automatic order on doubtful evidence, whatever changes between classification and admission; an item without evidence has no say in the class of another; an axis on trial moves no policy | `ItemClassification`, `ItemPolicy`, `ClassificationSnapshot` |
| classification stage | revisions and event numbers have no gap and no repetition; originals, receipts, announcements and rows agree; no lock outlives its execution | `ClassificationStage` |
| policy choice | the choice is the optimum of what the inputs give, or refused; horizon effects have a stated cause; the holdout never chooses; a study judges choices made without the answer | `PolicyChain`, `CatalogComparison`, `PolicySegmentation` |
| target results and projection | what is visible as complete is whole; one checkpoint governs every answer of a run; one receipt names the rows of the tables; rows refer to rows of their own projection and open no gate the claim closes | `ResultAssembly` |
| resource pool | a root never holds more than its budget, whatever dies where; what is retained is charged; what one process leaves never blocks the next | `ResourcePool`, `QuotaBoard` |
| invocation control | a call answers in time, only with a whole result, and leaves no process behind; one worker per root | `InvocationControl` |
| durable catalogue | an answer stands for a complete, unharmed execution of the expected input; an interrupted one is recovered | `DurableCatalog` |

## 3. Modules

| Module | Models | Composes |
|---|---|---|
| `SealedPublication` | the promise of the runtime about one claim | |
| `RunLifecycle` | worker, pipeline handler, outbox, Platform calls | implements `SealedPublication` |
| `ResultBundle` | the children of a bundle, the evidence transaction, reading back | |
| `InputPreparation` | from the sources' documents to a published, claimed input | |
| `StockStep` | the stock transition all projections share | |
| `PsiPlanning` | baseline and recommended projection of an item, order guard, pipeline | `StockStep` |
| `PreparedPlanning` | a Run that starts when its claim and the canonical set agree | `InputPreparation` with `PsiPlanning` |
| `PsiEvidence` | the decisions recorded, the child sealed, its check, the comparison | on `PsiPlanning` |
| `LandedCost` | the price of a shipment | |
| `RunCost` | the cost evidence of a Run and its later verification | `PsiEvidence` with `LandedCost` |
| `ItemClassification` | ABC, XYZ and the five optional axes | |
| `ItemPolicy` | derivation, validation and admission of an effective policy | on `ItemClassification` |
| `ClassificationSnapshot` | the life of a classification, from closed weeks to an admitted policy | on `ItemPolicy` |
| `ClassificationStage` | stage, snapshot publisher, event recorder, original artifacts | |
| `PolicySearch` | candidates and their simulation | `ItemPolicy` with `StockStep` |
| `PolicySelection` | the replay of a search result and the choice | on `PolicySearch` |
| `PolicySensitivity` | the comparison of searches over horizons, costs and demand | on `PolicySelection` |
| `CandidateCatalog` | segmentation by three factors; the three catalogues, search and selection with them | on `PolicySelection` |
| `PolicyChain` | the three entry points, their files and their directory | `PolicySensitivity` with `CandidateCatalog` |
| `CatalogComparison` | a study of the three catalogues on held-out periods | beside `PolicyChain` |
| `PolicySegmentation` | an experiment with ranges that a tree learns to choose | beside `CatalogComparison` |
| `ProjectionRows` | the rows of a sealed result and their foreign keys | |
| `TargetStorage` | objects, slots and parts of target files | |
| `ResultAssembly` | the operations that make, recover, project and write results | `TargetStorage` with `ProjectionRows` |
| `QuotaBoard` | the promise of the pool: names get one payload, once, within the budget | |
| `ResourcePool` | the lock, reconciliation, publication, jobs, quarantine, purge | implements `QuotaBoard` |
| `InvocationControl` | caller, worker, watchdog, lease, pipe, deadline | |
| `DurableCatalog` | durable runs over write-once objects and pointers in several storage formats | |
| `...Proofs` | theorems about the module in its name; `PsiPlanningProofs` also about `PreparedPlanning`, `RunCostProofs` also about `PsiEvidence` | |
| `MC...` | instances of the module in its name; `MCPlanningInputs` holds the requests `MCPsiPlanning` uses. `ResultBundle` and `InvocationControl` need none: their constants are sets and numbers that a `.cfg` can give | |

An operator whose comment starts with "Defect" is a definition that follows it with a
plausible defect: putting it in that definition's place makes a checked property
fail. No specification uses it.

### RunLifecycle

State. `pc`, `call`, `receipt`, `rowVersion`, `found`, `result` are the locals
of one `InventoryRuntimeWorker.execute`; `outbox` is the row of the claim in the
evidence store; `eventWire` and `publishWire` hold requests that may still
reach the Platform after their caller gave up; `recordedAt`, `siteVersion`,
`runStatus`, `effective` are the Platform. `highest` is a history variable: the
largest row version an execution was told.

Actions. `Start` to `InputResolved` are the admission and the lookup of the
outbox; `VerifyArtifacts` and `Recovered` the path of a redispatch that finds a
sealed result; `ResolveCommand`, `PsiStarted`, `Orchestrate`, `PsiCompleted`,
`Commit`, `ReadBack` the calculation and the transaction of
`inventory_evidence.py`; `Persisted`, `BindResult`, `Withhold` the terminal
event; `Publish`, `PublicationAccepted`, `AcknowledgePublication` the
publication. `Rejected`, `Timeout`, `StepFails` and `Crash` are what may happen
instead. `ReceiveEvent` and `ReceivePublish` are the Platform, external to the
repository and modelled by what the client accepts from it and what the
lifecycle contract documents: it records an event once, answers a replay with
the row version of the recording or the current one (`Replays`), and accepts or
rejects events of an ended Run (`AfterTerminal`). The commit is one step: it is
one SQLite transaction, which `ResultBundle` takes apart.

`SealedPublication` has three variables; `SealedContent`, `effective` and
`Acknowledged` are the refinement mapping.

### ResultBundle

State: what the deterministic calculation of the claim's input gives (`maths`),
where each execution is, the children it built, the bundle it sealed, the
transaction that holds the write lock of the store, the committed `artifacts` and
`outbox`, and the answer of a verification. A child's artifact is one of the few
classes of content that the comparison and the costs distinguish. The optional
children and the rows of a transaction are sets: no child reads another of its kind,
and no row refers to a row written before it, so that their order tells nothing. Children run in
the order of the sealed plan: the baseline and the mathematical recommendation must
succeed, each challenger and scenario may fail on its own, also in its comparison.
The transaction writes row by row and may meet a conflict or a crash after any row;
a row may be lost or replaced by one of another execution (`LoseRow`,
`RestoreRow`, `RestoreOutbox`) before a verification reads it.

### InputPreparation and PreparedPlanning

State: the request (`given`, with the facts behind it), the document each source
answers an identifier with now (`desk`), the canonical snapshots made so far
(`composed`), the files of the site (`catalog`), and where the producer is.
`ReadSource` reads and maps one pinned document; between two of them a source may
answer with another one (`Recollect`) and the producer may die and be started again
(`CrashProducer`). `PrepareInput` admits the set (`validate_universe` and the
canonical checks), `PublishNext` writes one file. The stock of the cutoff is the
closing stock with the movements in between (`cutoff.py`), the supply is the
purchases that are not in it, the demand a forecast net of orders or not as the
document says. `StartRun` and `RefuseRun` are
`validate_canonical_runtime_binding`: from there on the projections of
`PsiPlanning` run on the plan of one of the items.

The facts (what moved when, what was promised, sold and agreed) are read by no
action. They are what the property compares the plan with.

### PsiPlanning and PsiEvidence

State of `PsiPlanning`: the plan (input and controls), the rows of the baseline and
of the recommended projection so far, the ledger of receipts still to come, the
orders accepted. `BaselineBucket` and `AdvanceBucket` are one week of
`advance_bucket` (`Advance` of `StockStep` is its arithmetic); `PlaceOrder`,
`OrderNothing` and `StrategyFails` are what
`recommend_replenishment/application/run.py` makes of a proposal. The strategy is
any program: the action takes any member of `Proposals`, so the properties are the
guard's doing and not the strategy's.

`PsiEvidence` adds what the run records of every decision (observation, proposal,
validation with its reasons), the child sealed over it, and `ChildValid`, the check
every later reader makes from the sealed source alone. The check exists for a
producer that errs, so the projection may slip once: lose an accepted order, decide
on a stale view, receive a supply twice, open a bucket with the wrong stock, be
sealed with another input or be compared with another baseline. What follows a slip
is consistent with it, which makes it hard to see.

### LandedCost and RunCost

`LandedCost` is the price of a shipment from the records of one approved revision:
which records were known and in effect, tariff rules, lane charges and their
allocation to lines by weight, value or quantity with the remaining units given out
one by one, taxes, exchange rates. A missing decision blocks a line; a
contradiction refuses the shipment. `RunCost` resolves the inputs the claim pins
from whatever revision the Platform answers with, makes a shipment of every
accepted order, seals the evidence, commits it, and reads it back while documents
may be lost, misplaced or of another claim, or the calculator upgraded.

### Classification of an item

`ItemClassification` and `ItemPolicy` are the pure algorithms over a portfolio of
items. `ClassificationSnapshot` is what happens between them: evidence is revised,
items retire, the configuration changes, weeks close and are reopened by
corrections (`Revise` to `Correct`), approved assignments are withdrawn (`Withdraw`),
while a snapshot is built from what the closed weeks hold, validated again by the
publisher, and a Run admits an item's policy under the configuration it has by then.
Which weeks a document stands on is computed twice: the source names the closes it read
(`SourceLineage`), and the builder those its axes need (`LineageOf`); a document exists
only where the two agree (`BuildRefusal`). `HeaderValid` is what the publisher checks of
the weeks a document names. The configurations are those the validators admit
(`V1ConfigValid`, `V2ConfigValid`), rule set by rule set.

### ClassificationStage

State: the snapshot rows of one scope and its advisory lock, the events and the
row lock of each Run, the directory of originals, and per execution its
connection (`view` is what a REPEATABLE READ transaction sees). Actions follow
`InventoryClassificationStageUseCase.execute` and the two PostgreSQL adapters
statement by statement, so that two executions interleave between taking the
view, getting the lock, reading the revision and committing; a commit against a
view that is no longer current is a serialization failure (`Serializable`).
`EndRun` is the rest of the engine ending a Run.

### PolicyChain, CatalogComparison and PolicySegmentation

A world is a configuration, a classification snapshot and the requests of the
cases. `Search`, `Select` and `Evaluate` are the three entry points. Between two of
them a result is a file: `Amend` edits one and seals it again, which `Select` and
`Evaluate` must notice by replaying every candidate. Artifacts are written to one
append-only directory, parents first (`WriteParent`, `WriteOutcome`).
`CatalogComparison` adds a study: every mode plans on the planning input
(`PlanMode`), the choices are locked (`LockChoices`), then the realised demand is
replayed for the widest range (`ReplayRealized`) and the choices are recorded
(`RecordCase`, `KeepArtifact`, `NextCase`).

`PolicySegmentation` adds an experiment, in the variable `experiment`: every training
and validation case is searched with the union of all ranges, on the forecast and on
the realised demand, and credits each range with what an item routed to it would lock
and what that comes to (`LearnCase`). Trees of depth 0 to 2 are grown on the training
cases and one is chosen on the validation cases (`FitTrees`). Of each holdout case
three arms choose in turn (`PlanArm`): the range of the item's class, the one the tree
names, and the union. Only then is the demand replayed (`ReplayHoldout`), and every
arm compared with the optimum of the union on the plan and in hindsight
(`CompareArms`).

### ProjectionRows, TargetStorage and ResultAssembly

`ProjectionRows` emits the rows of a sealed result as the projector does, branch by
branch, each with its key and the keys it refers to; a key is composed again
wherever it is used. `TargetStorage` is the disk: objects named by their content,
slots that point once. `ResultAssembly` runs the operations of processes over the
target files, the evidence artifacts and the tables: `seal`, `calculate`,
`execute`, `recover`, `read`, `source`, `repair`, `write`. Each is a sequence of
steps between which a process may crash, a file may be lost or harmed, and the
package may be upgraded, which every later step notices because the identity of an
implementation is the hash of the installed code.

### ResourcePool

State: the files of one root (`files`, reservation `pending`, quarantine `metas`
and `bins` with their `charge`), the OS lock, and where each process is. Every
file operation is a step, and `Crash` may follow any of them; the lock is then
free, as the operating system releases it. Sizes are units: `small` and `large`
payloads differ in their raw size, stored sizes are smaller (compression).
`Reconcile` and the quarantine steps are what `_reconcile` does for whoever
takes the lock; `PublishAdmitted`, `WritePending`, `WriteTemp`, `LinkArtifact`,
`UnlinkTemp` the publication; `JobAdmitted`, `RetireJob`, `Inspect`, `PurgeBin`,
`PurgeMeta` the others. `Age` and `Expire` let time pass.

### InvocationControl

State: where each call, its worker and its watchdog are, what was read from the
pipe, the job record, the lease of the root. A worker is started in a process
group of its own and the group is killed as a whole (`StopGroup`); a killed
leader whose caller has not collected it is a zombie until `ReapCaller`. The
deadline (`Expire`), a cancelled caller (`Interrupt`) and the death of any of the
three processes alone (`KillCaller`, `KillWorker`, `KillWatchdog`) come at any point;
`lost` records what was killed of which call. A critical section of the resource lock is one step here.

### DurableCatalog

State: `objects` (physical references on disk), `slots` (pointers by logical
key), and per process the operation it was asked for and the document it is at.
An object is known by what it is of, because its name is the hash of its content
and calculations are deterministic; a reference also has a storage format, as
the references in the code name the physical file. The leaves of an execution
depend on its assembly and realization only, so executions share them (`World`).
`Reuse`, `NotStored` and `Publish` are `put`: what is stored in an older format
is returned as it is. `Bind` writes a pointer once. `FindInput`, `Resume`,
`VerifyLeaf`, `ExecuteLeaf` are `recover` and `_resume`, `Load` the reading of a
completed execution. `Damage` loses or overwrites a file or loses a pointer while
nobody works in the directory.

## 4. Runs

| Run | Asks | Instance | Properties |
|---|---|---|---|
| `rl_concurrent` | two executions of one claim at the same time | 2 executions, 2 documents, 1 fault, every documented Platform answer | `ExposedIsDurable`, `OneSealedResult`, `NoFailureAfterSeal`, `ImplementsPromise` |
| `rl_redispatch` | is every claim settled once faults stop | 3 executions one after the other, 1 fault | `EventuallySettled` |
| `rb_evidence` | how an optional child can end a Run, and what a conflict, a crash or a damaged row does to the evidence | 2 executions, 1 challenger, 1 scenario, rates with and without decimals, 1 fault | `OptionalEndsRunByCostOnly`, `StoredWhole`, `VerifiedIsOneExecution` |
| `psi_strategies` | any strategy over four weeks, from any prepared input and from the documents of source systems | 1,728 prepared inputs, some 250 requests, 6 proposals | `InputAccounted`, `SupplyAccounted`, `NeverWorseThanBaseline` |
| `pe_sealing` | sealing, checking, comparing and pricing a projection, with one slip | 89 plans of 3 weeks, 17 claims, 38 consignments | `HonestIsSealed`, `AcceptedIsComputed`, `ComparisonNeverAdverse`, `PricedAsClaimed`, `ShipmentIsWhole`, `SavingAccountsForOrders`, `CostReadIsCostSealed` |
| `cl_policy` | classification, publication and admission while the world changes | 3 items, 5 configurations, 3 weeks, 1 change | `NoOrderOnDoubt`, `ItemsInfluence`, `ShadowNeverMovesPolicy` |
| `cs_concurrent` | three executions with or without a Run | 3 executions, 1 Run, 2 contents, 1 fault | `PublicationSound`, `NoEventAfterEnd`, `LocksReturned` |
| `pc_chain` | searching, editing, choosing, comparing, studies of catalogues and of learned ranges | 19 worlds of 2 items | `SelectionIsTrue`, `ComparisonSound`, `StudiesAreFair` |
| `tr_assembly` | every operation on target files, evidence and tables, with crashes, damage and an upgrade | 6 worlds, 2 processes, 2 attempts, 2 inputs, 2 parts, 3 operations, 1 mishap | `CompleteIsWhole`, `CheckpointGoverns`, `ReceiptNamesRows`, `RowsHold` |
| `rp_crash` | publications, jobs, inspection and purge with crashes | 3 processes, 2 names, 2 faults | `RootSound`, `ImplementsBoard` |
| `ic_calls` | two calls over one root | 1 killed process (caller, worker or watchdog) or refused file, deadlines anywhere | `LeaseIsSupervised`, `SuccessIsWholeAndTimely`, `CallEnds`, `OrphanEnds` |
| `dc_upgrade` | durable runs, the newer format after the older | 2 processes, 2 executions, 3 inputs, 2 leaves, 1 crash, 2 files harmed | `ExecutionIsOne`, `AnswerIsWhole`, `RecoveryNeverRefused` |

Every run ends without an error. What a property says is written above it in its
module. Some are the conjunction of named parts: `PublicationSound` of `TypeOK`,
`RevisionsConsecutive`, `OriginalKept`, `ReceiptNamesSnapshot`, `EventsConsecutive`
and `AnnouncedFirst`; `RootSound` of `TypeOK`, `BudgetKept`, `ChargeCovers`,
`SweptWhenFree` and `NeverCorrupt`; `ExecutionIsOne` of `TypeOK`, `OneManifest` and
`SealedInputGoverns`; `ItemsInfluence` of `HeadsCarryTheirShare`,
`UnusableHasNoSay` and `RefusalExplained`; `ComparisonSound` of
`HorizonEffectsExplained`, `HoldoutNeverChooses` and `RepricingConfirmsSelection`;
`InputAccounted` of `PlanIsTrue` and `PublishedWhole`; `SupplyAccounted` of
`OrdersReceivedOnce`, `LedgerBalances`, `PipelineBounded` and `ExcessNeverRecommended`.
The larger runs take one to three minutes.

Why the bounds are enough to see the interesting cases:

- Two executions meet at every pair of steps; a third adds only another copy of
  one of them, except where a third is the one who waits (the scope lock in
  `cs_concurrent`, the resource lock in `rp_crash`), and there are three there.
  In `rl_redispatch` the third execution is the one that comes after the fault
  of a recovery.
- One fault in `rl_concurrent` is a crash, a timeout or an exception at any
  point, also during a recovery, because two executions share the claim. In
  `rp_crash` two are needed: the second falls into the recovery from the first.
- `rb_evidence`: children are optional one by one, so one challenger and one
  scenario are every kind of optional child before and after another; two executions
  give the rows that conflict. The challenger is unresolved or comes to a delta
  with decimals; the scenario is unresolved, raises, misses a row of the universe or
  is whole. Which code a child raises tells nothing apart that a property asks, and
  the proofs are for every outcome.
- `psi_strategies`: lead times cross buckets of different lengths, caps shrink
  before an order arrives and after it, demand exceeds stock in some weeks, and
  lots and minimum orders round proposals up. The requests are made of two items
  and, for one of them, of histories of up to two movements around closing,
  cutoff and extraction (arrival of a purchase, issue, correction; units with and
  without a tolerance), documents that are wrong in one way each, every form of
  source system, generated stock and universes of development, late documents,
  files left by the same or another producer, and claims for something else. Two
  movements are what it takes for one to undo or hide another.
- `pe_sealing`: three weeks are the least with an order placed, pending and
  received. Lots of two only occur where there is demand. One slip, one damaged
  document or one upgrade per behaviour: a second slip could only undo the first.
  Consignments have up to three lines, so that units are left to give out.
- `cl_policy`: three items are the least with a head, a middle and a tail of the
  revenue ranking. The configurations differ in the modes of the axes, in
  thresholds and in version; one change may fall between any two steps.
- `pc_chain`: the worlds are seven of cases without a catalogue (profiles; plans
  with a late receipt, a long lead time or a high target; an item that is
  unclassified or held back), three with catalogues (one has a range set by hand),
  an honest study and three that must be refused (overlapping periods, a feature
  calendar of other weeks, another lead time), and five experiments: one of two
  training, one validation and two holdout cases in which the tree splits and the arms
  differ, the same cases given in another order, and three that must be refused (a split
  is missing, periods overlap, and requests of contract 2.0.0). An experiment searches
  one classification under a configuration for each range, which only a request of the
  older contract 1.1.0 may do, as those of the repository's own experiments are
  (`tests/support/policy_segmentation_fixtures.py:114`): a 2.0.0 request is
  bound to the configuration that classified, and refused under another one. A file is edited once, after the cases
  were searched, in each of the ways a test of the repository edits it. Ranges have
  2 candidates and their union 4, instead of 32 and 88: what matters is that the
  union has candidates a range lacks.
- `tr_assembly`: the worlds are results with the tables plain, projected by the old
  projector, with a shared or a distinct analysis, empty and blocked. The upgrade
  replaces the projector by the one that knows the gates of the claim; as the code
  identifies implementations by the installed package, only repair and write
  then go on with a claim of before.
- In `rp_crash` a large payload takes more than half of the free budget, so that
  admission decides; `Limit` is small enough for a refused publication, a full
  quarantine and a purge that makes room. `MaxFiles` is 8, so that admission is
  refused for the number of files too, and a purge is when two crashes left more
  than that. `Reserve` is the room the code keeps
  for records (4096 bytes; a unit stands for the size of a record), and the runs
  have less than `Reserve` records at a time.
- Two formats stand for the three of the code: the rules compare formats pairwise.
  Two leaves are the least with which one can be stored and another not; in
  `dc_upgrade` no process writes the older format after the newer (see 5).

`CHECK_DEADLOCK FALSE` is set where a system may stop: all its processes have
ended.

### Fairness

- `rl_redispatch`: every dispatch is started, an execution goes on while it can,
  and the Platform handles a request it received. The first is the Platform's redispatch of an unfinished
  claim, on which the lifecycle contract relies; the second the scheduler; the
  third is needed only after faults stopped, and a request that is lost is a
  fault.
- `ic_calls`: the caller goes on (it waits with a timeout), and the interpreter of
  a worker that was started reaches the fork of the watchdog, whose loop polls.
  Nothing obliges the worker itself: it may hang at every step after that.
- The other runs check safety and assume no fairness.

## 5. Disagreements met while modelling

These are places where what the code does is not what its documents or its own
checks lead a reader to expect. The modules model what the code does; the bounds of
the runs, or the wording of a property, leave room for it.

1. `run_inventory/runtime_execution.py:384`: the worker takes the row version of the
   last receipt, not the largest. A recovering execution whose terminal event is
   answered as a replay publishes against an older version than it already knew.
2. `infrastructure/postgresql/run_events.py:151`: the event after a committed
   classification snapshot has payload keys the recorder refuses, so such a
   publication is never recorded as an event.
3. `infrastructure/robustness_resource_pool.py:365`: retired jobs are files nobody
   counted at admission; a root can pass its file limit, and then no operation
   works, purge included.
4. `infrastructure/robustness_resource_pool.py:50`: a crash while the policy of a new
   root is first written leaves a root that every later process refuses.
5. `evaluate_replenishment/robustness/durable.py:210`: `put` answers with the oldest
   format on disk and `_complete` binds every leaf again. If an execution
   checkpointed a leaf in a newer format and another stored the same leaf in an older
   one, the first can never be recovered.
6. `docs/architecture/IO_PSI_STRATEGY_EXECUTION_CONTRACT_V2.md:149-151` (of the
   repository) says that a failure of a PPO challenger does not fail the mathematical
   result, and lines 244-245 that a challenger or scenario that fails is recorded as
   `FAILED` alone. But `run_inventory/psi_orchestrator.py:390-398` compares every
   child with the cost profile after the last of them and outside the isolation: where
   rates have decimals, an optional child whose cost delta takes more than six
   decimals ends the Run. `rb_evidence` has such rates and reaches that end.
   `OptionalEndsRunByCostOnly` therefore does not say that no optional child ends a
   Run; it says that this is the only way one does.
7. `infrastructure/postgresql/classification_snapshot.py:1672`: one item with a
   negative revenue holds up the publication for every item of its site
   (`RefusalExplained` states this as it is; `RefusalsAreTwo` proves it).
8. `calculate_landed_cost/projection.py:267` says "Invalid bindings abort; incomplete
   inputs preserve blocked evidence". But a missing quote for the currency of a lane
   charge, or a physical attribute that was collected late, whichever basis the
   allocation uses, aborts the whole Run; so does a transaction value that
   rounds to zero (`ZERO_VALUE_REASON_REQUIRED`). The valuation date and the row
   version are outside the content hash of a revision set. After an upgrade of the
   calculator the cost evidence stored before can no longer be verified.
9. `prepare_inventory/application/inventory_input.py:194`: the receipts snapshot carries
   no time, so the code cannot tell that supply it takes as `ALREADY_INCLUDED_IN_BOH`
   is in the position; the worlds of `psi_strategies` read receipts at the cutoff.
   Likewise the consumed quantity of an `UPSTREAM_NETTED` forecast is never compared
   with the customer orders.
10. An interrupted quarantine that a purge completes may be deleted by the same purge,
    because the record keeps the time of the interrupted attempt; and ten or more live
    jobs may need more room for their records than the 4096 bytes kept for them.
11. `docs/architecture/IO_SEVEN_AXIS_SEGMENTATION_CONTRACT.md:78` says that a shadow FSN
    window that is fully sealed is part of the lineage of a snapshot. The source does
    include it, but `classify_inventory/application.py:263` expects it only when the FSN
    evidence of some item is verified. A site with a sealed window and no verified item
    is refused with `CLASSIFICATION_ACTUAL_LOOKBACK_LINEAGE_MISMATCH` (`BuildRefusal`).
12. `evaluate_replenishment/robustness/resource_execution.py:96-98`: the worker forks its
    watchdog and looks at it no more, and neither does the caller. If the watchdog is
    killed the caller's own stop still ends the group; if the caller is killed too, a
    worker that hangs keeps the lease of the root for good. `LeaseIsSupervised` grants
    this case, and only this one (`Deserted`).

## 6. Proofs

The theorems hold for every value of the constants that satisfies the assumptions
of the module, for any number of executions, processes and faults. Most assumptions say
that a parameter is a number or a set (`PlatformAssumption`, `CallAssumption`,
`CalendarAssumption`, `OptionsAssumption`, `CatalogAssumption`), or that the value that
stands for nothing is none of the others (`NoneAssumption`). Those that say more are
named below. The input preparation needs none of its own.

**RunLifecycleProofs.** `TypeOK` and the safety properties are not inductive:
whether an exposed result is durable depends on what executions hold and on what
is on the wires. `IInv == TypeOK /\ Safe`, where `Safe` says that an outbox found
or read back is the stored row (`FoundIsStored`), that a calculated result fits
the claim (`CalculatedFitsClaim`), that whoever is past the commit holds the
stored result (`HoldsStoredResult`), that its gate is the claim's (`GateKept`),
that every event on the wire or recorded that names a result names the stored one
(`EventsSealed`), that success is recorded only for it (`SuccessRecorded`), that a
publication on the wire or answered is of it (`PublicationsSealed`,
`AnsweredIsExposed`). `Invariance` proves it inductive with one case per action;
the theorems about exposure, acknowledgement, review, announcement and order
follow from it, as do the action properties and the refinement of
`SealedPublication`, step by step.

**InvocationControlProofs.** `IInv` adds to the type invariant that a group is
spawned as a whole and has its watchdog before its worker can take the lease
(`GroupSpawned`, `GroupComplete`), that a stopped call has no group
(`NothingSurvivesTheCall`) and that a whole reply was computed (`ReplyFounded`).
`KillsRecorded` adds that a watchdog missing beside its worker, or a caller that left
its group running, was killed, any number of them. From both follows `LeaseSupervised`:
a lease is with a group that a watchdog or a caller will stop, unless exactly these two
were killed.
From `IInv`: one worker computes, nothing survives a call, recovery
leaves the jobs of live calls alone, and a success is founded and in time.

**ClassificationStageProofs.** `IInv` has three parts. `Control` says where an
execution may be: whoever appends an event holds the lock of a Run that is running
(`AppendLocked`), and the number it read is still the next one (`NumberCurrent`).
`Published` says that what a transaction sees was committed and stays so
(`ViewCommitted`), and that whoever is about to commit saw no snapshot of its content
(`CommitNew`): this is what the check of serializable transactions buys, and without it
two executions would publish one content twice. `Journal` says that events are numbered
without a gap and that a Run announces itself first. `PublicationSound`, `LocksReturned`
and `NoEventAfterEnd` follow.

The second half is about the document that is published, for any set of items, revisions
and configurations. Each action changes either the world or what is derived from it, and
`SnapshotSound` says that the derived part is what the code makes of the metrics it kept:
a document is its metrics, classified under its own configuration, and the policies that
follow (`DocumentSound`); an admitted order is one of these policies under the
configuration it was derived with (`AdmissionSound`). It is inductive although the world
moves on, because a document carries all it was derived from. On it rest:

- `OrdersAreCertain`: every step by which an item becomes orderable is followed back to
  its evidence (`OrderBacked`). A class on an operational axis presupposes verified and
  complete evidence of the last weeks, and a base class presupposes whole demand.
- `ShadowMovesNothing`: two documents that agree in demand and in the operational axes
  agree in base class, score, effects, mode and hence policy, whatever the shadow axes
  say (`SamePolicy`), from the thresholds of a portfolio to the class of an item.
- `UnusableIsSilent`: without an item that was not classified the candidates, their
  revenue and their order are the same, and so are every share and every threshold.
- `HeadsCarryShares`: the ranking is a total order of the paying items, the items before
  a cut are a head of it, and the item that reaches the share is the last one inside.
- `RefusalsAreTwo`: the publisher checks a document again, and of a document that
  `build_snapshot` made every check passes but two. `RefusalSound` adds to the invariant
  that the last document agrees with itself (`PaperSound`) and that the verdict is the
  publisher's of it. Then each check is met in turn: the shape of every axis result, its
  mode and whether it is on (`AxesShaped`), the base classification (`BaseSound`), the
  projection (`ProjectionSound`), the policy with its gates in the order of the axes
  (`DerivedValid`, `NamesAscend`), one mode of an axis for the site and its windows
  (`SiteUniform`). What is left is a negative revenue, and an axis that is used for orders
  on synthetic evidence (`ItemAccepted`).
- `InfluenceIsBounded`: the last three together, which is `ItemsInfluence`.

`EvidenceAssumption` says of what type evidence is: finite portfolios of counted weeks and
amounts, revisions that put evidence of an axis in its place. It does not say that
evidence is complete, positive, recent or verified. `ConfigsAssumption` says that a
configuration passed `validate_config`, that its name stands for it, and that a VED
assignment is of one of the three classes (`VedAssignment`).

**DurableCatalogProofs.** What a process holds in its hands stays true of the disk,
whoever else writes: the input it found is the bound one (`HoldsInput`), the leaves it
collected are the bound leaves, calculated from that input (`HoldsLeaves`), and what it
publishes is its own document (`PublishesClean`). As objects are written once and a bound
pointer never moves (`StoreGrows`), every manifest that is bound as a result is of a
whole execution (`CompleteIsWhole`). `ExecutionIsOne` and `AnswerIsWhole` follow, also
when files are harmed, because a harmed file is not read. `RecoveryNeverRefused` is
proved where formats only move forward (`~Mixed`): an older package that
comes back cannot read what a newer one has bound, and is refused.

**ResultAssemblyProofs.** The first part is about rows. For every result that satisfies
`Sound` and that the projector does not refuse, every row refers to rows of the same
projection (`RowsReferToRows`), table by table. `SealedAssumption` says that the
results of the worlds are `Sound`: that they agree with themselves in what the search,
the selection and the sensitivity recompute before they are sealed, and recompute again
when they are read. The second part is about the operations. `Shapes` says of what kind each
artifact, slot and part on disk is, `Working` that an operation holds what the
checkpoint and the slots of its run say, and `WriteOnce` that no artifact replaces
another. The four properties are carried along together, as each step of an operation
reads what another has written. From it: `CompleteIsWhole`, `CheckpointGoverns`,
`ReceiptNamesRows`, and that all answers about a run agree with each other
(`AnswersAgreeAlways`). `RowsHold` is proved for packages that know the gates of the claim
if they write the tables: a package from before the gates seals rows that the repair
closes, but it never writes them.

**ResultBundleProofs.** `IInv` says that what an execution writes is what it sealed
(`Progress`, `OneWriter`), that a reference names one row, committed or not
(`RefsOnce`), and that the stored message is of an execution, also after a restoration
(`OutboxReady`). A verification reads exactly the rows that the message binds by
reference and content; as a reference names one row, what it accepts is of the execution
the message is of. `StoredWhole` and `VerifiedIsOneExecution` follow for any number of
executions, challengers and scenarios. `OutcomesAssumption` says only that what a
challenger or scenario can come to is among the classes of the module.
`OptionalChildrenFailAlone` proves `OptionalEndsRunByCostOnly` for rates of any kind,
those with decimals included: the calculation of a Run whose required children suffice
comes to a bundle (`RequiredSeals`), or to the one end of section 5, which needs a
decimal rate and an optional child that the command resolved.

**PsiPlanningProofs.** Three invariants on top of `Types`: the ledger is what plan
and rows leave to receive (`LedgerCurrent`), the baseline rows are those
`advance_bucket` explains (`BaselineExplained`), and the space committed under
every cap of the rest of the horizon is kept (`SpaceCommitted`). The arithmetic of
one week is a theorem of its own (`BucketConserves`: the three consistency errors
of `advance_bucket` can never be raised) and so is its monotony
(`AdvanceMonotone`), from which the dominance over the baseline follows week by
week. `CapacityGuaranteed` is the argument of the guard: an accepted order fits
below every later cap, and a week that passes commits nothing new. `SupplyIsAccounted`
joins it with three theorems of sums: what came in, what was issued and what is left
agree in every bucket of both projections (`BooksBalance`); what is due in a bucket is
the sum of the orders that arrive there, in the ledger before it passes and in the row
after (`OrdersReceived`); and an order up to a target rounds the position up by less
than one lot or minimum, whatever is under way (`PositionBounded`).

Sums over weeks are the recursive function `RunningTotal`, sums over sets of orders the
fold `Total`. Where an argument needs induction it is the lemma `Induction`, whose
premise is a set, or `SubsetInduction` for finite sets; the section on sums proves
from it that a total takes one member apart, is monotone, additive, and does not change
when its members are renamed (`TotalImage`). These theorems are about the `Spec` of
`PsiPlanning` for any set `Plans` of well-formed plans, also those that
`PreparedPlanning` starts.

The last part of the module is about `PreparedSpec`. The set a Run plans with is written as an operator of the
request alone (`PinnedSet`). `IInv` says that what was composed is the first snapshots
of that set in the order of reading (`ComposedAsPinned`), that a file of the site was
there before or is one of its snapshots (`FilesAsPinned`), that a producer which goes on
has all of the set and its admission (`OnlyAdmitted`), and that a Run plans one of its
items on its claim (`RunAsPinned`). It is inductive because `SourceAdmitted` accepts
nothing but the pinned document, state and all, and because the master and the parents
are read before what is mapped with them. From it: what a Run plans with does not depend
on later answers of the sources or on restarts (`PlanFollowsRequest`), and a publication
is whole and conflicts with nothing but a foreign file (`PublicationWhole`), for which
the eight documents must have names of their own (`RequestAdmitted`). That the plan
is also the true one (`PlanIsTrue`) is model-checked: it compares sums of documents
with sums of facts.

**RunCostProofs.** The first half is about `EvidenceSpec`, where the projection may slip.
`EvidenceTypes` says of what shape the decisions, the sealed source and the compared
baseline are, whatever slipped, and the three properties of `PsiEvidence` rest on it:

- `NoAdverseComparison`: two children that both roll forward and agree in all that the
  strategy cannot change are compared week by week. Each week of the one opens with
  at least the stock and at most the customer orders of the other, so that sums over
  the weeks cannot be adverse. Types are all it needs of the run.
- `EvidenceSound`: `ChildValid` ties the first observation to the sealed input, every
  validation to the observation and proposal it names, every row to the decision and
  every next observation to the row and to the replayed ledger. By induction over the
  weeks the decisions and rows are those of `Computed`, which starts from the same
  input and takes the same proposals. Again types are enough: a slip either makes no
  difference or is refused.
- `HonestSound`, the opposite direction: what a run without a slip seals is accepted.
  The invariant is `Honest`: every decision was shown what the rows and decisions before
  it leave (`DecidedAs`), every row is advanced from its decision (`RolledAs`), and the
  ledger and the orders are what the decisions made of the receipts of the plan.
  `RunHolds` derives from it each part of the check, among them the replay of
  the ledger, the reconciliation of receipts and `StatusConsistent`.

Two lemmas of that argument are theorems of interest. `GuardsAgree`: the guard of the
projection (`Accepts`) and the guard whose validation is sealed (`ValidateAction`) are
stated apart, the one as a condition on a quantity and the other as the quantity it
computes by division into lots, and decide every proposal in the same way.
`ValidationConsistent`: for every plan, observation and proposal, the status, the reasons
and the quantities of a validation satisfy the check a reader makes of them. The
assumption `NoneAssumption` says that the value for "none" is neither a number nor a
plan.

The second half is about `CostSpec`, which implements `EvidenceSpec`
(`CostImplementsEvidence`), so that the theorems above hold where orders are priced.

- `PricedWithoutHindsight`: `PriceShipment` consults a revision through `InEffect` alone,
  and refuses a shipment when a record it consulted was not known. Operator by operator,
  a revision and what `Foreseen` leaves of it price a shipment alike unless it is
  refused (`PricedAlike`), and a Run with a refused order seals nothing.
- `CostReadSound`: `CostInv` says that the evidence is a function of the claim, the
  resolved revision and the results of the Run (`SealedByRun`), or of a shipment
  (`SealedAlone`), and what harm can do to the store (`Harmed`). A projection that the
  verification accepts is pinned by content, day and environment, hence the resolved
  one, and everything else is calculated again.

- `ShipmentsPricedWhole`: an amount that lines share is divided by largest remainder
  (`Allocate`). `AllocateWhole` proves of it, for any number of lines, that the shares
  add up and are each within a unit of the proportion: what the rounding down leaves over
  is the number of units that are given out, which is fewer than the lines with a
  fraction (`LeftOverBound`), and as many lines are ahead of it in the order of fractions
  as their rank says (`RankCount`). `PriceShipment` is then followed outcome by outcome
  (`PriceIs`): a price with a status has no amounts, and in one without the part of a
  lane that a line bears is its share (`ShareOf`).
- `SavingsAccountForOrders`: a Run prices a projection that ran without a slip
  (`HonestRun`), so that its orders are those of its decisions and its rows those of its
  plan (`HonestFacts`). The saving is stated just if the priced orders are the placed
  ones (`NamedArePlaced`), and then the costs of the two children, which are sums over
  rows, weeks and prices, are brought to the sum over orders of the property
  (`SavingIs`, `OrdersPriced`).

`ClaimAssumption` says of which shape claims, consignments and revisions are.
`NumberAssumption` says what the readers of the code check before a number is used:
amounts, rates, bounds and weights are not negative, lines and charges are finite,
rounding mode and basis are among the modelled ones, and no charge of a lane is named as
the value, the duty or the tax of a line. It does not say that a source is there, that
it is unique or that it fits the shipment.

Some theorems state what no run asks any more on its own: type correctness of the
three modules, that a review is withheld, that a publication follows success, that
the outbox row is kept, that nothing survives a call and that a job is kept for its
call.

**Only model-checked.** Liveness (`EventuallySettled`, `CallEnds`, `OrphanEnds`),
which is out of the prover's reach; the budget of the pool (`RootSound`), whose
induction is over sums on file sets, and its implementation of `QuotaBoard`; that the
plan is the true one (`InputAccounted`), which compares sums of documents with sums of
facts; and the search, selection and comparison of policies (`PolicyChain`), which are
folds over data of any length and need induction over data.

## 7. Abstractions and limits

- Documents, payloads and snapshots are model values, or stand for their own hash: two
  are equal when the code would give them the same hash. Parsing, the closed shapes of
  documents, canonical text and hashing are not modelled.
- `RunLifecycle`: one claim; the evidence transaction is one step (SQLite commits
  it as a whole); the steps inside the orchestrator are one.
- `ResultBundle`: what a child calculates is a value of its input; `PsiEvidence` has
  the calculation.
- `InputPreparation`: quantities are naturals, so that their precision is left out;
  limits of size and rows, the texts of base month and time zone are left out; the
  admission that the publisher repeats is the same function of the same set and is made
  once; outside development others publish the set; the policy admission and the
  strategy plan of a classified claim are in `ItemPolicy`.
- `PsiPlanning`: one item, as no state crosses items; quantities are naturals in the
  smallest unit; the strategy's own decisions are not modelled.
- `RunCost`: the inputs are resolved after the projection instead of before, which
  commutes, as the projection reads none of them; volume behaves as weight; a domain
  of a country has one source; rates are positive. A source gives its exchange rates in
  the canonical order of its records (`inventory_contracts/trade_cost_projection.py:217`),
  which is that of their dates, so that `_fx`, which compares a rate with the newest
  before it, meets any two of one currency and day (`SourcesRefused`); several exchange
  sources of one jurisdiction are left out. Shipments of several lines only come
  from `PersistLandedCostChildArtifactUseCase`, which in this repository only tests call.
- `ClassificationSnapshot`: shares, ratios and rates are percents. The source has no table
  for SDE and HML; their evidence is what the metric contract admits.
- `ClassificationStage`: one scope; the calculation of the classes is one step.
- `PolicySegmentation`: regret and ratios are in whole parts of ten thousand; the share
  of weeks with demand is left out of the features, and the ratio of the costs, which
  all items of an experiment share; one configuration serves all cases. The model is
  not sealed and read again: it never leaves the function.
- `PolicyChain`, `CatalogComparison`: decimal rounding of scores is left out; the
  selection searches again to check a result, which is the same function of the same
  inputs; repeated timings are left out. The catalogue code has no entry point of its own:
  the study, the target execution and the order plan call it.
- `ResultAssembly`: numbers are left out, so that a row is its key and references; a
  checkpoint is keyed by the run alone, as in the code; a writer verifies a projection
  by projecting again.
- `ResourcePool`: the clock is the two actions that let a quarantined file or a job
  become old; process ids are never reused.
- `InvocationControl`: a denied `killpg`, reused process ids, descendants of the
  worker (they belong to its group) and several calls in one process are left out.
  `CallEnds` and `OrphanEnds` are checked with one fault: no second one may take the
  other guardian of the same group (section 5). `LeaseIsSupervised` is checked with one
  fault too, and proved for any number.
- `DurableCatalog`: the calculation of a leaf is a function of its input; the shared
  files of the third format are part of their object; files are harmed only while
  nobody is at work. `inspect` and `verify_recalculation` only read.

### Not modelled

Robustness scoring and selection (pure functions of stored results), the loop of the
replenishment evaluation over realised demand on its own, derived and network inputs,
the read-only PostgreSQL readers, the training and stability of the learned strategy, the
runtime inputs and other adapters, the legacy reference projection, the command lines,
and the native calculation library. The reason of each is in `PROJECT.json`.

## 8. Plan

What is left, in this order:

1. Robustness scoring and selection against a reference definition over bounded
   results, on the catalogues of `DurableCatalog`.
2. The replenishment evaluation: the loop over realised demand with the orders of a
   strategy under way, composed with `StockStep`.
3. Derived and network inputs on `InputPreparation`: several sites, transfers between
   them, and the handing over of a forecast.
4. Proofs: of the pool, the budget of the board and what the records on disk say of
   it; of the classification snapshot, that its publisher accepts what was built.
