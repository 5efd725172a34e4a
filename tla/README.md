# TLA+ models of FreeWeight

FreeWeight benchmarks local language models on one machine: a web server and a
command line share one SQLite (or PostgreSQL) database, a queue of runs is
worked off by one executor at a time, every answer is scored and stored, the
runs' metrics become evidence about a model's capabilities, and a browser
follows a run while it executes.

This directory holds TLA+ models of that program, the TLC configurations that
check them on small instances and theorems that TLAPS has checked for every
value of the constants. Every definition is translated from the Python and
JavaScript source; `PROJECT.json` gives the lines of each one.

Reading order: `RunState`, `RunLifecycle`, `RunEngine`, `MCRunEngine`, `RunEngine_proofs`;
`RunEvents`; `ContextFit`; then by interest, what a run
leaves behind (`Telemetry`, `Metrics`, `Aggregation`, `GoalRun`, `Jury`,
`Calibration`, `Evidence`), what precedes it (`GoalPacks`, `Wizard`,
`Catalogue`, `Adapters`, `Creation`) and what is done with it (`Results`,
`Comparison`, `Storage`). The proofs are in a module for each neighbourhood: `RunEngine_proofs`;
`Measurement_proofs` (adaptive tests, telemetry); `Readers_proofs` (the event log and its
streams, pages, exports, dashboards, comparisons); `MCRecords_proofs` (judged runs, calibration,
juries, evidence); `MCWorkbench_proofs` (packs, the wizard); `MCCatalogue_proofs` (catalogue,
adapters, creation); `Storage_proofs`; over the lemmas of `NaturalLemmas`.

To check: `tlc -workers 2 -config EngineServer.cfg MCRunEngine`, and likewise
for the other runs below; `tlapm RunEngine_proofs.tla`, and likewise for the other modules
whose name ends in `_proofs` and for `NaturalLemmas`.

## The system

Paths are under `src/freeweight/`.

| Component | State it keeps | Operations | What is hard | What makes it correct |
|---|---|---|---|---|
| Run state machine (`domain/run_state.py`) | none: two transition tables | is a move legal, where does a cancel lead | an entry nobody meant, a state with no way out | every write of a status is a move of the table |
| Queue and scheduler (`services/scheduler.py`, `infrastructure/db/repositories/runs.py`) | `runs.status`; a daemon thread | recover orphans, claim the oldest queued run, poll, stop | servers and terminals on one database, death between any two transactions, a recovery that fails | one run in the execution slot, the queue in order, the queue drains |
| Run executor (`services/runs.py`) | `run_tests`, `samples`, `metric_values`; what it remembers between transactions | prepare, warm, execute each test and case, aggregate, finish; cancel and resume from request threads | a check made before a phase is stale when the phase writes; resuming after a death | a completed run is whole, nothing stored is lost or measured again, an ended run keeps its data |
| Adaptive tests (`services/runs.py`, `benchmarks/context_fit/`) | the samples of a test, its counters | ask the test for more cases until it has none | the questions of a resumed test are rebuilt from stored answers | the search ends where its bracket cannot be halved, no case is measured twice, what a death leaves short is bounded |
| Event log (`services/events.py`) | `run_events`, numbered per run | publish: number, insert, retry | two publishers compute one number; a status and its event are two transactions | numbers 1, 2, ... with no gap; an event is true when it is read |
| Streams and run page (`web/routes/runs.py`, `web/static/js/runs.js`) | the position of each connection | open, send, close, reconnect, reload | lost connections, restarts, a page rendered between two commits | each event once and in order, the page learns the end |
| Telemetry (`services/telemetry_recording.py`) | host and device rows; a sampler thread | wait for an idle machine, record, stop, read back, aggregate | a stop that times out, a wait that times out, devices that come and go, limits on what is read | a figure is of its device and its run, and nothing is recorded of a run that has ended |
| Aggregation, statistics (`domain/aggregation.py`, `metrics.py`, `statistics.py`) | none | samples to rows, rows to summaries | failed, unscored and unreported samples; one, two or equal values | every sample is counted once, and in no figure it did not measure |
| Goal judging, human grading (`services/runs.py`, `benchmarks/goal/runner.py`, `services/jury.py`) | `judge_verdicts`, `criterion_scores`, samples that wait | generate, form the jury, poll, combine, score; a person grades afterwards | a pack edited between binding and judging, a resume with half the samples judged, jurors that refuse | a waiting sample counts for nothing; a score is that of its rows; a jury leaves nothing waiting that it could judge |
| Calibration (`services/calibration.py`, `domain/agreement.py`) | grades, the partition into anchors and holdout, reports | grade, measure the jury, decide the gate | a rubric or grades that change while a jury is measured | a passing report was earned on samples the jury never saw |
| Capability evidence (`services/evidence.py`, `domain/confidence.py`) | `capability_evidence` | recompute one subject or all | read and write are two transactions, beside runs, reports, edits of the goal and another recomputation | a record is of one measurement, and rests on a report that passed if its goal had a judged criterion when it was read |
| Deletion, backup, restore, migration (`services/database_admin.py`, `database.py`) | backups; confirmation tokens are hashes | preview, confirm, back up, delete, restore, migrate | preview, backup and deletion are separate transactions, beside a running executor | what is reported is what vanished; no row outlives its parent; large losses leave a backup |
| Goal packs (`services/goals.py`, `domain/goals/`) | directories on disk, their rows, the server's registry | import, write, replace, delete, install, synchronise | a directory replaced in two steps, two writers of one slug, a stale synchronisation | no goal is lost but to a replacement that is cut off, no grade but with its criterion |
| Wizard (`services/wizard.py`) | drafts as JSON | accept, edit, weigh, split, save | two tabs on one draft, rounding of weights | what is saved is a whole pack, but for the rules its author wrote |
| Model catalogue and adapters (`services/models.py`, `adapters.py`, `infrastructure/adapters/`) | models, descriptors, adapters, registrations | discover, upgrade, scan, register | listings taken outside transactions, names and digests that change | one row stands for one artifact, for good |
| Run creation and repetition (`services/runs.py`) | the frozen document of a run | create, check a repeat, create it | a repeat is checked in one read and created in another, over a directory read before either | a repeat differs from its original in a checked field only where it says so |
| Results, export, comparison (`services/results.py`, `export.py`, `comparison.py`) | none | page, stream, assemble, merge | each is several transactions beside writers | nothing twice, nothing skipped, nothing merged that must stay apart |
| Provider and settings (`services/providers.py`, `config.py`) | the configuration file and its backup, the open provider | edit, probe, replace, reload | the file is replaced in two renames | there is always a configuration to start from |
| External benchmarks (`external/`) | a subprocess and its output | start, watch, terminate, reap | deadline, output cap and exit race | nothing outlives its budget |
| Suites and scorers, judge suite, prompts, HTTP surface, command line, health | none, or their service's | wiring over the services above | text and floats | reference definitions |

How they interact. A request handler (`web/routes`, `cli/commands`) calls a
service; services share nothing in memory but the scheduler, the provider, the
suite registry and the database handle, and meet in the database. The scheduler's
thread claims a run by moving its status, and calls `execute_run` with a
publisher. A cancel is a status written by a request thread that the executor
reads at its next check. The executor publishes events; the streams read them back
from the database by polling. After a run completes, the executor rewrites its
metric rows and the evidence of its subject, the same rows a grader or the command
line rewrites. Goal packs and adapters live on disk and are projected into rows
that runs refer to.

## The modules

A state-holding module has one action per database transaction, file operation or
call that can be observed to stop in between; a module without variables holds the
pure functions of one or two source files as operators. On SQLite writers open
`BEGIN IMMEDIATE` transactions, so a transaction that writes is atomic and what lies between
two of them is not. PostgreSQL runs the same code as READ COMMITTED: there the read and the
update of `claim_next_queued` are not one step, and the second read of a transaction may see more
than the first. The models are of SQLite in this, but for the numbering of events, which is modelled on both
(`Serialised`).

### RunState and RunLifecycle

`RunState` holds the two vocabularies and tables of `domain/run_state.py` as
records from a status to its successors, and what the code derives from them
(`TerminalRun`, `CancellableRun`, `CancellationTarget`). `RunLifecycle` is the
abstract specification: what any observer of the status column may see. A run is
submitted once, takes the slot only when it is free and only as the oldest in the
queue, and otherwise moves along the table, or from running to cancelled, the two
moves `_finish` writes in one transaction.

### RunEngine

| Variables | Code |
|---|---|
| `status`, `ended` | `runs.status`, `runs.completed_at IS NOT NULL` |
| `tests`, `samples`, `metrics` | the rows of `run_tests`, `samples`, and the samples `metric_values` were computed from |
| `pc`, `cur`, `ready`, `test`, `case` | where the executor of a process is, the run it holds, whether `_check_cancelled` before this phase has passed, the loop indices of `_execute_run_inner` and `_execute_test` |
| `already`, `snap` | `existing_keys` read on entering a test; the samples read by `_aggregate_run` |

A process in `Servers` is a server with its scheduler thread: it recovers orphans
when it starts, then claims. A process in `Clis` is a terminal in which
`freeweight run start` is typed: it does not recover, claims once, and may be
interrupted with Ctrl-C. `Guarded` are the phases entered through
`_check_cancelled`; `CheckCancelled` sets `ready` and the phase that follows is
another action, because the status may change in between. Exceptions go where the
code's handlers are: `TestRaises` stays inside the test, `RunRaises` fails the run,
`HandlerRaises` and `LeaveRunOnce` leave `execute_run` and are logged by the loop.
`Crash` also stands for `stop()`, which does not wait for a run in flight.

Left to other modules: events (`RunEvents`), repetitions and follow-up cases
(`ContextFit`), judging (`GoalRun`), the idle wait and the recorder (`Telemetry`).

### RunEvents

One run's event log, its publishers and one browser tab. `owed` is the event a
publisher is inside `publish()` with, from the commit of the status to the commit
of the event; `seq` is the number it has computed and not yet inserted, which only
exists on a database that does not serialise writers (`Serialised`); `tries` counts
the `IntegrityError`s. The executor is reduced to what it announces. The tab has
two streams: the script's, which starts after the `last_sequence` rendered into the
page, and the log pane's, which is given no position and reads from the start.
`after` is `Last-Event-ID`, `drained` is `close_when_drained`, `got` is the history
of what a stream received, kept only to state `ExactReplay`. The browser's
`EventSource` is modelled from how the script and the pane use it: it reconnects
after every close that the page did not make, with the last id it saw.

### ContextFit, Telemetry, Metrics, Aggregation (MCMeasurement)

`ContextFit` is `_execute_test` for a test with `next_cases`, together with the one
suite that has it. `todo` and `rep` are the position in a round, `already` the stored
keys read on entry, `Tried`, `Served` and `Refused` what `_case_outcomes` returns,
`Middle` and `WorthHalving` the arithmetic of `ContextFitTest.next_cases`. Any rung may
be served or refused at any repetition, so a card that answers one way and then the
other is included. Sizes are in units of half of `REFINE_STEP_TOKENS` (`Step` is 2). The ladder is any that rises: a configured
ceiling tops the shipped one with a number of its own, and the instance has such a top (`CappedLadder`).

`Telemetry` is a run from `wait_for_idle` to its figures. `idle` holds the locals of
the wait, `worker`, `stopped` and `held` the sampler's thread, its event and the
snapshot it is about to write, `hosts` the host rows in the order of their ids, `gpus` the
device rows as a set (their reader orders them by time, device and host row), `figures` what was derived and not yet written. `StopRecorder` may time out and
leave the thread alive, as the library's join of five seconds does. One small number
stands for all columns of a device.

`Metrics` and `Aggregation` are pure. A measurement is a natural number or
`Unsupported`; figures are fractions `Frac(n, d)`, so that a rounding never hides an
error, and `Unavailable` is a metric stored with a reason. The variance stands for the
deviation. `AggregateRun` computes every row of a run from the groups of its tests.

### GoalRun, Jury, Agreement, Calibration, Confidence, Evidence (MCRecords)

`GoalRun` is one run of a judged goal, from its first case to the last human grade:
`pack` is the version on disk, `stored` that of the goal's rows, `sample` and `rows` the
samples and their `criterion_scores`, `run.rubric` the version the executor
bound when it started, `run.known` the criteria whose row ids it read then and `run.gone` those deleted since, `metrics` and `evidence` what the later transactions derived,
`grading` the position of each request that grades. Rule outcomes are scored at once;
the judged criteria wait for a second phase, which a death may cut between samples. Each attempt takes the suite from the registry
anew, so a sample whose case an edit removed between two attempts is passed over and stays waiting; a batch of
rows with a deleted criterion's id fails its test, or in the second phase the run (`RowsFit`). A generation that fails
is stored as a failed sample. An edit is assumed to leave the cases it keeps
their ordinals: a stored sample is found by case and ordinal, so one that moved would be generated again beside the old one.

`Jury` resolves the jurors a goal or the settings ask for among the models the
provider lists (`assemble_jury`), polls each one `Repetitions` times, alternating for a
pairwise criterion which answer is shown first, and combines the verdicts into one
outcome (`combine_verdicts`). A juror may answer anything, refuse, or always pick one position.

`Agreement` computes the weighted kappa, the gate and the factor, in percent rounded
down. `Calibration` has the author's grades, the stored partition, the report and
workers that calibrate: read, partition, one step per held-out sample, store. The
rubric may be edited in between.

`Confidence` computes the factors of a record. `Evidence` has the completed runs, the
reports, the policy and the goals' rows as they stand, and `pending`, what a recomputation has computed
in its reading transaction and not yet written. `Gate` asks the rows at that moment: the version stored, whether
any criterion in it is judged, and the goal's report. `SyncGoal` stores another version, `DeleteGoal` takes the rows
away (a goal made again under the slug is another goal, with no report), and both may fall between the run and the read.

### Schema, Storage

`Schema` has one definition per table of `infrastructure/db/models*.py`: the foreign
keys of its rows and what a deletion of the parent does. From these `Storage` computes
what a deletion takes along. A row stands for the rows of one table of one run; `page`
is what an operator was shown and may confirm, `backups` and `premigration` the kept
files, `revision` and `serving` the database lifecycle. The executor inserts its batches
and finishes whatever the operators do.

### GoalPack, GoalPacks, Wizard (MCWorkbench)

`GoalPack` has the lint of a pack as one operator per rule, the content hash and the mix.
`GoalPacks` has the directories (`disk`, `torn`, `litter`), the rows, the grades that
refer to them, the server's registry, and the requests, each at one step between two file
operations or transactions. A directory half removed is read as no pack (`torn`). The removal in `replace_pack` may raise partway: the
request then drops the staged pack too and the error goes to its caller (`RemovalFails`); a death stops every request where it is. `kept`
are the goals that were written and not deleted, `cut` those whose replacement was cut off in
either way, between the start of the removal and the rename. `Wizard` has drafts, and a tab that reads a whole document,
edits it and writes it back; saving continues as a request of `GoalPacks`. What an author edits of an accepted rule is
merged over it, its `type` included (`RuleBlocks`), and `GoalPack` has the lint's probe of the rule (`RULE_PROBE_FAILED`). `Rebalance` is
`_rebalance` in ten-thousandths: each share rounded half to even, equal shares of weights that come to nothing,
and what rounding left to the first. An accepted rule moves its criterion to the rung of the
rule, which is what `IsCriterion` says of a criterion.

### Catalogue, Adapters, Creation (MCCatalogue)

`Catalogue` has what the provider serves, the rows of `models` and `model_descriptors`,
and a `listing` that each discoverer took outside any transaction. `Adapters` has the
operator's directory by file stem, the rows, and the registrations that the provider was
constructed with. `Creation` composes both: `create_run` resolves a request against them
and keeps the document; `repeat` is a repeat between its check and its creation. The directory's entries are
handed to `create_run` by its caller, who read them before (`reading`); `world` has what the provider is
capable of (`hotSwap`, `configurable`), which decides what is refused. `CreationSpec`
has all of it at once; the MC module leaves steps out, which `MCIsCreation` proves.

### Comparison, Results (MCReading)

`Comparison` decides for a pair of runs and a kind of metric whether they may be merged,
groups the rows and names the best. The kind of a metric is that of its key in `METRIC_KINDS`, and
quality when the table does not list it. The matrix is that of `BaseAiCore`, a package outside this repository, as this code relies on it;
what it says of weights known by a name only is a parameter (`AcrossNameOnly`), and with "warn" merging is not
transitive: a name-only subject may be merged with each of two that may not be merged with one another. `Results` has the paged metric query with its cursor,
the streamed export and the dashboard, each in its transactions, beside writers. The dashboard's
rows are those of a page joined with their run's model and suite, in the page's order; its
cards, matrix and panels take the newest of these. A comparison's groups are formed subject by
subject in the order the caller gave. `ResultsSpec` has all of it at once; `MCIsReading` proves
that the MC module only leaves steps out.

### MC modules

The instances of several components, or of several questions about one, are checked side by side in one run when they do not
interact: a variable of the MC module (`moving`, `part`, `reader`, `focus`) chooses in the initial
state what moves, so that the run explores the sum of their states and not the product.
`MCRunEngine!MCSpec` has two kinds of behaviour: a server alone, with deaths and an
exception anywhere; and a server beside a terminal, without exceptions and with at most
one death, of the terminal before the server starts or of nobody, where the first test
alone is entered. The second test adds nothing there: both executors already meet in the
first one, and at every phase before and after it.

## What the runs show

| Run | Instance | States | What it shows |
|---|---|---|---|
| `engine_server` | 1 server, 2 runs, 2 tests x 2 cases, 2 deaths, 1 exception; or the server beside 1 terminal | 1 260 000 | `OneSlot`; `MeasurementIsExact` (a completed run has everything measured once and in its metrics); `ServedRunKeepsItsData`, `NothingMeasuredIsLost`; the status column implements `RunLifecycle` (`RefinesLifecycle`) |
| `engine_fault_free` | 1 server, 2 runs, 2 tests, 1 death, fairness | 28 000 | `OnlyLateCancelStrands`, `QueueDrains`, `CancelIsHonoured` |
| `events_races` | executor and 2 request threads, unserialised numbering, resume, death, drop, reload | 1 970 000 | `GapFree`, `ExactReplay`, `AnnouncedIsTrue`, `OneEndingPerAttempt` |
| `events_tab` | executor and 1 request thread, unserialised, 3 tries, drop, exception, fairness | 59 000 | `EndIsAnnounced`, `TabLearnsTheEnd` |
| `measurement` | ladder 8, 16, 31 with step 2, 2 repetitions, 2 deaths, 1 exception; a recorded run with 2 attempts, 2 devices, limits of 2 and 3 rows; up to 3 samples of 5 kinds in 1 or 2 tests; series of up to 5 measurements | 1 890 000 | `ResumeIsExact`, `SearchIsTight`; `MeasuredMachineWasQuiet`, `RecordingEndsWithTheRun`, `FiguresAreOfTheirDevice`; `AggregatesAreSound`; `SummariesAreSound` |
| `storage` | 2 operators, 2 runs, retention 1, 1 act outside the deletions; or 1 operator and a database of another build | 363 000 | `OutcomeIsTrue`, `NoOrphans`, `NothingIsLostUnsaved` |
| `records` | 3 samples and 2 calibrating workers; 2 cases, 2 pack versions of which one lacks a case and a criterion, 1 grader, 2 attempts; 3 models that may judge, 2 seats, 2 repetitions; up to 3 completed runs of 4 kinds, a goal in 3 versions, 2 policies, 2 recomputations, 3 changes | 1 520 000 | `ReportsAreEarned`; `GradesAreKept`, `GradesTouchHumanRowsOnly`; `JuriesAreHonest`; `EvidenceIsSound` |
| `workbench` | 1 slug, 2 workers, hand edits, a death; 1 draft, 3 criteria, 4 edits | 1 890 000 | `GoalsSurvive`, `GradesSurvive`; `WizardIsWhole` |
| `reading` | 2 stored of 3 run ids (2 for an export), 3 aggregations (2 unless paging), pages of 1 row; subjects of 2 machines, one known by name only | 239 000 | `PagesAreExact`, `ExportsAreWhole`, `ScreensAreSound` |
| `catalogue` | 1 model name, 2 digests, 2 discoverers; 2 file stems, 3 manifests; 2 runs, what the provider can and whether prompts are replaced | 914 000 | `IdentitiesAreKept`, `CountsAreTrue`, `RepeatsMatch` |
| `engine_stuck_cancelling` | 1 server, 1 run, fairness | refuted | a run can stay cancelling for ever |
| `records_lost_grades` | as `records`, with 2 graders | refuted | of two people who grade one run, one's grade misses the metrics for good |

Each refuted property states what a docstring says; the finding in `PROJECT.json`
quotes it. Every property of a passing run has a variant of the code (`...Bug` in the
modules: a dropped guard, a missing reset, a stale read) under which TLC finds it
violated.

Why the bounds are enough.

- *Engine.* Two runs are the fewest that make one wait for the other and the fewest that
  could both occupy the slot. Two tests of two cases put a boundary between tests and one
  inside a test under every death; two deaths interrupt a run that was already resumed. One
  exception can strike at every phase. Two processes are the fewest that race for a claim.
- *Events.* Three publishers on an unserialised database collide, retry and exhaust their
  tries (`MaxTries` is 1 in `events_races`, so that giving up is common, and 3 in
  `events_tab`, where it must not happen). One drop at any point meets every position of
  both streams.
- *Measurement.* The widest gap of the ladder is seven steps and a half, so up to three follow-up cases
  are asked and the last bracket may be one that steps do not halve; the code's ladder has wider gaps of the same shape.
  Three polls with two required let the machine be quiet, busy and quiet again. The limits on
  rows (`HostLimit`, `GpuLimit`) are below what a recording of three observations can hold. The
  five kinds of sample are a success with everything reported, ones where something is not
  reported or not scored, and a failure that had recorded; three of them put every pair, and
  every kind twice, in one figure. The outlier rule that needs four values is met below, at
  and above them.
- *Storage.* One model with two runs lets the same counts stand for different runs; retention
  1 makes each backup prune the one before it; the threshold of 6 rows divides the instance
  into deletions that are backed up and ones that are not. `Batches` are the two transactions
  in which needed references differ.
- *Records.* Three graded samples with a holdout share of 40 % are the fewest with two anchors
  and a holdout that changes when one is added. Two graders are the fewest that overlap, and only the refuted run needs them: the properties of the passing run are
  of one sample at a time. The second version of the pack lacks a case and a criterion, so that an edit can take away what a sample waits
  for or a row refers to. Two
  jurors with two repetitions are the fewest for which agreement between jurors exists. The
  runs offered to the evidence differ in one thing each: the suite and its version, the driver,
  the subject, the samples. Two recomputations are the fewest that overlap, and three changes (`MaxChanges` counts
  completed runs, reports, edits and deletions of the goal, settings and days) the fewest that measure a goal, calibrate it and edit it. The three
  versions of the goal have a judged criterion, another one and none; the mapping of capabilities names the goal's suite as well
  as the goal contributing to one.
- *Workbench, reading, catalogue.* Two workers on one directory meet at every pair of file
  operations. What an author writes over an accepted rule is a rule of another rung that breaks, or one that does not exist. Pages of one row put a page boundary everywhere. Two discoverers with one name and
  two digests reach every order of a name-only row, its upgrade and a stale listing. The subjects that are compared are one model, another of its name, that
  name alone and the first on another machine: the fewest with two that may each be merged with a third and not with one another.
  At most one caller holds a reading of the adapters' directory at a time, and no fresh run is created while a repeat is in hand;
  `CreationSpec`, of which the theorems are, has neither restriction.

`CHECK_DEADLOCK FALSE` in every configuration: when no run is left to execute, no request is
under way and the bounds are spent, the program waits.

Symmetry is used where actors are interchangeable and nothing orders them (operators,
workers, graders, recomputations), and never with liveness.

Fairness. `RunEngine` assumes weak fairness of the executor's own steps, of the
claim and of a stopped server's start: the scheduler thread runs, its loop polls for
ever, and a server that died is started again. `RunEvents` assumes that a thread
inside `publish()` goes on, that the executor goes on, that a dead server is
restarted and that the browser keeps its streams connected and reloads the page
when its script asks. Nothing assumes that anybody cancels, resumes, types a
command or loads a page, or that exceptions, deaths and drops occur or stop; their
number is bounded. The other modules state safety only: their actions are requests, and
nobody promises that a request is made or retried.

## What is proved

A theorem holds for every value of the constants, under the assumptions the modules name:
`ConstantsAssumption` (run ids are numbers, servers and terminals are different processes, there
is a test and a case), `EventsAssumption` (at least one try), `FitAssumption` (a ladder that
rises, on steps or off them), `TelemetryAssumption` (finitely many devices), `StorageAssumption`, `CalibrationAssumption`,
`JuryAssumption` (finitely many models, finite requests), `EvidenceAssumption` (below),
`TabsAreWorkers`, `RulesHaveRungs` (`RULE_RUNGS` has deterministic rungs only), `StarterIsAPack` (a
shipped starter's weights add up), `BlocksAreRules` (what an author writes for a rule has a type), `CatalogueAssumption`,
`AdaptersAssumption` (names of manifests are not the one that stands for no adapter),
`FitsArePositive`, `LimitsArePositive`, `ResultsAssumption` (no metric key twice; an aggregation
writes finitely many rows, and at least one, as every suite declares a metric and a metric that cannot be
computed is a row too), and `ReachesAssumption`, which spells out what a recursive
function over `Schema`'s tables computes. TLC evaluates each of them in the run of its module. No
theorem bounds the number of runs, processes, deaths, exceptions, samples, requests or steps, and the
samples, runs and rows need not be finitely many unless the statement is about a count of theirs.

| Theorem | Module | States | Rests on |
|---|---|---|---|
| `Typing`, `SlotIsExclusive`, `Refinement`, `MeasurementIsKept` | `RunEngine_proofs` | `TypeOK`, `OneSlot`, `RefinesLifecycle`, `NothingMeasuredIsLost` | `TypeOK /\ OneSlot` |
| `MeasurementExact`, `EndedDataIsKept` | `RunEngine_proofs` | `MeasurementIsExact`, `ServedRunKeepsItsData`, of one server | `AloneInv` |
| `SlotIsNotLost` | `RunEngine_proofs` | `OnlyLateCancelStrands`, where no exception is raised | itself, `TypeOK` |
| `Typing`, `Numbering`, `Replay`, `PersistThenPublish` | `Readers_proofs` | `TypeOK`, `GapFree`, `ExactReplay`, `AnnouncedIsTrue` | `LogOK`, `TruthOK` |
| `OneEnding` | `Readers_proofs` | `OneEndingPerAttempt` | `EndingOK` |
| `PagesMissNothing`, `ExportsMissNothing` | `Readers_proofs` | `PagesAreExact`, `ExportsAreWhole` | `ResultsInv` |
| `ScreensShowWhatIsStored` | `Readers_proofs` | `ScreensAreSound` | `ResultsInv`, `DashInv` |
| `Resume` | `Measurement_proofs` | `ResumeIsExact` | `FitInv`, `ShortInv` |
| `Tight` | `Measurement_proofs` | `SearchIsTight`, of any ladder | `FitInv`, `LaunchInv` |
| `RecordingEnds`, `QuietMachine` | `Measurement_proofs` | `RecordingEndsWithTheRun`, `MeasuredMachineWasQuiet` | `RecorderFollowsTheRun`; `WaitIsCounted`, `BusyIsAdmitted` |
| `FiguresAreTrue` | `Measurement_proofs` | `FiguresAreOfTheirDevice` | `RecordingInv` |
| `OutcomeTrue`, `NoOrphan`, `NothingLost` | `Storage_proofs` | `OutcomeIsTrue`, `NoOrphans`, `NothingIsLostUnsaved` | `IInv` |
| `GradesAreThose`, `PeopleGradeTheirs` | `MCRecords_proofs` | `GradesAreKept`, `GradesTouchHumanRowsOnly` | `GoalRunInv` |
| `ReportIsEarned` | `MCRecords_proofs` | `ReportsAreEarned` | `CalibrationInv` |
| `JuryIsHonest` | `MCRecords_proofs` | `JuriesAreHonest` | `JuryInv` |
| `EvidenceStaysSound` | `MCRecords_proofs` | `EvidenceIsSound` | `EvidenceInv` |
| `GoalsAreThere`, `GradesAreThere` | `MCWorkbench_proofs` | `GoalsSurvive`, `GradesSurvive` | `PackInv` |
| `WizardSavesWholePacks` | `MCWorkbench_proofs` | `WizardIsWhole` | `WizardInv` |
| `IdentitiesStay`, `RefreshesAreCounted`, `RepeatsOwnUp` | `MCCatalogue_proofs` | `IdentitiesAreKept`, `CountsAreTrue`, `RepeatsMatch` | `CreationInv` |

The arguments, and why the invariants are stronger than what they show:

- *Engine.* `Refinement` and `OneSlot` are proved together: a start of a server interrupts all
  orphans in one transaction, while a step of `RunLifecycle` moves one run, so the step refines
  only because at most one run is in the slot; and `OneSlot` is preserved by every lifecycle step.
  `MeasurementIsExact` says nothing of a run under way. `AloneInv` says what the executor's memory
  is worth there: the run it holds is in the slot or was cancelled outright before it measured
  (`HeldIsLive`), the tests behind `test` have ended (`LoopIsOrdered`), the cases behind `case`
  are stored and of those ahead `already` tells exactly which are (`CasesAreKnown`), and `snap` is
  still all there is (`SnapIsWhole`). That no cancel reaches a terminal status once measuring has
  begun is what keeps a stale check harmless. All four are about a server alone
  (`Servers = {s}`): beside a terminal a recovery can take the terminal's live run, which is then
  resumed and executed twice. `SlotIsNotLost` assumes `MaxFaults = 0`, since an exception that
  leaves `run_once` strands a run for another reason.
- *Events.* A publisher may hold a number computed earlier, so `GapFree` is not inductive:
  `PendingFollows` says that the predecessor of a held number is taken. `AnnouncedIsTrue` needs
  that what a publisher owes is already true (`OwedIsTrue`). `EndingOK` counts stored and owed
  endings together and separates final ones, after which nothing is owed, from interruptions,
  which a resumption may follow.
- *Adaptive tests.* `FitInv` says that `already` and what was stored since are exactly the keys of
  the cases behind the position, that the case under way has its earlier repetitions, and that the
  total counts the cases with samples and the one asked for. `LaunchInv` says that the follow-ups
  launched so far have halved one gap of the ladder as often as there are of them: with k of
  them, that gap is wider than the step doubled k - 1 times. A middle is rounded down to a multiple of the step, so that
  a bracket with an end off the steps may be wider than one when it cannot be halved on steps any more; `Tight` says of it that it is
  narrower than two, and of one on steps that it is one wide.
  `ShortInv` counts the follow-ups that lack repetitions and are not under way (`Open`): a death adds the one it
  interrupts, an exception too, which then fails the test, and nothing else does.
- *Telemetry.* Where the worker may be in every phase of the run, and that a stop precedes every
  ending; that the counter of quiet observations counts the suffix of what was seen. For the
  figures, `RecordingInv` says that every device row carries what one observation read of that very
  device, which stays so when devices come and go, when rows are cut off by a limit, and when figures are
  computed from the rows of two attempts.
- *Storage.* Every statement of a deletion removes the rows it names and no other, by induction
  along the list of statements; rows are closed under the references they need after every
  insertion, deletion, restoration and in every kept backup. A confirmed deletion's rows are in a
  backup from the moment one is taken until it runs.
- *Judged runs.* The rows of a sample are its outcomes until it is graded, and once a jury has had
  its phase no sample waits whose case the suite bound by the attempt still has. Rows of a deleted criterion's id
  are never stored: what would store them fails instead.
- *Calibration.* A worker's exemplars are anchors of the partition it read, its remaining samples
  that partition's holdout, both graded; the report is of these. It holds while others partition again.
- *Juries.* The verdicts are of the jurors, in number what was asked for; then the combination is
  a lemma about the pure operators: a median lies between the scores that were given, and
  refusals are left out of it.
- *Evidence.* A stored record and one that a recomputation holds are sound: every part is a
  measurement of runs of the record's subject, in one version, and if the goal's rows had a judged criterion when it was read, a stored report
  passed for that version (`RecordSound`, where a part keeps the version of the rows it was gated by). Runs and reports only grow, so a sound record stays
  sound whatever becomes of the goal's rows. What a recomputation holds is what it will replace, so that a write leaves one record per
  capability and policy. That a score is between its values and a confidence between the floor and
  its weakest factor are lemmas about means under positive weights and products of shares in
  integer arithmetic, for any number of parts.
- *Packs.* Whenever a kept goal that was not cut off has no whole directory, a replacement is between the start of the removal
  and the rename and holds the body that it puts there. What ends it earlier, a death or a removal that fails, puts the slug into
  `cut`, and nothing else does: a request that loses the race to the rename is refused because the slug has a pack again.
- *Wizard.* A draft is read, edited and written back in two transactions, so `WizardInv` says of
  every stored draft, of every draft a tab holds and of every pack a request holds what is wanted
  of the one on disk. Weights that were rebalanced add up to the whole whatever the shares were, since the first takes
  what is left. The lint of what `PackBody` makes of a draft is gone through code by code.
- *Pages and exports.* `ResultsInv` says that the sort key of a row is unique and never
  changes, that what was shown lies before the cursor and in order, and that what was there throughout
  and lies before the cursor was shown. An aggregation deletes a run's rows and inserts others under
  new ids; a cursor whose row is gone still is a place in the order.
- *Dashboards and comparisons.* `DashInv` says that a completed run has a row, so the newest completed
  run of a model and suite is among the rows when the page is not cut, and then is the one that is
  kept. Groups of a comparison are followed subject by subject: what is grouped so far has every
  subject once, the first opens the first group, and any two of a group may be merged, which takes the code's question of every
  member, merging being not transitive across weights known by name only; a second
  group means that two subjects may not.
- *Catalogue, creation.* `CreationInv` says that rows are found by what identifies them (one row for a
  name and digest, a missing digest being one of its own; one adapter for an artifact), that a run's rows are those its document names, that it is
  marked where its prompts are replaced, and
  that a repeat under way which differs was forced and asks for an adapter exactly where its original had one. A refresh is a fold over what the provider
  listed: its counts are followed name by name.

`EvidenceAssumption` is what the program checks before it computes: the mapping has passed
`parse_mapping`, settings have passed `config.py` (a goal's weight and the target are positive),
a goal contributes to a capability that is no goal's (`lint.py`; a pack that is installed in spite of
an error of the lint is outside the theorem until the next start refuses it), factors are shares. The mapping may name a goal's
suite: what such a source contributes passes no gate (see the disagreements), and the theorem says of it
what it says of every source.

Induction over data. What a recursive or folded definition computes is proved from two lemmas of
`NaturalLemmas` that are themselves proved from the library's: every nonempty set of naturals has a least
member (`LeastNumber`), and a set of subsets of a finite set that has the empty one and, with what is left of a
nonempty one without its chosen member, that one itself, has them all (`SubsetsInduct`). A hypothesis about
a function or a set of subsets takes the place of one about an operator, which the provers cannot
instantiate. Sums, products, extremes and means over any finite set rest on the second, the
statements of a deletion and the quiet suffix on the first. A value that a loop climbs to in n steps from a
base (the sum of weights, the groups of a comparison, the rows of a refresh) exists and is unique by `ClimbExists`
and `ClimbUnique`, so a recursive function may be followed step by step. `RECURSIVE` operators remain out of reach;
no module that is proved about declares one.

Only model-checked:

- liveness (`QueueDrains`, `CancelIsHonoured`, `EndIsAnnounced`, `TabLearnsTheEnd`), which needs
  fairness and `ENABLED`, out of the prover's reach;
- `AggregatesAreSound`, `SummariesAreSound`: values selected and sorted from sequences, in
  reduced fractions. `SelectSeq`, `SortSeq` and the folds over them are opaque to the provers, and the
  statements compare percentiles of permuted series.

What is not claimed: that a draft's weights stay positive. `_rebalance` rounds a small enough share
to nothing, which takes about fourteen splits nested in one another; the draft then has a criterion of weight 0
and the whole still is one, and saving it is refused by `parse_pack` (a weight is above 0 and at
most 1), so that no such pack is written.

## Findings

1. A cancel accepted after the last check strands the run (`engine_stuck_cancelling`).
   `_finish(COMPLETED)` and the handler's `_finish(FAILED)` are both illegal from
   cancelling, the exception leaves `execute_run`, and the slot stays occupied until
   the next start.
2. Grades are stored, read back and turned into metric rows in three transactions with
   nothing held in between (`records_lost_grades`). Of two people who grade one run, the
   request that read first may write last, and nothing repairs the metrics later.

### Other disagreements

Between what the code does and what its documents, docstrings or names say. A name with `!`
is a property stated in the module and refuted by TLC in a configuration that is not kept
as a run; the others were met while modelling.

*Runs and events.*

- `RunEngine!OneWorkloadAtATime` (two terminals): a preparing or warming run is cancelled
  outright, which frees the slot while its executor still generates.
- `RunEngine!CancelledRunHasNoOpenTest` (one server, one run, no faults): an outright
  cancel between the check before `_prepare` and `_prepare` finds no test rows to
  cancel; `_prepare` then inserts them as pending, for good.
- `RunEngine!RecoveryTakesOnlyTheDead` (one server, one terminal, one run): a server
  that starts interrupts the run a terminal is executing. `mark_orphans_interrupted`
  says an orphan at startup means that the previous process died.
- `RunEngine!ResumingClearsCompletedAt` (one death): a resumed run keeps the
  `completed_at` of its interruption; `mark_orphans_interrupted` says resuming clears it.
- `RunEngine!QueueSurvivesFailedRecovery` (one death, one fault, `FairSpec`): a recovery
  that raised is not retried, so the orphan holds the slot and the queue stands still.
- `RunEngine!OneHolderOfSlot` holds among terminals, and fails beside a server.
- `RunEvents!EndIsAnnounced` with one crash: a death between `_finish`'s two
  transactions leaves an ended run with no terminal event, which recovery never supplies.
- `RunEvents!CancelledIsLast` (serialised, nothing lost): `run.started` or a late
  `run.progress` can follow `run.cancelled`.
- `RunEvents!NoSilentClose`: a stream opened between the commit of a final status and its
  event is closed without a terminal event.
- `RunEvents!PaneReachesTheRender`: the log pane of a resumed run replays the old
  `run.interrupted` and stops there; `RunEvents!PaneStops` (`FairSpec`, one drop): a pane
  that misses `log.closed` reconnects for ever.
- `ContextFit!EveryCaseIsWhole`: a follow-up case that died between its repetitions is never
  finished, and the test completes. The resumed test takes what was stored as the case's answer and asks beyond it, while
  `existing_keys` says that no case is silently skipped. `ResumeIsExact` bounds the loss: nothing of the ladder, and
  one follow-up for each death; `ContextFit!CompletedCountsAll` (one crash): its
  `completed_cases` stays below `total_cases`.
- `execute_run` returns failed for a run whose row is cancelled when a fault meets an
  outright cancel; the caller only logs it.
- `RUN_TRANSITIONS` allows queued -> interrupted, which nothing writes and which the
  table's own docstring says is not among the moves.
- `next_cases` says that it halves until the bracket is one step. With a configured ceiling that is off the steps the
  last bracket may be wider, by less than a step (`SearchIsTight`).

*Measurement.*

- `TelemetryRecorder.stop` joins with a timeout, so one row may be written after the run is
  terminal, which the class docstring says cannot be.
- `list_for_run` reads the first 5 000 rows (20 000 of devices): a long run's peak and energy
  cover its beginning only, with nothing counted as excluded. A resumed run appends its
  degradations again. `multi_gpu_visible` is frozen at creation from the machine's profile.
- `_total` (`domain/aggregation.py`) says that samples without a figure are counted in
  `excluded_count`; `_aggregate_only` counts every completed sample. Tokens per success divides
  the totals of the samples that reported by the successes of all. A group's effective-context
  threshold is that of its last sample. A pooled row of a run drops the scores of a test whose
  samples have no detail number when another test's have.

*Goals, juries, calibration, evidence.*

- `GoalRun!CompletedIsJudged`: a run completes with samples that wait when an edit removed their case from the pack between two
  attempts, or when the last attempt had no jury. `_judge_pending` calls that a run whose own status lied.
- `GoalRun!CriteriaStay`: `_RunContext` says that a goal's criteria do not change during a run. A synchronisation deletes
  rows whose ids the run has read; storing a row of one then violates the foreign key, which fails the test, or, when the jury has
  answered, the run.
- `Evidence!JudgedRunsAreCalibrated`: the gate asks the goal's rows as they are when evidence is computed. When the pack is edited
  and has no judged criterion any more, a composite that judges made under the old rubric is emitted with no passing report.
- A source of the capability mapping that names a goal's suite passes no gate: `_records_for` gates the goal's own contribution
  only. The shipped mapping names none.
- `MCRecords!PositionBiasCancels`: with an odd number of repetitions (`Repetitions = 3`), jurors that always pick one
  position do not leave the candidate at even odds.
- `Calibration!HoldoutNeverShown`: across two calibrations an anchor may have been held out, although
  `anchors_for` calls "the holdout is never shown to the jury" a property of the program.
- `MCRecords!GoalIsNeverAlone`: a capability record may rest on a goal alone. It takes the goal of the
  highest validity factor.
- A reaggregation after a human grade drops the residency metrics. The samples of
  a goal with human criteria only fail for want of a score, and only completed ones can be graded. A goal edited between two attempts mixes two rubrics.
  Duplicate judge models are not removed, and `allow_remote` has no reader.
- `recompute_for_run` says that a completed run "changes exactly one subject's evidence and nothing
  else's"; the confidence of every subject compares its runs with the environment of the newest run,
  so that the first run after a driver change leaves the others' records out of date. Two recomputations can lose one's update, and a paged `query_evidence` may run across one.
  The judge set is no separation of measurements; `_key_of` reads a `criterion_key` that is not
  there, so that all weights are one; `policy_version_for` ignores a customised confidence policy.

*Deletion and migration.*

- `Storage!OnlyShownRunsAreDeleted`: the token hashes the selection and the counts, not the run ids, so
  that one run gone and another of the same size arrived are not noticed.
- A deletion leaves `capability_evidence` of runs that are gone, and nulls the source of calibrations.

*Packs and wizard.*

- `Wizard!SavedPacksLaunch`: a pack created or replaced with lint errors is installed, and the next start
  refuses it (`load_goals`). Of what the wizard saves, `WizardIsWhole` says which errors these can be: parameters that were proposed
  and that the rule refuses, and, where the author edited the rule, a `type` that overwrote the accepted one
  (`RUNG_MISMATCH`, `RULE_TYPE_UNKNOWN`), parameters of that type, or a rule that breaks when it is probed (`RULE_PROBE_FAILED`).
  `_rebalance` says that the wizard cannot hand the user a pack that it knows is invalid.
- `GoalPacks!GoalsAlwaysSurvive`: a death between the removal and the rename of `replace_pack` leaves neither pack (but the staging
  directory, for a person to find), and a removal that fails partway leaves half of the old one while the staged one is removed too.
- A death between making a staging directory and renaming it leaves one that `load_goals` refuses; an import that slips in between
  makes the replacement fail. A failed removal of a deleted pack's directory is ignored, and the next
  synchronisation brings its rows back.
- Two calls of `installed()` may install their registries in either order. A synchronisation of a stale
  reading drops the grades of criteria added meanwhile.
- Two tabs on one draft lose edits, forget `saved_slug` or insert a deleted draft again. A split may give
  two criteria one key. Customising a starter loses its tasks' `source`.

*Results, comparison, creation.*

- `MCReading!DashboardIsLatest`: the dashboard and the context-fit page read the first 500 rows.
- `METRIC_KINDS` is looked up by exact key, so that several keys (`inter_chunk_ms_p50`,
  `inter_token_ms_mean`, `prompt_tokens_per_second_at_4096`, `model_vram_bytes`) are compared as quality.
- `MCReading!MemoryStaysOnItsMachine`: the model's residency (`model_vram_bytes`) is such a key, and is merged across
  machines, where `MEMORY_METRIC_PREFIXES` says that memory metrics are never comparable across machines. `ScreensAreSound` is relative to the
  table of kinds.
- `group_subjects` (`domain/comparison.py:396`) says that comparability is not transitive across a `name_only` identity. It asks
  every member, as it should; but only a matrix that answers "warn" there makes the difference (`AcrossNameOnly`), and what it answers is in a
  package outside this repository.
- A run deleted after an export has resolved it tears the stream. `complete: true` may stand over samples
  cut at 50 000. The window is ignored for the scopes run and comparison, and ids may be repeated.
- A metric row rewritten by another aggregation while a client pages may be shown as a new row of the
  same run and key. Compare accepts runs of any status.
- The case inspector's prompt text is always empty, and its telemetry window is the row's creation time
  minus the client's wall time.
- `profile_machine` stores the machine before a request is validated, where `api.md` says that a rejected
  request creates nothing.

*Catalogue and adapters.*

- `MCCatalogue!MeasuresItsSubject`: a run keeps its adapter's row but asks the provider by name, and the
  manifest of that name may be replaced before it starts.
- `MCCatalogue!RepeatsMeasureTheSameSubject`: `repeat_run` says that "the repeat measures the **same subject**". It looks its
  original's adapter up by name in a listing of the directory that its caller took, and `check_repeatable` does not compare what the name stands for.
- A repeat need not have its original's prompts: they are not a checked field, and leave to replace them is the repeat's own,
  never inherited. The document marks replaced prompts, so that a difference shows on one of the two (`RepeatsMatch`).
- A row known by name only is upgraded in place, which files its earlier runs under the new digest. A stale
  listing stores an old descriptor as the newest and may set `last_discovery` back. A prefix of an id given
  by the user is recorded as an alias. `get_by_provider_model_name` and the repeat's check ignore the kind
  of provider. Of two manifests with one name, `create_run` takes the first and the provider gets both;
  registrations are read when the process starts, `create_run`'s entries by its caller, before it is asked.

## Plan

The modules above are what the plan of this development foresaw, but for two:

1. `ProviderFile`: the digest, the three file names, the reload under an executor.
2. `ExternalInvocation`: deadline, output cap, exit and the process group.

Of the theorems, what is left is an abstract exactly-once log that `RunEvents` implements (its
conditions are proved one by one: `GapFree`, `ExactReplay`), and the safety invariants named above as
only model-checked. They would need a theory of selected and sorted sequences first.

## Not modelled, and why

The content of prompts, answers and scores is text and floats and no property here
depends on it: scorers of one answer, the judge suite, the prompts and the parsing of
answers are left out. Reading sensors, talking to a provider, downloading datasets and
building environments are I/O. The suite's own libraries (provider, telemetry and
database packages) are not in this repository and appear as what the code that calls
them can observe: they return, they raise, they are late. Migrations belong to an
external library; what precedes and follows one is in `Storage`. Routing, HTML, logging,
health and settings, a merge of dictionaries, keep no state that the modules lack. The
bootstrap intervals and the square root of a deviation are left out of `Metrics`. Loading
and unloading of judged models and the explanations stored with a record are left out of
`GoalRun` and `Evidence`. The configuration file and the external benchmarks' subprocess
are real state machines and what the plan has left.
