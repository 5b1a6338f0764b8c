# A verification of the radio-overpass replication server

This directory holds TLA+ models of the server in this repository, the TLC
runs that check them on small instances, and TLAPS proofs about them. Paths
below are relative to the repository.

## 1. The system

The server keeps a small Overpass database of the OSM objects that carry a
`communication:amateur_radio*` tag, and of what they reference. Two
generations of the code live side by side.

*Deployed* (`fleet/`): a CronJob (`concurrencyPolicy: Forbid`, every four
hours) runs `planet-bootstrap.sh`, then `scheduled_rebuild.py`, which brings
the planet file up to date, extracts the tagged objects and imports them into
the inactive one of two slots. Two pods, blue and green, each run
`docker/overpass/entrypoint.sh` on their slot; the Service routes to the slot
named by a marker file.

*Present in the image, run by other entrypoints*: a minute lane
(`minute_worker.py`, `apply-minute.sh`, `dependency_worker.py`), a full-planet
lane (`full_pbf_worker.py`), a rebuild lane (`rebuild_worker.py`,
`rebuild-entrypoint.sh`) and the older single-process `replicator.py`.

| Component | State it keeps | Operations | Interacts with | What makes it correct | Modelled in |
|---|---|---|---|---|---|
| Pods (`entrypoint.sh`) | Apache, dispatcher, `db_dir`; writes `active-slot`, removes `ready-slot` and its database | boot, stop for rebuild, retire, start, activate, exit | the job, through three markers and the database volume; no lock | never retires or stops the active database; starts complete databases only; activates what is published | `BlueGreen` |
| Bootstrap (`planet-bootstrap.sh`) | planet file, torrent, metadata, marker | initialize, compare, download, replace | the job | never without a planet file, metadata true of it, new snapshots installed | `PlanetJob` |
| Scheduled job (`scheduled_rebuild.py`, `import_filtered_pbf`) | planet file, extract, `building-slot`, `ready-slot`, a flock | update, extract, choose slot, wipe, import, publish, wait | the pods | the extract goes forward; imports into the inactive slot only; publishes complete databases; first run initializes | `PlanetJob`, then `BlueGreen` |
| Minute filter (`minute_worker.py`) | working membership, published cursor, deltas, queue, catalog, membership cursor | commit, prepare, choose batch, stage, publish | applier (cursor files), dependency worker (flock, queue, catalog) | nothing lost by restarts; staged lead bounded; catalog follows the database | `MinutePipeline` |
| Applier (`apply_osc_to_db.sh`, external) | database and its `replicate_id` | apply the next published file | the filter's replica directory | - | `MinutePipeline`, `RebuildLane` |
| Dependency worker (`dependency_worker.py`) | database, catalog, queue | list, discard, check cursors, refresh, merge, unlink | filter, public Overpass | refreshes every listed root that is queued; merges survive | `MinutePipeline` |
| OSC filter (`osc_filter.py`, `merge_remote_state`) | roots, dependencies, reference graph | filter one change file, merge a remote answer | called by the lanes | keeps exactly what a root needs | `OscFilter` |
| Full-planet worker (`full_pbf_worker.py`) | planet file, apply journal, extract, import state, cadence state | rewrite planet, filter, import, recover, reset from snapshot | the pods | every checkpoint is covered by the data it names; progress after a crash | `FullPbf` (partly) |
| Rebuild worker (`rebuild_worker.py`, `rebuild-entrypoint.sh`) | checkpoint, staged files, request files | search the boundary, catch up, change cadence, request cutover; the shell watches for requests | applier, through its cursor; the shell, through files | no file skipped across snapshot and cadences; the database is handed over | `RebuildLane` (partly) |
| Replicator (`replicator.py`) | database, catalog, checkpoint, startup queue, pool of queries | process a file, refresh roots, catch up, drain the pool | public Overpass | no tagged object lost; converges although answers lag | `Replicator` (partly) |
| Maintenance lock (`DispatcherMaintenance`) | lock file with its age, dispatcher marker | create, find stale, remove, beat, release | every writer of the database; dispatcher | one holder; no orphan | `MaintenanceLock` |
| Initial import (`initial_import.py`) | catalog, cursor | build catalog, seed the cursor | runs before everything else | - | initial states (partly) |
| Import helpers (`import_progress.py`, `import_xml.py`) | none | log progress | - | - | not modelled |

The hard behaviour is the interplay without locks (pods and job; filter and
applier), reads of marker files that are acted on later, and processes killed
between two file writes. The list of hazards, each at its line, with the
properties that cover it, is in `PROJECT.json`.

## 2. The modules

### Service

The abstract promise of the blue/green rebuild: a stock of complete
generations, one of which is offered; a generation enters the stock, leaves it
unless it is offered, and the offer only moves forward, to something in stock.

### BlueGreen

The job and both pods. `active`, `ready` and `building` are the markers
(`None`: the file is absent); `db` maps each directory to a stage (absent,
partial, complete) and the generation of planet data in it; `job` and `pc` say
which statement the job and the pods execute next, `target` is the job's
`replacement`, `dir` each pod's `db_dir`, `api` its Apache with dispatcher.

Every read of a marker is a step of its own, so a pod acts on what it read a
while ago: `RetireReadsActive`, `RetireReadsBuilding`, `RetireReadsReady`,
`RetireStops`, `RetireRemoves` are `retire_if_inactive` in its order;
`ServableBuilding`, `ServableActive`, `ServableReady` and `Launch` are
`slot_is_servable` and the start; `ActivateReadsReady`, `ApiAnswers` or
`ApiSilent`, `ActivateMoves`, `ActivateClears` are `activate_if_ready`.
`JobMark` to `JobPublish` are `import_filtered_pbf` statement by statement,
with `finally` on both paths. `ApiDies`, `PodCrashes`, `RemovalCutShort`,
`JobFails` and `JobKilled` are the faults.

Two assumptions are constants rather than hidden in the actions.

* `Timely`: no pod stalls for as long as the job works between two marker
  accesses. Concretely: both pods act on what they have read while Pyosmium and
  `osmium tags-filter` run (minutes to hours; the loop of a pod takes seconds),
  a pod acts on a read made before `building-slot` was written while the
  extract is converted to XML, and the 30 minutes of
  `cutover_timeout_seconds` suffice for a pod that can activate.
  The run `bluegreen_untimely` drops it.
* `Faults`, `MaxFaults`: which faults strike and how often.

`Calm` is a cluster that is timely, has the current layout and on which imports
and removals, once begun, run to their end unless the whole job is killed. It
is the hypothesis of four theorems.

### MinutePipeline

Filter, applier and dependency worker. `upstream` is the sequence of minute
files, each with what it tags and untags, the objects alive after it, and
`kept`: the roots a replica holds that has applied every accepted file so far,
against which the real `db` and `catalog` are compared. `osc` and `delta` are
the staged files, `published`, `db.cursor`, `committed` and `through` the four
cursor files, `working` the working membership. The writer lock is taken in
`FilterLocks` and `DepLocks`, and ends with its process. The filter's steps are
the file writes of one turn of `run`: `CommitQueues`, `CommitCatalog`,
`CommitCursor`, `CommitUnlinks` (`commit_applied_state`), `PrepareWorking`,
`StageFile` and `AdvanceWorking` (`stage_change`), `PublishBatch`,
`RecordWorking`.

A root stands for a tagged object; references are reduced to one bit per root,
whether the catalog lists the dependencies that only a public query reveals
(`merged`) and whether they are in the database (`db.deep`). A file without a
tag is dropped by the pre-filter, and `kept` is defined accordingly.

Three constants are assumptions: `Interrupts` (a restart may strike in the
middle of a batch), `Lingers` (the public Overpass still shows an object that
was untagged; FALSE means objects leave by deletion) and `MaxCrashes`.

### FullPbf

The full-planet worker of `full_pbf_worker.py`. All that it knows is in files,
each a variable: the planet file with its metadata (`planet`), planet files
under construction (`beside`), the apply journal, `fullState`
(`full_pbf_state_file`), the extracts of batches and of snapshots, the import's
`completion` record, `snapshot`, the checkpoint `reset`, `state`, and the slot
markers. `w` is its memory; `w.pc` names the next statement that writes.
A file of cadence `c` holds `Span[c]` minutes; a planet file or a database is
the set of minutes it contains, so a gap, a loss or an omission is visible.

`Starts` to `SaveState` are one turn of `run` with `recover_filtered_artifact`;
`ResumeApply` to `DropJournal` are `apply_full_changes` and
`resume_full_pbf_apply`; `ExtractStarts`, `ExtractEnds` and `SelectSlot` are
`rebuild_filtered`; `MarkBuilding` to `PublishReady`, with `ImportFails`, are
`import_filtered_pbf`; the actions `Reset...` are
`reset_from_new_planet_snapshot`. `Killed` may strike between any two of them,
`NewPlanet` is the bootstrap while the worker is down, `Activate` and `Retire`
are the pods, of which `BlueGreen` has the detail.

Assumptions. A pod does not retire a slot between the two marker writes at the
end of its import, and a due cutover is over when the next slot is picked: both
are about pods that are fast compared with the worker, and `BlueGreen` shows
what happens otherwise. `Perilous` names the steps before which no kill
strikes; a kill before any of them loses something:

| Killed before | then |
|---|---|
| `extracting` (osmium is writing the extract) | the truncated file is imported (`FullPbfExtracts.cfg`) |
| `clear` (completion recorded, `building-slot` still there) | recovery publishes the slot but leaves `building-slot`: no pod starts on it |
| `publish` (`building-slot` cleared, `ready-slot` not written) | a pod retires the slot and the import is repeated; killed once more, the recovery takes the partial database for the completed one |
| `imported` (reset: slot published, checkpoint still "importing") | the pods activate the slot, and the reset wipes and refills it |
| `refull`, `restate` (reset: snapshot recorded, states not) | the old state is kept on the new planet file (`FullPbfSnapshots.cfg`) |

### OscFilter

The algorithms on the membership as operators, no state. An object is a
number, ordered as in a change file (nodes, ways, relations); a world says what
each object is. `FilterPass` is `main` of `osc_filter.py`, a fold of `FilterElement`
over the changed objects in that order, with `Promote` and the removal of
deleted and untagged objects; `BuildCatalog` is the catalog of the initial
import, `Answer` what the public Overpass returns for a root (with its `>>`
and `<` closure), `MergeAnswer` is `merge_remote_state`. `Needed` is the
reference: the tagged objects and what is reachable from them. `Reach` is
defined as the least closed set, so it does not repeat the code's traversal.

### Replicator

`run`, `catch_up`, `process_one` and `CatalogQueryPool` of `replicator.py`, on
`OscFilter`. `worlds` is the history of upstream, `public` the world the public
Overpass shows, `checkpoint` the files processed, `queue` the futures of the
pool with the world at their submission, `w` the memory of the main thread.
`QueryPending` to `StartPool` are the startup, `TopDrains` to `SaveCheckpoint`
the loop of `catch_up`, `Discard` to `CommitDelta` are `process_one`,
`DrainStarts` to `DrainEnds` are `drain_ready`, and `ApplyRefresh`,
`RecordRefresh` one refresh: the database first, then the catalog. A future
that is done was answered at any time since its submission, so results may be
older than what has been applied since. `Killed`, `DrainFails` and
`RootQueryFails` are the faults; `RootNotFound` (the public Overpass does not show
a root yet) ends the process as well.

Two constants are assumptions. `Pooled`: the catalog is queried in the
background. `Vanishes` (FALSE in the run): an object may be deleted while a
file that tags it waits. With TRUE, `CatchesUp` fails: `RootNotFound` makes the
file fail, and it fails again after every restart (`replicator.py:1448`).
Without the pool a deletion that shares a file with a new root is lost
(`RemovalsServed`, `replicator.py:1507`), because a file with a new root is
replaced by the refresh of that root.

### RebuildLane

`rebuild_worker.py`, the watcher of `rebuild-entrypoint.sh` and the applier as
three processes. Files of each cadence carry a time stamp, `Stamps`; the
database is the set of minutes it shows. `SearchStarts`, `SearchHalves`,
`SearchEnds` are `first_sequence_after`, `BoundaryReached`, `BoundaryAhead` and
`Save` the start from the snapshot, `TakeFile`, `Publish`, `Refused`,
`Acknowledge` one step of the catch-up, `LeaveCadence` to `AwaitReset` the change of
cadence (`transition`) statement by statement, `WatchReset` to `WriteReady` the shell.
`Restart` ends all processes of the container at any step.

`interrupted` is a history variable: a restart, a time-out or a half-written
request cut a change of cadence short. All properties but the search's are
conditional on it, because TLC shows that they fail otherwise: the new
checkpoint is not saved, the restarted worker takes the cursor, already
reset to the finer cadence, for that of the coarser one, and a new coarse file
is acknowledged without being applied; the watcher that reads the request
between its creation and its content ends for good.

### PlanetJob

`planet-bootstrap.sh` and `run_locked` up to the extract, for the CronJob and
for jobs started by hand. Of a planet file the model keeps its snapshot and
the time of its data. `FetchTorrent` to `MarkInitialized` are the commands of
the bootstrap that change a file, `RunLocked` to `ExtractFiltered` those of the
job; `Fails` ends a job at any step, `FindsMissing` is a command whose file is
not there, or the taken flock. `overlapped` is a history variable: a job
started while another one ran. `minute.sequence.state` is left out.

### MaintenanceLock

`DispatcherMaintenance`: exclusive creation, `stat`, removal of a stale lock,
heartbeat, release. The age of the lock is one bit, `stale`; only `Ages` sets it,
and only for a lock whose holder does not beat. `robbed` is a history variable:
a lock was removed that somebody held.

### MC modules and proofs

The `MC` modules name the fault sets, roots, files, worlds and cadences used by
the configurations. The `...Proofs` modules and `MinuteConvergence`, which
builds on `MinutePipelineProofs`, hold the theorems. The inductive invariants
of `MinutePipeline`, `FullPbf` and `Replicator` are state predicates beside the
properties, so that TLC can check them like any invariant: it did, with the
constants of the runs, before they were proved (`ConvergeInv`, `ReplicatorInv`;
the latter with three change files as well, 5,797,770 states).

## 3. The runs

| Run | Shows | Bounds |
|---|---|---|
| `bluegreen_timely` | on a timely cluster with up to two deaths of pods, APIs or jobs: only complete databases are routed to or started, imports spare the active slot, the Service's promise is implemented, its API comes up again and again, published slots are activated | three generations (both slots are used, and reused), two faults (one while recovering from another) |
| `bluegreen_untimely` | with no timing assumption, the legacy directory, failing imports and interrupted removals, retirement still spares the active slot | three generations, one fault of any of five kinds |
| `bluegreen_publish` | violated: what is published is complete | no faults |
| `bluegreen_fresh` | violated: the first job leads to an active slot | no faults |
| `minute_pipeline` | cursors stay ordered and the lead bounded, deltas suffice to recover, the filter knows what it has to delete, database and catalog converge, every minute is committed, every queued root that the catalog lists is refreshed unless it is gone | three minutes, two roots, a window of two (so that both a window and single files occur, and the lead limit bites), one restart anywhere outside a half-staged batch |
| `minute_merges` | violated: merged dependencies stay in the catalog | no restart |
| `full_pbf` | the planet file never has a gap and never shrinks, the state never runs ahead of it, every tagged change that is left behind is in the published database, imports spare the active slot, a pod cuts over to a complete database only, worker and API catch up again and again | three minutes in hours of two (so that a cadence ends in the middle and hands over) and a window of two (batches of one and of two files, which change after a kill), two kills or failed imports (one during the recovery from the other) outside `Perilous`, one planet replacement |
| `replicator` | no tagged object leaves catalog or database, the catalog lists loaded roots only, a filtered file has all the dependencies it changes, every file is processed, the database converges | a node, a way and a relation (two levels of references), or a map that is still empty, so that a file may tag what the public Overpass does not show yet; two of seven change files, which tag, untag, refer and delete (the second meets what the first left, and its answers); answers lag by one file; one kill or failing query. 254,252 states |
| `rebuild_lane` | no minute is skipped, the search's bracket is right (on `rebuild_worker.py`'s copy of the search, identical with that of `full_pbf_worker.py`), the cursor follows the checkpoint, the database is handed over | two day, four hour, seven minute files, so that every cadence is entered, some time stamps repeated; a snapshot as old as the first day's end; two restarts or time-outs (one in the recovery from the other). 275,602 states |
| `planet_job` | metadata true of the planet file, the planet file kept, the extract never older, every snapshot installed | two snapshots (a first and a newer one that is older than the updated planet), times up to 4, one manual start, one fault. 406,428 states |
| `planet_manual` | violated: the lock keeps a manual job from turning the extract back | no faults |
| `maintenance_lock` | one holder until the removal of a stale lock hits a live one, and no orphan stays | three processes (a holder, and two that both find it stale), two kills or lost heartbeats. 13,430 states |

The violated properties are findings; `PROJECT.json` quotes the line each
contradicts. In short:

1. `import_filtered_pbf` clears `building-slot` before it writes `ready-slot`;
   the pod's retirement check fits in between and removes the new database.
2. A fresh installation has no `active-slot`, and nothing deployed writes the
   first one.
3. The minute worker's commit overwrites what the dependency worker merged.
4. `planet-bootstrap.sh` runs outside the lock of the scheduled job; a job
   started by hand replaces the planet file under a running one.

**Further configurations.** They answer a question each and are not among the
runs; all find a violation.

| Command | Shows |
|---|---|
| `tlc -config BlueGreenImportFails.cfg MCBlueGreen` | after a failed import a stale `ready-slot` lets the pod start on what the import left |
| `tlc -config MinuteInterrupted.cfg MCMinutePipeline` | a restart in the middle of a batch of minute files reuses a membership that is already ahead, and deletions of the batch are lost |
| `tlc -config MinuteRefreshesRemoved.cfg MCMinutePipeline` | a root whose removal is applied but not committed is refreshed, if the public Overpass still shows it |
| `tlc -config MinuteTaskLost.cfg MCMinutePipeline` | a root is queued before the catalog lists it; a dependency worker that reads the catalog in between drops its task |
| `tlc -config FullPbfExtracts.cfg MCFullPbf` | `rebuild_filtered` writes the extract under its final name; after a kill the recovery imports and publishes what is there of it |
| `tlc -config FullPbfSnapshots.cfg MCFullPbf` | a planet reset writes `snapshot-metadata` before the replication state; after a kill in between replication resumes after minutes the new planet lacks |

`bluegreen_timely` keeps the first out by its faults, `minute_pipeline` and
`full_pbf` the others by their constants (`Interrupts`, `Lingers`, `Perilous`),
except the dropped task: `QueueDrains` counts a task from when the catalog lists
its root and the worker is not about to discard it.

**Fairness.** Pods: weak fairness on the steps of each entrypoint (the kubelet
restarts it), strong fairness on a successful probe (an API that runs on a
database answers some time). Job: weak fairness on its steps (the CronJob
fires every four hours and steps end), strong on the slot choice, which waits
for both pods to settle. Pipeline: weak fairness on each worker's steps and the
applier; strong fairness on taking the lock, because both workers sleep without
it between turns; strong fairness on a query that finds what is there. Full-planet worker: weak
fairness on its steps (it is restarted after a kill, downloads are retried) and
on the activation of a published slot. No fairness on faults, kills, retirement,
restarts or the arrival of files. `CatchesUp` and `TaggedServed` of `FullPbf`
are stated as "again and again" because arrivals end with `MaxMinute`.
Replicator: weak fairness on its steps (its process is restarted) and on the
public Overpass, which catches up; strong fairness on the schedule taking every
root that is due and on queries that find what is there, because intervals
pass and answers come, but not while the main thread is looking elsewhere.
Rebuild lane: weak fairness on worker, watcher and applier, none on restarts;
`HandsOver` rests on the files ending, as `CaughtUp` needs. Planet job: weak
fairness on the steps of each job; the CronJob starts every four hours, and a
job started by hand is started at most `MaxManual` times. Lock: weak fairness on the steps of
each process and on time, so that a lock nobody touches grows stale; none on
the heartbeat beyond that.

## 4. The proofs

Every safety property of the runs is a theorem; liveness is model-checked only.

`BlueGreenProofs` (for every number of generations and faults):

* `TypeCorrect`: the type invariant.
* `ServiceComplete`, `ImportOwnsInactive`, `CalmStartsComplete`: on a calm
  cluster the active database is complete, imports own the inactive slot, APIs
  start on complete databases. `ActiveComplete` is not inductive: that a pod
  activates a complete slot depends on nobody having touched it since it was
  probed. `CalmInv` adds the fence: a slot named by `building` belongs to a
  standby pod without an API that cannot get one; a partial database is always
  fenced; a pod that is about to start or to activate has a complete database;
  and the job's slot is fenced from the first marker on. `CalmAlways` proves
  it inductive, one case per action; TLC checked it first.
* `CalmImplementsService`: on a calm cluster with a complete first database
  the detailed system implements `Service`. Every step of a job or a pod is a
  step of the promise or a stutter: the end of an import adds a generation, a
  removal takes one that is not offered, an activation moves the offer. Safety
  of the databases does not suffice for that, since an offer must also move
  forward; `Rising` adds that no complete slot that a pod can still activate
  holds an older generation than the active one.
* `RetirementSparesActive`: unconditionally, a pod between its first read of
  `active-slot` and the end of `rm -rf` is not the active one: only a pod itself
  makes its slot active, and it does not while it retires it.

`MinutePipelineProofs` (for every set of roots and files, window and lead):

* `PipelineTypeCorrect`: the type invariant; `CursorOrder`: `CursorsOrdered`;
  `DeltasSuffice`: `DeltasRecoverable`. All three from `PipelineInv`, with
  restarts at any step, inside a batch too. It adds `Staging` (every published
  file is on disk; while it commits, the filter's cursor is between the
  committed and the database's; a batch being staged starts after the published
  minute, ends within upstream and the lead, and all its files so far have
  their delta) and `Listed` (a listed task stays until the dependency worker
  itself drops it, so the `need` it computes is a minute). That a state found in
  the deltas is a membership, and that the newest of a set of minutes is one of
  them, are lemmas; the latter is by well-foundedness of the naturals.
* `MergesAreLoaded`: `MergedLoaded`; no membership anywhere, in a delta, in
  the working copy or in a worker's memory, lists dependencies that were not
  loaded (`LoadedInv`).

`MinuteConvergence` (in addition, when the lane is `Steady`):

* `FilterKnowsEveryRoot`, `DatabaseConverged`, `CatalogConverged` and
  `RemovedStaysRemoved`: before a batch the filter knows every root it has to
  see vanish; database and catalog hold exactly the roots of the minute that
  their cursor names; a refresh never brings a root back. `ConvergeInv` says
  that every copy of the membership matches a minute: the database its cursor
  (while a minute is applied, the one before), the catalog the committed one,
  each delta its own, the working copy the last one staged, the memory of both
  workers what they read. What a restarted filter reads is the newest delta at
  or before the published minute; that this one matches, or that no change was
  between it and the minute, is `StateAfterMatches`.
* `Steady` has three parts: no restart strikes inside a half-staged batch, the
  public Overpass does not show what was untagged (both fail otherwise, see
  `MinuteInterrupted.cfg` and `MinuteRefreshesRemoved.cfg`), and no minute file
  both tags and untags a root: a file is the net change of its minute.

`FullPbfProofs` (for every cadence, span, window and number of minutes, with
kills before every step outside `Perilous`):

* `FullPbfTypeCorrect`; `CheckpointIsCovered` (`StateCovered`), `PlanetHasNoGap`
  (`NoGap`) and `PlanetFileOnlyGrows`, the last three from `PlanetInv`: planet
  file, journal and files under construction hold what their names promise,
  whichever rename comes next.
* `Batched`: a batch that is written lies within the window after the
  checkpoint and within upstream, and the recorded full state is the one of that
  batch, or at most a window ahead of the checkpoint.
* `SlotInv`: an extract has every tagged object up to its batch; a ready slot
  can be activated, an imported one is neither active nor ready; what was filled
  or published has every tagged object; how far a reset of the slots came; and
  what the import's `completion` says of its database.
* From all three, `TaggedIsPublished`, `ImportNeverTouchesActive`,
  `CutoverIsComplete` (`CutoverComplete`). For the last one a ready slot has to
  be complete whatever the worker is doing, before and during a reset, and when
  it is down (`ReadyWhole`).
* The hypotheses are on `Perilous` alone. The type invariant needs none. The
  planet's own properties need only `refull` and `restate` in it, that is, kills
  anywhere but between the two state writes of a planet reset; what concerns
  slots and extracts needs `Perils`, the whole table of section 2, where each
  row is a way in which it fails.

`ReplicatorProofs` (for every set of objects and of change files, any lag of
the public Overpass, any number of faults, with and without the pool, and also
when objects vanish while a file waits):

* About `OscFilter`, `FilterPassRelates`: after a pass the roots are the known
  ones without those changed, with the tagged ones of the file; every known
  root that the file changes is emitted or removed; every known dependency that
  it changes is emitted; nothing else is removed. The pass is a fold in the
  order of the file, so this is an induction over finite sets from the greatest
  element on (`SortedInduction`, by well-foundedness of the cardinality); it is
  stated once for a set of pairs of what is done and what came of it
  (`FilterRelates`).
* `ReplicatorTypeCorrect`; `TaggedIsServed` (`RootsServed`), `CatalogIsLoaded`
  (`RootsLoaded`) and `LastPassSuffices` (`DependenciesEmitted`), from
  `ReplicatorInv`. `RootsServed` looks at the checkpoint; `ServedInv` follows
  the file at hand until the checkpoint is saved: root by root while they are
  refreshed, and for all that the file leaves tagged once it is processed.
  A root that the pool does not find may be dropped because it was seen once
  (`Known`) and what is gone does not come back (`Continuity`). `LoadedInv`
  follows a root that a killed process left in the catalog without a database
  object: the file that removed it announces no root, so it is filtered again
  and committed before the checkpoint.
* One assumption was added to the constants: the extract of the initial import
  has what its objects reference, as `osmium tags-filter` sees to.

`RebuildLaneProofs` (for every number of files and all ordered time stamps):

* `LaneTypeCorrect`; `SearchCorrect`: `SearchBracket`. The search is an
  invariant, not a recursion: before `lo` everything is at or before the
  boundary, from `hi` on everything after it. That a halving keeps this is
  where the order of the stamps is used.
* `CursorStaysInStep`, `NothingIsSkipped`. Neither is inductive: the invariant
  adds which file is staged, what the applier holds between database and
  cursor, which request is under way between worker and watcher, and that the
  checkpoint to be saved is one whose minutes are shown. One lemma per action
  and part.

`PlanetJobProofs` (for every sequence of snapshots, set of jobs, number of faults):

* `PlanetTypeCorrect`; `MetadataIsTrue`, `PlanetIsKept`, `ExtractGoesForward`,
  until jobs overlap. `PlanetInv` adds `Alone` (one job runs, and holds the
  lock when it says so), `InOrder` (what was initialized has a planet file; an
  extract is no newer than the clock, and a job between the update and the
  extract has a planet no older than the last extract) and `Relies` (what each
  step of a job relies on: which torrent is in place, which payload is
  complete, what Pyosmium reads).

`MaintenanceLockProofs` (for every set of processes and number of faults):
`LockTypeCorrect`, and `LockExclusive`: as long as nothing is robbed the one
holder is the process that created the lock; a lock goes stale only if its
holder is dead or without heartbeat, so two holders take a fault.

Assumptions: the named `ASSUME`s of the modules, which say what the constants
are, that `None` differs from every value, and that time stamps and snapshots
are in order.

Only model-checked: liveness, which is out of TLAPS's reach under fairness
(`KeepsServing`, `CutsOver`, the two `CatchesUp` and that of `MinutePipeline`,
`QueueDrains`, `TaggedServed`, `Converges`, `HandsOver`, `NewPlanetUsed`,
`OrphansRemoved`), and the violated properties. That the replicator's database
ends up with everything `Needed`, references included, is such a liveness
property (`Converges`): its proof would need both fairness and what `Reach`
computes.

## 5. What is left out, and the plan

Not modelled by intent: progress logging, the batch interval and downloads, XML
and gzip handling, HTTP retries, Kubernetes itself beyond restarting a
container, and `initial-staging.sh`, which no entrypoint runs. Of the
components that are modelled partly:

* Replicator: the discovery and replay phases, the change from day to minute
  files, and the mode that hands files to the official helper (its protocol is
  that of `RebuildLane`).
* Rebuild worker: configured start sequences, which skip the search; the life
  after the cutover, since nothing in the repository writes
  `cutover-complete`; a dispatcher that does not start.
* Full-planet worker: the prefetch during an import, and the batch interval.
* Dependency worker: every batch takes every task; starvation by a bounded
  batch is a listed hazard without a property.
* Initial import: its result is the initial state of the others.
* Lock: re-entrancy within a thread, and a heartbeat thread that outlives the
  `join` at the release.

The plan, in order:

1. The replay phase of the replicator and its change from day to minute files;
   then `RootsServed` across it.
2. A bounded batch of the dependency worker, with the starvation that its name
   order allows (a hazard without a property so far).
3. Safety of the replicator's dependencies between two refreshes: which part of
   `Needed` the filter keeps up to date on its own, as an invariant that can be
   checked and proved.
