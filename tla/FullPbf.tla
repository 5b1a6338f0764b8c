------------------------------ MODULE FullPbf ------------------------------
(***************************************************************************)
(* full_pbf_worker keeps a full planet file up to date, coarse cadence     *)
(* first, and rebuilds the filtered database after every batch that        *)
(* carries the tag.  Everything it knows is in files, written one by one:  *)
(* it may be killed between any two writes, and resumes from what it finds.*)
(*                                                                         *)
(* Simplifications.  A file of cadence c holds Span[c] minutes of changes  *)
(* and is stamped with the last of them; a planet or database file is the  *)
(* set of minutes it contains.  The batch interval, downloads and the XML  *)
(* are left out; the races between pods and an import are those of module  *)
(* BlueGreen, here a pod takes one step.                                   *)
(***************************************************************************)
EXTENDS Naturals, Sequences, FiniteSets

CONSTANTS
  None,           \* no file, no slot
  Cadences,       \* CADENCES, coarse to fine
  Span,           \* the minutes of one file of each cadence
  MaxMinute,      \* the last upstream minute (bound)
  PrefetchFiles,  \* prefetch_files
  MaxKills,       \* how often the worker is killed (bound)
  MaxPlanets,     \* how many planet snapshots replace the first (bound)
  Perilous        \* the steps before which a kill is not allowed

Slots == {"blue", "green"}
Names == {Cadences[i] : i \in 1..Len(Cadences)}
Minutes == 1..MaxMinute

(* What the files hold, when they are there.                               *)
Batches == [cadence : Names, first : Nat, last : Nat]
Journal == [phase : {"applying", "built", "switched"}, batch : Batches,
            target : SUBSET Minutes]
FullState == [cadence : Names, sequence : Nat]
State == [cadence : Names, sequence : Nat, stamp : 0..MaxMinute]
Completion == [batch : Batches, slot : Slots]
Reset == [source : 0..MaxPlanets, slot : {None} \union Slots, imported : BOOLEAN]
Database == [minutes : SUBSET Minutes, whole : BOOLEAN]

ASSUME FullPbfAssumption ==
  /\ Cadences \in Seq(STRING) \ {<<>>}
  /\ Span \in [Names -> Nat \ {0}]
  /\ Span[Cadences[Len(Cadences)]] = 1
  /\ {MaxMinute, MaxKills, MaxPlanets} \subseteq Nat
  /\ PrefetchFiles \in Nat \ {0}
  /\ None \notin Slots /\ None \notin Journal /\ None \notin FullState
  /\ None \notin State /\ None \notin Completion /\ None \notin Reset
  /\ None \notin Database

VARIABLES
  clock,       \* the last minute published upstream
  tagged,      \* the minutes whose changes carry the tag
  planet,      \* planet_pbf: its snapshot, that snapshot's minute, contents
  beside,      \* the planet files being built next to it
  journal,     \* full_pbf_apply_journal_file
  fullState,   \* full_pbf_state_file
  artifacts,   \* filtered_dir: the extracts of batches
  initial,     \* filtered_dir: the extracts of snapshots
  completion,  \* filtered_import_state_file
  snapshot,    \* snapshot_metadata_file: the snapshot imported last
  reset,       \* planet_reset_state_file
  state,       \* state_file
  db,          \* the databases of the two slots
  active, ready, building,  \* the slot markers
  w,           \* the worker: step, batch, slot, source of the import
  kills        \* kills so far

planetVars == <<planet, beside, journal, fullState>>
filteredVars == <<artifacts, initial, completion>>
resetVars == <<snapshot, reset>>
markers == <<active, ready, building>>
upstreamVars == <<clock, tagged>>
vars == <<upstreamVars, planetVars, filteredVars, resetVars, state, db,
          markers, w, kills>>

Min2(a, b) == IF a < b THEN a ELSE b

(* What the files first..last of a cadence contain, and the stamp of one.  *)
Covered(c, first, last) == ((first - 1) * Span[c] + 1)..(last * Span[c])
Stamp(c, n) == n * Span[c]
Latest(c) == clock \div Span[c]

(* Mutant: the file that ends at minute t.                                 *)
SequenceAt(c, t) == t \div Span[c]

(* first_sequence_after: the first file stamped later than minute t.       *)
SequenceAfter(c, t) == (t \div Span[c]) + 1

InitState(t) == [cadence |-> Cadences[1], sequence |-> SequenceAfter(Cadences[1], t) - 1,
                 stamp |-> t]

Init ==
  /\ clock \in 0..MaxMinute /\ tagged = {}
  /\ planet = [source |-> 0, stamp |-> clock, minutes |-> 1..clock]
  /\ beside = {} /\ journal = None /\ fullState = None
  /\ artifacts = {} /\ initial = {} /\ completion = None
  /\ snapshot = 0 /\ reset = None
  /\ state = None
  /\ db = [s \in Slots |-> IF s = "blue"
                           THEN [minutes |-> 1..clock, whole |-> TRUE] ELSE None]
  /\ active = "blue" /\ ready = None /\ building = None
  /\ w = [pc |-> "down", first |-> 0, last |-> 0, slot |-> None, batch |-> TRUE]
  /\ kills = 0

-----------------------------------------------------------------------------
(* The world around the worker.                                            *)

MinuteArrives ==
  /\ clock < MaxMinute
  /\ clock' = clock + 1
  /\ tagged' \in {tagged, tagged \union {clock + 1}}
  /\ UNCHANGED <<planetVars, filteredVars, resetVars, state, db, markers, w,
                 kills>>

(* The standby pod activates the slot that is ready.                       *)
CutoverDue == ready # None /\ building # ready /\ db[ready] # None
Activate ==
  /\ CutoverDue
  /\ active' = ready /\ ready' = None
  /\ UNCHANGED <<upstreamVars, planetVars, filteredVars, resetVars, state, db,
                 building, w, kills>>

(* A pod removes the database of a slot that nobody claims.  Timing: not   *)
(* between the two markers of a running import; BlueGreen shows that.      *)
Retire(s) ==
  /\ s \notin {active, ready, building} /\ db[s] # None
  /\ ~(w.pc = "publish" /\ w.slot = s)
  /\ db' = [db EXCEPT ![s] = None]
  /\ UNCHANGED <<upstreamVars, planetVars, filteredVars, resetVars, state,
                 markers, w, kills>>

(* While the worker is down, the bootstrap replaces the planet file.       *)
NewPlanet ==
  /\ w.pc = "down"
  /\ planet.source < MaxPlanets
  /\ \E t \in 0..clock :
       planet' = [source |-> planet.source + 1, stamp |-> t, minutes |-> 1..t]
  /\ UNCHANGED <<upstreamVars, beside, journal, fullState, filteredVars,
                 resetVars, state, db, markers, w, kills>>

Killed ==
  /\ w.pc \notin {"down"} \union Perilous
  /\ kills < MaxKills
  /\ kills' = kills + 1
  /\ w' = [w EXCEPT !.pc = "down"]
  /\ UNCHANGED <<upstreamVars, planetVars, filteredVars, resetVars, state, db,
                 markers>>

-----------------------------------------------------------------------------
(* The main loop.                                                          *)

Goto(from, to) == w.pc = from /\ w' = [w EXCEPT !.pc = to]

Inactive == IF active = "blue" THEN "green" ELSE "blue"

(* Mutant: the checkpoint is not compared with the planet.                 *)
StartsWithoutReset ==
  /\ Goto("down", "loop")
  /\ state' = IF state = None THEN InitState(planet.stamp) ELSE state
  /\ UNCHANGED <<upstreamVars, planetVars, filteredVars, resetVars, db,
                 markers, kills>>

Starts ==
  /\ Goto("down", IF planet.source = snapshot THEN "loop" ELSE "reset")
  /\ state' = IF planet.source = snapshot /\ state = None
              THEN InitState(planet.stamp) ELSE state
  /\ UNCHANGED <<upstreamVars, planetVars, filteredVars, resetVars, db,
                 markers, kills>>

Batch == [cadence |-> state.cadence, first |-> w.first, last |-> w.last]

(* pending_filtered_artifact.                                              *)
Pending ==
  {a \in artifacts :
     /\ fullState # None /\ fullState.cadence = state.cadence
     /\ a.batch = [cadence |-> state.cadence, first |-> state.sequence + 1,
                   last |-> fullState.sequence]}

(* Mutant: the completion may be of another batch.                         *)
CompletedSome(a) == completion # None /\ db[completion.slot] # None

Completed(a) == completion # None /\ completion.batch = a.batch
                /\ db[completion.slot] # None

(* recover_filtered_artifact: the import was done, or is done again.       *)
RecoverPublishes ==
  /\ w.pc = "loop"
  /\ \E a \in Pending :
       /\ Completed(a)
       /\ ready' = completion.slot
       /\ w' = [w EXCEPT !.pc = "save", !.first = a.batch.first,
                         !.last = a.batch.last]
  /\ UNCHANGED <<upstreamVars, planetVars, filteredVars, resetVars, state, db,
                 active, building, kills>>

RecoverImports ==
  /\ w.pc = "loop"
  /\ \E a \in Pending :
       /\ ~Completed(a)
       /\ w' = [w EXCEPT !.pc = "select", !.first = a.batch.first,
                         !.last = a.batch.last, !.batch = TRUE]
  /\ UNCHANGED <<upstreamVars, planetVars, filteredVars, resetVars, state, db,
                 markers, kills>>

(* full_pbf_contains_batch.                                                *)
Contains(c, last) ==
  fullState # None /\ fullState.cadence = c /\ fullState.sequence >= last

(* Mutant: the last file upstream is never taken.                          *)
FetchesButLast ==
  /\ w.pc = "loop" /\ Pending = {}
  /\ state.sequence + 1 < Latest(state.cadence)
  /\ LET last == Min2(state.sequence + PrefetchFiles, Latest(state.cadence))
     IN w' = [w EXCEPT !.pc = IF Contains(state.cadence, last)
                              THEN "extract" ELSE "apply",
                       !.first = state.sequence + 1, !.last = last,
                       !.batch = TRUE]
  /\ UNCHANGED <<upstreamVars, planetVars, filteredVars, resetVars, state, db,
                 markers, kills>>

FetchBatch ==
  /\ w.pc = "loop" /\ Pending = {}
  /\ state.sequence < Latest(state.cadence)
  /\ LET last == Min2(state.sequence + PrefetchFiles, Latest(state.cadence))
     IN w' = [w EXCEPT !.pc = IF Contains(state.cadence, last)
                              THEN "extract" ELSE "apply",
                       !.first = state.sequence + 1, !.last = last,
                       !.batch = TRUE]
  /\ UNCHANGED <<upstreamVars, planetVars, filteredVars, resetVars, state, db,
                 markers, kills>>

(* Mutant: the next cadence starts at the latest file.                     *)
SwitchToLatest ==
  /\ w.pc = "loop" /\ Pending = {}
  /\ state.sequence >= Latest(state.cadence)
  /\ \E i \in 1..(Len(Cadences) - 1) :
       /\ Cadences[i] = state.cadence
       /\ state' = [state EXCEPT !.cadence = Cadences[i + 1],
                                 !.sequence = Latest(Cadences[i + 1])]
  /\ UNCHANGED <<upstreamVars, planetVars, filteredVars, resetVars, db,
                 markers, w, kills>>

SwitchCadence ==
  /\ w.pc = "loop" /\ Pending = {}
  /\ state.sequence >= Latest(state.cadence)
  /\ \E i \in 1..(Len(Cadences) - 1) :
       /\ Cadences[i] = state.cadence
       /\ state' = [state EXCEPT
            !.cadence = Cadences[i + 1],
            !.sequence = SequenceAfter(Cadences[i + 1], state.stamp) - 1]
  /\ UNCHANGED <<upstreamVars, planetVars, filteredVars, resetVars, db,
                 markers, w, kills>>

SaveState ==
  /\ Goto("save", "loop")
  /\ state' = [state EXCEPT !.sequence = w.last,
                            !.stamp = Stamp(state.cadence, w.last)]
  /\ UNCHANGED <<upstreamVars, planetVars, filteredVars, resetVars, db,
                 markers, kills>>

-----------------------------------------------------------------------------
(* apply_full_changes: a batch is applied to the planet file.              *)

NextPbf == [cadence |-> state.cadence, last |-> w.last]
Built == {n \in beside : n.name = NextPbf}

(* What resume_full_pbf_apply makes of the journal.                        *)
Resumable ==
  /\ journal # None /\ journal.batch = Batch
  /\ \/ journal.phase = "switched"
     \/ journal.phase = "built" /\ (Built # {} \/ planet.minutes = journal.target)

(* Mutant: any build next to the planet file is taken for the journal's.   *)
ResumesAnyBuild ==
  /\ Goto("apply", "resumed")
  /\ journal # None
  /\ \E n \in beside : planet' = [planet EXCEPT !.minutes = n.minutes]
  /\ beside' = {}
  /\ UNCHANGED <<upstreamVars, journal, fullState, filteredVars, resetVars,
                 state, db, markers, kills>>

ResumeApply ==
  /\ Goto("apply", "resumed")
  /\ Resumable
  /\ IF journal.phase = "built" /\ Built # {}
     THEN /\ \E n \in Built : planet' = [planet EXCEPT !.minutes = n.minutes]
          /\ beside' = beside \ Built
     ELSE UNCHANGED <<planet, beside>>
  /\ UNCHANGED <<upstreamVars, journal, fullState, filteredVars, resetVars,
                 state, db, markers, kills>>

(* Otherwise the batch is built anew; an interrupted build is discarded.   *)
StartApply ==
  /\ Goto("apply", "journal")
  /\ ~Resumable
  /\ beside' = beside \ Built
  /\ journal' = IF journal # None /\ journal.batch = Batch
                    /\ journal.phase = "applying"
                 THEN None ELSE journal
  /\ UNCHANGED <<upstreamVars, planet, fullState, filteredVars, resetVars,
                 state, db, markers, kills>>

JournalApplying ==
  /\ Goto("journal", "build")
  /\ journal' = [phase |-> "applying", batch |-> Batch, target |-> {}]
  /\ UNCHANGED <<upstreamVars, planet, beside, fullState, filteredVars,
                 resetVars, state, db, markers, kills>>

BuildStarts ==
  /\ Goto("build", "building")
  /\ beside' = beside \union {[name |-> NextPbf, minutes |-> {}]}
  /\ UNCHANGED <<upstreamVars, planet, journal, fullState, filteredVars,
                 resetVars, state, db, markers, kills>>

BuildEnds ==
  /\ Goto("building", "built")
  /\ beside' = (beside \ Built) \union
       {[name |-> NextPbf,
         minutes |-> planet.minutes \union
                     Covered(state.cadence, w.first, w.last)]}
  /\ UNCHANGED <<upstreamVars, planet, journal, fullState, filteredVars,
                 resetVars, state, db, markers, kills>>

JournalBuilt ==
  /\ Goto("built", "replace")
  /\ \E n \in Built : journal' = [journal EXCEPT !.phase = "built",
                                                 !.target = n.minutes]
  /\ UNCHANGED <<upstreamVars, planet, beside, fullState, filteredVars,
                 resetVars, state, db, markers, kills>>

ReplacePlanet ==
  /\ Goto("replace", "switch")
  /\ \E n \in Built : planet' = [planet EXCEPT !.minutes = n.minutes]
  /\ beside' = beside \ Built
  /\ UNCHANGED <<upstreamVars, journal, fullState, filteredVars, resetVars,
                 state, db, markers, kills>>

SaveFullState ==
  /\ \/ Goto("switch", "mark switched")
     \/ Goto("resumed", "drop")
  /\ fullState' = [cadence |-> state.cadence, sequence |-> w.last]
  /\ UNCHANGED <<upstreamVars, planet, beside, journal, filteredVars,
                 resetVars, state, db, markers, kills>>

JournalSwitched ==
  /\ Goto("mark switched", "drop")
  /\ journal' = [journal EXCEPT !.phase = "switched"]
  /\ UNCHANGED <<upstreamVars, planet, beside, fullState, filteredVars,
                 resetVars, state, db, markers, kills>>

DropJournal ==
  /\ Goto("drop", "extract")
  /\ journal' = None
  /\ UNCHANGED <<upstreamVars, planet, beside, fullState, filteredVars,
                 resetVars, state, db, markers, kills>>

-----------------------------------------------------------------------------
(* rebuild_filtered: a tagged batch is extracted and imported.             *)

(* Mutant: only the last file of the batch is looked at.                   *)
LastIsTagged == Covered(state.cadence, w.last, w.last) \intersect tagged # {}

IsTagged == Covered(state.cadence, w.first, w.last) \intersect tagged # {}
Artifact == {a \in artifacts : a.batch = Batch}

SkipRebuild ==
  /\ Goto("extract", "save")
  /\ ~IsTagged
  /\ UNCHANGED <<upstreamVars, planetVars, filteredVars, resetVars, state, db,
                 markers, kills>>

(* An artifact that is there is reused; else osmium writes it, under its   *)
(* final name.                                                             *)
ExtractStarts ==
  /\ Goto("extract", IF Artifact # {} THEN "select" ELSE "extracting")
  /\ IsTagged
  /\ artifacts' = IF Artifact # {} THEN artifacts
                  ELSE artifacts \union
                       {[batch |-> Batch, minutes |-> {}, whole |-> FALSE]}
  /\ UNCHANGED <<upstreamVars, planetVars, initial, completion, resetVars,
                 state, db, markers, kills>>

ExtractEnds ==
  /\ Goto("extracting", "select")
  /\ artifacts' = (artifacts \ Artifact) \union
       {[batch |-> Batch, minutes |-> planet.minutes, whole |-> TRUE]}
  /\ UNCHANGED <<upstreamVars, planetVars, initial, completion, resetVars,
                 state, db, markers, kills>>

(* Mutant: a slot is chosen that may be the active one.                    *)
SelectsGreen ==
  /\ w.pc = "select"
  /\ w' = [w EXCEPT !.pc = "mark", !.slot = "green"]
  /\ UNCHANGED <<upstreamVars, planetVars, filteredVars, resetVars, state, db,
                 markers, kills>>

(* inactive_slot.  Timing: the cutover of an earlier import is over, which *)
(* the interval between batches leaves plenty of time for.                 *)
SelectSlot ==
  /\ ~CutoverDue
  /\ w.pc = "select"
  /\ w' = [w EXCEPT !.pc = "mark", !.slot = Inactive]
  /\ UNCHANGED <<upstreamVars, planetVars, filteredVars, resetVars, state, db,
                 markers, kills>>

(* import_filtered_pbf, from an artifact or the extract of a snapshot.     *)
MarkBuilding ==
  /\ Goto("mark", "wipe")
  /\ building' = w.slot
  /\ UNCHANGED <<upstreamVars, planetVars, filteredVars, resetVars, state, db,
                 active, ready, kills>>

WipeSlot ==
  /\ Goto("wipe", "fill")
  /\ db' = [db EXCEPT ![w.slot] = [minutes |-> {}, whole |-> FALSE]]
  /\ UNCHANGED <<upstreamVars, planetVars, filteredVars, resetVars, state,
                 markers, kills>>

FillSlot ==
  /\ Goto("fill", IF w.batch THEN "complete" ELSE "clear")
  /\ \E f \in IF w.batch THEN Artifact
              ELSE {i \in initial : i.source = planet.source} :
       db' = [db EXCEPT ![w.slot] = [minutes |-> f.minutes, whole |-> f.whole]]
  /\ UNCHANGED <<upstreamVars, planetVars, filteredVars, resetVars, state,
                 markers, kills>>

RecordCompletion ==
  /\ Goto("complete", "clear")
  /\ completion' = [batch |-> Batch, slot |-> w.slot]
  /\ UNCHANGED <<upstreamVars, planetVars, artifacts, initial, resetVars,
                 state, db, markers, kills>>

(* A failing import clears the marker and ends the worker.                 *)
ImportFails ==
  /\ kills < MaxKills
  /\ Goto("fill", "down")
  /\ kills' = kills + 1
  /\ building' = None
  /\ UNCHANGED <<upstreamVars, planetVars, filteredVars, resetVars, state, db,
                 active, ready>>

ClearBuilding ==
  /\ Goto("clear", "publish")
  /\ building' = None
  /\ UNCHANGED <<upstreamVars, planetVars, filteredVars, resetVars, state, db,
                 active, ready, kills>>

PublishReady ==
  /\ Goto("publish", IF w.batch THEN "save" ELSE "imported")
  /\ ready' = w.slot
  /\ UNCHANGED <<upstreamVars, planetVars, filteredVars, resetVars, state, db,
                 active, building, kills>>

-----------------------------------------------------------------------------
(* reset_from_new_planet_snapshot.                                         *)

ResetMatches == reset # None /\ reset.source = planet.source

ResetContinues ==
  /\ w.pc = "reset"
  /\ ResetMatches
  /\ w' = [w EXCEPT !.pc = "refilter",
                    !.slot = IF reset.slot # None THEN reset.slot ELSE Inactive]
  /\ UNCHANGED <<upstreamVars, planetVars, filteredVars, resetVars, state, db,
                 markers, kills>>

(* clear_replication_inputs.                                               *)
ResetClears ==
  /\ Goto("reset", "note")
  /\ ~ResetMatches
  /\ artifacts' = {}
  /\ initial' = {i \in initial : i.source = planet.source}
  /\ completion' = None /\ journal' = None
  /\ ready' = None /\ building' = None
  /\ UNCHANGED <<upstreamVars, planet, beside, fullState, resetVars, state,
                 db, active, kills>>

ResetNotes ==
  /\ w.pc = "note"
  /\ reset' = [source |-> planet.source, slot |-> None, imported |-> FALSE]
  /\ w' = [w EXCEPT !.pc = "refilter", !.slot = Inactive]
  /\ UNCHANGED <<upstreamVars, planetVars, filteredVars, snapshot, state, db,
                 markers, kills>>

(* This extract is renamed when it is finished.                            *)
ResetFilters ==
  /\ Goto("refilter", "reimport")
  /\ initial' = IF \E i \in initial : i.source = planet.source THEN initial
                ELSE initial \union {[source |-> planet.source, whole |-> TRUE,
                                      minutes |-> planet.minutes]}
  /\ UNCHANGED <<upstreamVars, planetVars, artifacts, completion, resetVars,
                 state, db, markers, kills>>

ResetImports ==
  /\ w.pc = "reimport"
  /\ ~(reset.imported /\ db[w.slot] # None)
  /\ reset' = [reset EXCEPT !.slot = w.slot, !.imported = FALSE]
  /\ w' = [w EXCEPT !.pc = "mark", !.batch = FALSE]
  /\ UNCHANGED <<upstreamVars, planetVars, filteredVars, snapshot, state, db,
                 markers, kills>>

ResetImported ==
  /\ Goto("imported", "resnap")
  /\ reset' = [reset EXCEPT !.imported = TRUE]
  /\ UNCHANGED <<upstreamVars, planetVars, filteredVars, snapshot, state, db,
                 markers, kills>>

ResetSkipsImport ==
  /\ Goto("reimport", "resnap")
  /\ reset.imported /\ db[w.slot] # None
  /\ UNCHANGED <<upstreamVars, planetVars, filteredVars, resetVars, state, db,
                 markers, kills>>

ResetSnapshot ==
  /\ Goto("resnap", "refull")
  /\ snapshot' = planet.source
  /\ UNCHANGED <<upstreamVars, planetVars, filteredVars, reset, state, db,
                 markers, kills>>

ResetFullState ==
  /\ Goto("refull", "restate")
  /\ fullState' = [cadence |-> Cadences[1],
                   sequence |-> InitState(planet.stamp).sequence]
  /\ UNCHANGED <<upstreamVars, planet, beside, journal, filteredVars,
                 resetVars, state, db, markers, kills>>

ResetState ==
  /\ Goto("restate", "forget")
  /\ state' = InitState(planet.stamp)
  /\ UNCHANGED <<upstreamVars, planetVars, filteredVars, resetVars, db,
                 markers, kills>>

ResetEnds ==
  /\ Goto("forget", "loop")
  /\ reset' = None
  /\ UNCHANGED <<upstreamVars, planetVars, filteredVars, snapshot, state, db,
                 markers, kills>>

ResetStep ==
  \/ ResetContinues \/ ResetClears \/ ResetNotes \/ ResetFilters
  \/ ResetImports \/ ResetImported \/ ResetSkipsImport
  \/ ResetSnapshot \/ ResetFullState \/ ResetState \/ ResetEnds
ApplyStep ==
  \/ ResumeApply \/ StartApply \/ JournalApplying \/ BuildStarts \/ BuildEnds
  \/ JournalBuilt \/ ReplacePlanet \/ SaveFullState \/ JournalSwitched
  \/ DropJournal
ImportStep ==
  \/ SkipRebuild \/ ExtractStarts \/ ExtractEnds
  \/ SelectSlot \/ MarkBuilding \/ WipeSlot \/ FillSlot \/ RecordCompletion
  \/ ClearBuilding \/ PublishReady
LoopStep ==
  Starts \/ RecoverPublishes \/ RecoverImports \/ FetchBatch \/ SwitchCadence
  \/ SaveState

Step == LoopStep \/ ApplyStep \/ ImportStep \/ ResetStep

Next ==
  \/ MinuteArrives \/ Activate \/ (\E s \in Slots : Retire(s))
  \/ NewPlanet \/ Killed \/ ImportFails \/ Step

(* The supervisor restarts the worker, and a standby pod activates a       *)
(* ready slot.                                                             *)
Fairness == WF_vars(Step) /\ WF_vars(Activate)

Spec == Init /\ [][Next]_vars /\ Fairness

-----------------------------------------------------------------------------
Steps == {"down", "loop", "apply", "journal", "build", "building", "built",
          "replace", "switch", "mark switched", "resumed", "drop", "extract",
          "extracting", "select", "mark", "wipe", "fill", "complete", "clear",
          "publish", "save", "reset", "note", "refilter", "reimport",
          "imported", "resnap", "refull", "restate", "forget"}

(* Every variable holds a value the code can give it.                      *)
TypeOK ==
  /\ clock \in 0..MaxMinute /\ tagged \subseteq Minutes
  /\ planet \in [source : 0..MaxPlanets, stamp : 0..MaxMinute,
                 minutes : SUBSET Minutes]
  /\ beside \subseteq [name : [cadence : Names, last : Nat],
                      minutes : SUBSET Minutes]
  /\ journal \in Journal \union {None}
  /\ fullState \in FullState \union {None}
  /\ artifacts \subseteq [batch : Batches, minutes : SUBSET Minutes,
                         whole : BOOLEAN]
  /\ initial \subseteq [source : 0..MaxPlanets, minutes : SUBSET Minutes,
                       whole : {TRUE}]
  /\ completion \in Completion \union {None}
  /\ snapshot \in 0..MaxPlanets
  /\ reset \in Reset \union {None}
  /\ state \in State \union {None}
  /\ db \in [Slots -> Database \union {None}]
  /\ active \in Slots /\ {ready, building} \subseteq {None} \union Slots
  /\ w \in [pc : Steps, first : Nat, last : Nat, slot : {None} \union Slots,
            batch : BOOLEAN]
  /\ kills \in 0..MaxKills

(* The planet file has no gap: no file is applied out of order, whatever   *)
(* was killed, and a coarser cadence hands over exactly where it ended.    *)
NoGap == planet.minutes = 1..Cardinality(planet.minutes)

(* The worker never resumes after a minute that the planet file lacks.     *)
StateCovered ==
  w.pc = "loop" => 1..state.stamp \subseteq planet.minutes

(* Until the next snapshot, nothing that was applied is lost again: no     *)
(* stale journal or half-built file replaces the planet.                   *)
PlanetOnlyGrows ==
  [][planet.source = planet'.source => planet.minutes \subseteq planet'.minutes]_vars

(* What the API is to serve next: the ready slot, else the active one.     *)
Published == IF ready # None THEN ready ELSE active

(* A tagged change that the worker has left behind is in the database that *)
(* is or will be served.                                                   *)
TaggedPublished ==
  w.pc = "loop" /\ building = None =>
    /\ db[Published] # None /\ db[Published].whole
    /\ tagged \intersect 1..state.stamp \subseteq db[Published].minutes

(* An import never touches the active slot's database.                     *)
ImportSparesActive == w.pc \in {"fill", "complete", "clear"} => w.slot # active

(* Whenever a pod cuts over, while the worker is down or busy with a later *)
(* batch too, it cuts over to a complete database, which has every tagged  *)
(* change that the worker has left behind unless a reset to a new planet   *)
(* is on its way.                                                          *)
CutoverComplete ==
  CutoverDue =>
    /\ db[ready].whole
    /\ /\ planet.source = snapshot /\ w.pc \notin {"refull", "restate"}
       /\ state # None
       => tagged \intersect 1..state.stamp \subseteq db[ready].minutes

(* Again and again the worker has all that upstream has published, and the *)
(* API serves all that is tagged: no kill or cutover leaves it stuck.      *)
(* (Both may fall behind while minutes arrive, which MaxMinute ends.)      *)
CatchesUp == []<>(state # None /\ state.stamp >= clock)
TaggedServed == []<>(db[active] # None /\ tagged \subseteq db[active].minutes)
=============================================================================
