----------------------------- MODULE PlanetJob -----------------------------
(* The planet side of the scheduled job: planet-bootstrap.sh downloads a     *)
(* planet snapshot, and again when a newer torrent is out; then              *)
(* scheduled_rebuild.py, under a flock that the bootstrap does not take,     *)
(* lets Pyosmium bring the planet file up to date and osmium extract the     *)
(* tagged objects from it.  What becomes of the extract is in BlueGreen.     *)
(*                                                                           *)
(* Of a planet file the model keeps the snapshot it came from and the time   *)
(* of its data; two files of different content differ in size.               *)
EXTENDS Integers, Sequences

CONSTANTS
  None,
  Taken,       \* for each planet snapshot the time of its data
  MaxTime,     \* bound: the clock
  Cron,        \* the CronJob, which does not overlap with itself
  Manual,      \* jobs that are started by hand
  MaxManual,   \* bound: starts by hand
  MaxFaults    \* bound: commands that fail and jobs that are killed

Job == {Cron} \cup Manual
Snapshot == DOMAIN Taken
Planet == [source : Snapshot \cup {0}, time : 0 .. MaxTime]   \* 0: of unknown origin

(* metadata.of is the planet file whose size and time were recorded. *)
Metadata == [source : Snapshot \cup {None}, of : Planet]

ASSUME PlanetAssumption ==
  /\ Taken \in Seq(Nat) /\ Taken # <<>> /\ Taken[1] < MaxTime
  /\ \A i, j \in DOMAIN Taken : i < j => Taken[i] < Taken[j]
  /\ MaxTime \in Nat /\ MaxFaults \in Nat /\ MaxManual \in Nat
  /\ Cron \notin Manual
  /\ None \notin Nat \cup Job \cup Planet \cup Metadata

VARIABLES
  now,          \* time of the newest minute file
  latest,       \* number of the newest planet snapshot
  planet,       \* planet.osm.pbf
  part,         \* planet-latest.osm.pbf.torrent.part
  torrent,      \* planet-latest.osm.pbf.torrent
  incoming,     \* complete payloads in .incoming
  metadata,     \* planet-download.json
  initialized,  \* does planet-initialized exist?
  lock,         \* who holds scheduled-rebuild.lock
  snapshot,     \* snapshot_metadata_file, as the time in it
  filtered,     \* filtered_pbf, as the time of its data
  job,          \* the memory of the jobs
  faults,       \* failures and kills so far
  manual,       \* starts by hand so far
  overlapped    \* history: was a job started while another one ran?

vars == <<now, latest, planet, part, torrent, incoming, metadata, initialized, lock,
          snapshot, filtered, job, faults, manual, overlapped>>
starts == <<manual, overlapped>>
world == <<now, latest>>
bootstrapped == <<part, torrent, incoming, initialized>>
results == <<snapshot, filtered>>

(* new is the torrent the job has fetched, base what Pyosmium reads, or *)
(* what update_planet_metadata has read.                                *)
Memory == [pc : {"idle", "curl", "check", "wipe", "forget", "move", "download", "install",
                 "describe", "mark", "refresh", "flock", "start", "update", "record",
                 "export", "extract", "import"},
           new : Snapshot \cup {None}, base : Planet \cup {None}]

TypeOK ==
  /\ now \in 0 .. MaxTime /\ latest \in Snapshot
  /\ planet \in Planet \cup {None}
  /\ part \in Snapshot \cup {None} /\ torrent \in Snapshot \cup {None}
  /\ incoming \subseteq Snapshot
  /\ metadata \in Metadata \cup {None}
  /\ initialized \in BOOLEAN
  /\ lock \in Job \cup {None}
  /\ snapshot \in 0 .. MaxTime \cup {None}
  /\ filtered \in 0 .. MaxTime \cup {None}
  /\ job \in [Job -> Memory]
  /\ faults \in 0 .. MaxFaults
  /\ manual \in 0 .. MaxManual
  /\ overlapped \in BOOLEAN

Idle == [pc |-> "idle", new |-> None, base |-> None]

(* A new volume, or one with a planet file of unknown origin. *)
Init ==
  /\ now = Taken[1] + 1 /\ latest = 1
  /\ planet \in {None, [source |-> 0, time |-> 0]}
  /\ part = None /\ torrent = None /\ incoming = {}
  /\ metadata = None /\ initialized = FALSE
  /\ lock = None
  /\ snapshot = None /\ filtered = None
  /\ job = [j \in Job |-> Idle]
  /\ faults = 0 /\ manual = 0
  /\ overlapped = FALSE

At(j, pc) == job[j].pc = pc
Go(j, pc) == job' = [job EXCEPT ![j].pc = pc]

(***************************************************************************)
(* Upstream                                                                *)
(***************************************************************************)
Tick ==
  /\ now < MaxTime
  /\ now' = now + 1
  /\ UNCHANGED <<latest, planet, bootstrapped, metadata, lock, results, job, faults, starts>>

(* A planet file is published some time after its data were taken. *)
SnapshotAppears ==
  /\ latest + 1 \in Snapshot /\ Taken[latest + 1] < now
  /\ latest' = latest + 1
  /\ UNCHANGED <<now, planet, bootstrapped, metadata, lock, results, job, faults, starts>>

(***************************************************************************)
(* planet-bootstrap.sh                                                     *)
(***************************************************************************)
JobStarts(j) ==
  /\ At(j, "idle")
  /\ j \in Manual => manual < MaxManual
  /\ manual' = IF j \in Manual THEN manual + 1 ELSE manual
  /\ overlapped' = (overlapped \/ \E k \in Job : ~At(k, "idle"))
  /\ Go(j, "curl")
  /\ UNCHANGED <<world, planet, bootstrapped, metadata, lock, results, faults>>

FetchTorrent(j) ==
  /\ At(j, "curl")
  /\ part' = latest
  /\ job' = [job EXCEPT ![j].pc = "check", ![j].new = latest]
  /\ UNCHANGED <<world, planet, torrent, incoming, initialized, metadata, lock, results,
                 faults, starts>>

Initialized == initialized /\ planet # None /\ metadata # None

NotInitialized(j) ==
  /\ At(j, "check") /\ ~Initialized
  /\ Go(j, "wipe")
  /\ UNCHANGED <<world, planet, bootstrapped, metadata, lock, results, faults, starts>>

RemovePlanet(j) ==
  /\ At(j, "wipe")
  /\ planet' = None
  /\ Go(j, "forget")
  /\ UNCHANGED <<world, bootstrapped, metadata, lock, results, faults, starts>>

RemoveMetadata(j) ==
  /\ At(j, "forget")
  /\ metadata' = None /\ torrent' = None
  /\ Go(j, "move")
  /\ UNCHANGED <<world, planet, part, incoming, initialized, lock, results, faults, starts>>

\* Mutant: a torrent file that is in place is enough.
UnchangedTorrent(j) == torrent = job[j].new

(* A torrent file that is in place says nothing yet of the planet file. *)
Unchanged(j) == torrent = job[j].new /\ metadata.source = job[j].new

\* Mutant: what Pyosmium did to the planet file goes unnoticed.
KeepPlanetAsIs(j) ==
  /\ At(j, "check") /\ Initialized /\ Unchanged(j)
  /\ part' = None
  /\ Go(j, "flock")
  /\ UNCHANGED <<world, planet, torrent, incoming, initialized, metadata, lock, results,
                 faults, starts>>

KeepPlanet(j) ==
  /\ At(j, "check") /\ Initialized /\ Unchanged(j)
  /\ part' = None
  /\ Go(j, IF metadata.of = planet THEN "flock" ELSE "refresh")
  /\ UNCHANGED <<world, planet, torrent, incoming, initialized, metadata, lock, results,
                 faults, starts>>

\* Mutant: a newer torrent is handled like a first initialization.
ReplacePlanetAnew(j) ==
  /\ At(j, "check") /\ Initialized /\ ~Unchanged(j)
  /\ Go(j, "wipe")
  /\ UNCHANGED <<world, planet, bootstrapped, metadata, lock, results, faults, starts>>

ReplacePlanet(j) ==
  /\ At(j, "check") /\ Initialized /\ ~Unchanged(j)
  /\ Go(j, "move")
  /\ UNCHANGED <<world, planet, bootstrapped, metadata, lock, results, faults, starts>>

RefreshMetadata(j) ==
  /\ At(j, "refresh") /\ planet # None
  /\ metadata' = [source |-> IF metadata = None THEN None ELSE metadata.source,
                  of |-> planet]
  /\ Go(j, "flock")
  /\ UNCHANGED <<world, planet, bootstrapped, lock, results, faults, starts>>

MoveTorrent(j) ==
  /\ At(j, "move") /\ part # None
  /\ torrent' = part /\ part' = None
  /\ Go(j, "download")
  /\ UNCHANGED <<world, planet, incoming, initialized, metadata, lock, results, faults, starts>>

Download(j) ==
  /\ At(j, "download") /\ torrent # None
  /\ incoming' = incoming \cup {torrent}
  /\ Go(j, "install")
  /\ UNCHANGED <<world, planet, part, torrent, initialized, metadata, lock, results, faults, starts>>

InstallPlanet(j) ==
  /\ At(j, "install") /\ job[j].new \in incoming
  /\ planet' = [source |-> job[j].new, time |-> Taken[job[j].new]]
  /\ incoming' = incoming \ {job[j].new}
  /\ Go(j, "describe")
  /\ UNCHANGED <<world, part, torrent, initialized, metadata, lock, results, faults, starts>>

WriteMetadata(j) ==
  /\ At(j, "describe") /\ planet # None
  /\ metadata' = [source |-> job[j].new, of |-> planet]
  /\ Go(j, "mark")
  /\ UNCHANGED <<world, planet, bootstrapped, lock, results, faults, starts>>

MarkInitialized(j) ==
  /\ At(j, "mark")
  /\ initialized' = TRUE
  /\ Go(j, "flock")
  /\ UNCHANGED <<world, planet, part, torrent, incoming, metadata, lock, results, faults, starts>>

(***************************************************************************)
(* scheduled_rebuild.py                                                    *)
(***************************************************************************)
RunLocked(j) ==
  /\ At(j, "flock") /\ lock = None /\ planet # None
  /\ lock' = j
  /\ Go(j, "start")
  /\ UNCHANGED <<world, planet, bootstrapped, metadata, results, faults, starts>>

(* Pyosmium reads the planet file, ... *)
UpdateStarts(j) ==
  /\ At(j, "start") /\ planet # None
  /\ job' = [job EXCEPT ![j].pc = "update", ![j].base = planet]
  /\ UNCHANGED <<world, planet, bootstrapped, metadata, lock, results, faults, starts>>

\* Mutant: any end of Pyosmium counts as the end of the update.
UpdateEndsOnce(j) ==
  /\ At(j, "update")
  /\ \E time \in job[j].base.time .. now :
       /\ time = now \/ job[j].base.time < time
       /\ planet' = [job[j].base EXCEPT !.time = time]
       /\ job' = [job EXCEPT ![j].base = None, ![j].pc = "record"]
  /\ UNCHANGED <<world, bootstrapped, metadata, lock, results, faults, starts>>

(* ... and moves its update into place: it ends with 0 when it has reached  *)
(* the newest minute, with 1 when there is more.  (minute.sequence.state,   *)
(* which is saved then, is read by nothing.)                                *)
UpdateEnds(j) ==
  /\ At(j, "update")
  /\ \E time \in job[j].base.time .. now :
       /\ time = now \/ job[j].base.time < time
       /\ planet' = [job[j].base EXCEPT !.time = time]
       /\ job' = [job EXCEPT ![j].base = None,
                             ![j].pc = IF time = now THEN "record" ELSE "start"]
  /\ UNCHANGED <<world, bootstrapped, metadata, lock, results, faults, starts>>

(* update_planet_metadata writes two files, from one record in memory. *)
RecordPlanet(j) ==
  /\ At(j, "record") /\ planet # None
  /\ metadata' = [source |-> IF metadata = None THEN None ELSE metadata.source,
                  of |-> planet]
  /\ job' = [job EXCEPT ![j].base = planet, ![j].pc = "export"]
  /\ UNCHANGED <<world, planet, bootstrapped, lock, results, faults, starts>>

RecordSnapshot(j) ==
  /\ At(j, "export")
  /\ snapshot' = job[j].base.time
  /\ job' = [job EXCEPT ![j].base = None, ![j].pc = "extract"]
  /\ UNCHANGED <<world, planet, bootstrapped, metadata, lock, filtered, faults, starts>>

ExtractFiltered(j) ==
  /\ At(j, "extract") /\ planet # None
  /\ filtered' = planet.time
  /\ Go(j, "import")
  /\ UNCHANGED <<world, planet, bootstrapped, metadata, lock, snapshot, faults, starts>>

(* import_filtered_pbf and wait_for_cutover touch none of these files. *)
JobEnds(j) ==
  /\ At(j, "import")
  /\ job' = [job EXCEPT ![j] = Idle]
  /\ lock' = None
  /\ UNCHANGED <<world, planet, bootstrapped, metadata, results, faults, starts>>

(***************************************************************************)
(* Ends before the end                                                     *)
(***************************************************************************)
Abort(j) ==
  /\ job' = [job EXCEPT ![j] = Idle]
  /\ lock' = IF lock = j THEN None ELSE lock
  /\ UNCHANGED <<world, planet, bootstrapped, metadata, results, starts>>

(* A command fails, or the job is killed. *)
Fails(j) ==
  /\ ~At(j, "idle") /\ faults < MaxFaults
  /\ faults' = faults + 1
  /\ Abort(j)

(* A file that the step needs is missing, or the flock is taken. *)
FindsMissing(j) ==
  /\ \/ At(j, "move") /\ part = None
     \/ At(j, "download") /\ torrent = None
     \/ At(j, "install") /\ job[j].new \notin incoming
     \/ job[j].pc \in {"refresh", "describe", "flock", "start", "record", "extract"}
          /\ planet = None
     \/ At(j, "flock") /\ lock # None
  /\ Abort(j)
  /\ UNCHANGED faults

Bootstrap(j) ==
  \/ FetchTorrent(j) \/ NotInitialized(j) \/ RemovePlanet(j) \/ RemoveMetadata(j)
  \/ KeepPlanet(j) \/ ReplacePlanet(j) \/ RefreshMetadata(j) \/ MoveTorrent(j)
  \/ Download(j) \/ InstallPlanet(j) \/ WriteMetadata(j) \/ MarkInitialized(j)

Rebuild(j) ==
  \/ RunLocked(j) \/ UpdateStarts(j) \/ UpdateEnds(j)
  \/ RecordPlanet(j) \/ RecordSnapshot(j) \/ ExtractFiltered(j) \/ JobEnds(j)

Step(j) == JobStarts(j) \/ Bootstrap(j) \/ Rebuild(j) \/ FindsMissing(j)

Next == Tick \/ SnapshotAppears \/ \E j \in Job : Step(j) \/ Fails(j)

(* Jobs are started again and again, and their steps come to an end. *)
Fairness == \A j \in Job : WF_vars(Step(j))

Spec == Init /\ [][Next]_vars /\ Fairness

(***************************************************************************)
(* Properties                                                              *)
(***************************************************************************)

(* When the rebuild starts, planet-download.json is about the planet file   *)
(* that is there: its snapshot, its size and its time, whatever interrupted *)
(* earlier jobs left behind (the comparison and refresh of the bootstrap).  *)
MetadataTrue ==
  \A j \in Job : At(j, "flock") /\ ~overlapped =>
    metadata # None /\ planet # None /\ metadata = [source |-> planet.source, of |-> planet]

(* Once there has been an initialization there is a planet file, always: a  *)
(* download that fails, or a newer torrent, does not cost the file at hand. *)
PlanetKept == [][initialized /\ ~overlapped => planet' # None]_vars

(* An extract is never older than the one before, although a new snapshot   *)
(* is older than the planet file it replaces (run_until_current comes       *)
(* between the bootstrap and extract_filtered), unless jobs overlap.        *)
ExtractForward ==
  [][filtered # None /\ ~overlapped => filtered' # None /\ filtered' >= filtered]_vars

(* The same with jobs that overlap, from which run_locked is to protect.    *)
ExtractProtected == [][filtered # None => filtered' # None /\ filtered' >= filtered]_vars

(* A new snapshot is installed in the end, wherever the jobs fail: a torrent *)
(* file that is already in place does not hide that its payload is not.      *)
(* Unless jobs overlap.                                                      *)
NewPlanetUsed ==
  \A s \in Snapshot :
    latest = s ~> \/ planet # None /\ planet.source >= s
                 \/ overlapped
=============================================================================
