----------------------------- MODULE RebuildLane -----------------------------
(* The rebuild lane: rebuild_worker.py brings a database imported from a     *)
(* snapshot up to date with day, then hour, then minute files, one at a      *)
(* time; apply_osc_to_db.sh consumes them; the shell that starts both        *)
(* (rebuild-entrypoint.sh) watches for requests to reset the cursor of the   *)
(* database, which counts files of one cadence, and to stop for the cutover. *)
(*                                                                           *)
(* Time is counted in minutes.  File n of a cadence holds the changes after  *)
(* file n - 1 and up to Stamps[cadence][n], the time in its state.           *)
EXTENDS Integers, Sequences, FiniteSets

CONSTANTS
  None,
  Stamps,         \* for each cadence the time stamps of its files
  SnapshotTime,   \* what the imported planet file contains
  MaxFaults       \* bound: restarts of the container and timeouts

Cadence == {"day", "hour", "minute"}
Finer == [c \in {"day", "hour"} |-> IF c = "day" THEN "hour" ELSE "minute"]
Coarser(f) == IF f = "day" THEN {} ELSE IF f = "hour" THEN {"day"} ELSE {"day", "hour"}

ASSUME StampsAssumption ==
  /\ Stamps \in [Cadence -> Seq(Nat)]
  /\ \A c \in Cadence : \A i, j \in DOMAIN Stamps[c] :
       i <= j => Stamps[c][i] <= Stamps[c][j]

Checkpoint == [cadence : Cadence, sequence : Nat, time : Nat]

ASSUME LaneAssumption ==
  /\ SnapshotTime \in Nat
  /\ MaxFaults \in Nat
  /\ None \notin Int /\ None \notin Cadence /\ None \notin Checkpoint

VARIABLES
  published,    \* for each cadence the last file that exists upstream
  db,           \* the minutes whose changes the rebuilt database shows
  cursor,       \* db-rebuild/replicate_id
  staged,       \* official_replica_dir
  helper,       \* apply_osc_to_db.sh
  checkpoint,   \* state_file
  reset,        \* phase_reset_requested_file
  resetDone,    \* does phase_reset_complete_file exist?
  requested,    \* does cutover_requested_file exist?
  ready,        \* does cutover_ready_file exist?
  worker,       \* rebuild_worker.py
  watcher,      \* watch_cutover
  faults,       \* restarts and timeouts so far
  interrupted   \* history: was a change of cadence cut short?

vars == <<published, db, cursor, staged, helper, checkpoint, reset, resetDone,
          requested, ready, worker, watcher, faults, interrupted>>
files == <<reset, resetDone, requested, ready>>
trouble == <<faults, interrupted>>

Stamp(c, n) == IF n = 0 THEN 0 ELSE Stamps[c][n]
Latest(c) == Len(Stamps[c])
Empty == -1   \* a request that is created and not yet written

(* lo, hi, upper and since belong to the search for a boundary, next is the *)
(* checkpoint under way.                                                    *)
Worker == [pc : {"load", "loop", "latest", "search", "boundary", "check", "await",
                 "unlink", "request", "write", "reset", "save"},
           lo : Nat, hi : Nat, upper : Nat, next : Checkpoint \cup {None}]

Watcher == [pc : {"poll", "wipe", "start", "clear", "touch", "stopped", "ready",
                  "waiting", "dead"},
            to : Nat]

TypeOK ==
  /\ published \in [Cadence -> Nat]
  /\ \A c \in Cadence : published[c] <= Latest(c)
  /\ db \subseteq Nat
  /\ cursor \in Nat
  /\ staged \subseteq [sequence : Nat, cadence : Cadence \cup {None}]
  /\ helper \in {"idle", "applied", "stopped"}
  /\ checkpoint \in Checkpoint \cup {None}
  /\ reset \in Nat \cup {None, Empty}
  /\ resetDone \in BOOLEAN /\ requested \in BOOLEAN /\ ready \in BOOLEAN
  /\ worker \in Worker
  /\ watcher \in Watcher
  /\ faults \in 0 .. MaxFaults
  /\ interrupted \in BOOLEAN

Fresh == [pc |-> "load", lo |-> 1, hi |-> 1, upper |-> 0, next |-> None]

(* The last file of a cadence that the snapshot contains. *)
EndsAt(c, n, time) == /\ Stamp(c, n) <= time
                      /\ n < Latest(c) => time < Stamp(c, n + 1)

(* initial-import.sh seeds the cursor with the last day file of the snapshot *)
(* or with the one before it.                                                *)
Init ==
  /\ published \in [Cadence -> 0 .. Latest("minute")]
  /\ \A c \in Cadence :
       published[c] <= Latest(c) /\ EndsAt(c, published[c], SnapshotTime)
  /\ db = 1 .. SnapshotTime
  /\ cursor \in {published["day"] - 1, published["day"]} \cap Nat
  /\ staged = {}
  /\ helper = "idle"
  /\ checkpoint = None
  /\ reset = None
  /\ resetDone = FALSE /\ requested = FALSE /\ ready = FALSE
  /\ worker = Fresh
  /\ watcher = [pc |-> "poll", to |-> 0]
  /\ faults = 0
  /\ interrupted = FALSE

Go(pc) == worker' = [worker EXCEPT !.pc = pc]

(***************************************************************************)
(* Upstream: a file appears after the finer ones that it is made of        *)
(***************************************************************************)
FileAppears(c) ==
  /\ published[c] < Latest(c)
  /\ \A f \in Cadence : c \in Coarser(f) =>
       \/ published[f] = Latest(f)
       \/ Stamp(c, published[c] + 1) <= Stamp(f, published[f])
  /\ published' = [published EXCEPT ![c] = @ + 1]
  /\ UNCHANGED <<db, cursor, staged, helper, checkpoint, files, worker, watcher, trouble>>

(***************************************************************************)
(* apply_osc_to_db.sh: the file after the cursor, then the cursor          *)
(***************************************************************************)
(* What a file writes replaces what later files wrote before it. *)
Shows(c, n) == {m \in db : m <= Stamp(c, n)} \cup (Stamp(c, n - 1) + 1 .. Stamp(c, n))

HelperApplies ==
  /\ helper = "idle"
  /\ \E s \in staged :
       /\ s.sequence = cursor + 1
       /\ db' = IF s.cadence = None THEN db ELSE Shows(s.cadence, s.sequence)
  /\ helper' = "applied"
  /\ UNCHANGED <<published, cursor, staged, checkpoint, files, worker, watcher, trouble>>

HelperCommits ==
  /\ helper = "applied"
  /\ cursor' = cursor + 1
  /\ helper' = "idle"
  /\ UNCHANGED <<published, db, staged, checkpoint, files, worker, watcher, trouble>>

(***************************************************************************)
(* first_sequence_after                                                    *)
(***************************************************************************)
Target == IF checkpoint = None THEN "day" ELSE Finer[checkpoint.cadence]
Boundary == IF checkpoint = None THEN SnapshotTime ELSE checkpoint.time

SearchStarts ==
  /\ worker.pc = "latest"
  /\ worker' = [worker EXCEPT !.pc = "search", !.lo = 1, !.hi = published[Target] + 1,
                              !.upper = published[Target]]
  /\ UNCHANGED <<published, db, cursor, staged, helper, checkpoint, files, watcher, trouble>>

\* Mutant: a file that ends at the boundary counts as after it.
SearchHalvesStrictly ==
  /\ worker.pc = "search" /\ worker.lo < worker.hi
  /\ LET mid == (worker.lo + worker.hi) \div 2
     IN worker' = IF Stamp(Target, mid) < Boundary
                  THEN [worker EXCEPT !.lo = mid + 1]
                  ELSE [worker EXCEPT !.hi = mid]
  /\ UNCHANGED <<published, db, cursor, staged, helper, checkpoint, files, watcher, trouble>>

SearchHalves ==
  /\ worker.pc = "search" /\ worker.lo < worker.hi
  /\ LET mid == (worker.lo + worker.hi) \div 2
     IN worker' = IF Stamp(Target, mid) <= Boundary
                  THEN [worker EXCEPT !.lo = mid + 1]
                  ELSE [worker EXCEPT !.hi = mid]
  /\ UNCHANGED <<published, db, cursor, staged, helper, checkpoint, files, watcher, trouble>>

\* Mutant: the first file after the boundary counts as done.
SearchEndsAhead ==
  /\ worker.pc = "search" /\ worker.lo >= worker.hi
  /\ worker' = [worker EXCEPT
       !.pc = IF checkpoint = None THEN "boundary" ELSE "unlink",
       !.next = [cadence |-> Target, sequence |-> worker.lo, time |-> Boundary]]
  /\ UNCHANGED <<published, db, cursor, staged, helper, checkpoint, files, watcher, trouble>>

SearchEnds ==
  /\ worker.pc = "search" /\ worker.lo >= worker.hi
  /\ worker' = [worker EXCEPT
       !.pc = IF checkpoint = None THEN "boundary" ELSE "unlink",
       !.next = [cadence |-> Target, sequence |-> worker.lo - 1, time |-> Boundary]]
  /\ UNCHANGED <<published, db, cursor, staged, helper, checkpoint, files, watcher, trouble>>

(***************************************************************************)
(* run, advance_snapshot_boundary                                          *)
(***************************************************************************)
Load ==
  /\ worker.pc = "load"
  /\ Go(IF checkpoint = None THEN "latest" ELSE "loop")
  /\ UNCHANGED <<published, db, cursor, staged, helper, checkpoint, files, watcher, trouble>>

BoundaryReached ==
  /\ worker.pc = "boundary"
  /\ cursor >= worker.next.sequence
  /\ Go("save")
  /\ UNCHANGED <<published, db, cursor, staged, helper, checkpoint, files, watcher, trouble>>

BoundaryAhead ==
  /\ worker.pc = "boundary"
  /\ cursor = worker.next.sequence - 1
  /\ Go("check")
  /\ UNCHANGED <<published, db, cursor, staged, helper, checkpoint, files, watcher, trouble>>

Save ==
  /\ worker.pc = "save"
  /\ checkpoint' = worker.next
  /\ worker' = [Fresh EXCEPT !.pc = "loop"]
  /\ UNCHANGED <<published, db, cursor, staged, helper, files, watcher, trouble>>

(***************************************************************************)
(* catch_up_one_phase, apply_with_official_helper                          *)
(***************************************************************************)
CaughtUp == checkpoint.sequence >= published[checkpoint.cadence]

TakeFile ==
  /\ worker.pc = "loop" /\ ~CaughtUp
  /\ LET c == checkpoint.cadence
         n == checkpoint.sequence + 1
     IN worker' = [worker EXCEPT !.pc = "check",
                     !.next = [cadence |-> c, sequence |-> n, time |-> Stamp(c, n)]]
  /\ UNCHANGED <<published, db, cursor, staged, helper, checkpoint, files, watcher, trouble>>

Acknowledge ==
  /\ worker.pc \in {"check", "await"}
  /\ cursor >= worker.next.sequence
  /\ Go("save")
  /\ UNCHANGED <<published, db, cursor, staged, helper, checkpoint, files, watcher, trouble>>

(* At the snapshot boundary an empty change stands for the day file. *)
Publish ==
  /\ worker.pc = "check"
  /\ cursor = worker.next.sequence - 1
  /\ staged' = {s \in staged : s.sequence # worker.next.sequence} \cup
       {[sequence |-> worker.next.sequence,
         cadence |-> IF checkpoint = None THEN None ELSE worker.next.cadence]}
  /\ Go("await")
  /\ UNCHANGED <<published, db, cursor, helper, checkpoint, files, watcher, trouble>>

(* The cursor fits no file to come: every retry ends here. *)
Refused ==
  /\ worker.pc \in {"boundary", "check"}
  /\ cursor < worker.next.sequence - 1
  /\ worker' = [Fresh EXCEPT !.pc = IF checkpoint = None THEN "load" ELSE "loop"]
  /\ UNCHANGED <<published, db, cursor, staged, helper, checkpoint, files, watcher, trouble>>

(* A timeout is a fault unless what the worker waits for will not come. *)
Blames(stuck) == \/ stuck /\ UNCHANGED faults
                 \/ ~stuck /\ faults < MaxFaults /\ faults' = faults + 1

HelperStuck == \/ helper = "stopped"
               \/ helper = "idle" /\ \A s \in staged : s.sequence # cursor + 1

ApplyTimesOut ==
  /\ worker.pc = "await" /\ checkpoint # None
  /\ Blames(HelperStuck)
  /\ worker' = [Fresh EXCEPT !.pc = "loop"]
  /\ UNCHANGED <<published, db, cursor, staged, helper, checkpoint, files, watcher,
                 interrupted>>

(***************************************************************************)
(* transition                                                              *)
(***************************************************************************)
LeaveCadence ==
  /\ worker.pc = "loop" /\ CaughtUp /\ checkpoint.cadence # "minute"
  /\ Go("latest")
  /\ UNCHANGED <<published, db, cursor, staged, helper, checkpoint, files, watcher, trouble>>

\* Mutant: the completion of the previous change of cadence stays.
UnlinkNothing ==
  /\ worker.pc = "unlink"
  /\ Go("request")
  /\ UNCHANGED <<published, db, cursor, staged, helper, checkpoint, files, watcher, trouble>>

UnlinkDone ==
  /\ worker.pc = "unlink"
  /\ resetDone' = FALSE
  /\ Go("request")
  /\ UNCHANGED <<published, db, cursor, staged, helper, checkpoint, reset, requested,
                 ready, watcher, trouble>>

CreateRequest ==
  /\ worker.pc = "request"
  /\ reset' = Empty
  /\ Go("write")
  /\ UNCHANGED <<published, db, cursor, staged, helper, checkpoint, resetDone, requested,
                 ready, watcher, trouble>>

WriteRequest ==
  /\ worker.pc = "write"
  /\ reset' = worker.next.sequence
  /\ Go("reset")
  /\ UNCHANGED <<published, db, cursor, staged, helper, checkpoint, resetDone, requested,
                 ready, watcher, trouble>>

AwaitReset ==
  /\ worker.pc = "reset" /\ resetDone
  /\ Go("save")
  /\ UNCHANGED <<published, db, cursor, staged, helper, checkpoint, files, watcher, trouble>>

ResetTimesOut ==
  /\ worker.pc = "reset"
  /\ Blames(watcher.pc = "dead")
  /\ worker' = [Fresh EXCEPT !.pc = "loop"]
  /\ interrupted' = TRUE
  /\ UNCHANGED <<published, db, cursor, staged, helper, checkpoint, files, watcher>>

(***************************************************************************)
(* request_cutover                                                         *)
(***************************************************************************)
RequestCutover ==
  /\ worker.pc = "loop" /\ CaughtUp /\ checkpoint.cadence = "minute"
  /\ requested' = TRUE
  /\ UNCHANGED <<published, db, cursor, staged, helper, checkpoint, reset, resetDone,
                 ready, worker, watcher, trouble>>

(***************************************************************************)
(* watch_cutover                                                           *)
(***************************************************************************)
Watch(pc) == watcher' = [watcher EXCEPT !.pc = pc]

WatchReset ==
  /\ watcher.pc = "poll" /\ reset \in Nat
  /\ helper' = "stopped"
  /\ watcher' = [pc |-> "wipe", to |-> reset]
  /\ UNCHANGED <<published, db, cursor, staged, checkpoint, files, worker, trouble>>

(* A request that is not yet written is no number, and the watcher gives up. *)
WatchEmptyRequest ==
  /\ watcher.pc = "poll" /\ reset = Empty
  /\ Watch("dead")
  /\ interrupted' = TRUE
  /\ UNCHANGED <<published, db, cursor, staged, helper, checkpoint, files, worker, faults>>

WipeReplica ==
  /\ watcher.pc = "wipe"
  /\ staged' = {}
  /\ cursor' = watcher.to
  /\ Watch("start")
  /\ UNCHANGED <<published, db, helper, checkpoint, files, worker, trouble>>

StartHelper ==
  /\ watcher.pc = "start"
  /\ helper' = "idle"
  /\ Watch("clear")
  /\ UNCHANGED <<published, db, cursor, staged, checkpoint, files, worker, trouble>>

\* Mutant: the request stays.
ClearNothing ==
  /\ watcher.pc = "clear"
  /\ Watch("touch")
  /\ UNCHANGED <<published, db, cursor, staged, helper, checkpoint, files, worker, trouble>>

ClearReset ==
  /\ watcher.pc = "clear"
  /\ reset' = None
  /\ Watch("touch")
  /\ UNCHANGED <<published, db, cursor, staged, helper, checkpoint, resetDone, requested,
                 ready, worker, trouble>>

TouchDone ==
  /\ watcher.pc = "touch"
  /\ resetDone' = TRUE
  /\ Watch("poll")
  /\ UNCHANGED <<published, db, cursor, staged, helper, checkpoint, reset, requested,
                 ready, worker, trouble>>

WatchCutover ==
  /\ watcher.pc = "poll" /\ requested
  /\ helper' = "stopped"
  /\ Watch("stopped")
  /\ UNCHANGED <<published, db, cursor, staged, checkpoint, files, worker, trouble>>

ClearRequested ==
  /\ watcher.pc = "stopped"
  /\ requested' = FALSE
  /\ Watch("ready")
  /\ UNCHANGED <<published, db, cursor, staged, helper, checkpoint, reset, resetDone,
                 ready, worker, trouble>>

WriteReady ==
  /\ watcher.pc = "ready"
  /\ ready' = TRUE
  /\ Watch("waiting")
  /\ UNCHANGED <<published, db, cursor, staged, helper, checkpoint, reset, resetDone,
                 requested, worker, trouble>>

(***************************************************************************)
(* The container restarts, with all its processes                          *)
(***************************************************************************)
Resetting ==
  \/ worker.pc \in {"write", "reset"}
  \/ worker.pc = "save" /\ checkpoint # None /\ worker.next.cadence # checkpoint.cadence

Restart ==
  /\ faults < MaxFaults
  /\ faults' = faults + 1
  /\ interrupted' = (interrupted \/ Resetting)
  /\ worker' = Fresh
  /\ watcher' = [pc |-> "poll", to |-> 0]
  /\ helper' = "idle"
  /\ UNCHANGED <<published, db, cursor, staged, checkpoint, files>>

(***************************************************************************)
(* The system                                                              *)
(***************************************************************************)
WorkerStep ==
  \/ Load \/ SearchStarts \/ SearchHalves \/ SearchEnds
  \/ BoundaryReached \/ BoundaryAhead \/ Save
  \/ TakeFile \/ Acknowledge \/ Publish \/ Refused
  \/ LeaveCadence \/ UnlinkDone \/ CreateRequest \/ WriteRequest \/ AwaitReset
  \/ RequestCutover

WatcherStep ==
  \/ WatchReset \/ WatchEmptyRequest \/ WipeReplica \/ StartHelper \/ ClearReset
  \/ TouchDone \/ WatchCutover \/ ClearRequested \/ WriteReady

HelperStep == HelperApplies \/ HelperCommits

Next ==
  \/ WorkerStep \/ WatcherStep \/ HelperStep
  \/ \E c \in Cadence : FileAppears(c)
  \/ ApplyTimesOut \/ ResetTimesOut \/ Restart

(* The processes run and the container is restarted when it ends; nothing is *)
(* assumed about upstream.                                                   *)
Fairness == WF_vars(WorkerStep) /\ WF_vars(WatcherStep) /\ WF_vars(HelperStep)

Spec == Init /\ [][Next]_vars /\ Fairness

(***************************************************************************)
(* Properties                                                              *)
(***************************************************************************)

(* Across snapshot boundary and changes of cadence the database shows every *)
(* minute up to the time of the checkpoint: no file is skipped, none is     *)
(* applied over a later one (catch_up_one_phase, transition), unless a      *)
(* change of cadence was cut short.                                         *)
NothingSkipped == checkpoint # None /\ ~interrupted => 1 .. checkpoint.time \subseteq db

(* first_sequence_after: what the search has put behind it is not after the *)
(* boundary, what it has put before it is, also where time stamps repeat,   *)
(* equal the boundary, or all lie on one side of it.                        *)
SearchBracket ==
  worker.pc = "search" =>
    /\ 1 <= worker.lo /\ worker.lo <= worker.hi /\ worker.hi <= worker.upper + 1
    /\ \A n \in 1 .. worker.upper :
         /\ n < worker.lo => Stamp(Target, n) <= Boundary
         /\ n >= worker.hi => Boundary < Stamp(Target, n)

(* The cursor of the database counts the files of the worker's cadence: it  *)
(* stands at the file to be published or just before it, so that the worker *)
(* is never refused and never takes the number of another cadence for an    *)
(* acknowledgement (apply_with_official_helper, watch_cutover), unless a    *)
(* change of cadence was cut short.                                         *)
CursorInStep ==
  worker.pc \in {"check", "await"} /\ ~interrupted =>
    cursor \in {worker.next.sequence - 1, worker.next.sequence}

(* The database is handed over in the end: unless a change of cadence is    *)
(* cut short the lane, whatever restarts and timeouts happen, reaches the   *)
(* last minute file and the services stop for the cutover.                  *)
HandsOver == <>(ready \/ interrupted)
=============================================================================
