-------------------------- MODULE MaintenanceLock --------------------------
(* DispatcherMaintenance (replicator.py): a lock file that is created        *)
(* exclusively, touched by a heartbeat while it is held, and removed by      *)
(* whoever finds that it has not been touched for stale_seconds.  The file   *)
(* names the process that created it, but nobody looks.                      *)
EXTENDS Integers

CONSTANTS
  None,
  Process,     \* the processes that may want to write the database
  MaxFaults    \* bound: kills and heartbeats that end

Lock == [by : Process, stale : BOOLEAN]

ASSUME LockAssumption == None \notin Lock /\ MaxFaults \in Nat

VARIABLES
  lock,         \* the lock file: who created it, and is it old?
  dispatcher,   \* does the dispatcher's marker file exist?
  pc,           \* the next step of each process
  numb,         \* the holders whose heartbeat thread has ended
  faults,       \* kills and ended heartbeats so far
  robbed        \* history: was a lock removed that somebody held?

vars == <<lock, dispatcher, pc, numb, faults, robbed>>

Holding == {"marker", "inside", "leave"}

TypeOK ==
  /\ lock \in Lock \cup {None}
  /\ dispatcher \in BOOLEAN
  /\ pc \in [Process -> {"idle", "open", "stat", "unlink"} \cup Holding]
  /\ numb \subseteq Process
  /\ faults \in 0 .. MaxFaults
  /\ robbed \in BOOLEAN

Init ==
  /\ lock = None
  /\ dispatcher \in BOOLEAN
  /\ pc = [p \in Process |-> "idle"]
  /\ numb = {}
  /\ faults = 0
  /\ robbed = FALSE

Go(p, next) == pc' = [pc EXCEPT ![p] = next]
Holders == {p \in Process : pc[p] \in Holding}

(***************************************************************************)
(* _write_lock                                                             *)
(***************************************************************************)
Enter(p) ==
  /\ pc[p] = "idle"
  /\ Go(p, "open")
  /\ UNCHANGED <<lock, dispatcher, numb, faults, robbed>>

\* Mutant: the file is created whether it exists or not.
CreateAnyway(p) ==
  /\ pc[p] = "open"
  /\ lock' = [by |-> p, stale |-> FALSE]
  /\ Go(p, "marker")
  /\ UNCHANGED <<dispatcher, numb, faults, robbed>>

Create(p) ==
  /\ pc[p] = "open" /\ lock = None
  /\ lock' = [by |-> p, stale |-> FALSE]
  /\ Go(p, "marker")
  /\ UNCHANGED <<dispatcher, numb, faults, robbed>>

FindsLock(p) ==
  /\ pc[p] = "open" /\ lock # None
  /\ Go(p, "stat")
  /\ UNCHANGED <<lock, dispatcher, numb, faults, robbed>>

(* The lock is gone or young: another try, or the time is over. *)
Waits(p) ==
  /\ pc[p] = "stat"
  /\ lock # None => ~lock.stale
  /\ \/ Go(p, "open")
     \/ lock # None /\ Go(p, "idle")
  /\ UNCHANGED <<lock, dispatcher, numb, faults, robbed>>

\* Mutant: a stale lock is waited for as well.
FindsStaleWaits(p) ==
  /\ pc[p] = "stat" /\ lock # None /\ lock.stale
  /\ Go(p, "open")
  /\ UNCHANGED <<lock, dispatcher, numb, faults, robbed>>

FindsStale(p) ==
  /\ pc[p] = "stat" /\ lock # None /\ lock.stale
  /\ Go(p, "unlink")
  /\ UNCHANGED <<lock, dispatcher, numb, faults, robbed>>

(* What is removed need not be what was found stale. *)
RemovesStale(p) ==
  /\ pc[p] = "unlink"
  /\ lock' = None
  /\ robbed' = (robbed \/ Holders # {})
  /\ Go(p, "open")
  /\ UNCHANGED <<dispatcher, numb, faults>>

(***************************************************************************)
(* _heartbeat, __enter__, __exit__                                         *)
(***************************************************************************)
(* A touch creates a file that is not there. *)
Beat(p) ==
  /\ pc[p] \in {"marker", "inside"} /\ p \notin numb
  /\ lock' = [by |-> IF lock = None THEN p ELSE lock.by, stale |-> FALSE]
  /\ UNCHANGED <<dispatcher, pc, numb, faults, robbed>>

(* Nobody has touched the lock for longer than stale_seconds; a heartbeat   *)
(* that runs, and its end, are never that late.                             *)
Ages ==
  /\ lock # None /\ ~lock.stale /\ Holders \subseteq numb
  /\ lock' = [lock EXCEPT !.stale = TRUE]
  /\ UNCHANGED <<dispatcher, pc, numb, faults, robbed>>

DispatcherGone(p) ==
  /\ pc[p] = "marker" /\ ~dispatcher
  /\ Go(p, "inside")
  /\ UNCHANGED <<lock, dispatcher, numb, faults, robbed>>

(* The body ends, or the dispatcher did not stop in time; the heartbeat is  *)
(* joined before the file is removed.                                       *)
Leaves(p) ==
  /\ \/ pc[p] = "inside"
     \/ pc[p] = "marker" /\ dispatcher
  /\ Go(p, "leave")
  /\ UNCHANGED <<lock, dispatcher, numb, faults, robbed>>

Unlinks(p) ==
  /\ pc[p] = "leave"
  /\ lock' = None
  /\ robbed' = (robbed \/ Holders # {p})
  /\ numb' = numb \ {p}
  /\ Go(p, "idle")
  /\ UNCHANGED <<dispatcher, faults>>

(***************************************************************************)
(* The dispatcher (external), and faults                                   *)
(***************************************************************************)
DispatcherMoves ==
  /\ dispatcher' = ~dispatcher
  /\ UNCHANGED <<lock, pc, numb, faults, robbed>>

Killed(p) ==
  /\ faults < MaxFaults /\ pc[p] # "idle"
  /\ faults' = faults + 1
  /\ numb' = numb \ {p}
  /\ Go(p, "idle")
  /\ UNCHANGED <<lock, dispatcher, robbed>>

(* An error of the file system ends the heartbeat, not its process. *)
HeartbeatEnds(p) ==
  /\ faults < MaxFaults /\ pc[p] \in {"marker", "inside"} /\ p \notin numb
  /\ faults' = faults + 1
  /\ numb' = numb \cup {p}
  /\ UNCHANGED <<lock, dispatcher, pc, robbed>>

Step(p) ==
  \/ Enter(p) \/ Create(p) \/ FindsLock(p) \/ Waits(p) \/ FindsStale(p)
  \/ RemovesStale(p) \/ DispatcherGone(p) \/ Leaves(p) \/ Unlinks(p)

Next ==
  \/ \E p \in Process : Step(p) \/ Beat(p) \/ Killed(p) \/ HeartbeatEnds(p)
  \/ Ages \/ DispatcherMoves

(* Processes try again and again, bodies end, and time passes.  A process    *)
(* that finds the file gone keeps trying.                                    *)
Fairness == (\A p \in Process : WF_vars(Step(p))) /\ WF_vars(Ages)

Spec == Init /\ [][Next]_vars /\ Fairness

(***************************************************************************)
(* Properties                                                              *)
(***************************************************************************)
Exclusive == \A p, q \in Holders : p = q

(* At most one process has the maintenance lock: for ever if no process is   *)
(* killed and no heartbeat ends, and then still, until the removal of a      *)
(* stale lock hits one that is held (_write_lock, __exit__).                 *)
MutualExclusion ==
  /\ ~robbed => Exclusive
  /\ robbed => faults > 0

(* The lock that a killed process leaves behind does not stay: somebody      *)
(* finds it stale.                                                           *)
Orphaned(p) == lock # None /\ lock.by = p /\ p \notin Holders
OrphansRemoved == \A p \in Process : Orphaned(p) ~> ~Orphaned(p)
=============================================================================
