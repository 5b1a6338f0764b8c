----------------------- MODULE MaintenanceLockProofs -----------------------
(* Proofs about MaintenanceLock, for any number of processes and faults.     *)
EXTENDS MaintenanceLock, TLAPS

LEMMA TypeInit == Init => TypeOK
<1> SUFFICES ASSUME Init PROVE TypeOK
  OBVIOUS
<1>1. pc \in [Process -> {"idle", "open", "stat", "unlink"} \cup Holding]
  BY DEF Init
<1>2. faults \in 0 .. MaxFaults
  BY LockAssumption DEF Init
<1>3. dispatcher \in BOOLEAN /\ robbed \in BOOLEAN /\ numb \subseteq Process
      /\ lock \in Lock \cup {None}
  BY DEF Init
<1> QED
  BY <1>1, <1>2, <1>3 DEF TypeOK

LEMMA TypeStep == ASSUME TypeOK, [Next]_vars PROVE TypeOK'
<1> USE DEF TypeOK, Go, Holding, Lock
<1>1. ASSUME NEW p \in Process, Enter(p) PROVE TypeOK'
  BY <1>1 DEF Enter
<1>2. ASSUME NEW p \in Process, Create(p) PROVE TypeOK'
  BY <1>2 DEF Create
<1>3. ASSUME NEW p \in Process, FindsLock(p) PROVE TypeOK'
  BY <1>3 DEF FindsLock
<1>4. ASSUME NEW p \in Process, Waits(p) PROVE TypeOK'
  BY <1>4 DEF Waits
<1>5. ASSUME NEW p \in Process, FindsStale(p) PROVE TypeOK'
  BY <1>5 DEF FindsStale
<1>6. ASSUME NEW p \in Process, RemovesStale(p) PROVE TypeOK'
  BY <1>6 DEF RemovesStale
<1>7. ASSUME NEW p \in Process, DispatcherGone(p) PROVE TypeOK'
  BY <1>7 DEF DispatcherGone
<1>8. ASSUME NEW p \in Process, Leaves(p) PROVE TypeOK'
  BY <1>8 DEF Leaves
<1>9. ASSUME NEW p \in Process, Unlinks(p) PROVE TypeOK'
  BY <1>9 DEF Unlinks
<1>10. ASSUME NEW p \in Process, Beat(p) PROVE TypeOK'
  BY <1>10 DEF Beat
<1>11. ASSUME NEW p \in Process, Killed(p) PROVE TypeOK'
  BY <1>11, LockAssumption DEF Killed
<1>12. ASSUME NEW p \in Process, HeartbeatEnds(p) PROVE TypeOK'
  BY <1>12, LockAssumption DEF HeartbeatEnds
<1>13. CASE Ages
  BY <1>13 DEF Ages
<1>14. CASE DispatcherMoves
  BY <1>14 DEF DispatcherMoves
<1>15. CASE UNCHANGED vars
  BY <1>15 DEF vars
<1> QED
  BY <1>1, <1>2, <1>3, <1>4, <1>5, <1>6, <1>7, <1>8, <1>9, <1>10, <1>11, <1>12, <1>13,
     <1>14, <1>15 DEF Next, Step

(* Every reachable state is well typed, for any number of processes and     *)
(* faults.                                                                   *)
THEOREM LockTypeCorrect == Spec => []TypeOK
  BY TypeInit, TypeStep, PTL DEF Spec

(***************************************************************************)
(* Mutual exclusion                                                        *)
(***************************************************************************)
(* Until a lock is removed from under its holder, a holder's lock exists    *)
(* and is its own; before the first fault every lock has a holder, is young,*)
(* and nobody is about to remove it.                                         *)
HoldersOwn == ~robbed => \A p \in Holders : lock # None /\ lock.by = p

Undisturbed ==
  faults = 0 =>
    /\ ~robbed
    /\ numb = {}
    /\ lock # None => lock.by \in Holders /\ ~lock.stale
    /\ \A p \in Process : pc[p] # "unlink"

LockInv == TypeOK /\ HoldersOwn /\ Undisturbed

LEMMA LockInvInit == Init => LockInv
<1> SUFFICES ASSUME Init PROVE LockInv
  OBVIOUS
<1>1. TypeOK
  BY TypeInit
<1>2. Holders = {}
  BY DEF Init, Holders, Holding
<1> QED
  BY <1>1, <1>2 DEF Init, LockInv, HoldersOwn, Undisturbed

LEMMA LockInvExclusive == ASSUME LockInv PROVE MutualExclusion
  BY DEF LockInv, HoldersOwn, Undisturbed, MutualExclusion, Exclusive, TypeOK

(* A step that leaves lock, holders and history alone. *)
LEMMA Harmless ==
  ASSUME LockInv, TypeOK', UNCHANGED <<lock, faults, robbed, numb>>, Holders' = Holders,
         faults = 0 => \A p \in Process : pc'[p] # "unlink"
  PROVE  LockInv'
  BY DEF LockInv, HoldersOwn, Undisturbed

LEMMA FreshLock ==
  ASSUME NEW p \in Process, NEW x, x = [by |-> p, stale |-> FALSE]
  PROVE  x # None /\ x.by = p /\ ~x.stale
<1>1. x \in Lock
  BY DEF Lock
<1> QED
  BY <1>1, LockAssumption

LEMMA LockInvStep == ASSUME LockInv, [Next]_vars PROVE LockInv'
<1>0. TypeOK /\ TypeOK'
  BY TypeStep DEF LockInv
<1> USE DEF Go, Holding
<1>1. ASSUME NEW p \in Process, Enter(p) PROVE LockInv'
  <2>1. Holders' = Holders
    BY <1>0, <1>1 DEF Enter, Holders, TypeOK
  <2> QED
    BY <1>0, <1>1, <2>1, Harmless DEF Enter, TypeOK, LockInv, Undisturbed
<1>2. ASSUME NEW p \in Process, Create(p) PROVE LockInv'
  <2>1. Holders' = Holders \cup {p}
    BY <1>0, <1>2 DEF Create, Holders, TypeOK
  <2>2. ~robbed => Holders = {}
    BY <1>2, LockAssumption DEF LockInv, HoldersOwn, Create
  <2>3. lock' # None /\ lock'.by = p /\ ~lock'.stale
    BY <1>2, FreshLock DEF Create
  <2>4. HoldersOwn'
    BY <2>1, <2>2, <2>3, <1>2 DEF HoldersOwn, Create
  <2>5. Undisturbed'
    BY <1>0, <1>2, <2>1, <2>3 DEF Create, LockInv, Undisturbed, TypeOK
  <2> QED
    BY <1>0, <2>4, <2>5 DEF LockInv
<1>3. ASSUME NEW p \in Process, FindsLock(p) PROVE LockInv'
  <2>1. Holders' = Holders
    BY <1>0, <1>3 DEF FindsLock, Holders, TypeOK
  <2> QED
    BY <1>0, <1>3, <2>1, Harmless DEF FindsLock, TypeOK, LockInv, Undisturbed
<1>4. ASSUME NEW p \in Process, Waits(p) PROVE LockInv'
  <2>1. Holders' = Holders
    BY <1>0, <1>4 DEF Waits, Holders, TypeOK
  <2> QED
    BY <1>0, <1>4, <2>1, Harmless DEF Waits, TypeOK, LockInv, Undisturbed
<1>5. ASSUME NEW p \in Process, FindsStale(p) PROVE LockInv'
  <2>1. Holders' = Holders
    BY <1>0, <1>5 DEF FindsStale, Holders, TypeOK
  <2>2. faults # 0
    BY <1>5 DEF FindsStale, LockInv, Undisturbed
  <2> QED
    BY <1>0, <1>5, <2>1, <2>2, Harmless DEF FindsStale
<1>6. ASSUME NEW p \in Process, RemovesStale(p) PROVE LockInv'
  <2>1. Holders' = Holders
    BY <1>0, <1>6 DEF RemovesStale, Holders, TypeOK
  <2>2. faults # 0
    BY <1>6 DEF RemovesStale, LockInv, Undisturbed
  <2> QED
    BY <1>0, <1>6, <2>1, <2>2 DEF RemovesStale, LockInv, HoldersOwn, Undisturbed
<1>7. ASSUME NEW p \in Process, DispatcherGone(p) PROVE LockInv'
  <2>1. Holders' = Holders
    BY <1>0, <1>7 DEF DispatcherGone, Holders, TypeOK
  <2> QED
    BY <1>0, <1>7, <2>1, Harmless DEF DispatcherGone, TypeOK, LockInv, Undisturbed
<1>8. ASSUME NEW p \in Process, Leaves(p) PROVE LockInv'
  <2>1. Holders' = Holders
    BY <1>0, <1>8 DEF Leaves, Holders, TypeOK
  <2> QED
    BY <1>0, <1>8, <2>1, Harmless DEF Leaves, TypeOK, LockInv, Undisturbed
<1>9. ASSUME NEW p \in Process, Unlinks(p) PROVE LockInv'
  <2>1. p \in Holders /\ Holders' = Holders \ {p}
    BY <1>0, <1>9 DEF Unlinks, Holders, TypeOK
  <2>2. ~robbed' => ~robbed /\ Holders' = {}
    BY <1>9, <2>1 DEF Unlinks
  <2>3. ~robbed => Holders = {p}
    BY <2>1 DEF LockInv, HoldersOwn
  <2>4. HoldersOwn'
    BY <2>2 DEF HoldersOwn
  <2>5. Undisturbed'
    BY <1>0, <1>9, <2>3 DEF Unlinks, LockInv, Undisturbed, TypeOK
  <2> QED
    BY <1>0, <2>4, <2>5 DEF LockInv
<1>10. ASSUME NEW p \in Process, Beat(p) PROVE LockInv'
  <2>1. Holders' = Holders /\ p \in Holders
    BY <1>0, <1>10 DEF Beat, Holders, TypeOK
  <2>2. lock' # None /\ ~lock'.stale /\ lock'.by = IF lock = None THEN p ELSE lock.by
    <3>1. (IF lock = None THEN p ELSE lock.by) \in Process
      BY <1>0 DEF TypeOK, Lock
    <3> QED
      BY <1>10, <3>1, FreshLock DEF Beat
  <2>3. ~robbed => lock # None
    BY <2>1 DEF LockInv, HoldersOwn
  <2>4. HoldersOwn'
    BY <1>10, <2>1, <2>2, <2>3 DEF Beat, LockInv, HoldersOwn
  <2>5. Undisturbed'
    BY <1>10, <2>1, <2>2 DEF Beat, LockInv, Undisturbed
  <2> QED
    BY <1>0, <2>4, <2>5 DEF LockInv
<1>11. ASSUME NEW p \in Process, Killed(p) PROVE LockInv'
  <2>1. Holders' \subseteq Holders
    BY <1>0, <1>11 DEF Killed, Holders, TypeOK
  <2>2. faults' # 0
    BY <1>0, <1>11 DEF Killed, TypeOK
  <2> QED
    BY <1>0, <1>11, <2>1, <2>2 DEF Killed, LockInv, HoldersOwn, Undisturbed
<1>12. ASSUME NEW p \in Process, HeartbeatEnds(p) PROVE LockInv'
  <2>1. Holders' = Holders
    BY <1>12 DEF HeartbeatEnds, Holders
  <2>2. faults' # 0
    BY <1>0, <1>12 DEF HeartbeatEnds, TypeOK
  <2> QED
    BY <1>0, <1>12, <2>1, <2>2 DEF HeartbeatEnds, LockInv, HoldersOwn, Undisturbed
<1>13. CASE Ages
  <2>1. Holders' = Holders /\ lock # None /\ lock' # None /\ lock'.by = lock.by
    BY <1>0, <1>13, LockAssumption DEF Ages, Holders, TypeOK, Lock
  <2>2. faults # 0
    BY <1>13 DEF Ages, LockInv, Undisturbed
  <2> QED
    BY <1>0, <1>13, <2>1, <2>2 DEF Ages, LockInv, HoldersOwn, Undisturbed
<1>14. CASE DispatcherMoves
  <2>1. Holders' = Holders
    BY <1>14 DEF DispatcherMoves, Holders
  <2> QED
    BY <1>0, <1>14, <2>1, Harmless DEF DispatcherMoves, LockInv, Undisturbed
<1>15. CASE UNCHANGED vars
  <2>1. Holders' = Holders
    BY <1>15 DEF vars, Holders
  <2> QED
    BY <1>0, <1>15, <2>1, Harmless DEF vars, LockInv, Undisturbed
<1> QED
  BY <1>1, <1>2, <1>3, <1>4, <1>5, <1>6, <1>7, <1>8, <1>9, <1>10, <1>11, <1>12, <1>13,
     <1>14, <1>15 DEF Next, Step

(* For any number of processes at most one has the lock, until the removal  *)
(* of a stale lock hits one that is held; and that takes a process that was *)
(* killed or a heartbeat that ended.                                         *)
THEOREM LockExclusive == Spec => []MutualExclusion
<1>1. LockInv /\ [Next]_vars => LockInv'
  BY LockInvStep
<1> QED
  BY LockInvInit, <1>1, LockInvExclusive, PTL DEF Spec
=============================================================================
